--------------------------- MODULE Tracker_proofs ---------------------------
(***************************************************************************)
(* Proofs about Tracker, for every set of scanners, sizes and percentages. *)
(***************************************************************************)
EXTENDS Tracker, TLAPS

LEMMA MaxOfTwo ==
  ASSUME NEW a \in Nat, NEW b \in Nat
  PROVE  Max({a, b}) \in Nat /\ Max({a, b}) \in {a, b} /\ Max({a, b}) >= a /\ Max({a, b}) >= b
<1>1. \E x \in {a, b} : \A y \in {a, b} : x >= y
  BY SMT
<1>2. Max({a, b}) \in {a, b} /\ \A y \in {a, b} : Max({a, b}) >= y
  BY <1>1, Zenon DEF Max
<1> QED
  BY <1>2

LEMMA MaxOfThree ==
  ASSUME NEW a \in Nat, NEW b \in Nat, NEW c \in Nat
  PROVE  Max({a, b, c}) \in Nat /\ Max({a, b, c}) >= a
<1>1. \E x \in {a, b, c} : \A y \in {a, b, c} : x >= y
  BY SMT
<1>2. Max({a, b, c}) \in {a, b, c} /\ \A y \in {a, b, c} : Max({a, b, c}) >= y
  BY <1>1, Zenon DEF Max
<1> QED
  BY <1>2

LEMMA ShareIsACount ==
  ASSUME NEW p \in Percents, NEW t \in Sizes
  PROVE  Share(p, t) \in Nat
<1>1. p \in Int /\ t \in Nat
  BY PercentsAssumption, SizesAssumption
<1>2. CASE p >= 0 /\ t > 0
  <2>1. t * p \in Nat
    BY <1>1, <1>2
  <2>2. (t * p) \div 100 \in Nat
    BY <2>1
  <2> QED
    BY <1>2, <2>2 DEF Share
<1>3. CASE ~(p >= 0 /\ t > 0)
  BY <1>3, Zenon DEF Share
<1> QED
  BY <1>2, <1>3

(* What a step does to the bytes. *)
LEMMA ObserveBytes ==
  ASSUME TypeOK, NEW s \in Scanners, Observe(s)
  PROVE  total' \in Sizes /\ bytes' \in Nat /\ bytes' >= bytes
<1>1. PICK p \in Lines : /\ total' = IF p.Total > 0 THEN p.Total ELSE total
                         /\ bytes' = Max({bytes, Share(p.Percent, total'), p.Bytes})
  BY DEF Observe
<1>2. p.Total \in Sizes /\ p.Bytes \in Nat /\ p.Percent \in Percents
  BY SizesAssumption DEF Lines
<1>3. total' \in Sizes /\ bytes \in Nat
  BY <1>1, <1>2 DEF TypeOK
<1>4. Share(p.Percent, total') \in Nat
  BY <1>2, <1>3, ShareIsACount
<1> QED
  BY <1>1, <1>2, <1>3, <1>4, MaxOfThree

LEMMA ObserveSizeBytes ==
  ASSUME TypeOK, ObserveSize
  PROVE  bytes' \in Nat /\ bytes' >= bytes /\ (dirty' \/ (bytes' = bytes /\ dirty' = dirty))
<1>1. PICK n \in Sizes : bytes' = Max({bytes, n}) /\ dirty' = (dirty \/ n > bytes)
  BY DEF ObserveSize
<1>2. n \in Nat /\ bytes \in Nat
  BY SizesAssumption DEF TypeOK
<1>3. bytes' \in Nat /\ bytes' \in {bytes, n} /\ bytes' >= bytes
  BY <1>1, <1>2, MaxOfTwo
<1>4. CASE n > bytes
  BY <1>1, <1>3, <1>4
<1>5. CASE ~(n > bytes)
  <2>1. bytes' = bytes
    BY <1>2, <1>3, <1>5
  <2>2. dirty' = dirty
    BY <1>1, <1>5, Zenon DEF TypeOK
  <2> QED
    BY <1>3, <2>1, <2>2
<1> QED
  BY <1>4, <1>5

LEMMA CompleteBytes ==
  ASSUME TypeOK, Complete
  PROVE  bytes' \in Nat /\ bytes' >= bytes
<1>1. bytes \in Nat /\ total \in Nat
  BY SizesAssumption DEF TypeOK
<1> QED
  BY <1>1, MaxOfTwo DEF Complete

-----------------------------------------------------------------------------
(* Type correctness. *)

Stages == {"idle", "size", "maybe", "write"}

LEMMA InitTypeOK == Init => TypeOK
<1> SUFFICES ASSUME Init PROVE TypeOK
  OBVIOUS
<1>1. total \in Sizes /\ {bytes, row, handed} \subseteq Nat
  BY SizesAssumption DEF Init
<1>2. at \in [Goroutines -> Stages] /\ taken \in [Goroutines -> Nat]
  BY DEF Init, Stages
<1>3. phase = "transfer" /\ {dirty, recent, quiet, overtaken, lost} \subseteq BOOLEAN
  BY DEF Init
<1> QED
  BY <1>1, <1>2, <1>3 DEF TypeOK, Stages

LEMMA NextTypeOK == TypeOK /\ [Next]_vars => TypeOK'
<1> SUFFICES ASSUME TypeOK, [Next]_vars PROVE TypeOK'
  OBVIOUS
<1>1. ASSUME NEW s \in Scanners, Observe(s) PROVE TypeOK'
  <2>1. total' \in Sizes /\ bytes' \in Nat
    BY <1>1, ObserveBytes
  <2> QED
    BY <1>1, <2>1 DEF TypeOK, Observe
<1>2. CASE PollStale
  BY <1>2 DEF TypeOK, PollStale
<1>3. CASE PollFails
  BY <1>3 DEF TypeOK, PollFails
<1>4. CASE ObserveSize
  <2>1. bytes' \in Nat /\ dirty' \in BOOLEAN
    BY <1>4, ObserveSizeBytes DEF TypeOK
  <2> QED
    BY <1>4, <2>1 DEF TypeOK, ObserveSize
<1>5. CASE TransferEnds
  BY <1>5 DEF TypeOK, TransferEnds
<1>6. CASE Complete
  <2>1. bytes' \in Nat
    BY <1>6, CompleteBytes
  <2> QED
    BY <1>6, <2>1 DEF TypeOK, Complete
<1>7. ASSUME NEW g \in Goroutines, MaybeFlush(g) PROVE TypeOK'
  BY <1>7 DEF TypeOK, MaybeFlush
<1>8. ASSUME NEW g \in Goroutines, WriteRow(g) PROVE TypeOK'
  BY <1>8 DEF TypeOK, WriteRow
<1>9. ASSUME NEW g \in Goroutines, WriteFails(g) PROVE TypeOK'
  BY <1>9 DEF TypeOK, WriteFails
<1>10. CASE SecondPasses
  BY <1>10 DEF TypeOK, SecondPasses
<1>11. CASE FallsSilent
  BY <1>11 DEF TypeOK, FallsSilent
<1>12. CASE UNCHANGED vars
  BY <1>12 DEF TypeOK, vars
<1> QED
  BY <1>1, <1>2, <1>3, <1>4, <1>5, <1>6, <1>7, <1>8, <1>9, <1>10, <1>11, <1>12 DEF Next

(* The variables keep their types, whatever sizes and percentages occur. *)
THEOREM TypeCorrect == Spec => []TypeOK
  BY InitTypeOK, NextTypeOK, PTL DEF Spec

-----------------------------------------------------------------------------
(* What the mark for a flush and the newest flush say of the bytes: a flush    *)
(* hands out all bytes there are, and the mark is set whenever more come; and  *)
(* the row is the newest flush unless that one is still to be written, could   *)
(* not be written, or was overtaken.                                           *)
NewestIsWritten ==
    \/ row = handed \/ overtaken \/ lost
    \/ \E g \in Goroutines : at[g] = "write" /\ taken[g] = handed

FlushInv ==
    /\ handed <= bytes
    /\ bytes > 0 /\ ~dirty => handed = bytes
    /\ handed > 0 => NewestIsWritten

LEMMA InitFlushInv == Init => FlushInv
  BY DEF Init, FlushInv, NewestIsWritten

(* A step that moves a goroutine from one stage to another, none of them       *)
(* "write", and leaves row, handed and what is taken alone, keeps the third    *)
(* part.                                                                       *)
LEMMA RowStays ==
  ASSUME TypeOK, FlushInv, NEW g \in Goroutines, at[g] # "write",
         NEW to \in Stages, at' = [at EXCEPT ![g] = to],
         UNCHANGED <<taken, row, handed, overtaken, lost>>
  PROVE  handed' > 0 => NewestIsWritten'
<1> SUFFICES ASSUME handed > 0 PROVE NewestIsWritten'
  OBVIOUS
<1>1. CASE row = handed \/ overtaken \/ lost
  BY <1>1 DEF NewestIsWritten
<1>2. ASSUME NEW h \in Goroutines, at[h] = "write", taken[h] = handed PROVE NewestIsWritten'
  <2>1. at'[h] = "write" /\ taken'[h] = handed'
    BY <1>2 DEF TypeOK
  <2> QED
    BY <2>1 DEF NewestIsWritten
<1> QED
  BY <1>1, <1>2 DEF FlushInv, NewestIsWritten

LEMMA NextFlushInv == TypeOK /\ FlushInv /\ [Next]_vars => FlushInv'
<1> SUFFICES ASSUME TypeOK, FlushInv, [Next]_vars PROVE FlushInv'
  OBVIOUS
<1> USE DEF Stages
<1>1. ASSUME NEW s \in Scanners, Observe(s) PROVE FlushInv'
  <2>1. s \in Goroutines /\ at[s] # "write" /\ at' = [at EXCEPT ![s] = "maybe"]
        /\ UNCHANGED <<taken, row, handed, overtaken, lost>>
    BY <1>1 DEF Observe, Goroutines
  <2>2. bytes' \in Nat /\ bytes' >= bytes /\ dirty'
    BY <1>1, ObserveBytes DEF Observe
  <2>3. handed' > 0 => NewestIsWritten'
    BY <2>1, RowStays
  <2> QED
    BY <2>1, <2>2, <2>3 DEF FlushInv, TypeOK
<1>2. CASE PollStale
  <2>1. Poller \in Goroutines /\ at[Poller] # "write" /\ at' = [at EXCEPT ![Poller] = "size"]
        /\ UNCHANGED <<bytes, dirty, taken, row, handed, overtaken, lost>>
    BY <1>2 DEF PollStale, Goroutines
  <2>2. handed' > 0 => NewestIsWritten'
    BY <2>1, RowStays
  <2> QED
    BY <2>1, <2>2 DEF FlushInv
<1>3. CASE PollFails
  <2>1. Poller \in Goroutines /\ at[Poller] # "write" /\ at' = [at EXCEPT ![Poller] = "idle"]
        /\ UNCHANGED <<bytes, dirty, taken, row, handed, overtaken, lost>>
    BY <1>3 DEF PollFails, Goroutines
  <2>2. handed' > 0 => NewestIsWritten'
    BY <2>1, RowStays
  <2> QED
    BY <2>1, <2>2 DEF FlushInv
<1>4. CASE ObserveSize
  <2>1. Poller \in Goroutines /\ at[Poller] # "write" /\ at' = [at EXCEPT ![Poller] = "maybe"]
        /\ UNCHANGED <<taken, row, handed, overtaken, lost>>
    BY <1>4 DEF ObserveSize, Goroutines
  <2>2. handed' > 0 => NewestIsWritten'
    BY <2>1, RowStays
  <2>3. bytes' \in Nat /\ bytes' >= bytes /\ (dirty' \/ (bytes' = bytes /\ dirty' = dirty))
    BY <1>4, ObserveSizeBytes
  <2> QED
    BY <2>1, <2>2, <2>3 DEF FlushInv, TypeOK
<1>5. CASE TransferEnds
  BY <1>5 DEF FlushInv, NewestIsWritten, TransferEnds
<1>6. CASE Complete
  <2>1. Worker \in Goroutines /\ at[Worker] # "write" /\ at' = [at EXCEPT ![Worker] = "maybe"]
        /\ UNCHANGED <<taken, row, handed, overtaken, lost>>
    BY <1>6 DEF Complete, Goroutines
  <2>2. bytes' \in Nat /\ bytes' >= bytes /\ dirty'
    BY <1>6, CompleteBytes DEF Complete
  <2>3. handed' > 0 => NewestIsWritten'
    BY <2>1, RowStays
  <2> QED
    BY <2>1, <2>2, <2>3 DEF FlushInv, TypeOK
<1>7. ASSUME NEW g \in Goroutines, MaybeFlush(g) PROVE FlushInv'
  <2>1. CASE ~dirty \/ (recent /\ g # Worker)
    <3>1. at[g] # "write" /\ at' = [at EXCEPT ![g] = "idle"]
          /\ UNCHANGED <<bytes, dirty, taken, row, handed, overtaken, lost>>
      BY <1>7, <2>1 DEF MaybeFlush
    <3>2. handed' > 0 => NewestIsWritten'
      BY <3>1, RowStays
    <3> QED
      BY <3>1, <3>2 DEF FlushInv
  <2>2. CASE ~(~dirty \/ (recent /\ g # Worker))
    <3>1. at' = [at EXCEPT ![g] = "write"] /\ taken' = [taken EXCEPT ![g] = bytes]
          /\ handed' = bytes /\ bytes' = bytes
      BY <1>7, <2>2 DEF MaybeFlush
    <3>2. at'[g] = "write" /\ taken'[g] = handed'
      BY <3>1 DEF TypeOK
    <3>3. NewestIsWritten'
      BY <3>2 DEF NewestIsWritten
    <3> QED
      BY <3>1, <3>3 DEF FlushInv, TypeOK
  <2> QED
    BY <2>1, <2>2
<1>8. ASSUME NEW g \in Goroutines, WriteRow(g) PROVE FlushInv'
  <2>1. /\ at[g] = "write" /\ at' = [at EXCEPT ![g] = "idle"]
        /\ row' = taken[g] /\ overtaken' = (taken[g] # handed)
        /\ UNCHANGED <<bytes, dirty, handed>>
    BY <1>8 DEF WriteRow
  <2>2. NewestIsWritten'
    BY <2>1 DEF NewestIsWritten
  <2> QED
    BY <2>1, <2>2 DEF FlushInv
<1>9. ASSUME NEW g \in Goroutines, WriteFails(g) PROVE FlushInv'
  <2>1. /\ at' = [at EXCEPT ![g] = "idle"] /\ taken' = [taken EXCEPT ![g] = 0]
        /\ lost' = (lost \/ taken[g] = handed)
        /\ UNCHANGED <<bytes, dirty, row, handed, overtaken>>
    BY <1>9 DEF WriteFails
  <2>2. ASSUME handed > 0 PROVE NewestIsWritten'
    <3>1. CASE row = handed \/ overtaken \/ lost \/ taken[g] = handed
      BY <2>1, <3>1 DEF NewestIsWritten
    <3>2. ASSUME NEW h \in Goroutines, h # g, at[h] = "write", taken[h] = handed PROVE NewestIsWritten'
      <4>1. at'[h] = "write" /\ taken'[h] = handed'
        BY <2>1, <3>2 DEF TypeOK
      <4> QED
        BY <4>1 DEF NewestIsWritten
    <3> QED
      BY <2>2, <3>1, <3>2 DEF FlushInv, NewestIsWritten
  <2> QED
    BY <2>1, <2>2 DEF FlushInv
<1>10. CASE SecondPasses
  BY <1>10 DEF FlushInv, NewestIsWritten, SecondPasses
<1>11. CASE FallsSilent
  BY <1>11 DEF FlushInv, NewestIsWritten, FallsSilent
<1>12. CASE UNCHANGED vars
  BY <1>12 DEF FlushInv, NewestIsWritten, vars
<1> QED
  BY <1>1, <1>2, <1>3, <1>4, <1>5, <1>6, <1>7, <1>8, <1>9, <1>10, <1>11, <1>12 DEF Next

LEMMA FlushInvHolds == Spec => [](TypeOK /\ FlushInv)
<1>1. Init => TypeOK /\ FlushInv
  BY InitTypeOK, InitFlushInv
<1>2. TypeOK /\ FlushInv /\ [Next]_vars => (TypeOK /\ FlushInv)'
  BY NextTypeOK, NextFlushInv
<1> QED
  BY <1>1, <1>2, PTL DEF Spec

(* No progress is forgotten between the scanners, the poll and the worker: a   *)
(* row that nobody is about to write lacks bytes only if an older flush was    *)
(* written last, or the newest flush could not be written.                     *)
THEOREM RowIsCurrentHolds == Spec => []RowIsCurrent
<1>1. TypeOK /\ FlushInv => RowIsCurrent
  <2> SUFFICES ASSUME TypeOK, FlushInv, bytes > 0, ~dirty, ~overtaken, ~lost,
                      \A g \in Goroutines : at[g] # "write"
               PROVE  row = bytes
    BY DEF RowIsCurrent
  <2>1. handed = bytes /\ NewestIsWritten
    BY DEF FlushInv, TypeOK
  <2> QED
    BY <2>1 DEF NewestIsWritten
<1> QED
  BY <1>1, FlushInvHolds, PTL

(* Neither the bytes nor what the flushes hand out ever move backwards. *)
THEOREM ForwardsHolds == Spec => Forwards
<1>1. TypeOK /\ FlushInv /\ [Next]_vars => [bytes' >= bytes /\ handed' >= handed]_vars
  <2> SUFFICES ASSUME TypeOK, FlushInv, [Next]_vars
               PROVE  bytes' >= bytes /\ handed' >= handed
    OBVIOUS
  <2>1. {bytes, handed} \subseteq Nat /\ handed <= bytes
    BY DEF TypeOK, FlushInv
  <2>2. ASSUME NEW s \in Scanners, Observe(s) PROVE bytes' >= bytes /\ handed' = handed
    BY <2>2, ObserveBytes DEF Observe
  <2>3. CASE ObserveSize
    BY <2>1, <2>3, ObserveSizeBytes DEF ObserveSize
  <2>4. CASE Complete
    BY <2>1, <2>4, CompleteBytes DEF Complete
  <2>5. ASSUME NEW g \in Goroutines, MaybeFlush(g) PROVE bytes' = bytes /\ handed' \in {handed, bytes}
    BY <2>5 DEF MaybeFlush
  <2>6. ASSUME NEW g \in Goroutines, WriteRow(g) PROVE bytes' = bytes /\ handed' = handed
    BY <2>6 DEF WriteRow
  <2>7. ASSUME NEW g \in Goroutines, WriteFails(g) PROVE bytes' = bytes /\ handed' = handed
    BY <2>7 DEF WriteFails
  <2>8. CASE PollStale \/ PollFails \/ TransferEnds \/ SecondPasses \/ FallsSilent \/ UNCHANGED vars
    BY <2>1, <2>8 DEF PollStale, PollFails, TransferEnds, SecondPasses, FallsSilent, vars
  <2> QED
    BY <2>1, <2>2, <2>3, <2>4, <2>5, <2>6, <2>7, <2>8 DEF Next
<1> QED
  BY <1>1, FlushInvHolds, PTL DEF Spec, Forwards
=============================================================================
