--------------------------- MODULE SftpPool_proofs ---------------------------
(***************************************************************************)
(* Proofs about SftpPool, for every number of callers, hosts, keys, edits  *)
(* and failures.                                                           *)
(***************************************************************************)
EXTENDS SftpPool, TLAPS

LEMMA FaultType ==
    TypeOK /\ Fault => faults' \in 0..MaxFaults /\ edits' \in 0..MaxEdits /\ rekeys' \in 0..MaxRekeys
  BY BoundsAssumption DEF TypeOK, Fault

LEMMA EditType ==
    /\ TypeOK /\ edits < MaxEdits /\ edits' = edits + 1 => edits' \in 0..MaxEdits
    /\ TypeOK /\ rekeys < MaxRekeys /\ rekeys' = rekeys + 1 => rekeys' \in 0..MaxRekeys
  BY BoundsAssumption DEF TypeOK

LEMMA OutdatedConn ==
  ASSUME NEW x \in Conn \cup {NoConn}
  PROVE  /\ Outdated(x) \in Conn \cup {NoConn}
         /\ Outdated(x) = NoConn <=> x = NoConn
         /\ x # NoConn => Outdated(x).old
<1>1. CASE x = NoConn
  BY <1>1 DEF Outdated
<1>2. CASE x \in Conn
  <2>1. x # NoConn /\ Outdated(x) = [x EXCEPT !.old = TRUE]
    BY <1>2, NoneAssumption DEF Outdated
  <2>2. Outdated(x) \in Conn /\ Outdated(x).old
    BY <1>2, <2>1 DEF Conn
  <2> QED
    BY <2>1, <2>2, NoneAssumption
<1> QED
  BY <1>1, <1>2

LEMMA OvertakesCopies ==
  ASSUME NEW C, Overtakes(C)
  PROVE  /\ overtaken' \in [Callers -> BOOLEAN]
         /\ \A d \in Callers : overtaken'[d] <=> (overtaken[d] \/ (d \in C /\ copy[d] # NoRow))
<1>1. overtaken' = [c \in Callers |-> overtaken[c] \/ (c \in C /\ copy[c] # NoRow)]
  BY DEF Overtakes
<1>2. \A c \in Callers : (overtaken[c] \/ (c \in C /\ copy[c] # NoRow)) \in BOOLEAN
  OBVIOUS
<1> QED
  BY <1>1, <1>2, Zenon

LEMMA InitTypeOK == Init => TypeOK
<1> SUFFICES ASSUME Init PROVE TypeOK
  OBVIOUS
<1>1. row \in Row
  BY DEF Init, Row
<1>2. edits \in 0..MaxEdits /\ rekeys \in 0..MaxRekeys /\ faults \in 0..MaxFaults
  BY BoundsAssumption DEF Init
<1>3. \A c \in Callers : pc[c] = "idle" /\ holder # c
  BY NamesAssumption DEF Init
<1>4. /\ pc \in [Callers -> {"idle", "drop", "do", "try", "dial", "pin", "pool", "use"}]
      /\ copy \in [Callers -> Row \cup {NoRow}]
      /\ overtaken \in [Callers -> BOOLEAN]
  BY Zenon DEF Init
<1>5. /\ key \in [Hosts -> Keys] /\ holder = NoCaller
      /\ conn = NoConn /\ dialled = NoConn /\ open = 0 /\ closed = FALSE
  BY DEF Init
<1>6. open \in Int /\ holder \in Callers \cup {NoCaller}
      /\ conn \in Conn \cup {NoConn} /\ dialled \in Conn \cup {NoConn} /\ row \in Row \cup {NoRow}
  BY <1>1, <1>5
<1>7. \A c \in Callers :
         /\ pc[c] # "idle" => copy[c] # NoRow
         /\ pc[c] \in {"try", "dial", "pin", "pool", "use"} <=> holder = c
         /\ pc[c] \in {"pin", "pool"} => dialled # NoConn
         /\ pc[c] \in {"try", "use"} => conn # NoConn
  BY <1>3
<1>8. closed \in BOOLEAN
  BY <1>5, Zenon
<1> QED
  BY <1>2, <1>4, <1>5, <1>6, <1>7, <1>8 DEF TypeOK

(* Every step keeps the types, and takes and gives back the mutex as it should. *)
LEMMA NextTypeOK == TypeOK /\ [Next]_vars => TypeOK'
<1> SUFFICES ASSUME TypeOK, [Next]_vars PROVE TypeOK'
  OBVIOUS
<1> USE NamesAssumption, NoneAssumption DEF TypeOK, calls, pool, bounds, Row
<1>1. ASSUME NEW c \in Callers, Call(c) PROVE TypeOK'
  <2>1. CASE Load(c)
    <3>1. row \in Row /\ \E first \in {"drop", "do"} : pc' = [pc EXCEPT ![c] = first]
      BY <2>1 DEF Load, Goes
    <3>2. PICK first \in {"drop", "do"} : pc' = [pc EXCEPT ![c] = first]
      BY <3>1
    <3> QED
      BY <2>1, <3>1, <3>2 DEF Load
  <2>2. CASE TestDrops(c)
    BY <2>2 DEF TestDrops, Drop, Goes
  <2>3. CASE Enter(c)
    BY <2>3 DEF Enter, Goes
  <2>4. CASE EnterRefused(c)
    BY <2>4 DEF EnterRefused, Returns, Goes
  <2>5. CASE TryAnswers(c)
    BY <2>5 DEF TryAnswers, Returns, Goes, Unlocks
  <2>6. CASE TryBroken(c)
    BY <2>6 DEF TryBroken, Drop, Goes
  <2>7. CASE Dial(c)
    BY <2>7 DEF Dial, Connects, Goes, Conn
  <2>8. CASE DialFails(c)
    BY FaultType, <2>8 DEF DialFails, Returns, Goes, Unlocks
  <2>9. CASE Pin(c)
    <3>1. row \in Row /\ dialled \in Conn /\ row' \in Row /\ row'.pin = dialled.key
      BY <2>9 DEF Pin, Conn
    <3>2. /\ overtaken' \in [Callers -> BOOLEAN]
          /\ row' # row => \A d \in Callers : d # c /\ copy[d] # NoRow => overtaken'[d]
          /\ \A d \in Callers : overtaken[d] => overtaken'[d]
          /\ overtaken'[c] <=> overtaken[c]
      BY <2>9, OvertakesCopies DEF Pin
    <3>3. /\ UNCHANGED <<key, copy, holder, conn, dialled, open, closed, edits, rekeys, faults>>
          /\ pc[c] = "pin" /\ pc' = [pc EXCEPT ![c] = "pool"]
      BY <2>9 DEF Pin, Goes
    <3>4. pc' \in [Callers -> {"idle", "drop", "do", "try", "dial", "pin", "pool", "use"}]
      BY <3>3
    <3>5. \A d \in Callers :
            /\ pc'[d] # "idle" => copy'[d] # NoRow
            /\ pc'[d] \in {"try", "dial", "pin", "pool", "use"} <=> holder' = d
            /\ pc'[d] \in {"pin", "pool"} => dialled' # NoConn
            /\ pc'[d] \in {"try", "use"} => conn' # NoConn
      BY <3>1, <3>3
    <3>6. row' \in Row \cup {NoRow} /\ overtaken' \in [Callers -> BOOLEAN]
      BY <3>1, <3>2
    <3> QED
      BY <3>3, <3>4, <3>5, <3>6
  <2>10. CASE PinFails(c)
    BY FaultType, <2>10 DEF PinFails, Returns, Goes, Unlocks
  <2>11. CASE Pooled(c)
    BY <2>11 DEF Pooled, Goes
  <2>12. CASE Use(c)
    BY <2>12 DEF Use, Returns, Goes, Unlocks
  <2> QED
    BY <1>1, <2>1, <2>2, <2>3, <2>4, <2>5, <2>6, <2>7, <2>8, <2>9, <2>10, <2>11, <2>12 DEF Call, Locked
<1>2. CASE Evict
  BY <1>2 DEF Evict, Drop
<1>3. CASE Close
  BY <1>3 DEF Close, Drop
<1>4. CASE UpdateServer
  <2>1. PICK r \in Row \cup {NoRow} : RowBecomes(r)
    BY <1>4 DEF UpdateServer
  <2>2. CASE r = row
    BY EditType, <1>4, <2>1, <2>2 DEF UpdateServer, RowBecomes
  <2>3. CASE r # row
    <3>1. /\ conn' \in Conn \cup {NoConn} /\ (conn' = NoConn <=> conn = NoConn) /\ (conn # NoConn => conn'.old)
      BY <2>1, <2>3, OutdatedConn DEF RowBecomes
    <3>2. /\ dialled' \in Conn \cup {NoConn} /\ (dialled' = NoConn <=> dialled = NoConn)
          /\ (dialled # NoConn => dialled'.old)
      BY <2>1, <2>3, OutdatedConn DEF RowBecomes
    <3>3. /\ overtaken' \in [Callers -> BOOLEAN]
          /\ \A d \in Callers : copy[d] # NoRow => overtaken'[d]
      BY <2>1, <2>3, OvertakesCopies DEF RowBecomes
    <3> QED
      BY EditType, <1>4, <2>1, <2>3, <3>1, <3>2, <3>3 DEF UpdateServer, RowBecomes
  <2> QED
    BY <2>2, <2>3
<1>5. CASE DeleteServer
  <2>1. PICK r \in Row \cup {NoRow} : RowBecomes(r)
    BY <1>5 DEF DeleteServer
  <2>2. CASE r = row
    BY EditType, <1>5, <2>1, <2>2 DEF DeleteServer, RowBecomes
  <2>3. CASE r # row
    <3>1. /\ conn' \in Conn \cup {NoConn} /\ (conn' = NoConn <=> conn = NoConn) /\ (conn # NoConn => conn'.old)
      BY <2>1, <2>3, OutdatedConn DEF RowBecomes
    <3>2. /\ dialled' \in Conn \cup {NoConn} /\ (dialled' = NoConn <=> dialled = NoConn)
          /\ (dialled # NoConn => dialled'.old)
      BY <2>1, <2>3, OutdatedConn DEF RowBecomes
    <3>3. /\ overtaken' \in [Callers -> BOOLEAN]
          /\ \A d \in Callers : copy[d] # NoRow => overtaken'[d]
      BY <2>1, <2>3, OvertakesCopies DEF RowBecomes
    <3> QED
      BY EditType, <1>5, <2>1, <2>3, <3>1, <3>2, <3>3 DEF DeleteServer, RowBecomes
  <2> QED
    BY <2>2, <2>3
<1>6. CASE Rekey
  BY EditType, <1>6 DEF Rekey
<1>7. CASE Break
  BY FaultType, <1>7 DEF Break, Conn
<1>8. CASE GiveUp
  BY <1>8 DEF GiveUp, Conn
<1>9. CASE UNCHANGED vars
  BY <1>9 DEF vars
<1> QED
  BY <1>1, <1>2, <1>3, <1>4, <1>5, <1>6, <1>7, <1>8, <1>9 DEF Next

Dialling == {"dial", "pin", "pool"}

(* The connection that was dialled is the one the call's copy asks for, and as old. *)
DialInv == \A c \in Callers :
    pc[c] \in {"pin", "pool"} => dialled.host = copy[c].host /\ dialled.old = overtaken[c]

LEMMA InitDialInv == Init => DialInv
  BY DEF Init, DialInv

(* The mutex admits one call to a dial at a time. *)
LEMMA OneDials ==
  ASSUME TypeOK, NEW c \in Callers, pc[c] \in {"try", "dial", "pin", "pool", "use"}
  PROVE  \A d \in Callers \ {c} : pc[d] \notin Dialling
  BY NamesAssumption DEF TypeOK, Dialling

(* A step of the call inside that leaves its dial, if any, where it is. *)
LEMMA DialFrame ==
  ASSUME DialInv, UNCHANGED <<copy, overtaken, dialled>>,
         \A d \in Callers : pc'[d] \in {"pin", "pool"} => pc[d] \in {"pin", "pool"}
  PROVE  DialInv'
  BY DEF DialInv

(* A new row makes copies and connections old at the same time. *)
LEMMA RowAges ==
  ASSUME TypeOK, NEW r, RowBecomes(r), r # row, UNCHANGED <<pc, copy>>
  PROVE  /\ \A c \in Callers : copy[c] # NoRow => overtaken'[c] = TRUE
         /\ dialled # NoConn => dialled' = [dialled EXCEPT !.old = TRUE]
         /\ dialled = NoConn => dialled' = NoConn
         /\ conn # NoConn => conn' = [conn EXCEPT !.old = TRUE]
         /\ conn = NoConn => conn' = NoConn
<1>1. Overtakes(Callers) /\ conn' = Outdated(conn) /\ dialled' = Outdated(dialled)
  BY DEF RowBecomes
<1>2. \A c \in Callers : copy[c] # NoRow => overtaken'[c] = TRUE
  BY <1>1, OvertakesCopies
<1> QED
  BY <1>1, <1>2 DEF Outdated

LEMMA NextDialInv == TypeOK /\ DialInv /\ [Next]_vars => DialInv'
<1> SUFFICES ASSUME TypeOK, DialInv, [Next]_vars PROVE DialInv'
  OBVIOUS
<1> USE DEF calls, pool, bounds
<1>1. ASSUME NEW c \in Callers, Call(c) PROVE DialInv'
  <2>1. CASE Load(c)
    <3>1. PICK first \in {"drop", "do"} : pc' = [pc EXCEPT ![c] = first]
      BY <2>1 DEF Load, Goes
    <3> QED
      BY <2>1, <3>1 DEF Load, DialInv, TypeOK
  <2>2. CASE TestDrops(c) \/ Enter(c) \/ TryBroken(c) \/ Pooled(c)
    <3>1. CASE TestDrops(c)
      BY <3>1, DialFrame DEF TestDrops, Goes, TypeOK
    <3>2. CASE Enter(c)
      BY <3>2, DialFrame DEF Enter, Goes, TypeOK
    <3>3. CASE TryBroken(c)
      BY <3>3, DialFrame DEF TryBroken, Goes, TypeOK
    <3>4. CASE Pooled(c)
      <4>1. pc' = [pc EXCEPT ![c] = "use"] /\ pc[c] = "pool" /\ UNCHANGED <<copy, overtaken>>
        BY <3>4 DEF Pooled, Goes
      <4>2. \A d \in Callers : pc'[d] \notin {"pin", "pool"}
        BY <4>1, OneDials DEF TypeOK, Dialling
      <4> QED
        BY <4>2 DEF DialInv
    <3> QED
      BY <2>2, <3>1, <3>2, <3>3, <3>4
  <2>3. CASE EnterRefused(c) \/ TryAnswers(c) \/ DialFails(c) \/ Use(c) \/ PinFails(c)
    <3>1. Returns(c) /\ (dialled' = dialled \/ pc[c] = "pin")
      BY <2>3 DEF EnterRefused, TryAnswers, DialFails, Use, PinFails
    <3>2. \A d \in Callers \ {c} : pc'[d] = pc[d] /\ copy'[d] = copy[d] /\ overtaken'[d] = overtaken[d]
      BY <3>1 DEF Returns, Goes, TypeOK
    <3>3. pc'[c] = "idle"
      BY <3>1 DEF Returns, Goes, TypeOK
    <3>4. pc[c] = "pin" => \A d \in Callers \ {c} : pc[d] \notin {"pin", "pool"}
      BY OneDials DEF Dialling
    <3> QED
      BY <3>1, <3>2, <3>3, <3>4 DEF DialInv
  <2>4. CASE Dial(c)
    <3>1. /\ dialled'.host = copy[c].host /\ dialled'.old = overtaken[c] /\ pc[c] = "dial"
          /\ UNCHANGED <<copy, overtaken>>
      BY <2>4 DEF Dial, Connects
    <3>2. \A d \in Callers \ {c} : pc'[d] = pc[d]
      BY <2>4 DEF Dial, Goes, TypeOK
    <3>3. \A d \in Callers \ {c} : pc'[d] \notin {"pin", "pool"}
      BY <3>1, <3>2, OneDials DEF Dialling
    <3> QED
      BY <3>1, <3>3 DEF DialInv
  <2>5. CASE Pin(c)
    <3>1. pc[c] = "pin" /\ UNCHANGED <<copy, dialled>> /\ pc' = [pc EXCEPT ![c] = "pool"]
      BY <2>5 DEF Pin, Goes
    <3>2. overtaken'[c] = overtaken[c]
      <4>1. CASE row' = row
        BY <2>5, <4>1 DEF Pin
      <4>2. CASE row' # row
        <5>1. Overtakes(Callers \ {c})
          BY <2>5, <4>2 DEF Pin
        <5> QED
          BY <5>1 DEF Overtakes, TypeOK
      <4> QED
        BY <4>1, <4>2
    <3>3. \A d \in Callers \ {c} : pc'[d] \notin {"pin", "pool"}
      BY <3>1, OneDials DEF Dialling, TypeOK
    <3> QED
      BY <3>1, <3>2, <3>3 DEF DialInv
  <2> QED
    BY <1>1, <2>1, <2>2, <2>3, <2>4, <2>5 DEF Call, Locked
<1>2. CASE Evict \/ Close \/ Rekey \/ Break \/ GiveUp
  BY <1>2, DialFrame DEF Evict, Close, Rekey, Break, GiveUp
<1>3. CASE UpdateServer \/ DeleteServer
  <2>1. PICK r : RowBecomes(r)
    BY <1>3 DEF UpdateServer, DeleteServer
  <2>2. UNCHANGED <<pc, copy>>
    BY <1>3 DEF UpdateServer, DeleteServer
  <2>3. CASE r = row
    BY <2>1, <2>2, <2>3, DialFrame DEF RowBecomes
  <2>4. CASE r # row
    <3>1. ASSUME NEW c \in Callers, pc[c] \in {"pin", "pool"}
          PROVE  dialled'.host = dialled.host /\ dialled'.old = TRUE /\ overtaken'[c] = TRUE
      <4>1. dialled \in Conn /\ copy[c] # NoRow /\ dialled # NoConn
        BY <3>1 DEF TypeOK
      <4>2. dialled' = [dialled EXCEPT !.old = TRUE] /\ overtaken'[c] = TRUE
        BY <2>1, <2>2, <2>4, <4>1, RowAges
      <4> QED
        BY <4>1, <4>2 DEF Conn
    <3> QED
      BY <2>2, <3>1 DEF DialInv
  <2> QED
    BY <2>3, <2>4
<1>4. CASE UNCHANGED vars
  BY <1>4, DialFrame DEF vars
<1> QED
  BY <1>1, <1>2, <1>3, <1>4 DEF Next

LEMMA InitPoolInv == Init => PoolInv
  BY DEF Init, PoolInv, PooledKeyIsPinned

(* Every step keeps the count, the order of dialling and pooling, and the copies. *)
LEMMA NextPoolInv == TypeOK /\ DialInv /\ PoolInv /\ [Next]_vars => PoolInv'
<1> SUFFICES ASSUME TypeOK, DialInv, PoolInv, [Next]_vars PROVE PoolInv'
  OBVIOUS
<1> USE NamesAssumption, NoneAssumption DEF TypeOK, PoolInv, PooledKeyIsPinned, calls, pool, bounds, Row
<1>1. ASSUME NEW c \in Callers, Call(c) PROVE PoolInv'
  <2>1. CASE Load(c)
    <3>1. row \in Row /\ \E first \in {"drop", "do"} : pc' = [pc EXCEPT ![c] = first]
      BY <2>1 DEF Load, Goes
    <3>2. PICK first \in {"drop", "do"} : pc' = [pc EXCEPT ![c] = first]
      BY <3>1
    <3> QED
      BY <2>1, <3>1, <3>2 DEF Load
  <2>2. CASE TestDrops(c)
    BY <2>2 DEF TestDrops, Drop, Goes
  <2>3. CASE Enter(c)
    BY <2>3 DEF Enter, Goes
  <2>4. CASE EnterRefused(c)
    BY <2>4 DEF EnterRefused, Returns, Goes
  <2>5. CASE TryAnswers(c)
    BY <2>5 DEF TryAnswers, Returns, Goes, Unlocks
  <2>6. CASE TryBroken(c)
    BY <2>6 DEF TryBroken, Drop, Goes
  <2>7. CASE Dial(c)
    BY <2>7 DEF Dial, Connects, Goes, Conn
  <2>8. CASE DialFails(c)
    BY FaultType, <2>8 DEF DialFails, Returns, Goes, Unlocks
  <2>9. CASE Pin(c)
    <3>1. row \in Row /\ dialled \in Conn /\ row' \in Row /\ row'.pin = dialled.key
      BY <2>9 DEF Pin, Conn
    <3>2. /\ overtaken' \in [Callers -> BOOLEAN]
          /\ row' # row => \A d \in Callers : d # c /\ copy[d] # NoRow => overtaken'[d]
          /\ \A d \in Callers : overtaken[d] => overtaken'[d]
          /\ overtaken'[c] <=> overtaken[c]
      BY <2>9, OvertakesCopies DEF Pin
    <3>3. /\ pc[c] = "pin" /\ pc' = [pc EXCEPT ![c] = "pool"]
          /\ UNCHANGED <<copy, holder, conn, dialled, open, closed>>
      BY <2>9 DEF Pin, Goes
    <3>4. ~dialled.old => row' = [host |-> dialled.host, pin |-> dialled.key]
      <4>1. ASSUME ~dialled.old PROVE copy[c] = row /\ row.host = dialled.host
        BY <3>3, <4>1 DEF DialInv
      <4> QED
        BY <2>9, <3>1, <4>1 DEF Pin
    <3>5. \A d \in Callers \ {c} : pc'[d] = pc[d] /\ pc[d] \notin Dialling
      BY <3>3, OneDials
    <3>6. \A d \in Callers :
            pc'[d] \notin {"idle", "pool", "use"} /\ ~overtaken'[d] => copy'[d] = row'
      BY <3>2, <3>3
    <3> QED
      BY <3>1, <3>3, <3>4, <3>5, <3>6 DEF Dialling
  <2>10. CASE PinFails(c)
    BY FaultType, <2>10 DEF PinFails, Returns, Goes, Unlocks
  <2>11. CASE Pooled(c)
    BY <2>11 DEF Pooled, Goes
  <2>12. CASE Use(c)
    BY <2>12 DEF Use, Returns, Goes, Unlocks
  <2> QED
    BY <1>1, <2>1, <2>2, <2>3, <2>4, <2>5, <2>6, <2>7, <2>8, <2>9, <2>10, <2>11, <2>12 DEF Call, Locked
<1>2. CASE Evict
  BY <1>2 DEF Evict, Drop
<1>3. CASE Close
  BY <1>3 DEF Close, Drop
<1>4. CASE UpdateServer
  <2>1. PICK r \in Row \cup {NoRow} : RowBecomes(r)
    BY <1>4 DEF UpdateServer
  <2>2. CASE r = row
    BY EditType, <1>4, <2>1, <2>2 DEF UpdateServer, RowBecomes
  <2>3. CASE r # row
    <3>1. /\ conn' \in Conn \cup {NoConn} /\ (conn' = NoConn <=> conn = NoConn) /\ (conn # NoConn => conn'.old)
      BY <2>1, <2>3, OutdatedConn DEF RowBecomes
    <3>2. /\ dialled' \in Conn \cup {NoConn} /\ (dialled' = NoConn <=> dialled = NoConn)
          /\ (dialled # NoConn => dialled'.old)
      BY <2>1, <2>3, OutdatedConn DEF RowBecomes
    <3>3. /\ overtaken' \in [Callers -> BOOLEAN]
          /\ \A d \in Callers : copy[d] # NoRow => overtaken'[d]
      BY <2>1, <2>3, OvertakesCopies DEF RowBecomes
    <3> QED
      BY EditType, <1>4, <2>1, <2>3, <3>1, <3>2, <3>3 DEF UpdateServer, RowBecomes
  <2> QED
    BY <2>2, <2>3
<1>5. CASE DeleteServer
  <2>1. PICK r \in Row \cup {NoRow} : RowBecomes(r)
    BY <1>5 DEF DeleteServer
  <2>2. CASE r = row
    BY EditType, <1>5, <2>1, <2>2 DEF DeleteServer, RowBecomes
  <2>3. CASE r # row
    <3>1. /\ conn' \in Conn \cup {NoConn} /\ (conn' = NoConn <=> conn = NoConn) /\ (conn # NoConn => conn'.old)
      BY <2>1, <2>3, OutdatedConn DEF RowBecomes
    <3>2. /\ dialled' \in Conn \cup {NoConn} /\ (dialled' = NoConn <=> dialled = NoConn)
          /\ (dialled # NoConn => dialled'.old)
      BY <2>1, <2>3, OutdatedConn DEF RowBecomes
    <3>3. /\ overtaken' \in [Callers -> BOOLEAN]
          /\ \A d \in Callers : copy[d] # NoRow => overtaken'[d]
      BY <2>1, <2>3, OvertakesCopies DEF RowBecomes
    <3> QED
      BY EditType, <1>5, <2>1, <2>3, <3>1, <3>2, <3>3 DEF DeleteServer, RowBecomes
  <2> QED
    BY <2>2, <2>3
<1>6. CASE Rekey
  BY EditType, <1>6 DEF Rekey
<1>7. CASE Break
  BY FaultType, <1>7 DEF Break, Conn
<1>8. CASE GiveUp
  BY <1>8 DEF GiveUp, Conn
<1>9. CASE UNCHANGED vars
  BY <1>9 DEF vars
<1> QED
  BY <1>1, <1>2, <1>3, <1>4, <1>5, <1>6, <1>7, <1>8, <1>9 DEF Next

-----------------------------------------------------------------------------
(* The variables keep their types, and only one call is inside the mutex. *)
THEOREM TypeCorrect == Spec => []TypeOK
  BY InitTypeOK, NextTypeOK, PTL DEF Spec

(* Connections, copies and the recorded key stay in step. *)
THEOREM PoolInvariance == Spec => [](PoolInv /\ DialInv)
  BY InitPoolInv, NextPoolInv, InitDialInv, NextDialInv, TypeCorrect, PTL DEF Spec

(* At most one connection to the server is open, and none after Close. *)
THEOREM AtMostOne == Spec => []OneConnection
<1>1. TypeOK /\ PoolInv => OneConnection
  BY NamesAssumption DEF TypeOK, PoolInv, OneConnection
<1> QED
  BY <1>1, TypeCorrect, PoolInvariance, PTL

(* The pooled connection's key is the recorded one, edits apart. *)
THEOREM KeyIsPinned == Spec => []PooledKeyIsPinned
<1>1. PoolInv => PooledKeyIsPinned
  BY DEF PoolInv
<1> QED
  BY <1>1, PoolInvariance, PTL

(* A call whose copy is not older than the recorded key does not replace it. *)
THEOREM PinIsKept == Spec => PinReplacedOnlyByOldCopy
<1> DEFINE Replaces(c) ==
      pc[c] = "pin" /\ pc'[c] = "pool" /\ row.pin # NoKey /\ row'.pin # row.pin
<1>1. TypeOK /\ PoolInv /\ [Next]_vars => [\A c \in Callers : Replaces(c) => overtaken[c]]_vars
  BY DEF TypeOK, PoolInv
<1> QED
  BY <1>1, TypeCorrect, PoolInvariance, PTL DEF Spec, PinReplacedOnlyByOldCopy

-----------------------------------------------------------------------------
(* The pool implements PinnedLine. *)

Attempt(c) ==
    [host |-> copy[c].host, pin |-> IF pc[c] = "pool" THEN dialled.key ELSE copy[c].pin, old |-> overtaken[c]]

LineOf(x) == [host |-> x.host, key |-> x.key, old |-> x.old]

(* What PinnedLine sees of a state, and of the next one. *)
LEMMA AttemptsAre ==
  /\ \A c \in Callers : TypeOK /\ pc[c] \in Dialling => Attempts = {Attempt(c)}
  /\ \A c \in Callers : TypeOK' /\ pc'[c] \in Dialling => Attempts' = {Attempt(c)'}
  /\ (\A c \in Callers : pc[c] \notin Dialling) => Attempts = {}
  /\ (\A c \in Callers : pc'[c] \notin Dialling) => Attempts' = {}
  BY NamesAssumption DEF TypeOK, Attempts, Attempt, Dialling

LEMMA LinesAre ==
  /\ Lines = IF conn = NoConn THEN {} ELSE {LineOf(conn)}
  /\ Lines' = IF conn' = NoConn THEN {} ELSE {LineOf(conn')}
  BY DEF Lines, LineOf

(* A step that touches no dial. *)
LEMMA SameAttempts ==
  ASSUME \A d \in Callers : pc'[d] \in Dialling \/ pc[d] \in Dialling => pc'[d] = pc[d],
         \A d \in Callers : pc[d] \in Dialling => copy'[d] = copy[d] /\ overtaken'[d] = overtaken[d],
         UNCHANGED dialled
  PROVE  Attempts' = Attempts
<1> DEFINE D == {d \in Callers : pc[d] \in Dialling}
<1>1. D = {d \in Callers : pc'[d] \in Dialling}
  OBVIOUS
<1>2. \A d \in D : Attempt(d)' = Attempt(d)
  BY DEF Attempt
<1>3. Attempts = {Attempt(d) : d \in D} /\ Attempts' = {Attempt(d)' : d \in D}
  BY <1>1 DEF Attempts, Attempt, Dialling
<1> QED
  BY <1>2, <1>3

(* A call that is not dialling goes where none dials, or is over. *)
LEMMA Elsewhere ==
  ASSUME TypeOK, NEW c \in Callers, pc[c] \notin Dialling, pc'[c] \notin Dialling, UNCHANGED dialled,
         \A d \in Callers \ {c} : pc'[d] = pc[d] /\ copy'[d] = copy[d] /\ overtaken'[d] = overtaken[d]
  PROVE  Attempts' = Attempts
  BY SameAttempts

Seen == <<row, Attempts, Lines, closed>>

(* The call takes the mutex, or is inside, and begins to dial. *)
LEMMA BeginsDial ==
  ASSUME TypeOK, TypeOK', PoolInv, NEW c \in Callers, pc[c] \in {"do", "try"},
         \A d \in Callers : pc[d] \notin Dialling, pc'[c] = "dial", ~closed,
         UNCHANGED <<row, copy, overtaken, closed>>, conn' = NoConn
  PROVE  Line!Begin
<1>1. Attempts = {} /\ Attempts' = {Attempt(c)'} /\ Lines' = {}
  BY AttemptsAre, LinesAre DEF Dialling
<1>2. Attempt(c)' = [host |-> copy[c].host, pin |-> copy[c].pin, old |-> overtaken[c]]
  BY DEF Attempt
<1>3. copy[c] \in Row /\ overtaken[c] \in BOOLEAN /\ (overtaken[c] \/ copy[c] = row)
  BY DEF TypeOK, PoolInv
<1>4. copy[c] \in Line!Settings
  BY <1>3 DEF Row, Line!Settings
<1> QED
  BY <1>1, <1>2, <1>3, <1>4 DEF Line!Begin

(* A call gives its dial up. *)
LEMMA FailsDial ==
  ASSUME TypeOK, NEW c \in Callers, pc[c] \in Dialling, Returns(c), UNCHANGED <<row, conn, closed>>
  PROVE  Line!Fail
<1>1. \A d \in Callers : pc'[d] \notin Dialling
  BY OneDials DEF Returns, Goes, TypeOK, Dialling
<1> QED
  BY <1>1, AttemptsAre, LinesAre DEF Line!Fail

LEMMA PinRecords ==
  ASSUME TypeOK, TypeOK', PoolInv, DialInv, NEW c \in Callers, Pin(c)
  PROVE  Line!Record
<1>1. /\ pc[c] = "pin" /\ row # NoRow /\ row' = [row EXCEPT !.pin = dialled.key] /\ pc'[c] = "pool"
      /\ UNCHANGED <<copy, conn, dialled, closed>>
  BY DEF Pin, Goes, TypeOK, pool
<1>2. overtaken'[c] = overtaken[c]
  <2>1. CASE row' = row
    BY <2>1 DEF Pin
  <2>2. CASE row' # row
    BY <2>2 DEF Pin, Overtakes, TypeOK
  <2> QED
    BY <2>1, <2>2
<1>3. Attempts = {Attempt(c)} /\ Attempts' = {Attempt(c)'}
  BY <1>1, AttemptsAre DEF Dialling
<1>4. /\ Attempt(c) = [host |-> copy[c].host, pin |-> copy[c].pin, old |-> overtaken[c]]
      /\ Attempt(c)' = [host |-> copy[c].host, pin |-> dialled.key, old |-> overtaken[c]]
  BY <1>1, <1>2 DEF Attempt
<1>5. Attempt(c)' = [Attempt(c) EXCEPT !.pin = dialled.key]
  BY <1>4
<1>6. copy[c].pin = NoKey /\ (overtaken[c] \/ copy[c] = row) /\ dialled.key \in Keys /\ row \in Line!Settings
  BY <1>1 DEF PoolInv, TypeOK, Conn, Row, Line!Settings
<1>7. Attempt(c).pin = NoKey /\ (Attempt(c).old \/ row.pin = NoKey)
  BY <1>4, <1>6
<1>8. UNCHANGED Lines
  BY <1>1, LinesAre
<1> QED
  BY <1>1, <1>3, <1>5, <1>6, <1>7, <1>8 DEF Line!Record

LEMMA PooledEstablishes ==
  ASSUME TypeOK, DialInv, NEW c \in Callers, Pooled(c)
  PROVE  Line!Establish
<1>1. pc[c] = "pool" /\ conn' = dialled /\ pc' = [pc EXCEPT ![c] = "use"] /\ UNCHANGED <<row, closed>>
  BY DEF Pooled, Goes
<1>2. Attempts = {Attempt(c)}
  BY <1>1, AttemptsAre DEF Dialling
<1>3. Attempts' = {}
  BY <1>1, OneDials, AttemptsAre DEF Dialling, TypeOK
<1>4. dialled \in Conn /\ dialled # NoConn
  BY <1>1 DEF TypeOK
<1>5. /\ Attempt(c) = [host |-> dialled.host, pin |-> dialled.key, old |-> dialled.old]
      /\ dialled.key \in Keys
  BY <1>1, <1>4 DEF Attempt, DialInv, Conn
<1>6. Lines' = {[host |-> dialled.host, key |-> dialled.key, old |-> dialled.old]}
  BY <1>1, <1>4, LinesAre DEF LineOf
<1>7. /\ Attempt(c).pin \in Keys
      /\ Lines' = {[host |-> Attempt(c).host, key |-> Attempt(c).pin, old |-> Attempt(c).old]}
  BY <1>5, <1>6
<1> QED
  BY <1>1, <1>2, <1>3, <1>7 DEF Line!Establish

(* An edit makes the dial and the line old. *)
(* Records are compared with their Boolean field as a value of any kind. *)
LEMMA OldLine ==
  ASSUME NEW x, NEW t
  PROVE  [LineOf(x) EXCEPT !.old = t] = [host |-> x.host, key |-> x.key, old |-> t]
  BY DEF LineOf

LEMMA OldAttempt ==
  ASSUME NEW c, NEW t
  PROVE  [Attempt(c) EXCEPT !.old = t] =
           [host |-> copy[c].host, pin |-> IF pc[c] = "pool" THEN dialled.key ELSE copy[c].pin, old |-> t]
  BY DEF Attempt

LEMMA RowConfigures ==
  ASSUME TypeOK, TypeOK', DialInv, NEW r, RowBecomes(r), UNCHANGED <<pc, copy, closed>>
  PROVE  Line!Configure \/ UNCHANGED Seen
<1>1. CASE r = row
  <2>1. Attempts' = Attempts
    BY <1>1, SameAttempts DEF RowBecomes
  <2> QED
    BY <1>1, <2>1, LinesAre DEF RowBecomes, Seen
<1>2. CASE r # row
  <2>1. row' \in Line!Settings \cup {NoRow}
    BY DEF TypeOK, Row, Line!Settings
  <2>2. Lines' = Line!Aged(Lines)
    <3>1. CASE conn = NoConn
      BY <1>2, <3>1, RowAges, LinesAre DEF Line!Aged
    <3>2. CASE conn # NoConn
      <4>1. conn \in Conn /\ conn' = [conn EXCEPT !.old = TRUE]
        BY <1>2, <3>2, RowAges DEF TypeOK
      <4>2. conn' \in Conn /\ conn'.host = conn.host /\ conn'.key = conn.key /\ conn'.old = TRUE
        BY <4>1 DEF Conn
      <4>3. conn' # NoConn
        BY <4>2, NoneAssumption
      <4>4. LineOf(conn') = [LineOf(conn) EXCEPT !.old = TRUE]
        <5>1. LineOf(conn') = [host |-> conn.host, key |-> conn.key, old |-> TRUE]
          BY <4>2, Zenon DEF LineOf
        <5>2. [LineOf(conn) EXCEPT !.old = TRUE] = [host |-> conn.host, key |-> conn.key, old |-> TRUE]
          BY OldLine, Zenon
        <5> QED
          BY <5>1, <5>2, Zenon
      <4> QED
        BY <3>2, <4>3, <4>4, LinesAre DEF Line!Aged
    <3> QED
      BY <3>1, <3>2
  <2>3. Attempts' = Line!Aged(Attempts)
    <3>1. CASE \A c \in Callers : pc[c] \notin Dialling
      BY <3>1, AttemptsAre DEF Line!Aged
    <3>2. ASSUME NEW c \in Callers, pc[c] \in Dialling PROVE Attempts' = Line!Aged(Attempts)
      <4>1. Attempts = {Attempt(c)} /\ Attempts' = {Attempt(c)'}
        BY <3>2, AttemptsAre
      <4>2. copy[c] # NoRow
        BY <3>2 DEF TypeOK, Dialling
      <4>3. overtaken'[c] = TRUE
        BY <1>2, <4>2, RowAges
      <4>4. pc[c] = "pool" => dialled'.key = dialled.key
        BY <1>2, RowAges DEF TypeOK, Conn
      <4>5. Attempt(c)' = [host |-> copy[c].host,
                           pin |-> IF pc[c] = "pool" THEN dialled.key ELSE copy[c].pin, old |-> TRUE]
        BY <4>3, <4>4 DEF Attempt
      <4>6. Attempt(c)' = [Attempt(c) EXCEPT !.old = TRUE]
        <5> DEFINE pinOf == IF pc[c] = "pool" THEN dialled.key ELSE copy[c].pin
        <5>1. Attempt(c)' = [host |-> copy[c].host, pin |-> pinOf, old |-> TRUE]
          BY <4>5, Zenon
        <5>2. [Attempt(c) EXCEPT !.old = TRUE] = [host |-> copy[c].host, pin |-> pinOf, old |-> TRUE]
          BY OldAttempt, Zenon
        <5> QED
          BY <5>1, <5>2, Zenon
      <4> QED
        BY <4>1, <4>6 DEF Line!Aged
    <3> QED
      BY <3>1, <3>2
  <2> QED
    BY <2>1, <2>2, <2>3 DEF Line!Configure
<1> QED
  BY <1>1, <1>2

(* Every step is a step of PinnedLine, or none that it sees. *)
LEMMA StepsFollow ==
  TypeOK /\ TypeOK' /\ PoolInv /\ DialInv /\ [Next]_vars => Line!Next \/ UNCHANGED Seen
<1> SUFFICES ASSUME TypeOK, TypeOK', PoolInv, DialInv, [Next]_vars PROVE Line!Next \/ UNCHANGED Seen
  OBVIOUS
<1> USE DEF calls, pool, bounds
<1>1. ASSUME NEW c \in Callers, Call(c) PROVE Line!Next \/ UNCHANGED Seen
  <2>0. \A d \in Callers : holder = NoCaller \/ pc[c] = "try" => pc[d] \notin Dialling
    BY NamesAssumption DEF TypeOK, Dialling
  <2>1. CASE Load(c)
    <3>1. PICK first \in {"drop", "do"} : pc' = [pc EXCEPT ![c] = first]
      BY <2>1 DEF Load, Goes
    <3>2. Attempts' = Attempts
      BY <2>1, <3>1, Elsewhere DEF Load, TypeOK, Dialling
    <3> QED
      BY <2>1, <3>2, LinesAre DEF Load, Seen
  <2>2. CASE TestDrops(c)
    <3>1. conn' = NoConn /\ UNCHANGED <<row, closed>>
      BY <2>2 DEF TestDrops, Drop
    <3>2. Attempts' = Attempts
      BY <2>2, Elsewhere DEF TestDrops, Goes, TypeOK, Dialling
    <3> QED
      BY <3>1, <3>2, LinesAre DEF Line!Next, Line!Drop
  <2>3. CASE Enter(c)
    <3>1. CASE conn = NoConn
      BY <2>0, <2>3, <3>1, BeginsDial DEF Enter, Goes, TypeOK, Line!Next
    <3>2. CASE conn # NoConn
      <4>1. Attempts' = Attempts
        BY <2>3, <3>2, Elsewhere DEF Enter, Goes, TypeOK, Dialling
      <4> QED
        BY <2>3, <4>1, LinesAre DEF Enter, Seen
    <3> QED
      BY <3>1, <3>2
  <2>4. CASE EnterRefused(c) \/ TryAnswers(c) \/ Use(c)
    <3>1. Returns(c) /\ pc[c] \notin Dialling /\ UNCHANGED <<row, conn, dialled, closed>>
      BY <2>4 DEF EnterRefused, TryAnswers, Use, Dialling
    <3>2. Attempts' = Attempts
      BY <3>1, Elsewhere DEF Returns, Goes, TypeOK, Dialling
    <3> QED
      BY <3>1, <3>2, LinesAre DEF Seen
  <2>5. CASE TryBroken(c)
    <3>1. pc[c] = "try" /\ pc'[c] = "dial" /\ conn' = NoConn /\ UNCHANGED <<row, copy, overtaken, closed>>
      BY <2>5 DEF TryBroken, Drop, Goes, TypeOK
    <3>2. ~closed
      BY <3>1, NamesAssumption DEF TypeOK, PoolInv
    <3> QED
      BY <2>0, <3>1, <3>2, BeginsDial DEF Line!Next
  <2>6. CASE Dial(c)
    <3>1. /\ pc[c] = "dial" /\ copy[c].pin \in {NoKey, key[copy[c].host]} /\ dialled'.key = key[copy[c].host]
          /\ pc'[c] = IF copy[c].pin = NoKey THEN "pin" ELSE "pool"
          /\ UNCHANGED <<row, copy, overtaken, conn, closed>>
      BY <2>6 DEF Dial, Connects, Goes, TypeOK
    <3>2. Attempts = {Attempt(c)} /\ Attempts' = {Attempt(c)'}
      BY <3>1, AttemptsAre DEF Dialling
    <3>3. Attempt(c)' = Attempt(c)
      BY <3>1 DEF Attempt
    <3> QED
      BY <3>1, <3>2, <3>3, LinesAre DEF Seen
  <2>7. CASE DialFails(c) \/ PinFails(c)
    BY <2>7, FailsDial DEF DialFails, PinFails, Dialling, Line!Next
  <2>8. CASE Pin(c)
    BY <2>8, PinRecords DEF Line!Next
  <2>9. CASE Pooled(c)
    BY <2>9, PooledEstablishes DEF Line!Next
  <2> QED
    BY <1>1, <2>1, <2>2, <2>3, <2>4, <2>5, <2>6, <2>7, <2>8, <2>9 DEF Call, Locked
<1>2. CASE Evict
  <2>1. Attempts' = Attempts /\ conn' = NoConn /\ UNCHANGED <<row, closed>>
    BY <1>2, SameAttempts DEF Evict, Drop
  <2> QED
    BY <2>1, LinesAre DEF Line!Next, Line!Drop
<1>3. CASE Close
  <2>1. \A d \in Callers : pc[d] \notin Dialling
    BY <1>3, NamesAssumption DEF Close, TypeOK, Dialling
  <2>2. Attempts = {} /\ Attempts' = {} /\ Lines' = {} /\ row' = row /\ closed' = TRUE
    BY <1>3, <2>1, AttemptsAre, LinesAre DEF Close, Drop
  <2> QED
    BY <2>2 DEF Line!Next, Line!End
<1>4. CASE UpdateServer \/ DeleteServer
  <2>1. PICK r : RowBecomes(r)
    BY <1>4 DEF UpdateServer, DeleteServer
  <2> QED
    BY <1>4, <2>1, RowConfigures DEF UpdateServer, DeleteServer, Line!Next
<1>5. CASE Rekey \/ Break \/ GiveUp
  <2>1. Attempts' = Attempts /\ UNCHANGED <<row, closed>>
    BY <1>5, SameAttempts DEF Rekey, Break, GiveUp
  <2>2. CASE Rekey
    BY <2>1, <2>2, LinesAre DEF Rekey, Seen
  <2>3. CASE Break \/ GiveUp
    <3>1. PICK s \in {"silent", "dead"} : conn # NoConn /\ conn' = [conn EXCEPT !.state = s]
      BY <2>3 DEF Break, GiveUp
    <3>2. conn \in Conn /\ conn' # NoConn /\ LineOf(conn') = LineOf(conn)
      BY <3>1, NoneAssumption DEF TypeOK, Conn, LineOf
    <3> QED
      BY <2>1, <3>1, <3>2, LinesAre DEF Seen
  <2> QED
    BY <1>5, <2>2, <2>3
<1>6. CASE UNCHANGED vars
  <2>1. Attempts' = Attempts
    BY <1>6, SameAttempts DEF vars
  <2> QED
    BY <1>6, <2>1, LinesAre DEF vars, Seen
<1> QED
  BY <1>1, <1>2, <1>3, <1>4, <1>5, <1>6 DEF Next

(* The pool implements PinnedLine: one line at most, opened with the key that    *)
(* the row pins, which nobody but the user and dials by old copies replace.      *)
THEOREM ImplementsPinnedLine == Spec => LineSpec
<1>1. Init => Line!Init
  <2> SUFFICES ASSUME Init PROVE Line!Init
    OBVIOUS
  <2>1. row \in Line!Settings
    BY DEF Init, Line!Settings
  <2>2. Attempts = {} /\ Lines = {} /\ closed = FALSE
    BY AttemptsAre, LinesAre DEF Init, Dialling
  <2> QED
    BY <2>1, <2>2 DEF Line!Init
<1>2. TypeOK /\ TypeOK' /\ PoolInv /\ DialInv /\ [Next]_vars => [Line!Next]_(Line!pinned)
  BY StepsFollow DEF Seen, Line!pinned
<1> QED
  BY <1>1, <1>2, TypeCorrect, PoolInvariance, PTL DEF Spec, LineSpec, Line!Spec

=============================================================================
