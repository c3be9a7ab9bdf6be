-------------------------- MODULE NasClient_proofs --------------------------
(***************************************************************************)
(* Proofs about NasClient, for every number of callers, hosts, keys, saves *)
(* of the settings page and failures.                                      *)
(***************************************************************************)
EXTENDS NasClient, TLAPS

Places == {"idle", "connect", "dial", "open", "pin", "keep", "take", "fn", "command", "drop"}

LEMMA FaultType == TypeOK /\ Fault => faults' \in 0..MaxFaults /\ changes' \in 0..MaxChanges
  BY BoundsAssumption DEF TypeOK, Fault

LEMMA ChangeType == TypeOK /\ changes < MaxChanges /\ changes' = changes + 1 => changes' \in 0..MaxChanges
  BY BoundsAssumption DEF TypeOK

LEMMA OutdatedConn ==
  ASSUME NEW x \in Conn \cup {NoConn}
  PROVE  /\ Outdated(x) \in Conn \cup {NoConn}
         /\ Outdated(x) = NoConn <=> x = NoConn
         /\ x # NoConn => Outdated(x).old
<1>1. CASE x = NoConn
  BY <1>1 DEF Outdated
<1>2. CASE x \in Conn
  <2>1. x # NoConn /\ Outdated(x) = [x EXCEPT !.old = TRUE]
    BY <1>2, NoneAssumption DEF Outdated
  <2>2. Outdated(x) \in Conn /\ Outdated(x).old
    BY <1>2, <2>1 DEF Conn
  <2> QED
    BY <2>1, <2>2, NoneAssumption
<1> QED
  BY <1>1, <1>2

(* A connection that breaks stays where it is. *)
LEMMA BreakConn ==
  ASSUME TypeOK, NEW old, IsIn(conn, old) \/ IsIn(dialled, old), NEW s \in {"silent", "dead"},
         \/ IsIn(conn, old) /\ conn' = [conn EXCEPT !.state = s] /\ UNCHANGED dialled
         \/ IsIn(dialled, old) /\ dialled' = [dialled EXCEPT !.state = s] /\ UNCHANGED conn
  PROVE  /\ conn' \in Conn \cup {NoConn} /\ (conn' = NoConn <=> conn = NoConn)
         /\ dialled' \in Conn \cup {NoConn} /\ (dialled' = NoConn <=> dialled = NoConn)
         /\ conn # NoConn => conn'.host = conn.host /\ conn'.key = conn.key /\ conn'.old = conn.old
         /\ dialled # NoConn => /\ dialled'.host = dialled.host /\ dialled'.key = dialled.key
                                /\ dialled'.old = dialled.old
<1> DEFINE Broken(x) == [x EXCEPT !.state = s]
<1>1. ASSUME NEW x \in Conn
      PROVE  Broken(x) \in Conn /\ Broken(x).host = x.host /\ Broken(x).key = x.key /\ Broken(x).old = x.old
  BY DEF Conn
<1>2. CASE IsIn(conn, old) /\ conn' = Broken(conn) /\ UNCHANGED dialled
  BY <1>1, <1>2, NoneAssumption DEF TypeOK, IsIn
<1>3. CASE IsIn(dialled, old) /\ dialled' = Broken(dialled) /\ UNCHANGED conn
  BY <1>1, <1>3, NoneAssumption DEF TypeOK, IsIn
<1> QED
  BY <1>2, <1>3

(* After a drop nobody uses the connection any more. *)
LEMMA DisconnectType ==
  ASSUME TypeOK, disconnect
  PROVE  /\ conn' = NoConn /\ UNCHANGED dialled
         /\ mine' \in [Callers -> {"none", "current", "gone"}]
         /\ \A c \in Callers : mine'[c] # "current"
         /\ beatMine' \in {"none", "gone"}
         /\ open' \in Int
  BY DEF TypeOK, disconnect, Lost

(* The call c is over. *)
LEMMA ReturnsType ==
  ASSUME TypeOK, NEW c \in Callers, Returns(c)
  PROVE  /\ pc' = [pc EXCEPT ![c] = "idle"]
         /\ kind' \in [Callers -> {"do", "run"}]
         /\ attempt' \in [Callers -> {0, 1}]
         /\ mine' = [mine EXCEPT ![c] = "none"]
         /\ mine' \in [Callers -> {"none", "current", "gone"}]
  BY DEF TypeOK, Returns, Goes

LEMMA InitTypeOK == Init => TypeOK
<1> SUFFICES ASSUME Init PROVE TypeOK
  OBVIOUS
<1>1. row \in Settings
  BY FirstAssumption DEF Init, Settings
<1>2. changes \in 0..MaxChanges /\ faults \in 0..MaxFaults
  BY BoundsAssumption DEF Init
<1>3. /\ pc \in [Callers -> Places]
      /\ kind \in [Callers -> {"do", "run"}]
      /\ attempt \in [Callers -> {0, 1}]
      /\ mine \in [Callers -> {"none", "current", "gone"}]
  BY DEF Init, Places
<1>4. \A c \in Callers : pc[c] = "idle" /\ mine[c] = "none" /\ holder # c
  BY NamesAssumption DEF Init
<1>5. /\ form = NoForm /\ key \in [Hosts -> Keys]
      /\ beat = "wait" /\ beatMine = "none"
      /\ holder = NoCaller /\ copy = NoForm /\ overtaken = FALSE
      /\ conn = NoConn /\ dialled = NoConn /\ open = 0 /\ closing = "no"
  BY FirstAssumption DEF Init
<1>6. /\ form \in Settings \cup {NoForm}
      /\ beat \in {"wait", "poke", "drop", "exited"} /\ beatMine \in {"none", "current", "gone"}
      /\ holder \in Callers \cup {NoCaller} /\ copy \in Settings \cup {NoForm}
      /\ conn \in Conn \cup {NoConn} /\ dialled \in Conn \cup {NoConn} /\ open \in Int
      /\ closing \in {"no", "waiting", "closed"}
  BY <1>5
<1>7. overtaken \in BOOLEAN /\ (copy = NoForm <=> holder = NoCaller) /\ beatMine # "current"
  BY <1>5, Zenon
<1>8. \A c \in Callers :
        /\ pc[c] \in {"dial", "open", "pin", "keep"} <=> holder = c
        /\ pc[c] \in {"open", "pin", "keep"} => dialled # NoConn
        /\ mine[c] = "current" => conn # NoConn
  BY <1>4
<1> QED
  BY <1>1, <1>2, <1>3, <1>5, <1>6, <1>7, <1>8 DEF TypeOK, Places

(* The call c that dialled gives up and lets go of the mutex. *)
LEMMA AbandonType ==
  ASSUME TypeOK, NEW c \in Callers, pc[c] \in {"dial", "open", "pin"}, Returns(c), Unlocks,
         UNCHANGED <<page, key, pulse, conn, closing>>,
         dialled' \in Conn \cup {NoConn}, open' \in Int,
         faults' \in 0..MaxFaults /\ changes' \in 0..MaxChanges
  PROVE  TypeOK'
<1>1. holder = c /\ \A d \in Callers : d # c => pc[d] \notin {"dial", "open", "pin", "keep"}
  BY DEF TypeOK
<1>2. \A d \in Callers : pc'[d] = (IF d = c THEN "idle" ELSE pc[d])
  BY ReturnsType DEF TypeOK
<1>3. \A d \in Callers : mine'[d] = (IF d = c THEN "none" ELSE mine[d])
  BY ReturnsType DEF TypeOK
<1>4. holder' = NoCaller /\ copy' = NoForm /\ overtaken' = FALSE
  BY DEF Unlocks
<1>5. \A d \in Callers :
        /\ pc'[d] \in {"dial", "open", "pin", "keep"} <=> holder' = d
        /\ pc'[d] \in {"open", "pin", "keep"} => dialled' # NoConn
        /\ mine'[d] = "current" => conn' # NoConn
  BY <1>1, <1>2, <1>3, <1>4, NamesAssumption DEF TypeOK
<1>6. pc' \in [Callers -> Places]
  BY ReturnsType DEF TypeOK, Places
<1>7. overtaken' \in BOOLEAN /\ (copy' = NoForm <=> holder' = NoCaller)
  BY <1>4, Zenon
<1> QED
  BY <1>4, <1>5, <1>6, <1>7, ReturnsType DEF TypeOK, Places, page, pulse

LEMMA CallTypeOK ==
  ASSUME TypeOK, NEW c \in Callers, Begin(c) \/ Outside(c) \/ Inside(c) \/ CommandEnds(c)
  PROVE  TypeOK'
<1> USE NamesAssumption, NoneAssumption DEF TypeOK, page, calls, pulse, lock, line, bounds
<1>1. CASE Begin(c)
  BY <1>1 DEF Begin, Goes
<1>2. CASE ConnectFinds(c)
  BY <1>2 DEF ConnectFinds, Connected, Goes
<1>3. CASE ConnectRefused(c)
  BY <1>3, ReturnsType DEF ConnectRefused, Free
<1>4. CASE ConnectDials(c)
  BY <1>4 DEF ConnectDials, Free, Goes
<1>5. CASE Take(c)
  <2>1. CASE conn = NoConn
    BY <1>5, <2>1, ReturnsType DEF Take, Free
  <2>2. CASE conn # NoConn
    BY <1>5, <2>2 DEF Take, Free, Goes
  <2> QED
    BY <2>1, <2>2
<1>6. CASE DropAndRetry(c)
  <2>1. /\ pc[c] = "drop" /\ pc' = [pc EXCEPT ![c] = "connect"]
        /\ attempt' = [attempt EXCEPT ![c] = 1]
        /\ disconnect
        /\ UNCHANGED <<page, key, kind, beat, lock, closing, bounds>>
    BY <1>6 DEF DropAndRetry, Goes
  <2>2. attempt' \in [Callers -> {0, 1}]
    BY <2>1
  <2> QED
    BY <2>1, <2>2, DisconnectType
<1>7. CASE Dial(c)
  <2>1. /\ pc[c] = "dial" /\ holder = c /\ copy \in Settings
    BY <1>7 DEF Dial
  <2>2. /\ dialled' = [host |-> copy.host, key |-> key[copy.host], state |-> "live", old |-> overtaken]
        /\ dialled' \in Conn
    BY <1>7, <2>1 DEF Dial, Handshake, Conn, Settings
  <2> QED
    BY <1>7, <2>1, <2>2 DEF Dial, Handshake, Goes
<1>8. CASE DialFails(c)
  <2>1. faults' \in 0..MaxFaults /\ changes' \in 0..MaxChanges
    BY <1>8, FaultType DEF DialFails
  <2> QED
    BY <1>8, <2>1, AbandonType DEF DialFails
<1>9. CASE OpenSftp(c)
  BY <1>9 DEF OpenSftp, Goes
<1>10. CASE OpenSftpFails(c)
  <2>1. faults' \in 0..MaxFaults /\ changes' \in 0..MaxChanges
    BY <1>10, FaultType DEF OpenSftpFails
  <2> QED
    BY <1>10, <2>1, AbandonType DEF OpenSftpFails, GivesBack
<1>11. CASE Pin(c)
  <2>1. row' \in Settings
    BY <1>11 DEF Pin, Settings, Conn
  <2> QED
    BY <1>11, <2>1 DEF Pin, Goes
<1>12. CASE PinFails(c)
  <2>1. faults' \in 0..MaxFaults /\ changes' \in 0..MaxChanges
    BY <1>12, FaultType DEF PinFails
  <2> QED
    BY <1>12, <2>1, AbandonType DEF PinFails, GivesBack
<1>13. CASE Keep(c)
  <2>1. /\ pc[c] = "keep" /\ holder = c /\ conn' = dialled /\ dialled' = NoConn /\ dialled # NoConn
        /\ holder' = NoCaller /\ copy' = NoForm /\ overtaken' = FALSE
        /\ UNCHANGED <<page, key, kind, attempt, pulse, open, closing, bounds>>
    BY <1>13 DEF Keep, Unlocks
  <2>2. /\ pc' \in [Callers -> Places] /\ mine' \in [Callers -> {"none", "current", "gone"}]
        /\ pc'[c] \in {"fn", "take"} /\ \A d \in Callers : d # c => pc'[d] = pc[d]
    BY <1>13 DEF Keep, Connected, Goes, Places
  <2>3. \A d \in Callers : d # c => pc[d] \notin {"dial", "open", "pin", "keep"}
    BY <2>1
  <2>4. \A d \in Callers : pc'[d] \notin {"dial", "open", "pin", "keep"} /\ holder' # d
    BY <2>1, <2>2, <2>3
  <2>5. overtaken' \in BOOLEAN /\ (copy' = NoForm <=> holder' = NoCaller)
    BY <2>1, Zenon
  <2> QED
    BY <2>1, <2>2, <2>4, <2>5 DEF Places
<1>14. CASE FnAnswers(c)
  <2>1. CASE Returns(c)
    BY <1>14, <2>1, ReturnsType DEF FnAnswers
  <2>2. CASE Goes(c, "command") /\ UNCHANGED <<kind, attempt, mine>>
    BY <1>14, <2>2 DEF FnAnswers, Goes
  <2> QED
    BY <1>14, <2>1, <2>2 DEF FnAnswers
<1>15. CASE FnBreaks(c)
  <2>1. CASE Returns(c)
    BY <1>15, <2>1, ReturnsType DEF FnBreaks
  <2>2. CASE Goes(c, "drop") /\ mine' = [mine EXCEPT ![c] = "none"] /\ UNCHANGED <<kind, attempt>>
    BY <1>15, <2>2 DEF FnBreaks, Goes
  <2> QED
    BY <1>15, <2>1, <2>2 DEF FnBreaks
<1>16. CASE CommandEnds(c)
  BY <1>16, ReturnsType DEF CommandEnds
<1> QED
  BY <1>1, <1>2, <1>3, <1>4, <1>5, <1>6, <1>7, <1>8, <1>9, <1>10, <1>11, <1>12, <1>13, <1>14, <1>15, <1>16
     DEF Inside, Outside

LEMMA OtherTypeOK ==
  ASSUME TypeOK,
         Keepalive \/ CloseBegins \/ CloseDrops \/ OpenForm \/ SaveForm \/ Rekey \/ Break \/ GiveUp
  PROVE  TypeOK'
<1> USE NamesAssumption, NoneAssumption DEF TypeOK, page, calls, pulse, lock, line, bounds
<1>1. CASE Poke
  BY <1>1 DEF Poke
<1>2. CASE PokeAnswered
  BY <1>2 DEF PokeAnswered
<1>3. CASE PokeFails
  BY <1>3 DEF PokeFails
<1>4. CASE PokeDrops
  <2>1. disconnect /\ beat' = "wait" /\ UNCHANGED <<page, key, pc, kind, attempt, lock, closing, bounds>>
    BY <1>4 DEF PokeDrops
  <2> QED
    BY <2>1, DisconnectType
<1>5. CASE KeepaliveExits
  BY <1>5 DEF KeepaliveExits
<1>6. CASE CloseBegins
  BY <1>6 DEF CloseBegins
<1>7. CASE CloseDrops
  <2>1. disconnect /\ closing' = "closed" /\ UNCHANGED <<page, key, pc, kind, attempt, beat, lock, bounds>>
    BY <1>7 DEF CloseDrops
  <2> QED
    BY <2>1, DisconnectType
<1>8. CASE OpenForm
  BY <1>8 DEF OpenForm
<1>9. CASE SaveForm
  <2>1. changes' \in 0..MaxChanges /\ form' = NoForm
        /\ UNCHANGED <<key, calls, pulse, holder, copy, open, closing, faults>>
    BY <1>9, ChangeType DEF SaveForm
  <2>2. row' \in Settings
    BY <1>9 DEF SaveForm, Settings
  <2>3. /\ overtaken' \in BOOLEAN
        /\ conn' \in Conn \cup {NoConn} /\ (conn' = NoConn <=> conn = NoConn)
        /\ dialled' \in Conn \cup {NoConn} /\ (dialled' = NoConn <=> dialled = NoConn)
    BY <1>9, OutdatedConn DEF SaveForm
  <2> QED
    BY <2>1, <2>2, <2>3
<1>10. CASE Rekey
  BY <1>10, ChangeType DEF Rekey
<1>11. CASE Break
  <2>1. faults' \in 0..MaxFaults /\ changes' \in 0..MaxChanges
    BY <1>11, FaultType DEF Break
  <2>2. /\ UNCHANGED <<page, key, calls, pulse, lock, open, closing>>
        /\ conn' \in Conn \cup {NoConn} /\ (conn' = NoConn <=> conn = NoConn)
        /\ dialled' \in Conn \cup {NoConn} /\ (dialled' = NoConn <=> dialled = NoConn)
    BY <1>11, BreakConn DEF Break
  <2> QED
    BY <2>1, <2>2
<1>12. CASE GiveUp
  <2>1. /\ UNCHANGED <<page, key, calls, pulse, lock, open, closing, bounds>>
        /\ conn' \in Conn \cup {NoConn} /\ (conn' = NoConn <=> conn = NoConn)
        /\ dialled' \in Conn \cup {NoConn} /\ (dialled' = NoConn <=> dialled = NoConn)
    BY <1>12, BreakConn DEF GiveUp
  <2> QED
    BY <2>1
<1> QED
  BY <1>1, <1>2, <1>3, <1>4, <1>5, <1>6, <1>7, <1>8, <1>9, <1>10, <1>11, <1>12 DEF Keepalive

LEMMA NextTypeOK == TypeOK /\ [Next]_vars => TypeOK'
<1> SUFFICES ASSUME TypeOK, [Next]_vars PROVE TypeOK'
  OBVIOUS
<1>1. CASE Next
  BY <1>1, CallTypeOK, OtherTypeOK DEF Next
<1>2. CASE UNCHANGED vars
  BY <1>2 DEF TypeOK, vars, page, calls, pulse, lock, line, bounds
<1> QED
  BY <1>1, <1>2

(* The variables keep their types, and the mutex is held by the one call that    *)
(* dials, in every behaviour.                                                    *)
THEOREM TypeCorrect == Spec => []TypeOK
  BY InitTypeOK, NextTypeOK, PTL DEF Spec

-----------------------------------------------------------------------------
(* The connection and the recorded key.  Only the call that holds the mutex can  *)
(* be at "dial", "open", "pin" or "keep": what LineInv says of every caller is   *)
(* about that one.                                                               *)

LEMMA InitLineInv == Init => LineInv
<1> SUFFICES ASSUME Init PROVE LineInv
  OBVIOUS
<1>1. \A c \in Callers : pc[c] = "idle"
  BY DEF Init
<1> QED
  BY <1>1 DEF Init, LineInv, KeyIsPinned, Free

LEMMA HolderAlone ==
  ASSUME TypeOK, NEW c \in Callers, pc[c] \in {"dial", "open", "pin", "keep"}
  PROVE  /\ ~Free
         /\ \A d \in Callers : d # c => pc[d] \notin {"dial", "open", "pin", "keep"}
  BY NamesAssumption DEF TypeOK, Free

LEMMA NobodyDials ==
  ASSUME TypeOK, Free
  PROVE  \A d \in Callers : pc[d] \notin {"dial", "open", "pin", "keep"}
  BY NamesAssumption DEF TypeOK, Free

(* A step that leaves connections, settings and mutex as they are.               *)
LEMMA SameLine ==
  ASSUME LineInv, UNCHANGED <<row, holder, copy, overtaken, conn, dialled, open, closing>>,
         \A d \in Callers : pc'[d] \in {"dial", "open", "pin", "keep"} => pc'[d] = pc[d]
  PROVE  LineInv'
  BY DEF LineInv, KeyIsPinned, Free

LEMMA DisconnectLine ==
  ASSUME TypeOK, LineInv, disconnect, UNCHANGED <<row, holder, copy, overtaken>>,
         closing' \in {closing, "closed"},
         \A d \in Callers : pc'[d] \in {"dial", "open", "pin", "keep"} => pc'[d] = pc[d]
  PROVE  LineInv'
<1>1. \A d \in Callers : pc'[d] \notin {"dial", "open", "pin", "keep"}
  BY NobodyDials DEF disconnect
<1>2. /\ Free /\ holder' = holder /\ conn' = NoConn /\ UNCHANGED dialled
      /\ open' = IF conn = NoConn THEN open ELSE open - 1
  BY DEF disconnect
<1>3. dialled = NoConn
  BY <1>2 DEF LineInv
<1>4. open' = 0
  BY <1>2, <1>3 DEF LineInv, TypeOK
<1> QED
  BY <1>1, <1>2, <1>3, <1>4 DEF LineInv, KeyIsPinned, Free

(* The dialling call gives up. *)
LEMMA AbandonLine ==
  ASSUME TypeOK, LineInv, NEW c \in Callers, pc[c] \in {"dial", "open", "pin"}, Returns(c), Unlocks,
         UNCHANGED <<row, conn, closing>>,
         dialled' = NoConn,
         open' = IF dialled = NoConn THEN open ELSE open - 1
  PROVE  LineInv'
<1>1. \A d \in Callers : pc'[d] \notin {"dial", "open", "pin", "keep"}
  BY HolderAlone, ReturnsType DEF TypeOK
<1>2. holder' = NoCaller
  BY DEF Unlocks
<1>3. conn = NoConn
  BY HolderAlone DEF LineInv
<1>4. open' = 0
  BY <1>3 DEF LineInv, TypeOK
<1> QED
  BY <1>1, <1>2, <1>3, <1>4 DEF LineInv, KeyIsPinned, Free

LEMMA CallLineInv ==
  ASSUME TypeOK, LineInv, NEW c \in Callers, Begin(c) \/ Outside(c) \/ Inside(c) \/ CommandEnds(c)
  PROVE  LineInv'
<1> USE DEF page, lock, line
<1>1. CASE Begin(c)
  BY <1>1, SameLine DEF Begin, Goes, TypeOK
<1>2. CASE ConnectFinds(c)
  BY <1>2, SameLine DEF ConnectFinds, Connected, Goes, TypeOK
<1>3. CASE ConnectRefused(c)
  BY <1>3, SameLine, ReturnsType DEF ConnectRefused, TypeOK
<1>4. CASE ConnectDials(c)
  <2>1. /\ Free /\ closing = "no" /\ conn = NoConn /\ holder' = c /\ copy' = row /\ overtaken' = FALSE
        /\ pc' = [pc EXCEPT ![c] = "dial"]
        /\ UNCHANGED <<row, conn, dialled, open, closing>>
    BY <1>4 DEF ConnectDials, Goes
  <2>2. \A d \in Callers : pc'[d] \in {"dial", "open", "pin", "keep"} => d = c /\ pc'[d] = "dial"
    BY <2>1, NobodyDials DEF TypeOK
  <2>3. dialled = NoConn
    BY <2>1 DEF LineInv
  <2>4. ~Free'
    BY <2>1, NamesAssumption DEF Free
  <2> QED
    BY <2>1, <2>2, <2>3, <2>4 DEF LineInv, KeyIsPinned
<1>5. CASE Take(c)
  <2>1. UNCHANGED <<row, holder, copy, overtaken, conn, dialled, open, closing>>
    BY <1>5 DEF Take
  <2>2. \A d \in Callers : pc'[d] \in {"dial", "open", "pin", "keep"} => pc'[d] = pc[d]
    BY <1>5, ReturnsType DEF Take, Goes, TypeOK
  <2> QED
    BY <2>1, <2>2, SameLine
<1>6. CASE DropAndRetry(c)
  <2>1. disconnect /\ UNCHANGED <<row, holder, copy, overtaken>> /\ closing' \in {closing, "closed"}
    BY <1>6 DEF DropAndRetry
  <2>2. \A d \in Callers : pc'[d] \in {"dial", "open", "pin", "keep"} => pc'[d] = pc[d]
    BY <1>6 DEF DropAndRetry, Goes, TypeOK
  <2> QED
    BY <2>1, <2>2, DisconnectLine
<1>7. CASE Dial(c)
  <2>1. /\ pc[c] = "dial" /\ copy.pin \in {NoKey, key[copy.host]}
        /\ pc' = [pc EXCEPT ![c] = "open"] /\ open' = open + 1
        /\ dialled' = [host |-> copy.host, key |-> key[copy.host], state |-> "live", old |-> overtaken]
        /\ UNCHANGED <<row, holder, copy, overtaken, conn, closing>>
    BY <1>7 DEF Dial, Handshake, Goes
  <2>2. /\ dialled'.host = copy.host /\ dialled'.old = overtaken
        /\ copy.pin \in {NoKey, dialled'.key}
    BY <2>1
  <2>3. ~Free /\ conn = NoConn /\ dialled = NoConn /\ open = 0
    BY <2>1, HolderAlone DEF LineInv
  <2>4. \A d \in Callers : pc'[d] \in {"dial", "open", "pin", "keep"} => d = c /\ pc'[d] = "open"
    BY <2>1, HolderAlone DEF TypeOK
  <2>5. dialled' # NoConn /\ open' = 1
    BY <1>7, <2>1, <2>3, CallTypeOK DEF TypeOK, Inside
  <2> QED
    BY <2>1, <2>2, <2>3, <2>4, <2>5 DEF LineInv, KeyIsPinned, Free
<1>8. CASE DialFails(c)
  <2>1. dialled = NoConn /\ pc[c] = "dial"
    BY <1>8 DEF DialFails, LineInv
  <2> QED
    BY <1>8, <2>1, AbandonLine DEF DialFails
<1>9. CASE OpenSftp(c)
  <2>1. /\ pc[c] = "open" /\ pc' = [pc EXCEPT ![c] = IF copy.pin = NoKey THEN "pin" ELSE "keep"]
        /\ UNCHANGED <<row, holder, copy, overtaken, conn, dialled, open, closing>>
    BY <1>9 DEF OpenSftp, Goes
  <2>2. \A d \in Callers : pc'[d] \in {"dial", "open", "pin", "keep"} =>
           d = c /\ pc'[d] = IF copy.pin = NoKey THEN "pin" ELSE "keep"
    BY <2>1, HolderAlone DEF TypeOK
  <2>3. ASSUME copy.pin # NoKey, ~dialled.old PROVE row = [host |-> dialled.host, pin |-> dialled.key]
    <3>1. copy = row /\ row.host = dialled.host /\ row.pin = dialled.key
      BY <2>1, <2>3 DEF LineInv
    <3> QED
      BY <3>1 DEF TypeOK, Settings
  <2> QED
    BY <2>1, <2>2, <2>3 DEF LineInv, KeyIsPinned, Free
<1>10. CASE OpenSftpFails(c)
  <2>1. dialled # NoConn
    BY <1>10 DEF OpenSftpFails, TypeOK
  <2> QED
    BY <1>10, <2>1, AbandonLine DEF OpenSftpFails, GivesBack
<1>11. CASE Pin(c)
  <2>1. /\ pc[c] = "pin" /\ pc' = [pc EXCEPT ![c] = "keep"] /\ row' = [row EXCEPT !.pin = dialled.key]
        /\ UNCHANGED <<holder, copy, overtaken, conn, dialled, open, closing>>
    BY <1>11 DEF Pin, Goes
  <2>2. \A d \in Callers : pc'[d] \in {"dial", "open", "pin", "keep"} => d = c /\ pc'[d] = "keep"
    BY <2>1, HolderAlone DEF TypeOK
  <2>3. ~Free /\ conn = NoConn
    BY <2>1, HolderAlone DEF LineInv
  <2>4. ASSUME ~dialled.old
        PROVE  ~overtaken /\ dialled.host = copy.host /\ copy = row /\ copy.pin \in {NoKey, dialled.key}
    BY <2>1, <2>4 DEF LineInv
  <2>5. ~dialled.old => row' = [host |-> dialled.host, pin |-> dialled.key]
    BY <2>1, <2>4 DEF TypeOK, Settings
  <2> QED
    BY <2>1, <2>2, <2>3, <2>4, <2>5 DEF LineInv, KeyIsPinned, Free
<1>12. CASE PinFails(c)
  <2>1. dialled # NoConn
    BY <1>12 DEF PinFails, TypeOK
  <2> QED
    BY <1>12, <2>1, AbandonLine DEF PinFails, GivesBack
<1>13. CASE Keep(c)
  <2>1. /\ pc[c] = "keep" /\ conn' = dialled /\ dialled' = NoConn /\ holder' = NoCaller
        /\ UNCHANGED <<row, open, closing>>
        /\ pc' = [pc EXCEPT ![c] = IF kind[c] = "do" THEN "fn" ELSE "take"]
    BY <1>13 DEF Keep, Connected, Goes, Unlocks
  <2>2. \A d \in Callers : pc'[d] \notin {"dial", "open", "pin", "keep"}
    BY <2>1, HolderAlone DEF TypeOK
  <2>3. ~Free /\ conn = NoConn /\ dialled # NoConn
    BY <2>1, HolderAlone DEF LineInv, TypeOK
  <2> QED
    BY <2>1, <2>2, <2>3 DEF LineInv, KeyIsPinned, Free
<1>14. CASE FnAnswers(c)
  <2>1. \A d \in Callers : pc'[d] \in {"dial", "open", "pin", "keep"} => pc'[d] = pc[d]
    BY <1>14, ReturnsType DEF FnAnswers, Goes, TypeOK
  <2> QED
    BY <1>14, <2>1, SameLine DEF FnAnswers
<1>15. CASE FnBreaks(c)
  <2>1. \A d \in Callers : pc'[d] \in {"dial", "open", "pin", "keep"} => pc'[d] = pc[d]
    BY <1>15, ReturnsType DEF FnBreaks, Goes, TypeOK
  <2> QED
    BY <1>15, <2>1, SameLine DEF FnBreaks
<1>16. CASE CommandEnds(c)
  BY <1>16, SameLine, ReturnsType DEF CommandEnds, TypeOK
<1> QED
  BY <1>1, <1>2, <1>3, <1>4, <1>5, <1>6, <1>7, <1>8, <1>9, <1>10, <1>11, <1>12, <1>13, <1>14, <1>15, <1>16
     DEF Inside, Outside

LEMMA OtherLineInv ==
  ASSUME TypeOK, LineInv,
         Keepalive \/ CloseBegins \/ CloseDrops \/ OpenForm \/ SaveForm \/ Rekey \/ Break \/ GiveUp
  PROVE  LineInv'
<1> USE DEF page, lock, line, calls, pulse, bounds
<1>1. CASE Poke \/ PokeAnswered \/ PokeFails \/ KeepaliveExits
  BY <1>1, SameLine DEF Poke, PokeAnswered, PokeFails, KeepaliveExits
<1>2. CASE PokeDrops
  BY <1>2, DisconnectLine DEF PokeDrops
<1>3. CASE CloseBegins
  BY <1>3 DEF CloseBegins, LineInv, KeyIsPinned, Free
<1>4. CASE CloseDrops
  <2>1. closing = "waiting" /\ disconnect /\ closing' = "closed" /\ UNCHANGED <<page, pc, lock>>
    BY <1>4 DEF CloseDrops
  <2> QED
    BY <2>1, DisconnectLine
<1>5. CASE OpenForm
  BY <1>5, SameLine DEF OpenForm
<1>6. CASE SaveForm
  <2>1. UNCHANGED <<calls, holder, copy, open, closing>>
    BY <1>6 DEF SaveForm
  <2>2. CASE row' = row
    BY <1>6, <2>1, <2>2, SameLine DEF SaveForm
  <2>3. CASE row' # row
    <3>1. overtaken' = (copy # NoForm) /\ conn' = Outdated(conn) /\ dialled' = Outdated(dialled)
      BY <1>6, <2>3 DEF SaveForm
    <3>2. /\ (conn' = NoConn <=> conn = NoConn) /\ (conn # NoConn => conn'.old)
          /\ (dialled' = NoConn <=> dialled = NoConn) /\ (dialled # NoConn => dialled'.old)
      BY <3>1, OutdatedConn DEF TypeOK
    <3>3. ASSUME NEW c \in Callers, pc[c] \in {"dial", "open", "pin", "keep"} PROVE overtaken'
      BY <3>1, <3>3, HolderAlone DEF TypeOK, Free
    <3>4. \A c \in Callers : pc[c] \in {"open", "pin", "keep"} => dialled # NoConn
      BY DEF TypeOK
    <3> QED
      BY <2>1, <3>2, <3>3, <3>4 DEF LineInv, KeyIsPinned, Free
  <2> QED
    BY <2>2, <2>3
<1>7. CASE Rekey
  BY <1>7, SameLine DEF Rekey
<1>8. CASE Break \/ GiveUp
  <2>1. /\ UNCHANGED <<page, calls, lock, open, closing>>
        /\ (conn' = NoConn <=> conn = NoConn) /\ (dialled' = NoConn <=> dialled = NoConn)
        /\ conn # NoConn => conn'.host = conn.host /\ conn'.key = conn.key /\ conn'.old = conn.old
        /\ dialled # NoConn => /\ dialled'.host = dialled.host /\ dialled'.key = dialled.key
                               /\ dialled'.old = dialled.old
    BY <1>8, BreakConn DEF Break, GiveUp
  <2>2. \A c \in Callers : pc[c] \in {"open", "pin", "keep"} => dialled # NoConn
    BY DEF TypeOK
  <2> QED
    BY <2>1, <2>2 DEF LineInv, KeyIsPinned, Free
<1> QED
  BY <1>1, <1>2, <1>3, <1>4, <1>5, <1>6, <1>7, <1>8 DEF Keepalive

IInv == TypeOK /\ LineInv

LEMMA InitIInv == Init => IInv
  BY InitTypeOK, InitLineInv DEF IInv

LEMMA NextIInv == IInv /\ [Next]_vars => IInv'
<1> SUFFICES ASSUME IInv, [Next]_vars PROVE IInv'
  OBVIOUS
<1>1. TypeOK'
  BY NextTypeOK DEF IInv
<1>2. CASE Next
  BY <1>1, <1>2, CallLineInv, OtherLineInv DEF Next, IInv
<1>3. CASE UNCHANGED vars
  BY <1>1, <1>3, SameLine DEF IInv, vars, page, calls, lock, line
<1> QED
  BY <1>1, <1>2, <1>3

LEMMA IInvHolds == Spec => []IInv
  BY InitIInv, NextIInv, PTL DEF Spec

(* Through drops by several calls and errors at every point of a dial there is   *)
(* one connection to the NAS at most, and none after Close, in every behaviour.  *)
THEOREM OneConnectionHolds == Spec => []OneConnection
<1>1. IInv => OneConnection
  BY DEF IInv, LineInv, OneConnection, Free
<1> QED
  BY <1>1, IInvHolds, PTL

(* The connection in use has the host and the key of the settings, unless they   *)
(* changed after its call read them, in every behaviour.                         *)
THEOREM KeyIsPinnedHolds == Spec => []KeyIsPinned
<1>1. IInv => KeyIsPinned
  BY DEF IInv, LineInv
<1> QED
  BY <1>1, IInvHolds, PTL

(* Connecting replaces a recorded key only when the settings were saved after    *)
(* the call had read them, in every behaviour.                                   *)
THEOREM PinReplacedOnlyByOldCopyHolds == Spec => PinReplacedOnlyByOldCopy
<1>1. ASSUME IInv, NEW c \in Callers, pc[c] = "pin", row.pin # NoKey PROVE overtaken
  BY <1>1 DEF IInv, LineInv
<1>2. IInv => [\A c \in Callers :
          pc[c] = "pin" /\ pc'[c] = "keep" /\ row.pin # NoKey /\ row'.pin # row.pin => overtaken]_vars
  BY <1>1
<1> QED
  BY <1>2, IInvHolds, PTL DEF PinReplacedOnlyByOldCopy
-----------------------------------------------------------------------------
(* The client implements PinnedLine. *)

Dialling == {"dial", "open", "pin", "keep"}

Attempt(c) ==
    [host |-> copy.host, pin |-> IF pc[c] = "keep" THEN dialled.key ELSE copy.pin, old |-> overtaken]

LineOf(x) == [host |-> x.host, key |-> x.key, old |-> x.old]

Seen == <<row, Attempts, Lines, closing # "no">>

(* The connection that was dialled is the one the copy asks for, and as old. *)
DialInv == \A c \in Callers :
    pc[c] \in {"open", "pin", "keep"} =>
      /\ dialled.host = copy.host /\ dialled.old = overtaken
      /\ copy.pin \in {NoKey, dialled.key}

LEMMA InitDialInv == Init => DialInv
  BY DEF Init, DialInv

(* A step that leaves copy and connection as they are. *)
LEMMA DialFrame ==
  ASSUME DialInv, UNCHANGED <<copy, overtaken, dialled>>,
         \A d \in Callers : pc'[d] \in {"open", "pin", "keep"} => pc[d] \in {"open", "pin", "keep"}
  PROVE  DialInv'
  BY DEF DialInv

(* What PinnedLine sees of a state, and of the next one. *)
LEMMA AttemptsAre ==
  /\ \A c \in Callers : TypeOK /\ pc[c] \in Dialling => Attempts = {Attempt(c)}
  /\ \A c \in Callers : TypeOK' /\ pc'[c] \in Dialling => Attempts' = {Attempt(c)'}
  /\ (\A c \in Callers : pc[c] \notin Dialling) => Attempts = {}
  /\ (\A c \in Callers : pc'[c] \notin Dialling) => Attempts' = {}
  BY NamesAssumption DEF TypeOK, Attempts, Attempt, Dialling

LEMMA LinesAre ==
  /\ Lines = IF conn = NoConn THEN {} ELSE {LineOf(conn)}
  /\ Lines' = IF conn' = NoConn THEN {} ELSE {LineOf(conn')}
  BY DEF Lines, LineOf

(* A step that touches no dial. *)
LEMMA SameAttempts ==
  ASSUME \A d \in Callers : pc'[d] \in Dialling \/ pc[d] \in Dialling => pc'[d] = pc[d],
         \A d \in Callers : pc[d] = "keep" => dialled'.key = dialled.key,
         UNCHANGED <<copy, overtaken>>
  PROVE  Attempts' = Attempts
<1> DEFINE D == {d \in Callers : pc[d] \in Dialling}
<1>1. D = {d \in Callers : pc'[d] \in Dialling}
  OBVIOUS
<1>2. \A d \in D : Attempt(d)' = Attempt(d)
  BY DEF Attempt
<1>3. Attempts = {Attempt(d) : d \in D} /\ Attempts' = {Attempt(d)' : d \in D}
  BY <1>1 DEF Attempts, Attempt, Dialling
<1> QED
  BY <1>2, <1>3

(* A step in which a call that is not dialling goes where none dials, or none    *)
(* goes anywhere.                                                                *)
LEMMA Unseen ==
  ASSUME UNCHANGED <<row, copy, overtaken, conn, dialled, closing>>,
         \A d \in Callers : pc'[d] \in Dialling \/ pc[d] \in Dialling => pc'[d] = pc[d]
  PROVE  UNCHANGED Seen /\ (DialInv => DialInv')
<1>1. Attempts' = Attempts
  BY SameAttempts
<1>2. DialInv => DialInv'
  BY DEF DialInv, Dialling
<1> QED
  BY <1>1, <1>2, LinesAre DEF Seen

(* Whatever drops the connection, none is being dialled meanwhile. *)
LEMMA DropsLine ==
  ASSUME TypeOK, disconnect, UNCHANGED <<row, holder, copy, overtaken>>,
         closing' = closing \/ (closing = "waiting" /\ closing' = "closed"),
         \A d \in Callers : pc'[d] \in Dialling => pc'[d] = pc[d]
  PROVE  Line!Drop /\ DialInv'
<1>1. \A d \in Callers : pc[d] \notin Dialling /\ pc'[d] \notin Dialling
  BY NobodyDials DEF disconnect, Dialling
<1>2. conn' = NoConn /\ Attempts' = Attempts
  BY <1>1, AttemptsAre DEF disconnect
<1>3. DialInv'
  BY <1>1 DEF DialInv, Dialling
<1> QED
  BY <1>2, <1>3, LinesAre DEF Line!Drop

(* The dialling call gives up. *)
LEMMA FailsDial ==
  ASSUME TypeOK, NEW c \in Callers, pc[c] \in Dialling, Returns(c), UNCHANGED <<row, conn, closing>>
  PROVE  Line!Fail /\ DialInv'
<1>1. \A d \in Callers : pc'[d] \notin Dialling
  BY HolderAlone, ReturnsType DEF TypeOK, Dialling
<1>2. DialInv'
  BY <1>1 DEF DialInv, Dialling
<1> QED
  BY <1>1, <1>2, AttemptsAre, LinesAre DEF Line!Fail

LEMMA DialsBegin ==
  ASSUME TypeOK, TypeOK', NEW c \in Callers, ConnectDials(c)
  PROVE  Line!Begin /\ DialInv'
<1>1. /\ Free /\ closing = "no" /\ conn = NoConn /\ copy' = row /\ overtaken' = FALSE
      /\ pc' = [pc EXCEPT ![c] = "dial"] /\ UNCHANGED <<row, conn, closing>>
  BY DEF ConnectDials, Goes, page, line
<1>2. \A d \in Callers : pc[d] \notin Dialling
  BY <1>1, NobodyDials DEF Dialling
<1>3. pc'[c] = "dial" /\ \A d \in Callers : pc'[d] \notin {"open", "pin", "keep"}
  BY <1>1, <1>2 DEF TypeOK, Dialling
<1>4. Attempts = {} /\ Attempts' = {Attempt(c)'} /\ Lines' = {}
  BY <1>1, <1>2, <1>3, AttemptsAre, LinesAre DEF Dialling
<1>5. Attempt(c)' = [host |-> row.host, pin |-> row.pin, old |-> FALSE]
  BY <1>1, <1>3 DEF Attempt
<1>6. row \in Line!Settings
  BY DEF TypeOK, Settings, Line!Settings
<1> QED
  BY <1>1, <1>3, <1>4, <1>5, <1>6 DEF Line!Begin, DialInv

LEMMA DialsOn ==
  ASSUME TypeOK, TypeOK', DialInv, NEW c \in Callers, Dial(c) \/ OpenSftp(c)
  PROVE  UNCHANGED Seen /\ DialInv'
<1>1. CASE Dial(c)
  <2>1. /\ pc[c] = "dial" /\ pc' = [pc EXCEPT ![c] = "open"] /\ copy.pin \in {NoKey, dialled'.key}
        /\ dialled'.host = copy.host /\ dialled'.old = overtaken
        /\ UNCHANGED <<row, copy, overtaken, conn, closing>>
    BY <1>1 DEF Dial, Handshake, Goes, page, lock
  <2>2. Attempts = {Attempt(c)} /\ Attempts' = {Attempt(c)'}
    BY <2>1, AttemptsAre DEF Dialling, TypeOK
  <2>3. Attempt(c)' = Attempt(c)
    BY <2>1 DEF Attempt, TypeOK
  <2> QED
    BY <2>1, <2>2, <2>3, LinesAre DEF Seen, DialInv
<1>2. CASE OpenSftp(c)
  <2>1. /\ pc[c] = "open" /\ pc' = [pc EXCEPT ![c] = IF copy.pin = NoKey THEN "pin" ELSE "keep"]
        /\ UNCHANGED <<row, copy, overtaken, conn, dialled, closing>>
    BY <1>2 DEF OpenSftp, Goes, page, lock, line
  <2>2. Attempts = {Attempt(c)} /\ Attempts' = {Attempt(c)'}
    BY <2>1, AttemptsAre DEF Dialling, TypeOK
  <2>3. copy.pin # NoKey => copy.pin = dialled.key
    BY <2>1 DEF DialInv
  <2>4. Attempt(c)' = Attempt(c)
    BY <2>1, <2>3 DEF Attempt, TypeOK
  <2>5. DialInv'
    BY <2>1, DialFrame DEF TypeOK
  <2> QED
    BY <2>1, <2>2, <2>4, <2>5, LinesAre DEF Seen
<1> QED
  BY <1>1, <1>2

LEMMA PinRecords ==
  ASSUME TypeOK, TypeOK', LineInv, DialInv, NEW c \in Callers, Pin(c)
  PROVE  Line!Record /\ DialInv'
<1>1. /\ pc[c] = "pin" /\ row' = [row EXCEPT !.pin = dialled.key] /\ pc' = [pc EXCEPT ![c] = "keep"]
      /\ UNCHANGED <<copy, overtaken, conn, dialled, closing>>
  BY DEF Pin, Goes, lock, line
<1>2. Attempts = {Attempt(c)} /\ Attempts' = {Attempt(c)'}
  BY <1>1, AttemptsAre DEF Dialling, TypeOK
<1>3. /\ Attempt(c) = [host |-> copy.host, pin |-> copy.pin, old |-> overtaken]
      /\ Attempt(c)' = [host |-> copy.host, pin |-> dialled.key, old |-> overtaken]
  BY <1>1 DEF Attempt, TypeOK
<1>4. Attempt(c)' = [Attempt(c) EXCEPT !.pin = dialled.key]
  BY <1>3
<1>5. copy.pin = NoKey /\ (overtaken \/ copy = row) /\ dialled.key \in Keys /\ row \in Line!Settings
  BY <1>1 DEF LineInv, TypeOK, Conn, Settings, Line!Settings
<1>6. Attempt(c).pin = NoKey /\ (Attempt(c).old \/ row.pin = NoKey)
  BY <1>3, <1>5
<1>7. DialInv' /\ UNCHANGED Lines
  BY <1>1, DialFrame, LinesAre DEF TypeOK
<1> QED
  BY <1>1, <1>2, <1>4, <1>5, <1>6, <1>7 DEF Line!Record

LEMMA KeepEstablishes ==
  ASSUME TypeOK, DialInv, NEW c \in Callers, Keep(c)
  PROVE  Line!Establish /\ DialInv'
<1>1. /\ pc[c] = "keep" /\ conn' = dialled /\ UNCHANGED <<row, closing>>
      /\ pc' = [pc EXCEPT ![c] = IF kind[c] = "do" THEN "fn" ELSE "take"]
  BY DEF Keep, Connected, Goes, page
<1>2. Attempts = {Attempt(c)}
  BY <1>1, AttemptsAre DEF Dialling
<1>3. \A d \in Callers : pc'[d] \notin Dialling
  BY <1>1, HolderAlone DEF Dialling, TypeOK
<1>4. dialled \in Conn /\ dialled # NoConn
  BY <1>1 DEF TypeOK
<1>5. /\ Attempt(c) = [host |-> dialled.host, pin |-> dialled.key, old |-> dialled.old]
      /\ dialled.key \in Keys
  BY <1>1, <1>4 DEF Attempt, DialInv, Conn
<1>6. Lines' = {[host |-> dialled.host, key |-> dialled.key, old |-> dialled.old]}
  BY <1>1, <1>4, LinesAre DEF LineOf
<1>7. /\ Attempt(c).pin \in Keys
      /\ Lines' = {[host |-> Attempt(c).host, key |-> Attempt(c).pin, old |-> Attempt(c).old]}
  BY <1>5, <1>6
<1>8. DialInv' /\ Attempts' = {}
  BY <1>3, AttemptsAre DEF DialInv, Dialling
<1> QED
  BY <1>1, <1>2, <1>7, <1>8 DEF Line!Establish

(* Records are compared with their Boolean field as a value of any kind.         *)
LEMMA OldLine ==
  ASSUME NEW x, NEW t
  PROVE  [LineOf(x) EXCEPT !.old = t] = [host |-> x.host, key |-> x.key, old |-> t]
  BY DEF LineOf

LEMMA OldAttempt ==
  ASSUME NEW c, NEW t
  PROVE  [Attempt(c) EXCEPT !.old = t] =
           [host |-> copy.host, pin |-> IF pc[c] = "keep" THEN dialled.key ELSE copy.pin, old |-> t]
  BY DEF Attempt

(* A save makes the dial and the line old. *)
LEMMA SaveConfigures ==
  ASSUME TypeOK, TypeOK', DialInv, SaveForm
  PROVE  (Line!Configure \/ UNCHANGED Seen) /\ DialInv'
<1>0. UNCHANGED <<pc, copy, holder, closing>>
  BY DEF SaveForm, calls
<1>1. CASE row' = row
  <2>1. UNCHANGED <<overtaken, conn, dialled>>
    BY <1>1 DEF SaveForm
  <2> QED
    BY <1>0, <1>1, <2>1, Unseen
<1>2. CASE row' # row
  <2>1. row' \in Line!Settings
    BY DEF TypeOK, Settings, Line!Settings
  <2>2. overtaken' = (copy # NoForm) /\ conn' = Outdated(conn) /\ dialled' = Outdated(dialled)
    BY <1>2 DEF SaveForm
  <2>3. Lines' = Line!Aged(Lines)
    <3>1. CASE conn = NoConn
      BY <2>2, <3>1, LinesAre DEF Line!Aged, Outdated
    <3>2. CASE conn # NoConn
      <4>1. conn \in Conn /\ conn' = [conn EXCEPT !.old = TRUE]
        BY <2>2, <3>2 DEF TypeOK, Outdated
      <4>2. conn' \in Conn /\ conn'.host = conn.host /\ conn'.key = conn.key /\ conn'.old = TRUE
        BY <4>1 DEF Conn
      <4>3. conn' # NoConn
        BY <4>2, NoneAssumption
      <4>4. LineOf(conn') = [host |-> conn.host, key |-> conn.key, old |-> TRUE]
        BY <4>2, Zenon DEF LineOf
      <4>5. LineOf(conn') = [LineOf(conn) EXCEPT !.old = TRUE]
        BY <4>4, OldLine, Zenon
      <4> QED
        BY <3>2, <4>3, <4>5, LinesAre DEF Line!Aged
    <3> QED
      BY <3>1, <3>2
  <2>4. ASSUME NEW c \in Callers, pc[c] \in Dialling PROVE overtaken' = TRUE
    <3>1. copy # NoForm
      BY <2>4, HolderAlone DEF TypeOK, Free, Dialling
    <3> QED
      BY <2>2, <3>1
  <2>5. dialled # NoConn => dialled'.host = dialled.host /\ dialled'.key = dialled.key /\ dialled'.old = TRUE
    BY <2>2 DEF TypeOK, Outdated, Conn
  <2>6. Attempts' = Line!Aged(Attempts)
    <3>1. CASE \A c \in Callers : pc[c] \notin Dialling
      BY <1>0, <3>1, AttemptsAre DEF Line!Aged
    <3>2. ASSUME NEW c \in Callers, pc[c] \in Dialling PROVE Attempts' = Line!Aged(Attempts)
      <4>1. Attempts = {Attempt(c)} /\ Attempts' = {Attempt(c)'}
        BY <1>0, <3>2, AttemptsAre
      <4>2. overtaken' = TRUE /\ (pc[c] = "keep" => dialled'.key = dialled.key)
        BY <2>4, <2>5, <3>2 DEF TypeOK
      <4>3. Attempt(c)' = [host |-> copy.host,
                           pin |-> IF pc[c] = "keep" THEN dialled.key ELSE copy.pin, old |-> TRUE]
        BY <1>0, <4>2 DEF Attempt
      <4>4. Attempt(c)' = [Attempt(c) EXCEPT !.old = TRUE]
        BY <4>3, OldAttempt, Zenon
      <4> QED
        BY <4>1, <4>4 DEF Line!Aged
    <3> QED
      BY <3>1, <3>2
  <2>7. DialInv'
    BY <1>0, <2>4, <2>5 DEF DialInv, TypeOK, Dialling
  <2> QED
    BY <1>0, <2>1, <2>3, <2>6, <2>7 DEF Line!Configure
<1> QED
  BY <1>1, <1>2

(* Every step is a step of PinnedLine, or none that it sees. *)
LEMMA StepsFollow ==
  IInv /\ IInv' /\ DialInv /\ [Next]_vars => (Line!Next \/ UNCHANGED Seen) /\ DialInv'
<1> SUFFICES ASSUME IInv, IInv', DialInv, [Next]_vars PROVE (Line!Next \/ UNCHANGED Seen) /\ DialInv'
  OBVIOUS
<1>0. TypeOK /\ TypeOK' /\ LineInv
  BY DEF IInv
<1> USE <1>0 DEF page, calls, pulse, lock, line, bounds
<1>1. ASSUME NEW c \in Callers, Begin(c) \/ Outside(c) \/ Inside(c) \/ CommandEnds(c)
      PROVE  (Line!Next \/ UNCHANGED Seen) /\ DialInv'
  <2>1. CASE Begin(c) \/ ConnectFinds(c)
    BY <2>1, Unseen DEF Begin, ConnectFinds, Connected, Goes, TypeOK, Dialling
  <2>2. CASE ConnectRefused(c) \/ Take(c) \/ FnAnswers(c) \/ FnBreaks(c) \/ CommandEnds(c)
    <3>1. UNCHANGED <<row, copy, overtaken, conn, dialled, closing>>
      BY <2>2 DEF ConnectRefused, Take, FnAnswers, FnBreaks, CommandEnds
    <3>2. pc[c] \in {"connect", "take", "fn", "command"}
      BY <2>2 DEF ConnectRefused, Take, FnAnswers, FnBreaks, CommandEnds
    <3>3. \A d \in Callers : d # c => pc'[d] = pc[d]
      BY <2>2, ReturnsType DEF ConnectRefused, Take, FnAnswers, FnBreaks, CommandEnds, Goes, TypeOK
    <3>4. pc'[c] \in {"idle", "fn", "command", "drop"}
      BY <2>2, ReturnsType DEF ConnectRefused, Take, FnAnswers, FnBreaks, CommandEnds, Goes, TypeOK
    <3> QED
      BY <3>1, <3>2, <3>3, <3>4, Unseen DEF Dialling
  <2>3. CASE ConnectDials(c)
    BY <2>3, DialsBegin DEF Line!Next
  <2>4. CASE DropAndRetry(c)
    <3>1. disconnect /\ UNCHANGED <<row, holder, copy, overtaken, closing>>
      BY <2>4 DEF DropAndRetry
    <3>2. \A d \in Callers : pc'[d] \in Dialling => pc'[d] = pc[d]
      BY <2>4 DEF DropAndRetry, Goes, TypeOK, Dialling
    <3> QED
      BY <3>1, <3>2, DropsLine DEF Line!Next
  <2>5. CASE Dial(c) \/ OpenSftp(c)
    BY <2>5, DialsOn
  <2>6. CASE DialFails(c) \/ OpenSftpFails(c) \/ PinFails(c)
    BY <2>6, FailsDial DEF DialFails, OpenSftpFails, PinFails, Dialling, Line!Next
  <2>7. CASE Pin(c)
    BY <2>7, PinRecords DEF Line!Next
  <2>8. CASE Keep(c)
    BY <2>8, KeepEstablishes DEF Line!Next
  <2> QED
    BY <1>1, <2>1, <2>2, <2>3, <2>4, <2>5, <2>6, <2>7, <2>8 DEF Inside, Outside
<1>2. CASE Poke \/ PokeAnswered \/ PokeFails \/ KeepaliveExits \/ OpenForm \/ Rekey
  BY <1>2, Unseen DEF Poke, PokeAnswered, PokeFails, KeepaliveExits, OpenForm, Rekey
<1>3. CASE PokeDrops \/ CloseDrops
  BY <1>3, DropsLine DEF PokeDrops, CloseDrops, Line!Next
<1>4. CASE CloseBegins
  <2>1. \A d \in Callers : pc[d] \notin Dialling /\ pc'[d] \notin Dialling
    BY <1>4, NobodyDials DEF CloseBegins, Dialling
  <2>2. Attempts = {} /\ Attempts' = {} /\ Lines' = Lines /\ row' = row /\ closing' = "waiting"
    BY <1>4, <2>1, AttemptsAre, LinesAre DEF CloseBegins
  <2>3. DialInv'
    BY <2>1 DEF DialInv, Dialling
  <2> QED
    BY <2>2, <2>3 DEF Line!Next, Line!End
<1>5. CASE SaveForm
  BY <1>5, SaveConfigures DEF Line!Next
<1>6. CASE Break \/ GiveUp
  <2>1. UNCHANGED <<row, pc, copy, overtaken, closing>>
    BY <1>6 DEF Break, GiveUp
  <2>2. /\ (conn' = NoConn <=> conn = NoConn) /\ (dialled' = NoConn <=> dialled = NoConn)
        /\ conn # NoConn => conn'.host = conn.host /\ conn'.key = conn.key /\ conn'.old = conn.old
        /\ dialled # NoConn => /\ dialled'.host = dialled.host /\ dialled'.key = dialled.key
                               /\ dialled'.old = dialled.old
    BY <1>6, BreakConn DEF Break, GiveUp
  <2>3. \A c \in Callers : pc[c] \in {"open", "pin", "keep"} => dialled # NoConn
    BY DEF TypeOK
  <2>4. Attempts' = Attempts
    BY <2>1, <2>2, <2>3, SameAttempts
  <2>5. Lines' = Lines
    BY <2>2, LinesAre DEF LineOf
  <2>6. DialInv'
    BY <2>1, <2>2, <2>3 DEF DialInv
  <2> QED
    BY <2>1, <2>4, <2>5, <2>6 DEF Seen
<1>7. CASE UNCHANGED vars
  BY <1>7, Unseen DEF vars
<1> QED
  BY <1>1, <1>2, <1>3, <1>4, <1>5, <1>6, <1>7 DEF Next, Keepalive

(* The client implements PinnedLine: one line at most, opened with the key that  *)
(* the settings pin, which nobody but the user and dials by settings that were   *)
(* saved since replace.                                                          *)
THEOREM ImplementsPinnedLine == Spec => LineSpec
<1>1. Init => Line!Init
  <2> SUFFICES ASSUME Init PROVE Line!Init
    OBVIOUS
  <2>1. row \in Line!Settings
    BY FirstAssumption DEF Init, Line!Settings
  <2>2. Attempts = {} /\ Lines = {} /\ closing = "no"
    BY AttemptsAre, LinesAre DEF Init, Dialling
  <2> QED
    BY <2>1, <2>2 DEF Line!Init
<1>2. IInv /\ IInv' /\ DialInv /\ [Next]_vars => [Line!Next]_(Line!pinned) /\ DialInv'
  BY StepsFollow DEF Seen, Line!pinned
<1> QED
  BY <1>1, <1>2, InitDialInv, IInvHolds, PTL DEF Spec, LineSpec, Line!Spec
=============================================================================
