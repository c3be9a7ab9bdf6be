------------------------------ MODULE SftpPool ------------------------------
(***************************************************************************)
(* The SFTP connection pool, internal/sftpclient/sftpclient.go, for one    *)
(* remote server: HTTP handlers and workers that call it with a copy of    *)
(* the server's row, its mutex, the janitor, the pinning of the host key,  *)
(* and the user who edits or deletes the row meanwhile.                    *)
(*                                                                         *)
(* The mutex is held while a call dials and while it talks to the server,  *)
(* so the steps of one call do not interleave with other calls, but they   *)
(* do with the database, the network and the user.                         *)
(***************************************************************************)
EXTENDS Integers

CONSTANTS
    Callers,     \* goroutines that call the pool
    Hosts,       \* hosts the row may name
    Keys,        \* host keys
    NoKey, NoRow, NoConn, NoCaller,
    MaxEdits,    \* bound: edits of the row
    MaxRekeys,   \* bound: changes of a host's key
    MaxFaults    \* bound: failing dials, statements and connections

ASSUME BoundsAssumption == MaxEdits \in Nat /\ MaxRekeys \in Nat /\ MaxFaults \in Nat
ASSUME NamesAssumption  == NoKey \notin Keys /\ NoCaller \notin Callers

Row  == [host : Hosts, pin : Keys \cup {NoKey}]
Conn == [host : Hosts, key : Keys, state : {"live", "silent", "dead"}, old : BOOLEAN]

ASSUME NoneAssumption == NoRow \notin Row /\ NoConn \notin Conn

VARIABLES
    row,         \* the row of servers, NoRow once deleted
    key,         \* [Hosts -> Keys] the key each host has now
    pc,          \* [Callers -> ...] where each call is
    copy,        \* [Callers -> Row] the row the call read, NoRow outside a call
    overtaken,   \* history: [Callers -> BOOLEAN], the row has changed since
    holder,      \* who holds Pool.mu
    conn,        \* the pooled connection, NoConn if none
    dialled,     \* a connection that is not yet in the pool
    open,        \* connections that are open
    closed,      \* Pool.closed
    edits, rekeys, faults

calls  == <<pc, copy, overtaken>>
pool   == <<holder, conn, dialled, open, closed>>
bounds == <<edits, rekeys, faults>>
vars   == <<row, key, calls, pool, bounds>>

Fault == faults < MaxFaults /\ faults' = faults + 1 /\ UNCHANGED <<edits, rekeys>>

Init ==
    /\ row \in [host : Hosts, pin : {NoKey}]
    /\ key \in [Hosts -> Keys]
    /\ pc = [c \in Callers |-> "idle"]
    /\ copy = [c \in Callers |-> NoRow]
    /\ overtaken = [c \in Callers |-> FALSE]
    /\ holder = NoCaller
    /\ conn = NoConn /\ dialled = NoConn /\ open = 0
    /\ closed = FALSE
    /\ edits = 0 /\ rekeys = 0 /\ faults = 0

-----------------------------------------------------------------------------
(* A call. *)

Goes(c, where) == pc' = [pc EXCEPT ![c] = where]

(* The call is over. *)
Returns(c) ==
    /\ Goes(c, "idle")
    /\ copy' = [copy EXCEPT ![c] = NoRow]
    /\ overtaken' = [overtaken EXCEPT ![c] = FALSE]

Unlocks == holder' = NoCaller

Drop == conn' = NoConn /\ open' = IF conn = NoConn THEN open ELSE open - 1

(* GetServer; Test drops the pooled connection first, List and Size do not. *)
Load(c) ==
    /\ pc[c] = "idle" /\ row # NoRow
    /\ \E first \in {"drop", "do"} : Goes(c, first)
    /\ copy' = [copy EXCEPT ![c] = row]
    /\ overtaken' = [overtaken EXCEPT ![c] = FALSE]
    /\ UNCHANGED <<row, key, pool, bounds>>

TestDrops(c) ==
    /\ pc[c] = "drop" /\ holder = NoCaller
    /\ Drop
    /\ Goes(c, "do")
    /\ UNCHANGED <<row, key, copy, overtaken, holder, dialled, closed, bounds>>

(* do takes the mutex and looks for a connection. *)
Enter(c) ==
    /\ pc[c] = "do" /\ holder = NoCaller /\ ~closed
    /\ holder' = c
    /\ Goes(c, IF conn = NoConn THEN "dial" ELSE "try")
    /\ UNCHANGED <<row, key, copy, overtaken, conn, dialled, open, closed, bounds>>

EnterRefused(c) ==
    /\ pc[c] = "do" /\ holder = NoCaller /\ closed
    /\ Returns(c)
    /\ UNCHANGED <<row, key, pool, bounds>>

(* fn has an answer, or an error that does not mean a broken connection. *)
TryAnswers(c) ==
    /\ pc[c] = "try" /\ conn.state = "live"
    /\ Returns(c) /\ Unlocks
    /\ UNCHANGED <<row, key, conn, dialled, open, closed, bounds>>

(* Seeded bug: the broken connection is forgotten, not closed. *)
TryBrokenLeaks(c) ==
    /\ pc[c] = "try" /\ conn.state = "dead"
    /\ conn' = NoConn
    /\ Goes(c, "dial")
    /\ UNCHANGED <<row, key, copy, overtaken, holder, dialled, open, closed, bounds>>

TryBroken(c) ==
    /\ pc[c] = "try" /\ conn.state = "dead"
    /\ Drop
    /\ Goes(c, "dial")
    /\ UNCHANGED <<row, key, copy, overtaken, holder, dialled, closed, bounds>>

(* A new connection, to the host that the copy names. *)
Connects(c) ==
    /\ dialled' = [host |-> copy[c].host, key |-> key[copy[c].host],
                   state |-> "live", old |-> overtaken[c]]
    /\ open' = open + 1

(* Seeded bug: whatever key the host presents is accepted and recorded. *)
DialAccepts(c) ==
    /\ pc[c] = "dial"
    /\ Connects(c)
    /\ Goes(c, "pin")
    /\ UNCHANGED <<row, key, copy, overtaken, holder, conn, closed, bounds>>

(* Seeded bug: the key is not recorded. *)
DialForgets(c) ==
    /\ pc[c] = "dial"
    /\ copy[c].pin \in {NoKey, key[copy[c].host]}
    /\ Connects(c)
    /\ Goes(c, "pool")
    /\ UNCHANGED <<row, key, copy, overtaken, holder, conn, closed, bounds>>

(* The handshake, with the key the copy has pinned, or with any key when it has none. *)
Dial(c) ==
    /\ pc[c] = "dial"
    /\ copy[c].pin \in {NoKey, key[copy[c].host]}
    /\ Connects(c)
    /\ Goes(c, IF copy[c].pin = NoKey THEN "pin" ELSE "pool")
    /\ UNCHANGED <<row, key, copy, overtaken, holder, conn, closed, bounds>>

(* Seeded bug: the mutex is not released. *)
DialFailsLocked(c) ==
    /\ pc[c] = "dial"
    /\ IF copy[c].pin \in {NoKey, key[copy[c].host]} THEN Fault ELSE UNCHANGED bounds
    /\ Returns(c)
    /\ UNCHANGED <<row, key, pool>>

(* The key differs (ErrHostKeyChanged), or the host is not there. *)
DialFails(c) ==
    /\ pc[c] = "dial"
    /\ IF copy[c].pin \in {NoKey, key[copy[c].host]} THEN Fault ELSE UNCHANGED bounds
    /\ Returns(c) /\ Unlocks
    /\ UNCHANGED <<row, key, conn, dialled, open, closed>>

(* Whoever has a copy of the row has an old one now. *)
Overtakes(C) == overtaken' = [c \in Callers |-> overtaken[c] \/ (c \in C /\ copy[c] # NoRow)]

(* SetServerHostKey *)
Pin(c) ==
    /\ pc[c] = "pin" /\ row # NoRow
    /\ row' = [row EXCEPT !.pin = dialled.key]
    /\ IF row' = row THEN UNCHANGED overtaken ELSE Overtakes(Callers \ {c})
    /\ Goes(c, "pool")
    /\ UNCHANGED <<key, copy, pool, bounds>>

(* The row has gone, or the statement fails: the new connection is closed. *)
PinFails(c) ==
    /\ pc[c] = "pin"
    /\ IF row = NoRow THEN UNCHANGED bounds ELSE Fault
    /\ dialled' = NoConn /\ open' = open - 1
    /\ Returns(c) /\ Unlocks
    /\ UNCHANGED <<row, key, conn, closed>>

(* p.conns[s.ID] = c *)
Pooled(c) ==
    /\ pc[c] = "pool"
    /\ conn' = dialled /\ dialled' = NoConn
    /\ Goes(c, "use")
    /\ UNCHANGED <<row, key, copy, overtaken, holder, open, closed, bounds>>

(* fn's second chance; an error leaves the connection in the pool, broken or not. *)
Use(c) ==
    /\ pc[c] = "use" /\ conn.state # "silent"
    /\ Returns(c) /\ Unlocks
    /\ UNCHANGED <<row, key, conn, dialled, open, closed, bounds>>

-----------------------------------------------------------------------------
(* The pool's own goroutine, and shutdown. *)

(* evictIdle, once the connection has not been used for long enough. *)
Evict ==
    /\ holder = NoCaller /\ ~closed /\ conn # NoConn
    /\ Drop
    /\ UNCHANGED <<row, key, calls, holder, dialled, closed, bounds>>

Close ==
    /\ holder = NoCaller /\ ~closed
    /\ closed' = TRUE
    /\ Drop
    /\ UNCHANGED <<row, key, calls, holder, dialled, bounds>>

-----------------------------------------------------------------------------
(* The user and the network. *)

Outdated(x) == IF x = NoConn THEN x ELSE [x EXCEPT !.old = TRUE]

(* A new row, or none: copies and connections belong to the one before. *)
RowBecomes(r) ==
    /\ row' = r
    /\ IF r = row THEN UNCHANGED <<overtaken, conn, dialled>>
                  ELSE Overtakes(Callers) /\ conn' = Outdated(conn) /\ dialled' = Outdated(dialled)

(* updateServer: the form sends every field, the pinned key among them. *)
UpdateServer ==
    /\ row # NoRow
    /\ edits < MaxEdits /\ edits' = edits + 1
    /\ \E r \in Row : RowBecomes(r)
    /\ UNCHANGED <<key, pc, copy, holder, open, closed, rekeys, faults>>

DeleteServer ==
    /\ row # NoRow
    /\ edits < MaxEdits /\ edits' = edits + 1
    /\ RowBecomes(NoRow)
    /\ UNCHANGED <<key, pc, copy, holder, open, closed, rekeys, faults>>

Rekey ==
    /\ rekeys < MaxRekeys /\ rekeys' = rekeys + 1
    /\ \E h \in Hosts, k \in Keys : k # key[h] /\ key' = [key EXCEPT ![h] = k]
    /\ UNCHANGED <<row, calls, pool, edits, faults>>

(* The connection breaks: an operation on it fails, or waits for an answer. *)
Break ==
    /\ conn # NoConn /\ conn.state = "live"
    /\ Fault
    /\ \E s \in {"silent", "dead"} : conn' = [conn EXCEPT !.state = s]
    /\ UNCHANGED <<row, key, calls, holder, dialled, open, closed>>

(* The operating system gives a silent connection up. *)
GiveUp ==
    /\ conn # NoConn /\ conn.state = "silent"
    /\ conn' = [conn EXCEPT !.state = "dead"]
    /\ UNCHANGED <<row, key, calls, holder, dialled, open, closed, bounds>>

-----------------------------------------------------------------------------
Locked(c) ==
    \/ TryAnswers(c) \/ TryBroken(c) \/ Dial(c) \/ DialFails(c)
    \/ Pin(c) \/ PinFails(c) \/ Pooled(c) \/ Use(c)

Call(c) == Load(c) \/ TestDrops(c) \/ Enter(c) \/ EnterRefused(c) \/ Locked(c)

Next ==
    \/ \E c \in Callers : Call(c)
    \/ Evict \/ Close
    \/ UpdateServer \/ DeleteServer
    \/ Rekey \/ Break \/ GiveUp

Spec == Init /\ [][Next]_vars

(* Go runs whoever can run and hands the mutex to every waiter in the end, and *)
(* the operating system gives silent connections up: nothing of the repository *)
(* does.                                                                       *)
Fairness ==
    /\ \A c \in Callers :
         WF_vars(Locked(c)) /\ SF_vars(TestDrops(c) \/ Enter(c) \/ EnterRefused(c))
    /\ WF_vars(GiveUp)

FairSpec == Spec /\ Fairness

-----------------------------------------------------------------------------
(* Properties. *)

(* The variables have the types the declarations give them, and the mutex is    *)
(* held by the one call that is inside.                                         *)
TypeOK ==
    /\ row \in Row \cup {NoRow}
    /\ key \in [Hosts -> Keys]
    /\ pc \in [Callers -> {"idle", "drop", "do", "try", "dial", "pin", "pool", "use"}]
    /\ copy \in [Callers -> Row \cup {NoRow}]
    /\ overtaken \in [Callers -> BOOLEAN]
    /\ holder \in Callers \cup {NoCaller}
    /\ \A c \in Callers :
         /\ pc[c] # "idle" => copy[c] # NoRow
         /\ pc[c] \in {"try", "dial", "pin", "pool", "use"} <=> holder = c
         /\ pc[c] \in {"pin", "pool"} => dialled # NoConn
         /\ pc[c] \in {"try", "use"} => conn # NoConn
    /\ conn \in Conn \cup {NoConn} /\ dialled \in Conn \cup {NoConn}
    /\ open \in Int /\ closed \in BOOLEAN
    /\ edits \in 0..MaxEdits /\ rekeys \in 0..MaxRekeys /\ faults \in 0..MaxFaults

(* "Pool keeps at most one connection per server alive" (sftpclient.go:58),     *)
(* through errors at every point of a dial, and none after Close.               *)
OneConnection == open \in {0, 1} /\ (closed => open = 0)

(* The pooled connection is to the host of the row and has the key pinned there, *)
(* unless the row was changed after the call that dialled it had read it.       *)
PooledKeyIsPinned == conn # NoConn /\ ~conn.old => row = [host |-> conn.host, pin |-> conn.key]

(* What these two rest on: connections are counted right, none is pooled while   *)
(* one is being dialled or after Close, and a copy that was not overtaken is the *)
(* row, until its call has recorded a key in the row.                            *)
PoolInv ==
    /\ open = (IF conn = NoConn THEN 0 ELSE 1) + (IF dialled = NoConn THEN 0 ELSE 1)
    /\ closed => holder = NoCaller /\ conn = NoConn
    /\ dialled # NoConn => \E c \in Callers : pc[c] \in {"pin", "pool"}
    /\ \A c \in Callers :
         /\ pc[c] \in {"dial", "pin", "pool"} => conn = NoConn
         /\ pc[c] = "dial" => dialled = NoConn
         /\ pc[c] = "pin" => copy[c].pin = NoKey
         /\ pc[c] \notin {"idle", "pool", "use"} /\ ~overtaken[c] => copy[c] = row
         /\ pc[c] = "pool" /\ ~dialled.old => row = [host |-> dialled.host, pin |-> dialled.key]
    /\ PooledKeyIsPinned

(* "never auto-accepted" (sftpclient.go:25-27): connecting replaces a recorded   *)
(* key only when the call read the row before that key was recorded.             *)
PinReplacedOnlyByOldCopy ==
    [][\A c \in Callers :
          pc[c] = "pin" /\ pc'[c] = "pool" /\ row.pin # NoKey /\ row'.pin # row.pin => overtaken[c]]_vars

(* The dial of the call inside, by its copy of the row until a key is recorded. *)
Attempts ==
    {[host |-> copy[c].host, pin |-> IF pc[c] = "pool" THEN dialled.key ELSE copy[c].pin, old |-> overtaken[c]] :
       c \in {d \in Callers : pc[d] \in {"dial", "pin", "pool"}}}

Lines == {[host |-> x.host, key |-> x.key, old |-> x.old] : x \in {conn} \ {NoConn}}

(* The pool's connection is the line that PinnedLine describes: one, to the host *)
(* of the row, opened with the key it pins and "never auto-accepted"             *)
(* (sftpclient.go:25-27), apart from copies that the row has overtaken, through  *)
(* every call, drop, edit and failure.                                           *)
Line == INSTANCE PinnedLine WITH
          settings <- row, attempts <- Attempts, lines <- Lines, ended <- closed, NoSettings <- NoRow
LineSpec == Line!Spec

(* Every call comes to its end, also when it finds a broken connection, as does  *)
(* every one that waits for the mutex meanwhile.                                 *)
CallsEnd == \A c \in Callers : pc[c] # "idle" ~> pc[c] = "idle"
=============================================================================
