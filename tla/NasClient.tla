----------------------------- MODULE NasClient -----------------------------
(***************************************************************************)
(* The one SSH and SFTP connection to the NAS, internal/nas/nas.go: the    *)
(* calls that share it (do with its retry; Run, and stream of lftp.go,     *)
(* without one), the keepalive goroutine, Close, the pinning of the NAS's  *)
(* host key in the settings, and the settings page that edits them.        *)
(*                                                                         *)
(* Client.mu is held while connect dials and for the short sections that   *)
(* read or clear the connection, but not while the connection is used: it  *)
(* can be replaced under a call that is using it.                          *)
(***************************************************************************)
EXTENDS Integers

CONSTANTS
    Callers,     \* goroutines that call the client: workers, handlers, the startup probes
    Hosts,       \* hosts the settings may name
    Keys,        \* host keys
    NoKey, NoForm, NoConn, NoCaller,
    FirstHost,   \* the host the settings name first
    FirstKeys,   \* [Hosts -> Keys] the keys the hosts have first
    MaxChanges,  \* bound: saves of the settings page and changes of a host's key
    MaxFaults    \* bound: failing dials, statements and connections

ASSUME BoundsAssumption == MaxChanges \in Nat /\ MaxFaults \in Nat
ASSUME NamesAssumption  == NoKey \notin Keys /\ NoCaller \notin Callers

Settings == [host : Hosts, pin : Keys \cup {NoKey}]
Conn     == [host : Hosts, key : Keys, state : {"live", "silent", "dead"}, old : BOOLEAN]

ASSUME FirstAssumption == FirstHost \in Hosts /\ FirstKeys \in [Hosts -> Keys]
ASSUME NoneAssumption  == NoForm \notin Settings /\ NoConn \notin Conn

VARIABLES
    row,         \* settings.nas_host and settings.nas_host_key
    form,        \* what an open settings page shows of them, NoForm if there is none
    key,         \* [Hosts -> Keys] the key each host has now
    pc,          \* [Callers -> ...] where each call is
    kind,        \* [Callers -> {"do", "run"}] "run" is Run or stream
    attempt,     \* [Callers -> {0, 1}] do's loop counter
    mine,        \* [Callers -> {"none", "current", "gone"}] the connection the call uses
    beat,        \* the keepalive goroutine
    beatMine,    \* the connection it pokes
    holder,      \* the call that holds Client.mu to dial
    copy,        \* the settings it read
    overtaken,   \* history: the settings have changed since
    conn,        \* Client.ssh and Client.sftp
    dialled,     \* a connection that is not there yet
    open,        \* connections that are open
    closing,     \* "no", "waiting" (Close waits for the keepalive), "closed"
    changes, faults

page   == <<row, form>>
calls  == <<pc, kind, attempt, mine>>
pulse  == <<beat, beatMine>>
lock   == <<holder, copy, overtaken>>
line   == <<conn, dialled, open>>
bounds == <<changes, faults>>
vars   == <<page, key, calls, pulse, lock, line, closing, bounds>>

Fault == faults < MaxFaults /\ faults' = faults + 1 /\ UNCHANGED changes

Init ==
    /\ row = [host |-> FirstHost, pin |-> NoKey]
    /\ form = NoForm
    /\ key = FirstKeys
    /\ pc = [c \in Callers |-> "idle"]
    /\ kind = [c \in Callers |-> "do"]
    /\ attempt = [c \in Callers |-> 0]
    /\ mine = [c \in Callers |-> "none"]
    /\ beat = "wait" /\ beatMine = "none"
    /\ holder = NoCaller /\ copy = NoForm /\ overtaken = FALSE
    /\ conn = NoConn /\ dialled = NoConn /\ open = 0
    /\ closing = "no"
    /\ changes = 0 /\ faults = 0

-----------------------------------------------------------------------------
(* The connection. *)

Free == holder = NoCaller

Lost(m) == IF m = "current" THEN "gone" ELSE m

(* Seeded bug: a connection is forgotten without being closed. *)
disconnectForgets ==
    /\ Free
    /\ conn' = NoConn
    /\ mine' = [c \in Callers |-> Lost(mine[c])] /\ beatMine' = Lost(beatMine)
    /\ UNCHANGED <<dialled, open>>

(* disconnect closes whatever connection there is now, under every call that uses it. *)
disconnect ==
    /\ Free
    /\ conn' = NoConn /\ open' = IF conn = NoConn THEN open ELSE open - 1
    /\ mine' = [c \in Callers |-> Lost(mine[c])] /\ beatMine' = Lost(beatMine)
    /\ UNCHANGED dialled

IsIn(x, state) == x # NoConn /\ x.state = state

(* The connection behind m is of no use any more, or works. *)
IsBroken(m) == m = "gone" \/ (m = "current" /\ IsIn(conn, "dead"))
Answers(m)  == m = "current" /\ IsIn(conn, "live")

-----------------------------------------------------------------------------
(* A call: connect. *)

Goes(c, where) == pc' = [pc EXCEPT ![c] = where]

(* The call is over. *)
Returns(c) ==
    /\ Goes(c, "idle")
    /\ kind' = [kind EXCEPT ![c] = "do"]
    /\ attempt' = [attempt EXCEPT ![c] = 0]
    /\ mine' = [mine EXCEPT ![c] = "none"]

Unlocks == holder' = NoCaller /\ copy' = NoForm /\ overtaken' = FALSE

Begin(c) ==
    /\ pc[c] = "idle"
    /\ \E k \in {"do", "run"} : kind' = [kind EXCEPT ![c] = k]
    /\ Goes(c, "connect")
    /\ UNCHANGED <<page, key, attempt, mine, pulse, lock, line, closing, bounds>>

(* connect has a connection: do uses it, Run looks for it once more. *)
Connected(c) ==
    IF kind[c] = "do" THEN Goes(c, "fn") /\ mine' = [mine EXCEPT ![c] = "current"]
                      ELSE Goes(c, "take") /\ UNCHANGED mine

ConnectFinds(c) ==
    /\ pc[c] = "connect" /\ Free /\ closing = "no"
    /\ conn # NoConn
    /\ Connected(c)
    /\ UNCHANGED <<page, key, kind, attempt, pulse, lock, line, closing, bounds>>

ConnectRefused(c) ==
    /\ pc[c] = "connect" /\ Free /\ closing # "no"
    /\ Returns(c)
    /\ UNCHANGED <<page, key, pulse, lock, line, closing, bounds>>

(* There is none: the settings are read and the mutex is kept. *)
ConnectDials(c) ==
    /\ pc[c] = "connect" /\ Free /\ closing = "no"
    /\ conn = NoConn
    /\ holder' = c /\ copy' = row /\ overtaken' = FALSE
    /\ Goes(c, "dial")
    /\ UNCHANGED <<page, key, kind, attempt, mine, pulse, line, closing, bounds>>

(* A new connection, to the host that the copy names. *)
Handshake(c) ==
    /\ dialled' = [host |-> copy.host, key |-> key[copy.host], state |-> "live", old |-> overtaken]
    /\ open' = open + 1
    /\ Goes(c, "open")

(* Seeded bug: whatever key the NAS presents is accepted. *)
DialAccepts(c) ==
    /\ pc[c] = "dial"
    /\ Handshake(c)
    /\ UNCHANGED <<page, key, kind, attempt, mine, pulse, lock, conn, closing, bounds>>

(* Seeded bug: a key that differs is taken for one seen for the first time. *)
DialTrustsAnew(c) ==
    /\ pc[c] = "dial"
    /\ Handshake(c)
    /\ copy' = [copy EXCEPT !.pin = IF @ = key[copy.host] THEN @ ELSE NoKey]
    /\ UNCHANGED <<page, key, kind, attempt, mine, pulse, holder, overtaken, conn, closing, bounds>>

(* The handshake, with the key the copy has pinned, or with any key when it has none. *)
Dial(c) ==
    /\ pc[c] = "dial"
    /\ copy.pin \in {NoKey, key[copy.host]}
    /\ Handshake(c)
    /\ UNCHANGED <<page, key, kind, attempt, mine, pulse, lock, conn, closing, bounds>>

(* Not configured, no host there, or another key: ErrHostKeyChanged. *)
DialFails(c) ==
    /\ pc[c] = "dial"
    /\ IF copy.pin \in {NoKey, key[copy.host]} THEN Fault ELSE UNCHANGED bounds
    /\ Returns(c) /\ Unlocks
    /\ UNCHANGED <<page, key, pulse, line, closing>>

(* sftp.NewClient, after the deadline was cleared: an answer has to come. *)
OpenSftp(c) ==
    /\ pc[c] = "open" /\ dialled.state = "live"
    /\ Goes(c, IF copy.pin = NoKey THEN "pin" ELSE "keep")
    /\ UNCHANGED <<page, key, kind, attempt, mine, pulse, lock, line, closing, bounds>>

GivesBack == dialled' = NoConn /\ open' = open - 1

(* Seeded bug: the mutex is not released. *)
OpenSftpFailsLocked(c) ==
    /\ pc[c] = "open" /\ IsIn(dialled, "dead")
    /\ GivesBack
    /\ Returns(c)
    /\ UNCHANGED <<page, key, pulse, lock, conn, closing, bounds>>

OpenSftpFails(c) ==
    /\ pc[c] = "open"
    /\ \/ IsIn(dialled, "dead") /\ UNCHANGED bounds
       \/ IsIn(dialled, "live") /\ Fault
    /\ GivesBack
    /\ Returns(c) /\ Unlocks
    /\ UNCHANGED <<page, key, pulse, conn, closing>>

(* SetSettings writes nas_host_key, whatever the settings say by now. *)
Pin(c) ==
    /\ pc[c] = "pin"
    /\ row' = [row EXCEPT !.pin = dialled.key]
    /\ Goes(c, "keep")
    /\ UNCHANGED <<form, key, kind, attempt, mine, pulse, lock, line, closing, bounds>>

PinFails(c) ==
    /\ pc[c] = "pin"
    /\ Fault
    /\ GivesBack
    /\ Returns(c) /\ Unlocks
    /\ UNCHANGED <<page, key, pulse, conn, closing>>

(* c.ssh, c.sftp = client, sc *)
Keep(c) ==
    /\ pc[c] = "keep"
    /\ conn' = dialled /\ dialled' = NoConn
    /\ Connected(c) /\ Unlocks
    /\ UNCHANGED <<page, key, kind, attempt, pulse, open, closing, bounds>>

-----------------------------------------------------------------------------
(* A call: do, and Run or stream. *)

(* Seeded bug: that there is one is taken for granted. *)
TakeBlindly(c) ==
    /\ pc[c] = "take" /\ Free
    /\ Goes(c, "fn") /\ mine' = [mine EXCEPT ![c] = "current"]
    /\ UNCHANGED <<page, key, kind, attempt, pulse, lock, line, closing, bounds>>

(* Run reads c.ssh under the mutex, after connect has let go of it. *)
Take(c) ==
    /\ pc[c] = "take" /\ Free
    /\ IF conn = NoConn THEN Returns(c)
       ELSE /\ Goes(c, "fn") /\ mine' = [mine EXCEPT ![c] = "current"]
            /\ UNCHANGED <<kind, attempt>>
    /\ UNCHANGED <<page, key, pulse, lock, line, closing, bounds>>

(* fn has an answer or an error that leaves the connection alone; for Run the *)
(* session is there and the command starts.                                   *)
FnAnswers(c) ==
    /\ pc[c] = "fn" /\ Answers(mine[c])
    /\ \/ Returns(c)
       \/ kind[c] = "run" /\ Goes(c, "command") /\ UNCHANGED <<kind, attempt, mine>>
    /\ UNCHANGED <<page, key, pulse, lock, line, closing, bounds>>

(* isBroken: do tries a second time, once; Run does not. *)
FnBreaks(c) ==
    /\ pc[c] = "fn" /\ IsBroken(mine[c])
    /\ IF kind[c] = "do" /\ attempt[c] = 0
       THEN /\ Goes(c, "drop") /\ mine' = [mine EXCEPT ![c] = "none"]
            /\ UNCHANGED <<kind, attempt>>
       ELSE Returns(c)
    /\ UNCHANGED <<page, key, pulse, lock, line, closing, bounds>>

DropAndRetry(c) ==
    /\ pc[c] = "drop"
    /\ disconnect
    /\ Goes(c, "connect")
    /\ attempt' = [attempt EXCEPT ![c] = 1]
    /\ UNCHANGED <<page, key, kind, beat, lock, closing, bounds>>

(* The command ends, or the context of the call does. *)
CommandEnds(c) ==
    /\ pc[c] = "command"
    /\ Returns(c)
    /\ UNCHANGED <<page, key, pulse, lock, line, closing, bounds>>

CommandBreaks(c) == pc[c] = "command" /\ IsBroken(mine[c]) /\ CommandEnds(c)

-----------------------------------------------------------------------------
(* keepalive and Close. *)

(* A tick; without a connection there is nothing to do. *)
Poke ==
    /\ beat = "wait" /\ Free /\ conn # NoConn
    /\ beat' = "poke" /\ beatMine' = "current"
    /\ UNCHANGED <<page, key, calls, lock, line, closing, bounds>>

PokeAnswered ==
    /\ beat = "poke" /\ Answers(beatMine)
    /\ beat' = "wait" /\ beatMine' = "none"
    /\ UNCHANGED <<page, key, calls, lock, line, closing, bounds>>

(* Seeded bug: the error of SendRequest is ignored. *)
PokeFailsUnnoticed ==
    /\ beat = "poke" /\ IsBroken(beatMine)
    /\ beat' = "wait" /\ beatMine' = "none"
    /\ UNCHANGED <<page, key, calls, lock, line, closing, bounds>>

PokeFails ==
    /\ beat = "poke" /\ IsBroken(beatMine)
    /\ beat' = "drop" /\ beatMine' = "none"
    /\ UNCHANGED <<page, key, calls, lock, line, closing, bounds>>

PokeDrops ==
    /\ beat = "drop"
    /\ disconnect
    /\ beat' = "wait"
    /\ UNCHANGED <<page, key, pc, kind, attempt, lock, closing, bounds>>

(* Seeded bug: the goroutine looks at what Close sets last. *)
KeepaliveExitsLate ==
    /\ beat = "wait" /\ closing = "closed"
    /\ beat' = "exited"
    /\ UNCHANGED <<page, key, calls, beatMine, lock, line, closing, bounds>>

KeepaliveExits ==
    /\ beat = "wait" /\ closing # "no"
    /\ beat' = "exited"
    /\ UNCHANGED <<page, key, calls, beatMine, lock, line, closing, bounds>>

(* closed = true, close(c.stop) *)
CloseBegins ==
    /\ closing = "no" /\ Free
    /\ closing' = "waiting"
    /\ UNCHANGED <<page, key, calls, pulse, lock, line, bounds>>

(* After <-c.done. *)
CloseDrops ==
    /\ closing = "waiting" /\ beat = "exited"
    /\ disconnect
    /\ closing' = "closed"
    /\ UNCHANGED <<page, key, pc, kind, attempt, beat, lock, bounds>>

-----------------------------------------------------------------------------
(* The user and the network. *)

(* The settings page loads; it can stay open for long before it is saved. *)
OpenForm ==
    /\ form = NoForm /\ changes < MaxChanges
    /\ form' = row
    /\ UNCHANGED <<row, key, calls, pulse, lock, line, closing, bounds>>

Outdated(x) == IF x = NoConn THEN x ELSE [x EXCEPT !.old = TRUE]

(* Save and Clear send every setting the page has loaded, the key among them. *)
SaveForm ==
    /\ form # NoForm
    /\ changes < MaxChanges /\ changes' = changes + 1
    /\ \E h \in Hosts, p \in {form.pin, NoKey} : row' = [host |-> h, pin |-> p]
    /\ form' = NoForm
    /\ IF row' = row THEN UNCHANGED <<overtaken, conn, dialled>>
       ELSE /\ overtaken' = (copy # NoForm)
            /\ conn' = Outdated(conn) /\ dialled' = Outdated(dialled)
    /\ UNCHANGED <<key, calls, pulse, holder, copy, open, closing, faults>>

Rekey ==
    /\ changes < MaxChanges /\ changes' = changes + 1
    /\ \E h \in Hosts, k \in Keys : k # key[h] /\ key' = [key EXCEPT ![h] = k]
    /\ UNCHANGED <<page, calls, pulse, lock, line, closing, faults>>

(* The connection breaks: what uses it fails, or waits for an answer. *)
Break ==
    /\ Fault
    /\ \E s \in {"silent", "dead"} :
         \/ IsIn(conn, "live") /\ conn' = [conn EXCEPT !.state = s] /\ UNCHANGED dialled
         \/ IsIn(dialled, "live") /\ dialled' = [dialled EXCEPT !.state = s] /\ UNCHANGED conn
    /\ UNCHANGED <<page, key, calls, pulse, lock, open, closing>>

(* The operating system gives a silent connection up. *)
GiveUp ==
    /\ \/ IsIn(conn, "silent") /\ conn' = [conn EXCEPT !.state = "dead"] /\ UNCHANGED dialled
       \/ IsIn(dialled, "silent") /\ dialled' = [dialled EXCEPT !.state = "dead"] /\ UNCHANGED conn
    /\ UNCHANGED <<page, key, calls, pulse, lock, open, closing, bounds>>

-----------------------------------------------------------------------------
(* Steps that wait for nothing but what they are asking for. *)
Inside(c) ==
    \/ Dial(c) \/ DialFails(c) \/ OpenSftp(c) \/ OpenSftpFails(c)
    \/ Pin(c) \/ PinFails(c) \/ Keep(c)
    \/ FnAnswers(c) \/ FnBreaks(c)

(* Steps that wait for the mutex. *)
Outside(c) ==
    \/ ConnectFinds(c) \/ ConnectRefused(c) \/ ConnectDials(c)
    \/ Take(c) \/ DropAndRetry(c)

Keepalive == Poke \/ PokeAnswered \/ PokeFails \/ PokeDrops \/ KeepaliveExits

Next ==
    \/ \E c \in Callers : Begin(c) \/ Outside(c) \/ Inside(c) \/ CommandEnds(c)
    \/ Keepalive
    \/ CloseBegins \/ CloseDrops
    \/ OpenForm \/ SaveForm
    \/ Rekey \/ Break \/ GiveUp

Spec == Init /\ [][Next]_vars

(* Go runs whoever can run and hands the mutex to every waiter in the end, the *)
(* ticker ticks, select takes a ready case at random, and the operating system *)
(* gives silent connections up.  Commands need not end, and nobody has to      *)
(* begin a call.                                                               *)
Fairness ==
    /\ \A c \in Callers : WF_vars(Inside(c) \/ CommandBreaks(c)) /\ SF_vars(Outside(c))
    /\ WF_vars(PokeAnswered \/ PokeFails)
    /\ SF_vars(Poke \/ PokeDrops) /\ SF_vars(KeepaliveExits)
    /\ SF_vars(CloseDrops)
    /\ WF_vars(GiveUp)

FairSpec == Spec /\ Fairness

-----------------------------------------------------------------------------
(* Properties. *)

(* The variables have the types the declarations give them, and the mutex is    *)
(* held by the one call that dials.                                             *)
TypeOK ==
    /\ row \in Settings /\ form \in Settings \cup {NoForm}
    /\ key \in [Hosts -> Keys]
    /\ pc \in [Callers -> {"idle", "connect", "dial", "open", "pin", "keep",
                           "take", "fn", "command", "drop"}]
    /\ kind \in [Callers -> {"do", "run"}]
    /\ attempt \in [Callers -> {0, 1}]
    /\ mine \in [Callers -> {"none", "current", "gone"}]
    /\ beat \in {"wait", "poke", "drop", "exited"}
    /\ beatMine \in {"none", "current", "gone"}
    /\ holder \in Callers \cup {NoCaller}
    /\ copy \in Settings \cup {NoForm} /\ overtaken \in BOOLEAN
    /\ \A c \in Callers :
         /\ pc[c] \in {"dial", "open", "pin", "keep"} <=> holder = c
         /\ pc[c] \in {"open", "pin", "keep"} => dialled # NoConn
         /\ mine[c] = "current" => conn # NoConn
    /\ beatMine = "current" => conn # NoConn
    /\ copy = NoForm <=> holder = NoCaller
    /\ conn \in Conn \cup {NoConn} /\ dialled \in Conn \cup {NoConn}
    /\ open \in Int
    /\ closing \in {"no", "waiting", "closed"}
    /\ changes \in 0..MaxChanges /\ faults \in 0..MaxFaults

(* There is one connection to the NAS at most, through drops by several calls    *)
(* and errors at every point of a dial, and none after Close.                    *)
OneConnection == open \in {0, 1} /\ (closing = "closed" => open = 0)

(* The connection in use is to the host the settings name, and its key is the    *)
(* one pinned there, unless the settings were changed after the call that        *)
(* dialled it had read them.                                                     *)
KeyIsPinned == conn # NoConn /\ ~conn.old => row = [host |-> conn.host, pin |-> conn.key]

(* What these two rest on: connections are counted right, there is none where    *)
(* one is being dialled or after Close, and a copy of the settings that was not  *)
(* overtaken is the settings, until its call has recorded a key in them.         *)
LineInv ==
    /\ open = (IF conn = NoConn THEN 0 ELSE 1) + (IF dialled = NoConn THEN 0 ELSE 1)
    /\ closing # "no" => Free
    /\ closing = "closed" => conn = NoConn
    /\ dialled # NoConn => ~Free
    /\ ~Free => conn = NoConn
    /\ \A c \in Callers :
         /\ pc[c] = "dial" => dialled = NoConn
         /\ pc[c] \in {"dial", "open", "pin"} /\ ~overtaken => copy = row
         /\ pc[c] = "pin" => copy.pin = NoKey
         /\ pc[c] \in {"open", "pin", "keep"} /\ ~dialled.old =>
              /\ ~overtaken
              /\ dialled.host = copy.host
              /\ copy.pin \in {NoKey, dialled.key}
         /\ pc[c] = "keep" /\ ~dialled.old => row = [host |-> dialled.host, pin |-> dialled.key]
    /\ KeyIsPinned

(* "a changed key is never auto-accepted" (nas.go:29): connecting replaces a     *)
(* recorded key only when the settings were saved after the call had read them.  *)
PinReplacedOnlyByOldCopy ==
    [][\A c \in Callers :
          pc[c] = "pin" /\ pc'[c] = "keep" /\ row.pin # NoKey /\ row'.pin # row.pin => overtaken]_vars

(* The dial of the call that holds the mutex, by the settings it read until a key *)
(* is recorded.                                                                  *)
Attempts ==
    {[host |-> copy.host, pin |-> IF pc[c] = "keep" THEN dialled.key ELSE copy.pin, old |-> overtaken] :
       c \in {d \in Callers : pc[d] \in {"dial", "open", "pin", "keep"}}}

Lines == {[host |-> x.host, key |-> x.key, old |-> x.old] : x \in {conn} \ {NoConn}}

(* The connection to the NAS is the line that PinnedLine describes: one, to the  *)
(* host that the settings name, opened with the key they pin, and "a changed key *)
(* is never auto-accepted" (nas.go:29), apart from settings that were saved      *)
(* after a call had read them, through every call, drop, save, failure and Close.*)
Line == INSTANCE PinnedLine WITH
          settings <- row, attempts <- Attempts, lines <- Lines, ended <- (closing # "no"), NoSettings <- NoForm
LineSpec == Line!Spec

(* Every call ends, or has its session and waits for its command, however the    *)
(* connection fails and whoever else waits for the mutex.                        *)
CallsEnd == \A c \in Callers : pc[c] # "idle" ~> pc[c] \in {"idle", "command"}

(* A broken connection does not stay for the next job to find: the keepalive     *)
(* replaces what Run and stream leave behind (nas.go:85-86).                     *)
BrokenIsDropped == conn # NoConn /\ ~IsIn(conn, "live") ~> conn = NoConn \/ IsIn(conn, "live")

(* Close comes to its end, also while the keepalive waits for a silent NAS.      *)
CloseEnds == closing = "waiting" ~> closing = "closed"

(* "do runs fn against a live SFTP client, reconnecting once if the session      *)
(* died" (nas.go:143): after one failure of the network, the second attempt of   *)
(* a call does not fail.  Does not hold: another call drops the new connection.  *)
SecondAttemptHolds ==
    [][\A c \in Callers :
          pc[c] = "fn" /\ attempt[c] = 1 /\ pc'[c] = "idle" /\ IsBroken(mine[c]) => faults > 1]_vars
=============================================================================
