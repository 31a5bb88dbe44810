------------------------------ MODULE Logging -------------------------------
(***************************************************************************)
(* The daemon's two loggers (log/logger.go), the file the internal one     *)
(* writes (daemon_log.go), and the RPC command that changes their levels   *)
(* while both are in use (daemon_rpc.go, pkg/rpc/client.go).               *)
(*                                                                         *)
(* An entry is its level and its length in bytes.  The file outlives the   *)
(* process: a restart makes a new handler for it.                          *)
(*                                                                         *)
(* clientPc, a call of the client's ChangeLogLevel:                        *)
(*            idle; select; cancelled (about to put the call on its own    *)
(*            Done channel); returned                                      *)
(* commandPc, the same call at the server, each in a goroutine of its own: *)
(*            idle; sent; service, internal (about to set the level of     *)
(*            that logger); reply; over                                    *)
(***************************************************************************)
EXTENDS Integers

CONSTANTS
    Calls,       \* ChangeLogLevel calls of the clients, other processes
    Levels,      \* log levels in use; a lower one is more severe
    Lengths,     \* lengths of formatted entries; nothing bounds them
    Limit,       \* daemonLogHandler.limit
    MaxTotal,    \* bound: bytes after which a process logs no more
    MaxRestarts  \* bound: restarts of the process

ASSUME LoggingAssumption ==
    /\ Levels \subseteq Nat /\ Levels # {}
    /\ Limit \in Nat /\ Lengths \subseteq Nat \ {0}
    /\ MaxTotal \in Nat /\ MaxRestarts \in Nat

Loggers == {"service", "internal"}
NoLevel == -1

VARIABLES
    level,      \* the level each logger's pointer leads to
    enabled, opened, total,  \* the handler: flag, file is open, bytes written
    size,       \* length of the file on disk
    restarts,
    clientPc, commandPc,
    wanted,     \* the level each call asks for
    pending,    \* calls the RPC client awaits a reply for
    doneC,      \* entries in each call's Done channel, whose capacity is 1
    batch       \* history: the levels asked for by the command that ran last
                \* and the commands that overlapped it, one after the other

fileVars == <<enabled, opened, total, size, restarts>>
callVars == <<clientPc, commandPc, wanted, pending, doneC, batch>>
vars == <<level, fileVars, callVars>>

(* The levels the two loggers start with are up to the program.             *)
Init ==
    /\ level \in [Loggers -> Levels]
    /\ enabled = TRUE /\ opened = FALSE /\ total = 0
    /\ size = 0 /\ restarts = 0
    /\ clientPc = [c \in Calls |-> "idle"]
    /\ commandPc = [c \in Calls |-> "idle"]
    /\ wanted = [c \in Calls |-> NoLevel]
    /\ pending = {}
    /\ doneC = [c \in Calls |-> 0]
    /\ batch = {}

(* The process ends at any point and a new one starts, with new loggers, a  *)
(* handler that has written nothing yet, and whatever file the last one     *)
(* left.  Commands end with it; a call that has no reply gets an error.     *)
Restart ==
    /\ restarts < MaxRestarts
    /\ restarts' = restarts + 1
    /\ level' \in [Loggers -> Levels]
    /\ enabled' = TRUE /\ opened' = FALSE /\ total' = 0
    /\ size' = size
    /\ commandPc' = [c \in Calls |-> IF commandPc[c] = "idle" THEN "idle" ELSE "over"]
    /\ pending' = {}
    /\ doneC' = [c \in Calls |-> IF c \in pending THEN 1 ELSE doneC[c]]
    /\ batch' = {}
    /\ UNCHANGED <<clientPc, wanted>>

-----------------------------------------------------------------------------
(* Log of the internal logger and Handle of its daemonLogHandler.           *)

(* Log ignores an entry of a level above the logger's.                      *)
Logged(lvl) == lvl <= level["internal"]

(* The file is opened on the first entry.  If it cannot be, the handler     *)
(* turns itself off for good.                                               *)
OpenFails ==
    /\ enabled /\ ~opened
    /\ \E lvl \in Levels : Logged(lvl)
    /\ enabled' = FALSE
    /\ UNCHANGED <<level, opened, total, size, restarts, callVars>>

(* Mutants of PastLimit: the entry's own length is not counted; the limit   *)
(* is compared with the entry alone.                                        *)
PastLimitAfter(n) == total > Limit
PastLimitAlone(n) == n > Limit

(* The entry would push the bytes written by this process past the limit.   *)
PastLimit(n) == total + n > Limit

(* Truncate(0) fails, and nothing is written.                               *)
TruncateFails ==
    /\ enabled /\ opened
    /\ \E lvl \in Levels, n \in Lengths : Logged(lvl) /\ PastLimit(n)
    /\ UNCHANGED vars

(* The entry is appended, or written to the truncated file.  A write may    *)
(* stop short.  total counts what was written, truncated since or not.      *)
Handle ==
    /\ enabled /\ opened' = TRUE
    /\ total < MaxTotal
    /\ \E lvl \in Levels, n \in Lengths :
          /\ Logged(lvl)
          /\ \E written \in 0 .. n :
                /\ size' = (IF PastLimit(n) THEN 0 ELSE size) + written
                /\ total' = total + written
    /\ UNCHANGED <<level, enabled, restarts, callVars>>

-----------------------------------------------------------------------------
(* ChangeLogLevel, from the client's call to its return.                    *)

CallChangeLogLevel(c) ==
    /\ clientPc[c] = "idle"
    /\ clientPc' = [clientPc EXCEPT ![c] = "select"]
    /\ commandPc' = [commandPc EXCEPT ![c] = "sent"]
    /\ \E v \in Levels : wanted' = [wanted EXCEPT ![c] = v]
    /\ pending' = pending \cup {c}
    /\ UNCHANGED <<level, fileVars, doneC, batch>>

Running(c) == commandPc[c] \in {"service", "internal"}

CommandArrives(c) ==
    /\ commandPc[c] = "sent"
    /\ commandPc' = [commandPc EXCEPT ![c] = "service"]
    /\ batch' = {wanted[c]} \cup IF \E d \in Calls : Running(d) THEN batch ELSE {}
    /\ UNCHANGED <<level, fileVars, clientPc, wanted, pending, doneC>>

(* SetLevel: the logger gets a new level under its lock.                    *)
SetLevel(l, v) == level' = [level EXCEPT ![l] = v]

SetService(c) ==
    /\ commandPc[c] = "service"
    /\ SetLevel("service", wanted[c])
    /\ commandPc' = [commandPc EXCEPT ![c] = "internal"]
    /\ UNCHANGED <<fileVars, clientPc, wanted, pending, doneC, batch>>

(* Mutant of SetInternal's effect: the service logger is set twice.         *)
InternalLevelForgotten(v) == SetLevel("service", v)
InternalLevel(v) == SetLevel("internal", v)

SetInternal(c) ==
    /\ commandPc[c] = "internal"
    /\ InternalLevel(wanted[c])
    /\ commandPc' = [commandPc EXCEPT ![c] = "reply"]
    /\ UNCHANGED <<fileVars, clientPc, wanted, pending, doneC, batch>>

(* net/rpc ends a pending call: it goes on its Done channel if there is     *)
(* room, and is dropped otherwise.                                          *)
EndCall(c) ==
    /\ pending' = pending \ {c}
    /\ doneC' = IF c \in pending THEN [doneC EXCEPT ![c] = 1] ELSE doneC

ReplyArrives(c) ==
    /\ commandPc[c] = "reply"
    /\ commandPc' = [commandPc EXCEPT ![c] = "over"]
    /\ EndCall(c)
    /\ UNCHANGED <<level, fileVars, clientPc, wanted, batch>>

(* The connection breaks; a command that has not arrived may never do.      *)
ConnectionLost(c) ==
    /\ c \in pending
    /\ EndCall(c)
    /\ \/ commandPc' = commandPc
       \/ commandPc[c] = "sent" /\ commandPc' = [commandPc EXCEPT ![c] = "over"]
    /\ UNCHANGED <<level, fileVars, clientPc, wanted, batch>>

ClientReceives(c) ==
    /\ clientPc[c] = "select"
    /\ doneC[c] = 1
    /\ doneC' = [doneC EXCEPT ![c] = 0]
    /\ clientPc' = [clientPc EXCEPT ![c] = "returned"]
    /\ UNCHANGED <<level, fileVars, commandPc, wanted, pending, batch>>

ClientCancelled(c) ==
    /\ clientPc[c] = "select"
    /\ clientPc' = [clientPc EXCEPT ![c] = "cancelled"]
    /\ UNCHANGED <<level, fileVars, commandPc, wanted, pending, doneC, batch>>

DoneRoomAny(c) == TRUE  \* mutant: the client's send does not block
DoneRoom(c) == doneC[c] = 0

(* call.Done <- call, then nil is returned.  If the reply filled the        *)
(* channel first nobody will ever make room.                                *)
ClientReturns(c) ==
    /\ clientPc[c] = "cancelled"
    /\ DoneRoom(c)
    /\ doneC' = [doneC EXCEPT ![c] = @ + 1]
    /\ clientPc' = [clientPc EXCEPT ![c] = "returned"]
    /\ UNCHANGED <<level, fileVars, commandPc, wanted, pending, batch>>

-----------------------------------------------------------------------------
Client(c) == ClientReceives(c) \/ ClientReturns(c)
Command(c) == CommandArrives(c) \/ SetService(c) \/ SetInternal(c) \/ ReplyArrives(c)

Next ==
    \/ Restart
    \/ OpenFails \/ TruncateFails \/ Handle
    \/ \E c \in Calls : CallChangeLogLevel(c) \/ ClientCancelled(c)
                        \/ ConnectionLost(c)
                        \/ Client(c) \/ Command(c)

Spec == Init /\ [][Next]_vars

-----------------------------------------------------------------------------
(* Properties.                                                              *)

(* Every variable has its type.                                             *)
TypeOK ==
    /\ level \in [Loggers -> Levels]
    /\ enabled \in BOOLEAN /\ opened \in BOOLEAN
    /\ total \in Nat /\ size \in Nat
    /\ restarts \in 0 .. MaxRestarts
    /\ clientPc \in [Calls -> {"idle", "select", "cancelled", "returned"}]
    /\ commandPc \in [Calls -> {"idle", "sent", "service", "internal", "reply", "over"}]
    /\ wanted \in [Calls -> Levels \cup {NoLevel}]
    /\ pending \subseteq Calls
    /\ doneC \in [Calls -> 0 .. 1]
    /\ batch \subseteq Levels

(* What one process may leave in the file: Limit bytes, or an entry that is *)
(* longer than that.                                                        *)
Share == {n \in Lengths : n > Limit} \cup {Limit}

(* The internal log file holds at most one share for each process that has  *)
(* written it: a process does not count what it finds in the file, so every *)
(* restart may add as much again before the first truncation.               *)
FileBounded == \E n \in Share : size <= (restarts + 1) * n

(* Once a process has written more than Limit bytes the file holds nothing  *)
(* but its last entry: total is not reset by Truncate, so every entry       *)
(* truncates (daemon_log.go:66).                                            *)
OneEntryPastLimit == total > Limit => \E n \in Lengths : size <= n

(* When no command is running, each logger has a level that one of the      *)
(* commands that last overlapped asked for, however their settings mixed:   *)
(* after a command that ran alone both have its level, after two that       *)
(* overlapped they may have one level each, but never an older one.         *)
LevelsAgree ==
    batch # {} /\ (\A c \in Calls : ~Running(c)) =>
        \A l \in Loggers : level[l] \in batch

(* The three facts above are not inductive; LInv is.                        *)

(* The file grows with total until this process has written Limit bytes,    *)
(* and is no longer than one entry ever after.                              *)
FileInv ==
    IF total > Limit THEN OneEntryPastLimit
    ELSE \E n \in Share : size <= restarts * n + total

(* A call is made once, with a level, which is one of the batch while its   *)
(* command runs; between its two settings the level of the service logger   *)
(* is of the batch as well, be it this command's or another's.              *)
CommandInv ==
    \A c \in Calls :
        /\ clientPc[c] = "idle" => commandPc[c] = "idle"
        /\ commandPc[c] # "idle" => wanted[c] \in Levels
        /\ Running(c) => wanted[c] \in batch
        /\ commandPc[c] = "internal" => level["service"] \in batch

LInv == TypeOK /\ FileInv /\ CommandInv /\ LevelsAgree

(* A cancelled call whose reply got into its Done channel first             *)
(* (client.go:46) never returns: the client itself was the only reader of   *)
(* the channel, so no step of the daemon, of a restarted one or of the      *)
(* connection lets its send go on.                                          *)
StuckForGood ==
    [][\A c \in Calls :
          clientPc[c] = "cancelled" /\ doneC[c] = 1 =>
              clientPc'[c] = "cancelled" /\ doneC'[c] = 1]_vars
=============================================================================
