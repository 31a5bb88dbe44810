--------------------------- MODULE LoggingProofs ----------------------------
(***************************************************************************)
(* The safety properties of the daemon's loggers, for any calls, levels,   *)
(* lengths of entries, limit and number of restarts: LInv is inductive and *)
(* the properties follow from it.                                          *)
(***************************************************************************)
EXTENDS Logging, TLAPS

(* Steps of the file and of the calls apart. *)
FileStep == OpenFails \/ TruncateFails \/ Handle
CallStep(c) ==
    \/ CallChangeLogLevel(c) \/ ClientCancelled(c) \/ ConnectionLost(c)
    \/ Client(c) \/ Command(c)

LEMMA NextCases ==
    Next <=> Restart \/ FileStep \/ \E c \in Calls : CallStep(c)
BY DEF Next, FileStep, CallStep

-----------------------------------------------------------------------------
(* Types.                                                                   *)

(* The step of a call keeps the types: neither net/rpc nor the client puts  *)
(* a second entry into a Done channel.                                      *)
LEMMA CallTypeOK ==
    ASSUME TypeOK, CommandInv, NEW c \in Calls, CallStep(c)
    PROVE  TypeOK'
<1> USE DEF TypeOK, fileVars
<1>1. CASE CallChangeLogLevel(c)
  BY <1>1 DEF CallChangeLogLevel
<1>2. CASE ClientCancelled(c)
  BY <1>2 DEF ClientCancelled
<1>3. CASE ConnectionLost(c)
  BY <1>3 DEF ConnectionLost, EndCall
<1>4. CASE Client(c)
  <2>1. doneC' \in [Calls -> 0 .. 1]
    BY <1>4 DEF Client, ClientReceives, ClientReturns, DoneRoom
  <2> QED
    BY <1>4, <2>1 DEF Client, ClientReceives, ClientReturns
<1>5. CASE CommandArrives(c)
  <2>1. batch' \subseteq Levels
    BY <1>5 DEF CommandArrives, CommandInv
  <2> QED
    BY <1>5, <2>1 DEF CommandArrives
<1>6. CASE SetService(c)
  <2>1. wanted[c] \in Levels
    BY <1>6 DEF SetService, CommandInv
  <2> QED
    BY <1>6, <2>1 DEF SetService, SetLevel
<1>7. CASE SetInternal(c)
  <2>1. wanted[c] \in Levels
    BY <1>7 DEF SetInternal, CommandInv
  <2> QED
    BY <1>7, <2>1 DEF SetInternal, InternalLevel, SetLevel
<1>8. CASE ReplyArrives(c)
  BY <1>8 DEF ReplyArrives, EndCall
<1> QED
  BY <1>1, <1>2, <1>3, <1>4, <1>5, <1>6, <1>7, <1>8 DEF CallStep, Command

LEMMA FileTypeOK ==
    ASSUME TypeOK, FileStep
    PROVE  TypeOK'
<1>1. CASE OpenFails \/ TruncateFails
  BY <1>1 DEF OpenFails, TruncateFails, TypeOK, callVars, vars, fileVars
<1>2. CASE Handle
  <2>1. PICK n \in Lengths : \E written \in 0 .. n :
            /\ size' = (IF PastLimit(n) THEN 0 ELSE size) + written
            /\ total' = total + written
    BY <1>2 DEF Handle
  <2>2. n \in Nat
    BY LoggingAssumption
  <2>3. total' \in Nat /\ size' \in Nat
    BY <2>1, <2>2 DEF TypeOK
  <2> QED
    BY <1>2, <2>3 DEF Handle, TypeOK, callVars
<1> QED
  BY <1>1, <1>2 DEF FileStep

LEMMA RestartTypeOK ==
    ASSUME TypeOK, Restart
    PROVE  TypeOK'
<1>1. /\ level' \in [Loggers -> Levels]
      /\ enabled' \in BOOLEAN /\ opened' \in BOOLEAN
      /\ batch' \subseteq Levels /\ pending' \subseteq Calls
      /\ clientPc' = clientPc /\ wanted' = wanted
  BY DEF Restart
<1>2. total' \in Nat /\ size' \in Nat /\ restarts' \in 0 .. MaxRestarts
  BY LoggingAssumption DEF TypeOK, Restart
<1>3. /\ commandPc' \in [Calls -> {"idle", "sent", "service", "internal", "reply", "over"}]
      /\ doneC' \in [Calls -> 0 .. 1]
  BY DEF TypeOK, Restart
<1> QED
  BY <1>1, <1>2, <1>3 DEF TypeOK

-----------------------------------------------------------------------------
(* The file.                                                                *)

(* A share is a number no smaller than the limit. *)
LEMMA ShareNat ==
    ASSUME NEW n \in Share
    PROVE  n \in Nat /\ n >= Limit
BY LoggingAssumption DEF Share

(* One more process, one more share. *)
LEMMA NextShare ==
    ASSUME NEW r \in Nat, NEW n \in Nat
    PROVE  r * n \in Nat /\ (r + 1) * n = r * n + n
OBVIOUS

(* Whatever total is, the file holds one share a process at most. *)
LEMMA FileInvBounds ==
    ASSUME TypeOK, FileInv
    PROVE  FileBounded
<1>0. total \in Nat /\ size \in Nat /\ restarts \in Nat /\ Limit \in Nat
  BY LoggingAssumption DEF TypeOK
<1>1. CASE total > Limit
  <2>1. PICK n \in Lengths : size <= n
    BY <1>1 DEF FileInv, OneEntryPastLimit
  <2>2. PICK m \in Share : n <= m
    BY <1>0, LoggingAssumption DEF Share
  <2>3. m \in Nat /\ n \in Nat
    BY ShareNat, LoggingAssumption
  <2>4. size <= (restarts + 1) * m
    BY <1>0, <2>1, <2>2, <2>3, NextShare
  <2> QED
    BY <2>4 DEF FileBounded
<1>2. CASE ~(total > Limit)
  <2>1. PICK n \in Share : size <= restarts * n + total
    BY <1>2 DEF FileInv
  <2>2. n \in Nat /\ n >= Limit
    BY ShareNat
  <2>3. size <= (restarts + 1) * n
    BY <1>0, <1>2, <2>1, <2>2, NextShare
  <2> QED
    BY <2>3 DEF FileBounded
<1> QED
  BY <1>1, <1>2

(* A write that stays within the limit adds as much to total as to the      *)
(* file; one that goes past it truncates first, whatever part of the entry  *)
(* is written.                                                              *)
LEMMA HandleFileInv ==
    ASSUME TypeOK, FileInv, Handle
    PROVE  FileInv'
<1>0. total \in Nat /\ size \in Nat /\ restarts \in Nat /\ Limit \in Nat
  BY LoggingAssumption DEF TypeOK
<1>n. PICK n \in Lengths : \E written \in 0 .. n :
          /\ size' = (IF PastLimit(n) THEN 0 ELSE size) + written
          /\ total' = total + written
  BY DEF Handle
<1>1. PICK written \in 0 .. n :
          /\ size' = (IF PastLimit(n) THEN 0 ELSE size) + written
          /\ total' = total + written
  BY <1>n
<1>2. n \in Nat /\ written \in Nat /\ written <= n /\ restarts' = restarts
  BY LoggingAssumption DEF Handle
<1>3. CASE total' > Limit
  <2>1. PastLimit(n)
    BY <1>0, <1>1, <1>2, <1>3 DEF PastLimit
  <2>2. size' <= n
    BY <1>1, <1>2, <2>1
  <2> QED
    BY <1>3, <2>2 DEF FileInv, OneEntryPastLimit
<1>4. CASE ~(total' > Limit)
  <2>1. ~(total > Limit)
    BY <1>0, <1>1, <1>2, <1>4
  <2>2. PICK m \in Share : size <= restarts * m + total
    BY <2>1 DEF FileInv
  <2>3. restarts * m \in Nat
    BY <1>0, ShareNat, NextShare
  <2>4. size' <= restarts * m + total'
    BY <1>0, <1>1, <1>2, <2>2, <2>3
  <2>5. size' <= restarts' * m + total'
    BY <1>2, <2>4
  <2> QED
    BY <1>4, <2>5 DEF FileInv, Share
<1> QED
  BY <1>3, <1>4

(* A new process finds what the others have left. *)
LEMMA RestartFileInv ==
    ASSUME TypeOK, FileInv, Restart
    PROVE  FileInv'
<1>0. restarts \in Nat /\ Limit \in Nat /\ size \in Nat
  BY LoggingAssumption DEF TypeOK
<1>1. total' = 0 /\ size' = size /\ restarts' = restarts + 1
  BY DEF Restart
<1>2. PICK n \in Share : size <= (restarts + 1) * n
  BY FileInvBounds DEF FileBounded
<1>3. (restarts + 1) * n \in Nat
  BY <1>0, ShareNat, NextShare
<1>4. size' <= restarts' * n + total'
  BY <1>0, <1>1, <1>2, <1>3
<1>5. ~(total' > Limit)
  BY <1>0, <1>1
<1> QED
  BY <1>4, <1>5 DEF FileInv, Share

LEMMA FileFrame ==
    ASSUME FileInv, UNCHANGED <<total, size, restarts>>
    PROVE  FileInv'
BY DEF FileInv, OneEntryPastLimit, Share

-----------------------------------------------------------------------------
(* The commands.                                                            *)

LEMMA CommandFrame ==
    ASSUME CommandInv, LevelsAgree,
           UNCHANGED <<level, commandPc, wanted, batch>>,
           \A c \in Calls : clientPc'[c] = "idle" => clientPc[c] = "idle"
    PROVE  CommandInv' /\ LevelsAgree'
BY DEF CommandInv, LevelsAgree, Running

(* A command that is not running and does not begin to changes nothing.     *)
LEMMA QuietFrame ==
    ASSUME TypeOK, CommandInv, LevelsAgree, NEW c \in Calls,
           UNCHANGED <<level, batch>>,
           ~Running(c), commandPc'[c] \notin {"idle", "service", "internal"},
           commandPc' = [commandPc EXCEPT ![c] = commandPc'[c]],
           clientPc'[c] # "idle", wanted'[c] \in Levels,
           \A d \in Calls \ {c} : clientPc'[d] = clientPc[d] /\ wanted'[d] = wanted[d]
    PROVE  CommandInv' /\ LevelsAgree'
<1>1. ~Running(c)' /\ \A d \in Calls \ {c} : commandPc'[d] = commandPc[d]
  BY DEF Running, TypeOK
<1>2. \A d \in Calls : Running(d)' <=> Running(d)
  BY <1>1 DEF Running
<1>3. CommandInv'
  BY <1>1, <1>2 DEF CommandInv
<1>4. LevelsAgree'
  BY <1>2 DEF LevelsAgree
<1> QED
  BY <1>3, <1>4

(* One step of a command.  A new batch begins only when no command runs;    *)
(* a setting brings in a level of the batch; and the command that finishes  *)
(* last leaves both loggers with such a level.                              *)
LEMMA RunningCommandInv ==
    ASSUME TypeOK, CommandInv, LevelsAgree, NEW c \in Calls,
           CommandArrives(c) \/ SetService(c) \/ SetInternal(c)
    PROVE  CommandInv' /\ LevelsAgree'
<1>0. /\ commandPc[c] # "idle" /\ wanted[c] \in Levels /\ clientPc[c] # "idle"
      /\ UNCHANGED <<clientPc, wanted>>
  BY DEF CommandInv, CommandArrives, SetService, SetInternal
<1>1. /\ \A d \in Calls \ {c} : commandPc'[d] = commandPc[d]
      /\ \A d \in Calls \ {c} : Running(d)' <=> Running(d)
  BY DEF TypeOK, Running, CommandArrives, SetService, SetInternal
<1>2. CASE CommandArrives(c)
  <2>1. /\ commandPc'[c] = "service" /\ Running(c)' /\ UNCHANGED level
        /\ wanted[c] \in batch'
        /\ (\E d \in Calls : Running(d)) => batch \subseteq batch'
    BY <1>2 DEF CommandArrives, TypeOK, Running
  <2>2. CommandInv'
    BY <1>0, <1>1, <2>1 DEF CommandInv, Running
  <2> QED
    BY <2>1, <2>2 DEF LevelsAgree
<1>3. CASE SetService(c)
  <2>1. /\ commandPc[c] = "service" /\ commandPc'[c] = "internal"
        /\ Running(c) /\ Running(c)' /\ UNCHANGED batch
        /\ level'["service"] = wanted[c]
    BY <1>3 DEF SetService, SetLevel, TypeOK, Running, Loggers
  <2>2. CommandInv'
    BY <1>0, <1>1, <2>1 DEF CommandInv
  <2> QED
    BY <2>1, <2>2 DEF LevelsAgree
<1>4. CASE SetInternal(c)
  <2>1. /\ commandPc[c] = "internal" /\ commandPc'[c] = "reply"
        /\ Running(c) /\ ~Running(c)' /\ UNCHANGED batch
        /\ level'["internal"] = wanted[c] /\ level'["service"] = level["service"]
    BY <1>4 DEF SetInternal, InternalLevel, SetLevel, TypeOK, Running, Loggers
  <2>2. CommandInv'
    BY <1>0, <1>1, <2>1 DEF CommandInv
  <2>3. \A l \in Loggers : level'[l] \in batch'
    BY <2>1 DEF CommandInv, Loggers
  <2> QED
    BY <2>2, <2>3 DEF LevelsAgree
<1> QED
  BY <1>2, <1>3, <1>4

(* Any step of a call. *)
LEMMA CallCommandInv ==
    ASSUME TypeOK, CommandInv, LevelsAgree, NEW c \in Calls, CallStep(c)
    PROVE  CommandInv' /\ LevelsAgree'
<1>1. CASE CallChangeLogLevel(c)
  <2>1. commandPc[c] = "idle"
    BY <1>1 DEF CallChangeLogLevel, CommandInv
  <2> QED
    BY <1>1, <2>1, QuietFrame DEF CallChangeLogLevel, Running, TypeOK
<1>2. CASE ClientCancelled(c) \/ Client(c)
  BY <1>2, CommandFrame
     DEF ClientCancelled, Client, ClientReceives, ClientReturns, TypeOK
<1>3. CASE ConnectionLost(c)
  <2>1. CASE commandPc' = commandPc
    BY <1>3, <2>1, CommandFrame DEF ConnectionLost
  <2>2. CASE commandPc[c] = "sent" /\ commandPc' = [commandPc EXCEPT ![c] = "over"]
    BY <1>3, <2>2, QuietFrame DEF ConnectionLost, Running, TypeOK, CommandInv
  <2> QED
    BY <1>3, <2>1, <2>2 DEF ConnectionLost
<1>4. CASE CommandArrives(c) \/ SetService(c) \/ SetInternal(c)
  BY <1>4, RunningCommandInv
<1>5. CASE ReplyArrives(c)
  BY <1>5, QuietFrame DEF ReplyArrives, Running, TypeOK, CommandInv
<1> QED
  BY <1>1, <1>2, <1>3, <1>4, <1>5 DEF CallStep, Command

(* A restart ends every command. *)
LEMMA RestartCommandInv ==
    ASSUME TypeOK, CommandInv, Restart
    PROVE  CommandInv' /\ LevelsAgree'
<1>1. /\ UNCHANGED <<clientPc, wanted>> /\ batch' = {}
      /\ \A c \in Calls : commandPc'[c] = IF commandPc[c] = "idle" THEN "idle" ELSE "over"
  BY DEF Restart
<1>2. \A c \in Calls : ~Running(c)' /\ commandPc'[c] # "internal"
  BY <1>1 DEF Running
<1> QED
  BY <1>1, <1>2 DEF CommandInv, LevelsAgree

-----------------------------------------------------------------------------
(* The invariant and the theorems.                                          *)

LEMMA LInvInit == Init => LInv
<1> SUFFICES ASSUME Init PROVE LInv
  OBVIOUS
<1>1. TypeOK
  <2>1. /\ clientPc \in [Calls -> {"idle", "select", "cancelled", "returned"}]
        /\ commandPc \in [Calls -> {"idle", "sent", "service", "internal", "reply", "over"}]
        /\ wanted \in [Calls -> Levels \cup {NoLevel}]
        /\ doneC \in [Calls -> 0 .. 1]
    BY DEF Init
  <2>2. total \in Nat /\ size \in Nat /\ restarts \in 0 .. MaxRestarts
    BY LoggingAssumption DEF Init
  <2>3. enabled \in BOOLEAN /\ opened \in BOOLEAN
    BY DEF Init
  <2>4. level \in [Loggers -> Levels] /\ pending \subseteq Calls
        /\ batch \subseteq Levels
    BY DEF Init
  <2> QED
    BY <2>1, <2>2, <2>3, <2>4 DEF TypeOK
<1>2. FileInv
  <2>1. Limit \in Share /\ Limit \in Nat
    BY LoggingAssumption DEF Share
  <2>2. ~(total > Limit) /\ size <= restarts * Limit + total
    BY <2>1 DEF Init
  <2> QED
    BY <2>1, <2>2 DEF FileInv
<1>3. CommandInv /\ LevelsAgree
  BY DEF Init, CommandInv, LevelsAgree, Running
<1> QED
  BY <1>1, <1>2, <1>3 DEF LInv

LEMMA LInvStep == LInv /\ [Next]_vars => LInv'
<1> SUFFICES ASSUME LInv, [Next]_vars PROVE LInv'
  OBVIOUS
<1>0. TypeOK /\ FileInv /\ CommandInv /\ LevelsAgree
  BY DEF LInv
<1>1. CASE Restart
  BY <1>0, <1>1, RestartTypeOK, RestartFileInv, RestartCommandInv DEF LInv
<1>2. CASE FileStep
  <2>1. FileInv'
    <3>1. CASE Handle
      BY <1>0, <3>1, HandleFileInv
    <3>2. CASE OpenFails \/ TruncateFails
      BY <1>0, <3>2, FileFrame DEF OpenFails, TruncateFails, vars, fileVars
    <3> QED
      BY <1>2, <3>1, <3>2 DEF FileStep
  <2>2. UNCHANGED <<level, callVars>>
    BY <1>2 DEF FileStep, OpenFails, TruncateFails, Handle, vars
  <2>3. CommandInv' /\ LevelsAgree'
    BY <1>0, <2>2, CommandFrame DEF callVars
  <2> QED
    BY <1>0, <1>2, <2>1, <2>3, FileTypeOK DEF LInv
<1>3. ASSUME NEW c \in Calls, CallStep(c) PROVE LInv'
  <2>1. UNCHANGED fileVars
    BY <1>3 DEF CallStep, CallChangeLogLevel, ClientCancelled, ConnectionLost,
       Client, ClientReceives, ClientReturns, Command, CommandArrives, SetService,
       SetInternal, ReplyArrives
  <2>2. FileInv'
    BY <1>0, <2>1, FileFrame DEF fileVars
  <2> QED
    BY <1>0, <1>3, <2>2, CallTypeOK, CallCommandInv DEF LInv
<1>4. CASE UNCHANGED vars
  <2>1. TypeOK'
    BY <1>0, <1>4 DEF TypeOK, vars, fileVars, callVars
  <2>2. FileInv'
    BY <1>0, <1>4, FileFrame DEF vars, fileVars
  <2>3. CommandInv' /\ LevelsAgree'
    BY <1>0, <1>4, CommandFrame DEF vars, callVars
  <2> QED
    BY <2>1, <2>2, <2>3 DEF LInv
<1> QED
  BY <1>1, <1>2, <1>3, <1>4, NextCases

(* LInv holds in every reachable state of the loggers.                      *)
THEOREM LoggingInvariance == Spec => []LInv
BY LInvInit, LInvStep, PTL DEF Spec

(* Every variable keeps its type; in particular no Done channel of a call   *)
(* ever holds two entries, however reply, broken connection and             *)
(* cancellation follow each other (client.go:40-48).                        *)
THEOREM LoggingTypeCorrect == Spec => []TypeOK
<1>1. LInv => TypeOK
  BY DEF LInv
<1> QED
  BY <1>1, LoggingInvariance, PTL

(* Handle (daemon_log.go) never lets the file grow past one share, the      *)
(* limit or one longer entry, for each process that has written it.         *)
THEOREM LogFileBounded == Spec => []FileBounded
<1>1. LInv => FileBounded
  BY FileInvBounds DEF LInv
<1> QED
  BY <1>1, LoggingInvariance, PTL

(* Past the limit the file holds no more than the last entry: total is      *)
(* never reset, so every entry truncates (daemon_log.go:66).                *)
THEOREM LogFileLastEntry == Spec => []OneEntryPastLimit
<1>1. LInv => OneEntryPastLimit
  BY DEF LInv, FileInv, OneEntryPastLimit
<1> QED
  BY <1>1, LoggingInvariance, PTL

(* ChangeLogLevel (daemon_rpc.go) leaves each logger with a level that the  *)
(* last command, or one of those that overlapped it, asked for.             *)
THEOREM LoggersAgree == Spec => []LevelsAgree
<1>1. LInv => LevelsAgree
  BY DEF LInv
<1> QED
  BY <1>1, LoggingInvariance, PTL

(* A client cancelled after its reply arrived stays in its own send for     *)
(* good (client.go:46): no step of anybody takes the reply out.             *)
THEOREM CancelledStaysStuck == Spec => StuckForGood
<1>1. ASSUME LInv, [Next]_vars, NEW c \in Calls, clientPc[c] = "cancelled", doneC[c] = 1
      PROVE  clientPc'[c] = "cancelled" /\ doneC'[c] = 1
  <2>0. clientPc \in [Calls -> {"idle", "select", "cancelled", "returned"}]
        /\ doneC \in [Calls -> 0 .. 1]
    BY <1>1 DEF LInv, TypeOK
  <2>1. CASE Restart
    BY <1>1, <2>1 DEF Restart
  <2>2. CASE FileStep \/ UNCHANGED vars
    BY <1>1, <2>2 DEF FileStep, OpenFails, TruncateFails, Handle, vars, callVars
  <2>3. ASSUME NEW d \in Calls, CallStep(d)
        PROVE  clientPc'[c] = "cancelled" /\ doneC'[c] = 1
    BY <1>1, <2>0, <2>3
       DEF CallStep, CallChangeLogLevel, ClientCancelled, ConnectionLost, EndCall,
           Client, ClientReceives, ClientReturns, DoneRoom, Command, CommandArrives,
           SetService, SetInternal, ReplyArrives
  <2> QED
    BY <1>1, <2>1, <2>2, <2>3, NextCases
<1>2. LInv /\ [Next]_vars =>
          [\A c \in Calls : clientPc[c] = "cancelled" /\ doneC[c] = 1 =>
              clientPc'[c] = "cancelled" /\ doneC'[c] = 1]_vars
  BY <1>1
<1> QED
  BY <1>2, LoggingInvariance, PTL DEF Spec, StuckForGood
=============================================================================
