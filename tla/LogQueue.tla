------------------------------- MODULE LogQueue -------------------------------
(***************************************************************************)
(* The log of the RPC layer: the macros of logger.h, class Logger with its *)
(* detached writer thread, and LogQueue.                                   *)
(*                                                                         *)
(* A macro is two steps, SetLogLevel and Log, of any thread; one logLevel  *)
(* serves all.  A message is logged once.  Days pass at any time.  The     *)
(* network layer has a class Logger of its own with the same GetInstance:  *)
(* where the linker merges the two, its setLogLevel writes this logLevel.  *)
(* Whoever formats a time takes it first and calls localtime later.        *)
(***************************************************************************)
EXTENDS Naturals, Sequences

CONSTANTS
  Threads, Messages,
  LevelOf,      \* of a message: by which macro it is logged
  NoMessage, Closed,
  NetLogs,      \* the messages of the network layer
  MaxDay        \* bound: the days of a behaviour

Levels == {"INFO", "FATAL"}
Days == 1 .. MaxDay

ASSUME LogAssumption ==
  /\ LevelOf \in [Messages -> Levels]
  /\ NoMessage \notin Messages
  /\ MaxDay \in Nat \ {0}
  /\ Closed \notin Days

VARIABLES
  logLevel,
  log_queue,
  doing,     \* per thread, the message between SetLogLevel and Log
  at,        \* where the writer is
  now,       \* the day the writer took for its file
  tm,        \* the day in the static buffer of localtime
  file,      \* the day of the open file
  msg,       \* what PopLog returned
  lines,     \* what was written: message, label, file and stamp
  netAt,     \* per message of the network layer, where log() is
  netNow,    \* the day it took
  today, exited,
  since,     \* history, per message: levels set since its SetLogLevel
  queuedOn,  \* history, per message: the day of its PushLog
  linesAt    \* history, per message of the network layer: how many lines
             \* there were at its localtime

macros == <<logLevel, doing, since>>
writer == <<at, now, tm, file, msg, lines>>
net == <<netAt, netNow, linesAt>>
world == <<today, exited>>
vars == <<macros, log_queue, writer, net, world, queuedOn>>

Begun(m) == since[m] # {}

TypeOK ==
  /\ logLevel \in Levels
  /\ log_queue \in Seq(Messages)
  /\ doing \in [Threads -> Messages \cup {NoMessage}]
  /\ at \in {"time", "localtime", "open", "pop", "wait", "write"}
  /\ now \in Days /\ tm \in Days
  /\ file \in Days \cup {Closed}
  /\ file = Closed <=> at \in {"time", "localtime", "open"}
  /\ msg \in Messages \cup {NoMessage} /\ (msg = NoMessage <=> at # "write")
  /\ lines \in Seq([msg : Messages, label : Levels, file : Days, stamp : Days])
  /\ netAt \in [NetLogs -> {"level", "time", "localtime", "done"}]
  /\ netNow \in [NetLogs -> Days] /\ linesAt \in [NetLogs -> Nat]
  /\ today \in Days /\ exited \in BOOLEAN
  /\ since \in [Messages -> SUBSET Levels]
  /\ queuedOn \in [Messages -> {0} \cup Days]

(* logLevel and the static buffer start with no value anybody set.         *)
Init ==
  /\ logLevel \in Levels
  /\ log_queue = <<>>
  /\ doing = [t \in Threads |-> NoMessage]
  /\ at = "time" /\ now = 1 /\ tm = 1 /\ file = Closed /\ msg = NoMessage
  /\ lines = <<>>
  /\ netAt = [n \in NetLogs |-> "level"]
  /\ netNow = [n \in NetLogs |-> 1] /\ linesAt = [n \in NetLogs |-> 0]
  /\ today = 1 /\ exited = FALSE
  /\ since = [m \in Messages |-> {}]
  /\ queuedOn = [m \in Messages |-> 0]

------------------------------------------------------------------------------
(* The macros.                                                             *)

neverLowers(level) ==                                               \* mutant
  logLevel' = IF logLevel = "FATAL" THEN logLevel ELSE level
SetLogLevel(level) == logLevel' = level

seen(level, begun) ==
  since' = [m \in Messages |-> IF m \in begun THEN since[m] \cup {level}
                                              ELSE since[m]]

BeginLog(t, m) ==
  /\ doing[t] = NoMessage /\ ~Begun(m)
  /\ doing' = [doing EXCEPT ![t] = m]
  /\ SetLogLevel(LevelOf[m])
  /\ seen(LevelOf[m], {n \in Messages : Begun(n)} \cup {m})
  /\ UNCHANGED <<log_queue, writer, net, world, queuedOn>>

(* A notified writer takes the lock again and tests the queue.             *)
pushSilently(m) ==                                                  \* mutant
  log_queue' = Append(log_queue, m) /\ UNCHANGED at
PushLog(m) ==
  /\ log_queue' = Append(log_queue, m)
  /\ at' = IF at = "wait" THEN "pop" ELSE at

Log(t) ==
  /\ doing[t] # NoMessage
  /\ PushLog(doing[t])
  /\ doing' = [doing EXCEPT ![t] = NoMessage]
  /\ queuedOn' = [queuedOn EXCEPT ![doing[t]] = today]
  /\ UNCHANGED <<logLevel, since, now, tm, file, msg, lines, net, world>>

------------------------------------------------------------------------------
(* The network layer's log, in the threads of its loops.                   *)

netGoes(n, from, to) == netAt[n] = from /\ netAt' = [netAt EXCEPT ![n] = to]

(* Its level may land in logLevel.                                         *)
setLogLevel(n, level) ==
  /\ netGoes(n, "level", "time")
  /\ \/ SetLogLevel(level) /\ seen(level, {m \in Messages : Begun(m)})
     \/ UNCHANGED <<logLevel, since>>
  /\ UNCHANGED <<doing, log_queue, writer, netNow, linesAt, world, queuedOn>>

TimeStamp_now(n) ==
  /\ netGoes(n, "time", "localtime")
  /\ netNow' = [netNow EXCEPT ![n] = today]
  /\ UNCHANGED <<macros, log_queue, writer, linesAt, world, queuedOn>>

(* localtime, of a time that may be of a day that is over.                 *)
TstoString(n) ==
  /\ netGoes(n, "localtime", "done")
  /\ tm' = netNow[n]
  /\ linesAt' = [linesAt EXCEPT ![n] = Len(lines)]
  /\ UNCHANGED <<macros, log_queue, at, now, file, msg, lines, netNow, world, queuedOn>>

netLog(n) == \/ \E level \in Levels : setLogLevel(n, level)
             \/ TimeStamp_now(n) \/ TstoString(n)

------------------------------------------------------------------------------
(* The thread wrlog2disk.                                                  *)

time ==
  /\ at = "time"
  /\ at' = "localtime" /\ now' = today
  /\ UNCHANGED <<macros, log_queue, tm, file, msg, lines, net, world, queuedOn>>

localtime ==
  /\ at = "localtime"
  /\ at' = "open" /\ tm' = now
  /\ UNCHANGED <<macros, log_queue, now, file, msg, lines, net, world, queuedOn>>

(* Of the file the buffer names; where it cannot be opened, exit().        *)
fopen ==
  /\ at = "open"
  /\ \/ at' = "pop" /\ file' = tm /\ UNCHANGED exited
     \/ exited' = TRUE /\ UNCHANGED <<at, file>>
  /\ UNCHANGED <<macros, log_queue, now, tm, msg, lines, net, today, queuedOn>>

PopLog ==
  /\ at = "pop"
  /\ IF log_queue = <<>>
     THEN at' = "wait" /\ UNCHANGED <<log_queue, msg>>
     ELSE /\ at' = "write"
          /\ msg' = Head(log_queue) /\ log_queue' = Tail(log_queue)
  /\ UNCHANGED <<macros, now, tm, file, lines, net, world, queuedOn>>

(* Also without a notify.                                                  *)
untested ==                                                         \* mutant
  /\ at = "wait"
  /\ at' = "write" /\ msg' \in Messages
  /\ UNCHANGED <<macros, log_queue, now, tm, file, lines, net, world, queuedOn>>

wakeup ==
  /\ at = "wait"
  /\ at' = "pop"
  /\ UNCHANGED <<macros, log_queue, now, tm, file, msg, lines, net, world, queuedOn>>

staysOpen == at' = "pop" /\ UNCHANGED file                          \* mutant
fclose == at' = "time" /\ file' = Closed

(* logLevel and the static buffer are read after the wait.                 *)
fputs ==
  /\ at = "write"
  /\ lines' = Append(lines,
                [msg |-> msg, label |-> logLevel, file |-> file, stamp |-> tm])
  /\ msg' = NoMessage
  /\ fclose
  /\ UNCHANGED <<macros, log_queue, now, tm, net, world, queuedOn>>

------------------------------------------------------------------------------
midnight ==
  /\ today < MaxDay
  /\ today' = today + 1
  /\ UNCHANGED <<macros, log_queue, writer, net, exited, queuedOn>>

(* exit(), of any thread: what is queued is lost.                          *)
exit == /\ exited' = TRUE
        /\ UNCHANGED <<macros, log_queue, writer, net, today, queuedOn>>

wrlog2disk == ~exited /\ (time \/ localtime \/ fopen \/ PopLog \/ fputs)

Next ==
  /\ ~exited
  /\ \/ \E t \in Threads : Log(t) \/ \E m \in Messages : BeginLog(t, m)
     \/ \E n \in NetLogs : netLog(n)
     \/ time \/ localtime \/ fopen \/ PopLog \/ wakeup \/ fputs
     \/ midnight \/ exit

Spec == Init /\ [][Next]_vars

(* A macro is finished, and the writer goes on where it does not wait.     *)
Fairness == /\ WF_vars(wrlog2disk)
            /\ \A t \in Threads : WF_vars(~exited /\ Log(t))

FairSpec == Spec /\ Fairness

------------------------------------------------------------------------------
(* Properties.                                                             *)

Pending == IF at = "write" THEN <<msg>> \o log_queue ELSE log_queue
Written == [i \in DOMAIN lines |-> lines[i].msg]

(* Each message is written once, in the order of the queue, whatever the   *)
(* threads, the wakeups and the pops are interleaved with                  *)
(* (logqueue.h:15-34, logger.cc:32-38).                                    *)
File == INSTANCE LogFile WITH pending <- Pending, out <- Written

ImplementsLogFile == File!Spec

(* A label is older than no message it stands before: it was set by the    *)
(* macro of that message or by one after it (logger.cc:34, logger.h:36).   *)
LabelIsRecent ==
  \A i \in DOMAIN lines : lines[i].label \in since[lines[i].msg]

(* Waiting with an open file puts at most one later message into the file  *)
(* of a day.  Between two that were logged after that day, somebody gave   *)
(* the buffer a time of that day again: a message of the network layer     *)
(* that took its time before midnight and called localtime after           *)
(* (logger.cc:17-38, TimeStamp.cc:15-22).                                  *)
MisfiledOnce ==
  \A i, j \in DOMAIN lines :
    /\ i < j /\ lines[i].file = lines[j].file
    /\ queuedOn[lines[i].msg] > lines[i].file
    /\ queuedOn[lines[j].msg] > lines[j].file
    => \E n \in NetLogs : /\ netAt[n] = "done" /\ netNow[n] = lines[j].file
                         /\ linesAt[n] \in i .. j - 1

(* A message whose logging began is written, or the process exits          *)
(* (logqueue.h:18-19, 28-29).                                              *)
EveryMessageWritten ==
  \A m \in Messages :
    Begun(m) ~> exited \/ \E i \in DOMAIN lines : lines[i].msg = m
==============================================================================
