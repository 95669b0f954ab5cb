----------------------------- MODULE LogQueueProofs -----------------------------
(***************************************************************************)
(* Proofs about LogQueue, for any threads, messages and days: the types,   *)
(* a label is not older than its message, a file gets at most one message  *)
(* of a later day for each stale time in localtime's buffer, and every     *)
(* message comes out once and in its order.                                *)
(***************************************************************************)
EXTENDS LogQueue, SequenceTheorems, TLAPS

(* A message is in one place: with the thread that logs it, in the queue,  *)
(* with the writer, or in a file.                                          *)
Doing(m) == \E t \in Threads : doing[t] = m
Queued(m) == \E i \in 1 .. Len(log_queue) : log_queue[i] = m
Popped(m) == msg = m
Filed(m) == \E i \in 1 .. Len(lines) : lines[i].msg = m

OnePlace ==
  /\ \A m \in Messages : Doing(m) \/ Queued(m) \/ Popped(m) \/ Filed(m) => Begun(m)
  /\ \A m \in Messages : Doing(m) => ~Queued(m) /\ ~Popped(m) /\ ~Filed(m)
  /\ \A m \in Messages : Popped(m) => ~Queued(m) /\ ~Filed(m)
  /\ \A m \in Messages : Queued(m) => ~Filed(m)
  /\ \A t, u \in Threads : doing[t] = doing[u] /\ doing[t] # NoMessage => t = u
  /\ \A i, j \in 1 .. Len(log_queue) : log_queue[i] = log_queue[j] => i = j
  /\ \A i, j \in 1 .. Len(lines) : lines[i].msg = lines[j].msg => i = j

(* The level that the writer would read is one set since each message.     *)
Recent ==
  /\ \A m \in Messages : Begun(m) => logLevel \in since[m]
  /\ \A i \in 1 .. Len(lines) : lines[i].label \in since[lines[i].msg]

(* A file is chosen after everything written before it was logged, or by  *)
(* a stale time of the network layer that came into the buffer since.      *)
Before(d) == \A i \in 1 .. Len(lines) : queuedOn[lines[i].msg] <= d
Stale(d) == \E n \in NetLogs : /\ netAt[n] = "done" /\ netNow[n] = d
                              /\ linesAt[n] = Len(lines)

Chosen ==
  /\ \A m \in Messages : queuedOn[m] <= today
  /\ at \in {"localtime", "open"} => Before(now)
  /\ at = "open" => tm = now \/ Stale(tm)
  /\ at \in {"pop", "wait", "write"} => Before(file) \/ Stale(file)
  /\ \A i, j \in 1 .. Len(lines) :
       i < j => \/ queuedOn[lines[i].msg] <= lines[j].file
                \/ \E n \in NetLogs : /\ netAt[n] = "done" /\ netNow[n] = lines[j].file
                                      /\ linesAt[n] \in i .. j - 1

LogInv == TypeOK /\ OnePlace /\ Recent /\ Chosen

(* What a line holds.                                                      *)
LEMMA LineTypes ==
  ASSUME TypeOK, NEW i \in 1 .. Len(lines)
  PROVE  /\ lines[i].msg \in Messages /\ lines[i].label \in Levels
         /\ lines[i].file \in Days /\ lines[i].file \in Nat
         /\ queuedOn[lines[i].msg] \in Nat
<1>1. lines[i] \in [msg : Messages, label : Levels, file : Days, stamp : Days]
  BY ElementOfSeq DEF TypeOK
<1>2. /\ lines[i].msg \in Messages /\ lines[i].label \in Levels
      /\ lines[i].file \in Days
  BY <1>1
<1>3. queuedOn[lines[i].msg] \in {0} \cup Days
  BY <1>2 DEF TypeOK
<1> QED
  BY <1>2, <1>3 DEF Days

(* The invariant implies what the run checks.                              *)
LEMMA LogInvGives == LogInv => LabelIsRecent /\ MisfiledOnce
<1> SUFFICES ASSUME LogInv PROVE LabelIsRecent /\ MisfiledOnce
  OBVIOUS
<1> USE LogAssumption
<1>1. DOMAIN lines = 1 .. Len(lines)
  BY DEF LogInv, TypeOK
<1>2. LabelIsRecent
  BY <1>1 DEF LogInv, Recent, LabelIsRecent
<1>3. MisfiledOnce
  <2> SUFFICES ASSUME NEW i \in 1 .. Len(lines), NEW j \in 1 .. Len(lines), i < j,
                      lines[i].file = lines[j].file,
                      queuedOn[lines[i].msg] > lines[i].file
               PROVE  \E n \in NetLogs : /\ netAt[n] = "done" /\ netNow[n] = lines[j].file
                                        /\ linesAt[n] \in i .. j - 1
    BY <1>1 DEF MisfiledOnce
  <2>1. queuedOn[lines[i].msg] \in Nat /\ lines[i].file \in Nat
    BY LineTypes DEF LogInv
  <2>2. ~(queuedOn[lines[i].msg] <= lines[j].file)
    BY <2>1
  <2> QED
    BY <2>2 DEF LogInv, Chosen
<1> QED
  BY <1>2, <1>3

(* No message is anywhere at first.                                        *)
LEMMA LogInvInit == Init => LogInv
<1> SUFFICES ASSUME Init PROVE LogInv
  OBVIOUS
<1> USE LogAssumption
<1>1. TypeOK
  <2>1. 1 \in Days
    BY DEF Days
  <2>2. lines \in Seq([msg : Messages, label : Levels, file : Days, stamp : Days])
    BY DEF Init
  <2>3. /\ file \in Days \cup {Closed}
        /\ file = Closed <=> at \in {"time", "localtime", "open"}
    BY DEF Init
  <2>4. msg \in Messages \cup {NoMessage} /\ (msg = NoMessage <=> at # "write")
    BY DEF Init
  <2>5. /\ since \in [Messages -> SUBSET Levels]
        /\ queuedOn \in [Messages -> {0} \cup Days]
        /\ doing \in [Threads -> Messages \cup {NoMessage}]
    BY DEF Init
  <2>6. log_queue \in Seq(Messages) /\ exited \in BOOLEAN
    <3>1. <<>> \in Seq(Messages)
      OBVIOUS
    <3> QED
      BY <3>1 DEF Init
  <2>7. /\ at \in {"time", "localtime", "open", "pop", "wait", "write"}
        /\ logLevel \in Levels
        /\ now \in Days /\ tm \in Days /\ today \in Days
    BY <2>1 DEF Init
  <2>8. /\ netAt \in [NetLogs -> {"level", "time", "localtime", "done"}]
        /\ netNow \in [NetLogs -> Days] /\ linesAt \in [NetLogs -> Nat]
    BY <2>1 DEF Init
  <2> QED
    BY <2>2, <2>3, <2>4, <2>5, <2>6, <2>7, <2>8 DEF TypeOK
<1>2. OnePlace
  BY DEF Init, OnePlace, Doing, Queued, Popped, Filed
<1>3. Recent
  BY DEF Init, Recent, Begun
<1>4. Chosen
  BY DEF Init, Chosen
<1> QED
  BY <1>1, <1>2, <1>3, <1>4 DEF LogInv

------------------------------------------------------------------------------
(* One lemma per action.                                                   *)

(* What is done to the network layer's messages stays so.                  *)
Kept == \A n \in NetLogs :
  netAt[n] = "done" => /\ netAt'[n] = "done" /\ netNow'[n] = netNow[n]
                       /\ linesAt'[n] = linesAt[n]

(* What changes no message's place, level or day.                          *)
LEMMA Still ==
  ASSUME LogInv, TypeOK', Kept,
         UNCHANGED <<macros, log_queue, msg, lines, queuedOn>>,
         today' >= today,
         at' \in {"localtime", "open"} => Before(now)',
         at' = "open" => tm' = now' \/ Stale(tm)',
         at' \in {"pop", "wait", "write"} => Before(file)' \/ Stale(file)'
  PROVE  LogInv'
<1> USE LogAssumption
<1>1. OnePlace' /\ Recent'
  BY DEF LogInv, OnePlace, Doing, Queued, Popped, Filed, Begun, Recent, macros
<1>2. \A i \in 1 .. Len(lines) : lines[i].msg \in Messages
  BY LineTypes DEF LogInv
<1>3. \A m \in Messages : queuedOn'[m] <= today'
  <2>1. \A m \in Messages : queuedOn[m] <= today /\ queuedOn[m] \in Int
    BY DEF LogInv, TypeOK, Chosen, Days
  <2>2. today \in Int /\ today' \in Int
    BY DEF LogInv, TypeOK, Days
  <2> QED
    BY <2>1, <2>2
<1>4. \A i, j \in 1 .. Len(lines) :
        i < j => \/ queuedOn[lines[i].msg] <= lines[j].file
                 \/ \E n \in NetLogs : /\ netAt'[n] = "done" /\ netNow'[n] = lines[j].file
                                       /\ linesAt'[n] \in i .. j - 1
  BY DEF LogInv, Chosen, Kept
<1>5. Chosen'
  BY <1>3, <1>4 DEF Chosen
<1> QED
  BY <1>1, <1>5 DEF LogInv

(* And where it leaves the writer and its file alone, too.                 *)
LEMMA WriterStill ==
  ASSUME LogInv, Kept, UNCHANGED <<lines, queuedOn, now, file, today>>,
         at' = at,
         tm' = tm \/ Stale(tm)'
  PROVE  Chosen'
<1>1. \A d : Before(d) <=> Before(d)'
  BY DEF Before
<1>2. \A d : Stale(d) => Stale(d)'
  BY DEF Stale, Kept
<1>3. Before(now) <=> Before(now)'
  BY <1>1 DEF Before
<1>4. Before(file) <=> Before(file)'
  BY DEF Before
<1>5. Stale(file) => Stale(file)'
  BY DEF Stale, Kept
<1>6. tm' = tm => (Stale(tm) => Stale(tm)')
  BY DEF Stale, Kept
<1>7. \A i, j \in 1 .. Len(lines) :
        i < j => \/ queuedOn[lines[i].msg] <= lines[j].file
                 \/ \E n \in NetLogs : /\ netAt'[n] = "done" /\ netNow'[n] = lines[j].file
                                       /\ linesAt'[n] \in i .. j - 1
  BY DEF LogInv, Chosen, Kept
<1> QED
  BY <1>3, <1>4, <1>5, <1>6, <1>7 DEF LogInv, Chosen

(* SetLogLevel: the level is new to every message that is under way.       *)
LEMMA BeginLogStep ==
  ASSUME LogInv, NEW t \in Threads, NEW m \in Messages, BeginLog(t, m)
  PROVE  LogInv'
<1> USE LogAssumption
<1>1. /\ UNCHANGED <<log_queue, at, now, tm, file, msg, lines, netAt, netNow, linesAt,
                      today, exited, queuedOn>>
      /\ doing' = [doing EXCEPT ![t] = m]
      /\ doing[t] = NoMessage /\ ~Begun(m)
      /\ logLevel' = LevelOf[m] /\ LevelOf[m] \in Levels
  BY DEF BeginLog, writer, net, world, SetLogLevel
<1>2. /\ since' \in [Messages -> SUBSET Levels]
      /\ \A n \in Messages : Begun(n) \/ n = m => since'[n] = since[n] \cup {LevelOf[m]}
      /\ \A n \in Messages : ~Begun(n) /\ n # m => since'[n] = {}
  BY <1>1 DEF BeginLog, seen, LogInv, TypeOK, Begun
<1>3. TypeOK'
  BY <1>1, <1>2 DEF LogInv, TypeOK
<1>4. OnePlace'
  <2>1. \A n \in Messages : Begun(n)' <=> Begun(n) \/ n = m
    BY <1>2 DEF Begun
  <2>2. ~Doing(m) /\ ~Queued(m) /\ ~Popped(m) /\ ~Filed(m)
    BY <1>1 DEF LogInv, OnePlace
  <2>3. \A n \in Messages : Doing(n)' <=> Doing(n) \/ n = m
    BY <1>1 DEF Doing, LogInv, TypeOK
  <2>4. \A n \in Messages : /\ Queued(n)' <=> Queued(n)
                            /\ Popped(n)' <=> Popped(n)
                            /\ Filed(n)' <=> Filed(n)
    BY <1>1 DEF Queued, Popped, Filed
  <2>5. \A u, v \in Threads : doing'[u] = doing'[v] /\ doing'[u] # NoMessage => u = v
    BY <1>1, <2>2 DEF Doing, LogInv, OnePlace, TypeOK
  <2> QED
    BY <1>1, <2>1, <2>2, <2>3, <2>4, <2>5 DEF LogInv, OnePlace
<1>5. Recent'
  <2>1. \A i \in 1 .. Len(lines) : lines[i].msg \in Messages
    BY LineTypes DEF LogInv
  <2>2. \A i \in 1 .. Len(lines) : lines[i].label \in since'[lines[i].msg]
    BY <1>2, <2>1 DEF LogInv, Recent, Begun
  <2>3. \A n \in Messages : Begun(n)' => logLevel' \in since'[n]
    BY <1>1, <1>2 DEF Begun
  <2> QED
    BY <1>1, <2>2, <2>3 DEF Recent
<1>6. Chosen'
  <2>1. UNCHANGED <<lines, queuedOn, now, file, today>> /\ at' = at /\ tm' = tm
    BY <1>1
  <2>2. Kept
    BY <1>1 DEF Kept
  <2> QED
    BY <2>1, <2>2, WriterStill
<1> QED
  BY <1>3, <1>4, <1>5, <1>6 DEF LogInv

(* PushLog: the message goes from its thread to the end of the queue.      *)
LEMMA LogStep ==
  ASSUME LogInv, NEW t \in Threads, Log(t)
  PROVE  LogInv'
<1> USE LogAssumption
<1> DEFINE m == doing[t]
<1>1. /\ m \in Messages
      /\ UNCHANGED <<logLevel, since, now, tm, file, msg, lines, netAt, netNow, linesAt,
                   today, exited>>
      /\ doing' = [doing EXCEPT ![t] = NoMessage]
      /\ log_queue' = Append(log_queue, m)
      /\ queuedOn' = [queuedOn EXCEPT ![m] = today]
  BY DEF Log, PushLog, net, world, LogInv, TypeOK
<1>2. /\ at' = IF at = "wait" THEN "pop" ELSE at
  BY DEF Log, PushLog
<1>3. TypeOK'
  BY <1>1, <1>2 DEF LogInv, TypeOK
<1>4. Doing(m) /\ ~Queued(m) /\ ~Popped(m) /\ ~Filed(m)
  BY <1>1 DEF LogInv, OnePlace, Doing
<1>5. /\ Len(log_queue') = Len(log_queue) + 1 /\ Len(log_queue) \in Nat
      /\ \A i \in 1 .. Len(log_queue) : log_queue'[i] = log_queue[i]
      /\ log_queue'[Len(log_queue) + 1] = m
  BY <1>1 DEF LogInv, TypeOK
<1>6. OnePlace'
  <2>1. \A n \in Messages : Doing(n)' <=> Doing(n) /\ n # m
    BY <1>1 DEF Doing, LogInv, OnePlace, TypeOK
  <2>2. \A n \in Messages : Queued(n)' <=> Queued(n) \/ n = m
    BY <1>5 DEF Queued
  <2>3. \A n \in Messages : /\ Begun(n)' <=> Begun(n)
                            /\ Popped(n)' <=> Popped(n)
                            /\ Filed(n)' <=> Filed(n)
    BY <1>1 DEF Begun, Popped, Filed
  <2>4. \A u, v \in Threads : doing'[u] = doing'[v] /\ doing'[u] # NoMessage => u = v
    BY <1>1 DEF LogInv, OnePlace, TypeOK
  <2>5. \A i, j \in 1 .. Len(log_queue') : log_queue'[i] = log_queue'[j] => i = j
    BY <1>4, <1>5 DEF LogInv, OnePlace, Queued
  <2> QED
    BY <1>1, <1>4, <2>1, <2>2, <2>3, <2>4, <2>5 DEF LogInv, OnePlace
<1>7. Recent'
  BY <1>1 DEF LogInv, Recent, Begun
<1>8. Chosen'
  <2>1. \A i \in 1 .. Len(lines) : queuedOn'[lines[i].msg] = queuedOn[lines[i].msg]
    BY <1>1, <1>4 DEF Filed, LogInv, TypeOK
  <2>2. \A n \in Messages : queuedOn'[n] <= today
    BY <1>1 DEF LogInv, TypeOK, Chosen, Days
  <2>3. Before(now)' <=> Before(now)
    BY <1>1, <2>1 DEF Before
  <2>4. Before(file)' <=> Before(file)
    BY <1>1, <2>1 DEF Before
  <2>5. (Stale(tm)' <=> Stale(tm)) /\ (Stale(file)' <=> Stale(file))
    BY <1>1 DEF Stale
  <2> QED
    BY <1>1, <1>2, <2>1, <2>2, <2>3, <2>4, <2>5 DEF LogInv, Chosen
<1> QED
  BY <1>3, <1>6, <1>7, <1>8 DEF LogInv

(* The network layer changes the level at most, or gives the buffer a day. *)
LEMMA NetLogStep ==
  ASSUME LogInv, NEW n \in NetLogs, netLog(n)
  PROVE  LogInv'
<1> USE LogAssumption
<1>1. /\ UNCHANGED <<doing, log_queue, at, now, file, msg, lines, today, exited, queuedOn>>
      /\ netAt[n] # "done"
      /\ netAt' = [netAt EXCEPT ![n] = netAt'[n]]
      /\ netAt'[n] \in {"time", "localtime", "done"}
  BY DEF netLog, setLogLevel, TimeStamp_now, TstoString, netGoes, macros, writer, world,
     LogInv, TypeOK
<1>2. /\ netNow' \in [NetLogs -> Days] /\ linesAt' \in [NetLogs -> Nat]
      /\ \A k \in NetLogs : k # n => netNow'[k] = netNow[k] /\ linesAt'[k] = linesAt[k]
  <2>1. Len(lines) \in Nat /\ today \in Days
    BY LenProperties DEF LogInv, TypeOK
  <2>2. CASE TimeStamp_now(n)
    BY <2>1, <2>2 DEF TimeStamp_now, LogInv, TypeOK
  <2>3. CASE TstoString(n)
    BY <2>1, <2>3 DEF TstoString, LogInv, TypeOK
  <2>4. CASE \E level \in Levels : setLogLevel(n, level)
    BY <2>4 DEF setLogLevel, LogInv, TypeOK
  <2> QED
    BY <2>2, <2>3, <2>4 DEF netLog
<1>3. Kept
  BY <1>1, <1>2 DEF Kept, LogInv, TypeOK
<1>4. tm' = tm \/ (tm' \in Days /\ Stale(tm)')
  <2>1. CASE TstoString(n)
    <3>1. netAt'[n] = "done" /\ netNow'[n] = tm' /\ linesAt'[n] = Len(lines')
      BY <2>1 DEF TstoString, netGoes, LogInv, TypeOK
    <3> QED
      BY <2>1, <3>1, <1>2 DEF Stale
  <2>2. CASE ~TstoString(n)
    BY <2>2 DEF netLog, setLogLevel, TimeStamp_now, writer
  <2> QED
    BY <2>1, <2>2
<1>5. /\ since' \in [Messages -> SUBSET Levels] /\ logLevel' \in Levels
      /\ \A m \in Messages : Begun(m)' <=> Begun(m)
      /\ \A m \in Messages : since[m] \subseteq since'[m]
      /\ \A m \in Messages : Begun(m) => logLevel' \in since'[m]
  <2>1. CASE UNCHANGED <<logLevel, since>>
    BY <2>1 DEF LogInv, TypeOK, Recent, Begun
  <2>2. ASSUME NEW level \in Levels,
               SetLogLevel(level) /\ seen(level, {m \in Messages : Begun(m)})
        PROVE  <1>5!:
    <3>1. \A m \in Messages :
            since'[m] = IF Begun(m) THEN since[m] \cup {level} ELSE since[m]
      BY <2>2 DEF seen
    <3>2. since' \in [Messages -> SUBSET Levels] /\ logLevel' = level
      BY <2>2 DEF seen, SetLogLevel, LogInv, TypeOK
    <3> QED
      BY <3>1, <3>2 DEF Begun
  <2> QED
    BY <2>1, <2>2 DEF netLog, setLogLevel, TimeStamp_now, TstoString, macros
<1>6. TypeOK'
  BY <1>1, <1>2, <1>4, <1>5 DEF LogInv, TypeOK
<1>7. OnePlace'
  BY <1>1, <1>5 DEF LogInv, OnePlace, Doing, Queued, Popped, Filed
<1>8. \A i \in 1 .. Len(lines) : lines[i].msg \in Messages
  BY LineTypes DEF LogInv
<1>9. Recent'
  BY <1>1, <1>5, <1>8 DEF LogInv, Recent
<1>10. Chosen'
  <2>1. UNCHANGED <<lines, queuedOn, now, file, today>> /\ at' = at
    BY <1>1
  <2>2. tm' = tm \/ Stale(tm)'
    BY <1>4
  <2> QED
    BY <1>3, <2>1, <2>2, WriterStill
<1> QED
  BY <1>6, <1>7, <1>9, <1>10 DEF LogInv

(* The first message goes from the queue to the writer.                    *)
LEMMA PopLogStep ==
  ASSUME LogInv, PopLog
  PROVE  LogInv'
<1> USE LogAssumption
<1>1. CASE log_queue = <<>>
  <2>1. /\ UNCHANGED <<macros, log_queue, msg, now, tm, file, lines, net, world, queuedOn>>
        /\ at = "pop" /\ at' = "wait"
    BY <1>1 DEF PopLog
  <2>2. TypeOK'
    BY <2>1 DEF LogInv, TypeOK, macros, net, world
  <2>3. today' >= today /\ Kept
    BY <2>1 DEF LogInv, TypeOK, Days, world, net, Kept
  <2>4. Before(file)' \/ Stale(file)'
    BY <2>1 DEF LogInv, Chosen, Before, Stale, net
  <2> QED
    BY <2>1, <2>2, <2>3, <2>4, Still
<1>2. CASE log_queue # <<>>
  <2> DEFINE m == Head(log_queue)
  <2>1. /\ UNCHANGED <<macros, now, tm, file, lines, net, world, queuedOn>>
        /\ at = "pop" /\ at' = "write" /\ msg' = m
        /\ log_queue' = Tail(log_queue)
    BY <1>2 DEF PopLog
  <2>2. /\ m \in Messages /\ log_queue' \in Seq(Messages)
        /\ Len(log_queue') = Len(log_queue) - 1 /\ Len(log_queue) \in Nat \ {0}
        /\ \A i \in 1 .. Len(log_queue') : log_queue'[i] = log_queue[i + 1]
        /\ m = log_queue[1]
    BY <1>2, <2>1, HeadTailProperties, LenProperties DEF LogInv, TypeOK
  <2> HIDE DEF m
  <2>3. TypeOK'
    BY <2>1, <2>2 DEF LogInv, TypeOK, macros, net, world
  <2>4. OnePlace'
    <3>1. ASSUME NEW i \in 1 .. Len(log_queue'), NEW j \in 1 .. Len(log_queue'),
                 log_queue'[i] = log_queue'[j]
          PROVE  i = j
      <4>1. /\ i + 1 \in 1 .. Len(log_queue) /\ j + 1 \in 1 .. Len(log_queue)
            /\ log_queue[i + 1] = log_queue[j + 1]
        BY <3>1, <2>2
      <4>2. i + 1 = j + 1
        BY <4>1 DEF LogInv, OnePlace
      <4> QED
        BY <4>2, <2>2
    <3>2. \A n \in Messages : Queued(n)' <=> Queued(n) /\ n # m
      <4> SUFFICES ASSUME NEW n \in Messages PROVE Queued(n)' <=> Queued(n) /\ n # m
        OBVIOUS
      <4>1. ASSUME Queued(n)' PROVE Queued(n) /\ n # m
        <5>1. PICK i \in 1 .. Len(log_queue') : log_queue'[i] = n
          BY <4>1 DEF Queued
        <5>2. i + 1 \in 1 .. Len(log_queue) /\ log_queue[i + 1] = n /\ i + 1 # 1
              /\ 1 \in 1 .. Len(log_queue)
          BY <5>1, <2>2
        <5> QED
          BY <5>2, <2>2 DEF Queued, LogInv, OnePlace
      <4>2. ASSUME Queued(n), n # m PROVE Queued(n)'
        <5>1. PICK i \in 1 .. Len(log_queue) : log_queue[i] = n
          BY <4>2 DEF Queued
        <5>2. i # 1
          BY <5>1, <4>2, <2>2
        <5>3. i - 1 \in 1 .. Len(log_queue') /\ log_queue'[i - 1] = log_queue[i]
          BY <5>1, <5>2, <2>2
        <5> QED
          BY <5>1, <5>3 DEF Queued
      <4> QED
        BY <4>1, <4>2
    <3>3. Queued(m)
      BY <2>2 DEF Queued
    <3>4. msg = NoMessage
      BY <2>1 DEF LogInv, TypeOK
    <3>5. \A n \in Messages : /\ Popped(n)' <=> n = m
                              /\ Begun(n)' <=> Begun(n)
                              /\ Doing(n)' <=> Doing(n)
                              /\ Filed(n)' <=> Filed(n)
      BY <2>1 DEF Popped, Begun, Doing, Filed, macros
    <3> QED
      BY <2>1, <2>2, <3>1, <3>2, <3>3, <3>5 DEF LogInv, OnePlace, macros
  <2>5. Recent'
    BY <2>1 DEF LogInv, Recent, Begun, macros
  <2>6. Chosen'
    BY <2>1 DEF LogInv, Chosen, Before, Stale, net, world
  <2> QED
    BY <2>3, <2>4, <2>5, <2>6 DEF LogInv
<1> QED
  BY <1>1, <1>2

(* The writer's message becomes the last line, after all others' days.     *)
LEMMA FputsStep ==
  ASSUME LogInv, fputs
  PROVE  LogInv'
<1> USE LogAssumption
<1> DEFINE line == [msg |-> msg, label |-> logLevel, file |-> file, stamp |-> tm]
<1>1. /\ UNCHANGED <<macros, log_queue, now, tm, net, world, queuedOn>>
      /\ at = "write" /\ at' = "time" /\ file' = Closed /\ msg' = NoMessage
      /\ lines' = Append(lines, line)
  BY DEF fputs, fclose
<1>2. /\ msg \in Messages /\ file \in Days /\ logLevel \in Levels
      /\ now \in Days /\ tm \in Days
  BY <1>1 DEF LogInv, TypeOK
<1>3. line \in [msg : Messages, label : Levels, file : Days, stamp : Days]
      /\ line.msg = msg /\ line.label = logLevel /\ line.file = file
  BY <1>2
<1> HIDE DEF line
<1>4. /\ Len(lines') = Len(lines) + 1 /\ Len(lines) \in Nat
      /\ \A i \in 1 .. Len(lines) : lines'[i] = lines[i]
      /\ lines'[Len(lines) + 1] = line
      /\ lines' \in Seq([msg : Messages, label : Levels, file : Days, stamp : Days])
  BY <1>1, <1>3, AppendProperties, LenProperties DEF LogInv, TypeOK
<1>5. \A i \in 1 .. Len(lines') : i \in 1 .. Len(lines) \/ i = Len(lines) + 1
  BY <1>4
<1>6. TypeOK'
  BY <1>1, <1>4 DEF LogInv, TypeOK, macros, net, world
<1>7. OnePlace'
  <2>1. \A n \in Messages : Filed(n)' <=> Filed(n) \/ n = msg
    <3> SUFFICES ASSUME NEW n \in Messages PROVE Filed(n)' <=> Filed(n) \/ n = msg
      OBVIOUS
    <3>1. Filed(n)' => Filed(n) \/ n = msg
      BY <1>3, <1>4, <1>5 DEF Filed
    <3>2. Filed(n) => Filed(n)'
      BY <1>4 DEF Filed
    <3>3. Len(lines) + 1 \in 1 .. Len(lines')
      BY <1>4
    <3>4. n = msg => Filed(n)'
      BY <1>3, <1>4, <3>3 DEF Filed
    <3> QED
      BY <3>1, <3>2, <3>4
  <2>2. ~Filed(msg) /\ ~Queued(msg) /\ ~Doing(msg) /\ Begun(msg)
    BY <1>2 DEF LogInv, OnePlace, Popped
  <2>3. \A i, j \in 1 .. Len(lines') : lines'[i].msg = lines'[j].msg => i = j
    BY <2>2, <1>3, <1>4, <1>5 DEF LogInv, OnePlace, Filed
  <2>4. \A n \in Messages : /\ ~Popped(n)'
                            /\ Begun(n)' <=> Begun(n)
                            /\ Doing(n)' <=> Doing(n)
                            /\ Queued(n)' <=> Queued(n)
    BY <1>1 DEF Popped, Begun, Doing, Queued, macros
  <2> QED
    BY <1>1, <2>1, <2>2, <2>3, <2>4 DEF LogInv, OnePlace, macros
<1>8. Recent'
  <2>1. logLevel \in since[msg]
    BY <1>2 DEF LogInv, OnePlace, Recent, Popped
  <2>2. \A i \in 1 .. Len(lines') : lines'[i].label \in since[lines'[i].msg]
    BY <2>1, <1>3, <1>4, <1>5 DEF LogInv, Recent
  <2> QED
    BY <1>1, <2>2 DEF LogInv, Recent, Begun, macros
<1>9. Chosen'
  <2> DEFINE between(i, j) ==
        \/ queuedOn[lines'[i].msg] <= lines'[j].file
        \/ \E n \in NetLogs : /\ netAt[n] = "done" /\ netNow[n] = lines'[j].file
                             /\ linesAt[n] \in i .. j - 1
  <2>1. ASSUME NEW i \in 1 .. Len(lines'), NEW j \in 1 .. Len(lines'), i < j
        PROVE  between(i, j)
    <3>1. i \in 1 .. Len(lines) /\ lines'[i] = lines[i]
      BY <2>1, <1>4, <1>5
    <3>2. CASE j \in 1 .. Len(lines)
      BY <2>1, <3>1, <3>2, <1>4 DEF LogInv, Chosen
    <3>3. CASE j = Len(lines) + 1
      <4>1. lines'[j].file = file
        BY <3>3, <1>3, <1>4
      <4>2. CASE Before(file)
        BY <3>1, <4>1, <4>2 DEF Before
      <4>3. CASE Stale(file)
        <5>1. PICK n \in NetLogs : /\ netAt[n] = "done" /\ netNow[n] = file
                                   /\ linesAt[n] = Len(lines)
          BY <4>3 DEF Stale
        <5>2. linesAt[n] \in i .. j - 1
          BY <5>1, <3>1, <3>3, <1>4
        <5> QED
          BY <5>1, <5>2, <4>1
      <4> QED
        BY <4>2, <4>3, <1>1 DEF LogInv, Chosen
    <3> QED
      BY <3>2, <3>3, <1>5
  <2> QED
    BY <1>1, <2>1 DEF LogInv, Chosen, net, world
<1> QED
  BY <1>6, <1>7, <1>8, <1>9 DEF LogInv

(* The other steps of the writer, and of the world.                        *)
LEMMA OtherSteps ==
  ASSUME LogInv,
         time \/ localtime \/ fopen \/ wakeup \/ midnight \/ exit \/ UNCHANGED vars
  PROVE  LogInv'
<1> USE LogAssumption
<1>1. \A m \in Messages : queuedOn[m] <= today
  BY DEF LogInv, Chosen
<1>2. today \in Days /\ today \in Int
  BY DEF LogInv, TypeOK, Days
<1>3. \A i \in 1 .. Len(lines) : lines[i].msg \in Messages
  BY LineTypes DEF LogInv
<1>4. UNCHANGED <<macros, log_queue, msg, lines, queuedOn, netAt, netNow, linesAt>> /\ Kept
  BY DEF time, localtime, fopen, wakeup, midnight, exit, vars, writer, net, Kept
<1>5. CASE time
  <2>1. TypeOK' /\ today' = today /\ now' = today /\ at' = "localtime"
    BY <1>5, <1>2 DEF time, LogInv, TypeOK, macros, net, world
  <2>2. Before(now)'
    BY <1>1, <1>3, <1>4, <2>1 DEF Before
  <2> QED
    BY <1>2, <1>4, <2>1, <2>2, Still
<1>6. CASE localtime
  <2>1. TypeOK' /\ today' = today /\ tm' = now' /\ now' = now /\ at' = "open"
    BY <1>6, <1>2 DEF localtime, LogInv, TypeOK, macros, net, world
  <2>2. Before(now)'
    BY <1>4, <1>6, <2>1 DEF Before, localtime, LogInv, Chosen
  <2> QED
    BY <1>2, <1>4, <2>1, <2>2, Still
<1>7. CASE fopen
  <2>1. TypeOK'
    BY <1>7 DEF fopen, LogInv, TypeOK, macros, net
  <2>2. /\ today' = today /\ tm' = tm /\ now' = now /\ at = "open"
        /\ \/ at' = "pop" /\ file' = tm
           \/ at' = "open" /\ file' = file
    BY <1>7 DEF fopen
  <2>3. Before(now) /\ (tm = now \/ Stale(tm))
    BY <2>2 DEF LogInv, Chosen
  <2>4. Before(now)' /\ (tm' = now' \/ Stale(tm)')
    BY <1>4, <2>2, <2>3 DEF Before, Stale
  <2>5. file' = tm => Before(file)' \/ Stale(file)'
    BY <1>4, <2>2, <2>3 DEF Before, Stale
  <2> QED
    BY <1>2, <1>4, <2>1, <2>2, <2>4, <2>5, Still
<1>8. CASE wakeup
  <2>1. TypeOK' /\ today' = today /\ at = "wait" /\ at' = "pop" /\ file' = file
    BY <1>8 DEF wakeup, LogInv, TypeOK, macros, net, world
  <2>2. Before(file)' \/ Stale(file)'
    BY <1>4, <2>1 DEF LogInv, Chosen, Before, Stale
  <2> QED
    BY <1>2, <1>4, <2>1, <2>2, Still
<1>9. CASE midnight
  <2>1. TypeOK' /\ today' >= today /\ UNCHANGED <<at, now, tm, file>>
    BY <1>2, <1>9 DEF midnight, LogInv, TypeOK, macros, writer, net, Days
  <2>2. /\ Before(now)' <=> Before(now)
        /\ Before(file)' <=> Before(file)
        /\ Stale(tm)' <=> Stale(tm)
        /\ Stale(file)' <=> Stale(file)
    BY <1>4, <2>1 DEF Before, Stale
  <2> QED
    BY <1>4, <2>1, <2>2, Still DEF LogInv, Chosen
<1>10. CASE exit \/ UNCHANGED vars
  <2>1. UNCHANGED <<at, now, tm, file, today>> /\ TypeOK'
    BY <1>10 DEF exit, vars, LogInv, TypeOK, macros, writer, net, world
  <2>2. OnePlace' /\ Recent'
    BY <1>4 DEF LogInv, OnePlace, Doing, Queued, Popped, Filed, Begun, Recent, macros
  <2>3. Chosen'
    <3>1. UNCHANGED <<lines, queuedOn, now, file, today>> /\ at' = at /\ tm' = tm
      BY <1>4, <2>1
    <3> QED
      BY <1>4, <3>1, WriterStill
  <2> QED
    BY <2>1, <2>2, <2>3 DEF LogInv
<1> QED
  BY <1>5, <1>6, <1>7, <1>8, <1>9, <1>10

(* Every step keeps the invariant.                                         *)
LEMMA LogInvStep == LogInv /\ [Next]_vars => LogInv'
BY BeginLogStep, LogStep, NetLogStep, PopLogStep, FputsStep, OtherSteps DEF Next

(* The invariant of the log.                                               *)
THEOREM LogInvariant == Spec => []LogInv
<1>1. LogInv /\ [Next]_vars => LogInv'
  BY LogInvStep
<1> QED
  BY <1>1, LogInvInit, PTL DEF Spec

(* The writer has a file open exactly where it may write, and a message    *)
(* exactly while it writes.                                                *)
THEOREM LogTypeCorrect == Spec => []TypeOK
<1>1. LogInv => TypeOK
  BY DEF LogInv
<1> QED
  BY <1>1, LogInvariant, PTL

(* The label of a line was set by the macro of its message or after it.    *)
THEOREM LabelsAreRecent == Spec => []LabelIsRecent
<1>1. LogInv => LabelIsRecent
  BY LogInvGives
<1> QED
  BY <1>1, LogInvariant, PTL

(* Between two messages of later days in the file of a day, a message of   *)
(* the network layer gave localtime's buffer a time of that day: without   *)
(* one, the file has at most one such message.                             *)
THEOREM FewMisfiled == Spec => []MisfiledOnce
<1>1. LogInv => MisfiledOnce
  BY LogInvGives
<1> QED
  BY <1>1, LogInvariant, PTL

------------------------------------------------------------------------------
(* The safety half of EveryMessageWritten.                                 *)

(* The writer never sleeps on work: a message pushed while it waits has it *)
(* look at the queue again (logqueue.h:18-19, 28-29).                      *)
NotifyNotMissed == at = "wait" => log_queue = <<>>

(* A message whose logging began is not lost: its thread has it, the queue *)
(* or the writer, or it is in a file (logger.cc:32-38).                    *)
NoneLost ==
  \A m \in Messages : Begun(m) => Doing(m) \/ Queued(m) \/ Popped(m) \/ Filed(m)

LEMMA HeldInOrder == LogInv /\ NoneLost /\ [Next]_vars => NoneLost'
<1> SUFFICES ASSUME LogInv, NoneLost, [Next]_vars, NEW m \in Messages, Begun(m)'
             PROVE  Doing(m)' \/ Queued(m)' \/ Popped(m)' \/ Filed(m)'
  BY DEF NoneLost
<1> USE LogAssumption
<1>1. ASSUME NEW t \in Threads, NEW n \in Messages, BeginLog(t, n)
      PROVE  Doing(m)' \/ Queued(m)' \/ Popped(m)' \/ Filed(m)'
  <2>1. /\ doing[t] = NoMessage /\ doing' = [doing EXCEPT ![t] = n]
        /\ UNCHANGED <<log_queue, msg, lines>>
        /\ m # n => Begun(m)
    BY <1>1 DEF BeginLog, seen, writer, Begun
  <2>2. CASE m = n
    BY <2>1, <2>2 DEF Doing, LogInv, TypeOK
  <2>3. CASE m # n
    <3>1. Doing(m) \/ Queued(m) \/ Popped(m) \/ Filed(m)
      BY <2>1, <2>3 DEF NoneLost
    <3>2. Doing(m) => Doing(m)'
      BY <2>1 DEF Doing, LogInv, TypeOK
    <3> QED
      BY <2>1, <3>1, <3>2 DEF Queued, Popped, Filed
  <2> QED
    BY <2>2, <2>3
<1>2. ASSUME ~\E t \in Threads, n \in Messages : BeginLog(t, n)
      PROVE  Begun(m)
  BY <1>2 DEF Next, Log, netLog, setLogLevel, TimeStamp_now, TstoString, seen, time, localtime,
     fopen, PopLog, wakeup, fputs, midnight, exit, macros, Begun, vars, LogInv, TypeOK
<1>3. ASSUME Begun(m), NEW t \in Threads, Log(t)
      PROVE  Doing(m)' \/ Queued(m)' \/ Popped(m)' \/ Filed(m)'
  <2>1. /\ doing[t] \in Messages /\ doing' = [doing EXCEPT ![t] = NoMessage]
        /\ log_queue' = Append(log_queue, doing[t])
        /\ UNCHANGED <<msg, lines>>
    BY <1>3 DEF Log, PushLog, LogInv, TypeOK
  <2>2. /\ Len(log_queue') = Len(log_queue) + 1 /\ Len(log_queue) \in Nat
        /\ \A i \in 1 .. Len(log_queue) : log_queue'[i] = log_queue[i]
        /\ log_queue'[Len(log_queue) + 1] = doing[t]
    BY <2>1 DEF LogInv, TypeOK
  <2>3. Queued(m) \/ m = doing[t] => Queued(m)'
    BY <2>2 DEF Queued
  <2>4. Doing(m) /\ m # doing[t] => Doing(m)'
    BY <2>1 DEF Doing, LogInv, TypeOK
  <2> QED
    BY <1>3, <2>1, <2>3, <2>4 DEF NoneLost, Popped, Filed
<1>4. ASSUME Begun(m), PopLog
      PROVE  Doing(m)' \/ Queued(m)' \/ Popped(m)' \/ Filed(m)'
  <2>1. UNCHANGED <<doing, lines>> /\ at = "pop" /\ msg = NoMessage
    BY <1>4 DEF PopLog, macros, LogInv, TypeOK
  <2>2. CASE log_queue = <<>>
    BY <1>4, <2>1, <2>2 DEF PopLog, NoneLost, Doing, Queued, Popped, Filed
  <2>3. CASE log_queue # <<>>
    <3>1. /\ msg' = log_queue[1]
          /\ Len(log_queue') = Len(log_queue) - 1 /\ Len(log_queue) \in Nat \ {0}
          /\ \A i \in 1 .. Len(log_queue') : log_queue'[i] = log_queue[i + 1]
      <4>1. msg' = Head(log_queue) /\ log_queue' = Tail(log_queue)
        BY <1>4, <2>3 DEF PopLog
      <4>2. log_queue \in Seq(Messages)
        BY DEF LogInv, TypeOK
      <4> QED
        BY <2>3, <4>1, <4>2, HeadTailProperties, LenProperties
    <3>2. ASSUME NEW i \in 1 .. Len(log_queue), log_queue[i] = m
          PROVE  Queued(m)' \/ Popped(m)'
      <4>1. CASE i = 1
        BY <3>1, <3>2, <4>1 DEF Popped
      <4>2. CASE i # 1
        <5>1. i - 1 \in 1 .. Len(log_queue') /\ (i - 1) + 1 = i
          BY <3>1, <4>2
        <5>2. log_queue'[i - 1] = m
          BY <3>1, <3>2, <5>1
        <5> QED
          BY <5>1, <5>2 DEF Queued
      <4> QED
        BY <4>1, <4>2
    <3>3. ~Popped(m)
      BY <2>1 DEF Popped
    <3> QED
      BY <1>4, <2>1, <3>2, <3>3 DEF NoneLost, Doing, Queued, Filed
  <2> QED
    BY <2>2, <2>3
<1>5. ASSUME Begun(m), fputs
      PROVE  Doing(m)' \/ Queued(m)' \/ Popped(m)' \/ Filed(m)'
  <2> DEFINE line == [msg |-> msg, label |-> logLevel, file |-> file, stamp |-> tm]
  <2>1. UNCHANGED <<doing, log_queue>> /\ lines' = Append(lines, line)
    BY <1>5 DEF fputs, macros
  <2>2. /\ Len(lines') = Len(lines) + 1 /\ Len(lines) \in Nat
        /\ \A i \in 1 .. Len(lines) : lines'[i] = lines[i]
        /\ lines'[Len(lines) + 1].msg = msg
    BY <2>1 DEF LogInv, TypeOK
  <2>3. Filed(m) \/ Popped(m) => Filed(m)'
    BY <2>2 DEF Filed, Popped
  <2> QED
    BY <1>5, <2>1, <2>3 DEF NoneLost, Doing, Queued
<1>6. ASSUME Begun(m), UNCHANGED <<doing, log_queue, msg, lines>>
      PROVE  Doing(m)' \/ Queued(m)' \/ Popped(m)' \/ Filed(m)'
  BY <1>6 DEF NoneLost, Doing, Queued, Popped, Filed
<1>7. \/ \E t \in Threads : Log(t) \/ \E n \in Messages : BeginLog(t, n)
      \/ PopLog \/ fputs
      \/ UNCHANGED <<doing, log_queue, msg, lines>>
  BY DEF Next, netLog, setLogLevel, TimeStamp_now, TstoString, time, localtime, fopen,
     wakeup, midnight, exit, macros, writer, vars
<1> QED
  BY <1>1, <1>2, <1>3, <1>4, <1>5, <1>6, <1>7

(* So a message that is never written is one whose writer stopped.         *)
THEOREM NoMessageLost == Spec => [](NotifyNotMissed /\ NoneLost)
<1>1. Init => NotifyNotMissed /\ NoneLost
  BY DEF Init, NotifyNotMissed, NoneLost, Begun
<1>2. NotifyNotMissed /\ [Next]_vars => NotifyNotMissed'
  <2> SUFFICES ASSUME NotifyNotMissed, [Next]_vars PROVE NotifyNotMissed'
    OBVIOUS
  <2>1. CASE \E t \in Threads : Log(t)
    BY <2>1 DEF Log, PushLog, NotifyNotMissed
  <2>2. CASE PopLog
    BY <2>2 DEF PopLog, NotifyNotMissed
  <2>3. CASE ~(PopLog \/ \E t \in Threads : Log(t))
    <3>1. UNCHANGED log_queue /\ (at' = "wait" => at = "wait")
      BY <2>3 DEF Next, BeginLog, netLog, setLogLevel, TimeStamp_now, TstoString, time, localtime,
         fopen, wakeup, fputs, fclose, midnight, exit, macros, writer, vars
    <3> QED
      BY <3>1 DEF NotifyNotMissed
  <2> QED
    BY <2>1, <2>2, <2>3
<1> QED
  BY <1>1, <1>2, HeldInOrder, LogInvariant, PTL DEF Spec

------------------------------------------------------------------------------
(* The refinement of LogFile.                                              *)

(* What the writer holds, put before the queue.                            *)
LEMMA Prepended ==
  ASSUME NEW m \in Messages, NEW q \in Seq(Messages), NEW e \in Messages
  PROVE  LET p == <<m>> \o q
         IN /\ p \in Seq(Messages) /\ p # <<>> /\ Head(p) = m /\ Tail(p) = q
            /\ <<m>> \o Append(q, e) = Append(p, e)
            /\ \A i \in DOMAIN p : p[i] = m \/ \E j \in 1 .. Len(q) : p[i] = q[j]
            /\ q # <<>> => <<Head(q)>> \o Tail(q) = q
<1> DEFINE p == <<m>> \o q
<1>1. <<m>> \in Seq(Messages) /\ <<e>> \in Seq(Messages) /\ Len(<<m>>) = 1
  OBVIOUS
<1>2. /\ p \in Seq(Messages) /\ Len(p) = Len(q) + 1 /\ Len(q) \in Nat
      /\ p[1] = m /\ \A i \in 1 .. Len(q) : p[i + 1] = q[i]
  BY <1>1, ConcatProperties, LenProperties
<1>3. <<m>> \o Append(q, e) = Append(p, e)
  <2>1. Append(q, e) = q \o <<e>>
    BY AppendIsConcat
  <2>2. Append(p, e) = p \o <<e>>
    BY <1>2, AppendIsConcat
  <2>3. <<m>> \o (q \o <<e>>) = (<<m>> \o q) \o <<e>>
    BY <1>1, ConcatAssociative
  <2> QED
    BY <2>1, <2>2, <2>3
<1>4. p # <<>> /\ Head(p) = m
  BY <1>2, HeadTailProperties, LenProperties
<1>5. Tail(p) = q
  <2>1. /\ Tail(p) \in Seq(Messages) /\ Len(Tail(p)) = Len(p) - 1
        /\ \A i \in 1 .. Len(Tail(p)) : Tail(p)[i] = p[i + 1]
    BY <1>2, <1>4, HeadTailProperties
  <2>2. Len(Tail(p)) = Len(q) /\ \A i \in 1 .. Len(Tail(p)) : Tail(p)[i] = q[i]
    BY <1>2, <2>1
  <2> HIDE DEF p
  <2> QED
    BY <2>1, <2>2, SeqEqual
<1>6. ASSUME NEW i \in DOMAIN p PROVE p[i] = m \/ \E j \in 1 .. Len(q) : p[i] = q[j]
  <2>1. i \in 1 .. Len(q) + 1
    BY <1>2, LenProperties
  <2>2. CASE i = 1
    BY <2>2, <1>2
  <2>3. CASE i # 1
    <3>1. i - 1 \in 1 .. Len(q) /\ p[(i - 1) + 1] = q[i - 1] /\ (i - 1) + 1 = i
      BY <2>1, <2>3, <1>2
    <3> QED
      BY <3>1
  <2> QED
    BY <2>2, <2>3
<1>7. ASSUME q # <<>> PROVE <<Head(q)>> \o Tail(q) = q
  <2> DEFINE r == <<Head(q)>> \o Tail(q)
  <2>1. /\ Head(q) \in Messages /\ Tail(q) \in Seq(Messages)
        /\ Len(Tail(q)) = Len(q) - 1 /\ Head(q) = q[1] /\ Len(q) \in Nat \ {0}
        /\ \A i \in 1 .. Len(Tail(q)) : Tail(q)[i] = q[i + 1]
    BY <1>7, HeadTailProperties, LenProperties
  <2>2. <<Head(q)>> \in Seq(Messages) /\ Len(<<Head(q)>>) = 1 /\ <<Head(q)>>[1] = Head(q)
    BY <2>1
  <2>3. /\ r \in Seq(Messages) /\ Len(r) = Len(q)
        /\ r[1] = q[1] /\ \A i \in 2 .. Len(q) : r[i] = Tail(q)[i - 1]
    BY <2>1, <2>2, ConcatProperties, LenProperties
  <2>4. \A i \in 1 .. Len(q) : r[i] = q[i]
    BY <2>1, <2>3
  <2> HIDE DEF r
  <2>5. r = q
    BY <2>3, <2>4, SeqEqual
  <2> QED
    BY <2>5 DEF r
<1> QED
  BY <1>2, <1>3, <1>4, <1>5, <1>6, <1>7

(* A step that moves nothing.                                              *)
LEMMA SamePending ==
  ASSUME UNCHANGED <<log_queue, msg, lines>>, at = "write" <=> at' = "write"
  PROVE  UNCHANGED <<Pending, Written>>
BY DEF Pending, Written

(* A step of the writer or of a thread moves one message, or none.         *)
LEMMA NextRefines == LogInv /\ [Next]_vars => [File!Next]_<<Pending, Written>>
<1> USE LogAssumption
<1> SUFFICES ASSUME LogInv, [Next]_vars
             PROVE  File!Next \/ UNCHANGED <<Pending, Written>>
  OBVIOUS
<1>1. ASSUME NEW t \in Threads, Log(t) PROVE File!Submit(doing[t])
  <2> DEFINE m == doing[t]
  <2>1. /\ m \in Messages /\ UNCHANGED <<msg, lines>>
        /\ log_queue' = Append(log_queue, m)
        /\ (at = "write") <=> (at' = "write")
        /\ at = "write" => msg \in Messages
        /\ log_queue \in Seq(Messages)
    BY <1>1 DEF Log, PushLog, LogInv, TypeOK
  <2>2. ~Queued(m) /\ ~Popped(m) /\ ~Filed(m)
    BY <1>1, <2>1 DEF LogInv, OnePlace, Doing
  <2>3. Pending' = Append(Pending, m)
    BY <2>1, Prepended DEF Pending
  <2>4. ~File!IsIn(m, Pending)
    <3>1. CASE at = "write"
      BY <3>1, <2>1, <2>2, Prepended DEF Pending, Queued, Popped, File!IsIn
    <3>2. CASE at # "write"
      BY <3>2, <2>1, <2>2 DEF Pending, Queued, File!IsIn
    <3> QED
      BY <3>1, <3>2
  <2>5. ~File!IsIn(m, Written)
    BY <2>2, LenProperties DEF Written, Filed, File!IsIn, LogInv, TypeOK
  <2>6. Written' = Written
    BY <2>1 DEF Written
  <2> QED
    BY <2>3, <2>4, <2>5, <2>6 DEF File!Submit
<1>2. ASSUME PopLog PROVE UNCHANGED <<Pending, Written>>
  <2>1. CASE log_queue = <<>>
    BY <1>2, <2>1, SamePending DEF PopLog
  <2>2. CASE log_queue # <<>>
    <3>1. /\ at = "pop" /\ at' = "write" /\ msg' = Head(log_queue)
          /\ log_queue' = Tail(log_queue) /\ UNCHANGED lines
      BY <1>2, <2>2 DEF PopLog
    <3>2. log_queue \in Seq(Messages) /\ Head(log_queue) \in Messages
      BY <2>2, HeadTailProperties DEF LogInv, TypeOK
    <3>3. <<Head(log_queue)>> \o Tail(log_queue) = log_queue
      BY <2>2, <3>2, Prepended
    <3> QED
      BY <3>1, <3>3 DEF Pending, Written
  <2> QED
    BY <2>1, <2>2
<1>3. ASSUME fputs PROVE File!Write
  <2>1. /\ at = "write" /\ at' = "time" /\ UNCHANGED log_queue
        /\ msg \in Messages /\ log_queue \in Seq(Messages)
    BY <1>3 DEF fputs, fclose, LogInv, TypeOK
  <2>2. Pending # <<>> /\ Head(Pending) = msg /\ Pending' = Tail(Pending)
    BY <2>1, Prepended DEF Pending
  <2>3. Written' = Append(Written, msg)
    <3> DEFINE line == [msg |-> msg, label |-> logLevel, file |-> file, stamp |-> tm]
    <3>1. line.msg = msg
      OBVIOUS
    <3>2. lines' = Append(lines, line)
      BY <1>3 DEF fputs
    <3> HIDE DEF line
    <3>3. lines \in Seq([msg : Messages, label : Levels, file : Days, stamp : Days])
      BY DEF LogInv, TypeOK
    <3>4. Len(lines) \in Nat /\ DOMAIN lines = 1 .. Len(lines)
      BY <3>3, LenProperties
    <3>5. /\ DOMAIN lines' = 1 .. Len(lines) + 1
          /\ \A i \in 1 .. Len(lines) : lines'[i] = lines[i]
          /\ lines'[Len(lines) + 1] = line
      BY <3>2, <3>3, <3>4, LenProperties
    <3>6. Written \in Seq(Messages) /\ Len(Written) = Len(lines)
      <4>1. \A i \in 1 .. Len(lines) : lines[i].msg \in Messages
        BY LineTypes DEF LogInv
      <4> QED
        BY <4>1, <3>4, IsASeq, LenProperties DEF Written
    <3>7. Written' = [i \in 1 .. Len(lines) + 1 |-> lines'[i].msg]
      BY <3>5 DEF Written
    <3>8. /\ Written' \in Seq(Messages) /\ Len(Written') = Len(lines) + 1
          /\ Written'[Len(lines) + 1] = msg
          /\ \A i \in 1 .. Len(lines) : Written'[i] = lines[i].msg
      <4>1. \A i \in 1 .. Len(lines) : lines'[i].msg \in Messages
        BY <3>5, LineTypes DEF LogInv
      <4>2. \A i \in 1 .. Len(lines) + 1 : lines'[i].msg \in Messages
        <5>1. lines'[Len(lines) + 1].msg = msg
          BY <3>1, <3>5
        <5>2. \A i \in 1 .. Len(lines) + 1 : i \in 1 .. Len(lines) \/ i = Len(lines) + 1
          BY <3>4
        <5> QED
          BY <4>1, <5>1, <5>2, <2>1
      <4>3. Len(lines) + 1 \in Nat /\ Len(lines) + 1 \in 1 .. Len(lines) + 1
        BY <3>4
      <4>4. Written' \in Seq(Messages) /\ Len(Written') = Len(lines) + 1
        BY <4>2, <4>3, <3>7, IsASeq, LenProperties
      <4> QED
        <5>1. lines'[Len(lines) + 1].msg = msg
          BY <3>1, <3>5
        <5>2. Written'[Len(lines) + 1] = msg
          BY <5>1, <4>3, <3>7
        <5>3. ASSUME NEW i \in 1 .. Len(lines) PROVE Written'[i] = lines[i].msg
          <6>1. i \in 1 .. Len(lines) + 1 /\ lines'[i] = lines[i]
            BY <3>4, <3>5
          <6> QED
            BY <6>1, <3>7
        <5> QED
          BY <4>4, <5>2, <5>3
    <3> DEFINE w == Append(Written, msg)
    <3>9. /\ w \in Seq(Messages) /\ Len(w) = Len(lines) + 1
          /\ w[Len(lines) + 1] = msg
          /\ \A i \in 1 .. Len(lines) : w[i] = Written[i]
      BY <2>1, <3>4, <3>6, AppendProperties
    <3>10. \A i \in 1 .. Len(lines) : Written[i] = lines[i].msg
      BY <3>4 DEF Written
    <3>11. \A i \in 1 .. Len(lines) + 1 : Written'[i] = w[i]
      BY <3>4, <3>8, <3>9, <3>10
    <3> HIDE DEF w
    <3>12. Written' = w
      BY <3>4, <3>8, <3>9, <3>11, SeqEqual
    <3> QED
      BY <3>12 DEF w
  <2> QED
    BY <2>2, <2>3 DEF File!Write
<1>4. ASSUME NEW t \in Threads, NEW m \in Messages, BeginLog(t, m)
      PROVE  UNCHANGED <<Pending, Written>>
  BY <1>4, SamePending DEF BeginLog, writer
<1>5. ASSUME NEW n \in NetLogs, netLog(n) PROVE UNCHANGED <<Pending, Written>>
  <2>1. UNCHANGED <<log_queue, msg, lines, at>>
    BY <1>5 DEF netLog, setLogLevel, TimeStamp_now, TstoString, writer
  <2> QED
    BY <2>1, SamePending
<1>6. CASE time \/ localtime \/ fopen \/ wakeup \/ midnight \/ exit \/ UNCHANGED vars
  BY <1>6, SamePending DEF time, localtime, fopen, wakeup, midnight, exit, vars, writer
<1> QED
  BY <1>1, <1>2, <1>3, <1>4, <1>5, <1>6 DEF Next, File!Next, LogInv, TypeOK, Log

(* The queue, its lock and the writer implement a log: each message comes  *)
(* out once and in its order.                                              *)
THEOREM LogImplementsFile == Spec => ImplementsLogFile
<1>1. Init => File!Init
  <2>1. ASSUME Init PROVE Pending = <<>> /\ Written = <<>>
    BY <2>1 DEF Init, Pending, Written
  <2> QED
    BY <2>1 DEF File!Init
<1>2. LogInv /\ [Next]_vars => [File!Next]_<<Pending, Written>>
  BY NextRefines
<1> QED
  BY <1>1, <1>2, LogInvariant, PTL DEF Spec, File!Spec, ImplementsLogFile
==============================================================================
