--------------------------- MODULE ServerProcess ---------------------------
(***************************************************************************)
(* The process of the server (main.cpp): it reads the settings of its log, *)
(* loads the game, opens its port, and then one thread runs the handlers   *)
(* until it is stopped, has nothing left to wait for, or crashes; and it   *)
(* may be started again.  Of a connection only what the process sees of it *)
(* is kept: that it is there, and the lines its handlers log.              *)
(***************************************************************************)
EXTENDS Logging

CONSTANTS
  Files,      \* what easylogging.conf may be; <<>> stands for a missing one too
  MaxConns,   \* bound: connections at a time
  MaxLines,   \* bound: lines logged
  MaxRuns     \* bound: processes, one after the other

\* What stands for a known setting has the type that the parser makes of it.
ASSUME FilesAssumption ==
  \A f \in Files :
    /\ f \in Seq(Range(f))
    /\ \A i \in DOMAIN f : IsSection(f[i]) \/ f[i].type \notin Type
                             \/ f[i].value \in ValueOf(f[i].type)

VARIABLES
  file,       \* easylogging.conf
  log,        \* the logger and its files
  proc,       \* where main is
  accepting,  \* an async_accept is pending
  conns,      \* the connections, each of which keeps the io_service busy
  lines,      \* the lines logged so far
  runs        \* the processes so far

vars == <<file, log, proc, accepting, conns, lines, runs>>

Gone == {"returned", "aborted"}

Init ==
  /\ file \in Files
  /\ log = NewLogger([name \in FileNames |-> <<>>])
  /\ proc = "init" /\ accepting = FALSE /\ conns = 0
  /\ lines = 0 /\ runs = 1

-----------------------------------------------------------------------------
(* main, up to the loop                                                    *)

ReadSettings ==
  /\ proc = "init" /\ proc' = "configured"
  /\ log' = ConfigureLogger(log, file)
  /\ UNCHANGED <<file, accepting, conns, lines, runs>>

\* The constructor of ChessServer: a plug-in that is missing, or lacks one of
\* the two functions, ends the process with an exception nobody catches.
LoadGame ==
  /\ proc = "configured" /\ proc' \in {"loaded", "aborted"}
  /\ UNCHANGED <<file, log, accepting, conns, lines, runs>>

\* A fatal line ends the process, unless such lines are disabled.
LogFatal(w, otherwise) ==
  /\ log' \in DispatchFatal(w, lines + 2)
  /\ proc' = IF Enabled(w, "FATAL") THEN "aborted" ELSE otherwise
  /\ lines' = lines + 3

\* Gate::Start: open, bind or listen may fail.
StartServer ==
  /\ proc = "loaded"
  /\ \/ accepting' = TRUE /\ proc' = "run" /\ UNCHANGED <<log, lines>>
     \/ UNCHANGED accepting /\ LogFatal(log, "run")
  /\ UNCHANGED <<file, conns, runs>>

-----------------------------------------------------------------------------
(* The handlers                                                            *)

\* Faulty: nothing more is accepted after an error.
AcceptAfter(ok) == ok
AcceptAgain(ok) == TRUE

OnAccept ==
  /\ proc = "run" /\ accepting
  /\ \E ok \in BOOLEAN :
       /\ conns' = IF ok THEN conns + 1 ELSE conns
       /\ accepting' = AcceptAgain(ok)
  /\ conns' <= MaxConns
  /\ UNCHANGED <<file, log, proc, lines, runs>>

\* A handler of a connection that logs a line.
LogDebug ==
  /\ log' \in Dispatch(log, "DEBUG", <<"DEBUG", lines + 1>>)
  /\ lines' = lines + 1

Handling == proc = "run" /\ conns > 0 /\ lines < MaxLines

OnMessage ==
  /\ Handling /\ LogDebug
  /\ UNCHANGED <<file, proc, accepting, conns, runs>>

\* A connection that never logged in is dropped without a line.
OnClose ==
  /\ Handling /\ conns' = conns - 1
  /\ LogDebug \/ UNCHANGED <<log, lines>>
  /\ UNCHANGED <<file, proc, accepting, runs>>

HandleStopServer ==
  /\ Handling /\ LogDebug
  /\ proc' = "stopped"
  /\ UNCHANGED <<file, accepting, conns, runs>>

\* The null game_state_: the signal's handler logs a fatal line.
HandleGameTooEarly ==
  /\ Handling
  /\ \E g \in Dispatch(log, "DEBUG", <<"DEBUG", lines + 1>>) : LogFatal(g, "aborted")
  /\ UNCHANGED <<file, accepting, conns, runs>>

-----------------------------------------------------------------------------
\* The loop ends when it is stopped, or has nothing to wait for.
Return ==
  /\ \/ proc = "stopped"
     \/ proc = "run" /\ ~accepting /\ conns = 0
  /\ proc' = "returned"
  /\ log' \in FlushAll(log)
  /\ UNCHANGED <<file, accepting, conns, lines, runs>>

\* What had not been written is lost with the process that aborted.
Restart ==
  /\ proc \in Gone /\ runs < MaxRuns
  /\ log' = NewLogger(log.disk)
  /\ proc' = "init" /\ accepting' = FALSE /\ conns' = 0 /\ runs' = runs + 1
  /\ UNCHANGED <<file, lines>>

Next == \/ ReadSettings \/ LoadGame \/ StartServer \/ Return
        \/ OnAccept \/ OnMessage \/ OnClose \/ HandleStopServer \/ HandleGameTooEarly
        \/ Restart

Spec == Init /\ [][Next]_vars

\* The threads of the process run: main does not stay where it can go on.
MainGoesOn ==
  /\ \/ proc \in {"init", "configured", "loaded", "stopped"}
     \/ proc = "run" /\ ~accepting /\ conns = 0
  /\ proc' \in {"configured", "loaded", "run", "returned", "aborted"} \ {proc}
LiveSpec == Spec /\ WF_proc(MainGoesOn)

-----------------------------------------------------------------------------
(* What is in the file, said line by line.                                 *)

\* The lines of the file that set this for this level.
LinesFor(l, type) ==
  {i \in DOMAIN file :
     /\ ~IsSection(file[i]) /\ file[i].type = type
     /\ \E j \in 1 .. i - 1 :
          /\ IsSection(file[j]) /\ file[j].section = l
          /\ \A k \in j + 1 .. i - 1 : ~IsSection(file[k])}

\* The last of them, or of those for GLOBAL.
LastValue(l, type) ==
  LET own == LinesFor(l, type) \cup LinesFor("GLOBAL", type)
      default == CHOOSE d \in Range(Defaults) : d[1] = type
  IN  IF own = {} THEN default[2]
      ELSE file[CHOOSE i \in own : \A j \in own : j <= i].value

\* GLOBAL comes before the level, as it must unless the level sets nothing: a
\* value that GLOBAL does not give the setting before is overwritten.  The flush
\* threshold needs no line for GLOBAL.
InOrder(l, type) ==
  \/ LinesFor(l, type) = {}
  \/ \E g \in LinesFor("GLOBAL", type) : \A i \in LinesFor(l, type) : g < i
  \/ type = "LOG_FLUSH_THRESHOLD" /\ LinesFor("GLOBAL", type) = {}

Applies(l, type, v) == InOrder(l, type) => v = LastValue(l, type)

\* A level has the settings of the last line for it or for GLOBAL, or else the
\* defaults, if GLOBAL is set before the level is; it has no stream only if its
\* file cannot be opened (easylogging++.h:2361-2756, 2897-3084, 3336-3354).
SettingsApply ==
  proc = "configured" => \A l \in Level :
    LET id == Get(log.fileStream, l)
    IN  /\ Applies(l, "ENABLED", Enabled(log, l))
        /\ Applies(l, "LOG_FLUSH_THRESHOLD", Get(log.logFlushThreshold, l))
        /\ Applies(l, "MAX_LOG_FILE_SIZE", Get(log.maxLogFileSize, l))
        /\ \E name \in FileNames :
             /\ Applies(l, "FILENAME", name)
             /\ IF id = NoStream THEN name \in BadFiles ELSE log.streams[id].file = name
        /\ id # NoStream /\ Get(log.fileStream, "GLOBAL") # NoStream =>
             Applies(l, "TO_FILE", Get(log.toFile, l))

\* "if file cannot be created, we will force ToFile to be false"
\* (easylogging++.h:2938-2939).
BadFileTurnsOff ==
  proc = "configured" =>
    \A l \in Level : Get(log.fileStream, l) = NoStream => ~Get(log.toFile, l)

-----------------------------------------------------------------------------
(* The files                                                               *)

Failed(name) == \E id \in DOMAIN log.streams :
                  log.streams[id].file = name /\ log.streams[id].failed

\* Unless its stream failed, a file holds the lines that were logged to it, at
\* whatever level and by whatever process, in order and each once, when the
\* process has returned, and all but those its stream holds before; and at any
\* time it holds the first of them, until a stream that failed is closed
\* (easylogging++.h:3025-3060, 3978-4014).
LinesKept ==
  \A name \in FileNames :
    /\ ~Failed(name) =>
         /\ proc = "returned" => log.disk[name] = log.logged[name]
         /\ proc \notin Gone => log.disk[name] \o Held(log, name) = log.logged[name]
    /\ (Failed(name) /\ proc = "returned") \/ IsPrefix(log.disk[name], log.logged[name])

\* The lines at a level that were logged to a file and are not in it.
Missing(g, l, name) ==
  {i \in Len(g.disk[name]) + 1 .. Len(g.logged[name]) : g.logged[name][i][1] = l}

\* Of the lines at a level fewer than its flush threshold are not in the file, or
\* none if every line is flushed; one more if the stream failed, for the count is
\* reset whether the flush succeeds or not.  So a process that aborts loses no more,
\* whichever levels share the file, although flushing for one level does not reset
\* the counts of the others, and whatever the disk refuses (easylogging++.h:3486-3498,
\* 3992-4001).
LossBounded ==
  \A name \in FileNames, l \in Level :
    LET threshold == Get(log.logFlushThreshold, l)
    IN  Cardinality(Missing(log, l, name)) <
          (IF threshold = 0 THEN 1 ELSE threshold) + (IF Failed(name) THEN 1 ELSE 0)

-----------------------------------------------------------------------------
\* The process comes to accept connections, and goes on accepting them whatever
\* goes wrong with one of them, or it ends: it is never left running deaf
\* (main.cpp:34-45, gate.cpp:37-47).
Serving == proc = "run" /\ accepting
ServesOrEnds == ~Serving ~> Serving \/ proc \in Gone
=============================================================================
