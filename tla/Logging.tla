------------------------------ MODULE Logging ------------------------------
(***************************************************************************)
(* The logging of the server (easylogging++.h, as the Debug build uses     *)
(* it): the settings that are read from a file, how a logger keeps them,   *)
(* the files it writes to and when they are flushed.                       *)
(*                                                                         *)
(* There is one logger, "default"; "performance" logs nothing and shares   *)
(* its files.  Only one thread logs at a time, the main thread before the  *)
(* one that runs the io_service, so a line is one step.  Of the settings   *)
(* those that say what is written where are kept, sizes are counted in     *)
(* lines, and what a line looks like is left out.                          *)
(***************************************************************************)
EXTENDS Naturals, FiniteSets, SequencesExt

CONSTANTS
  LevelOrder,    \* the levels in the order of forEachLevel; those at which
                 \* the server logs nothing may be left out
  FileNames,     \* the names of log files
  DefaultFile,   \* kDefaultLogFile
  BadFiles       \* those that cannot be opened

Level == Range(LevelOrder)

ASSUME LoggingAssumption ==
  /\ DefaultFile \in FileNames /\ BadFiles \subseteq FileNames
  /\ LevelOrder \in Seq(Level) /\ {"DEBUG", "FATAL", "WARNING"} \subseteq Level
  /\ "GLOBAL" \notin Level /\ "UNKNOWN" \notin Level

\* FoldLeft, as a function of the position that has been reached.
Iterate(Op(_, _), base, seq) ==
  LET at[n \in 0 .. Len(seq)] == IF n = 0 THEN base ELSE Op(at[n - 1], seq[n])
  IN  at[Len(seq)]

\* std::map: an assignment, and an insertion, which overwrites nothing.
With(map, k, v) == [x \in DOMAIN map \cup {k} |-> IF x = k THEN v ELSE map[x]]
Inserted(map, k, v) == IF k \in DOMAIN map THEN map ELSE With(map, k, v)

-----------------------------------------------------------------------------
(* Configurations: the entries in the order in which they were registered. *)

NoEntries == [keys |-> <<>>, of |-> <<>>]

PutOne(c, key, v) ==
  [keys |-> IF key \in DOMAIN c.of THEN c.keys ELSE Append(c.keys, key),
   of   |-> With(c.of, key, v)]

\* GLOBAL gives its value to every level.
Put(c, l, type, v) ==
  LET Also(d, x) == PutOne(d, <<x, type>>, v)
  IN  IF l = "GLOBAL" THEN Iterate(Also, PutOne(c, <<l, type>>, v), LevelOrder)
      ELSE PutOne(c, <<l, type>>, v)

\* The last one is not among those that "remain" when a file has been read.
Defaults == << <<"ENABLED", TRUE>>, <<"FILENAME", DefaultFile>>, <<"TO_FILE", TRUE>>,
               <<"MAX_LOG_FILE_SIZE", 0>>, <<"LOG_FLUSH_THRESHOLD", 0>> >>
Type == {Defaults[i][1] : i \in DOMAIN Defaults}
ValueOf(type) == CASE type \in {"ENABLED", "TO_FILE"} -> BOOLEAN
                   [] type = "FILENAME" -> FileNames
                   [] OTHER -> Nat

\* setGlobally; for PutIfNotExist it would be faulty: whether GLOBAL has a value
\* already is not looked at.
PutAlways(c, d) == Put(c, "GLOBAL", d[1], d[2])

SetToDefault == Iterate(PutAlways, NoEntries, Defaults)

PutIfNotExist(c, d) ==
  IF <<"GLOBAL", d[1]>> \in DOMAIN c.of THEN c ELSE Put(c, "GLOBAL", d[1], d[2])

SetRemainingToDefault(c) == Iterate(PutIfNotExist, c, Front(Defaults))

SetFromBase(c, base) ==
  LET Set(d, key) == Put(d, key[1], key[2], base.of[key])
  IN  Iterate(Set, c, base.keys)

\* A line of a file opens the section of a level or gives a setting a value; a
\* setting outside of a known section, or an unknown one, is passed over.
IsSection(line) == "section" \in DOMAIN line
LevelNamed(line) == IF line.section \in Level \cup {"GLOBAL"} THEN line.section ELSE "UNKNOWN"
TypeKnown(line) == line.type \in Type

ParseLine(p, line) ==
  IF IsSection(line) THEN [p EXCEPT !.level = LevelNamed(line)]
  ELSE IF p.level = "UNKNOWN" \/ ~TypeKnown(line) THEN p
  ELSE [p EXCEPT !.conf = Put(@, p.level, line.type, line.value)]

ParseFromFile(file) ==
  Iterate(ParseLine, [level |-> "UNKNOWN", conf |-> NoEntries], file).conf

Configurations(file) == SetRemainingToDefault(ParseFromFile(file))

-----------------------------------------------------------------------------
(* TypedConfigurations: per setting a map from levels to values, which has *)
(* no entry for a level whose value is that of GLOBAL.                     *)

SetValue(map, l, v) ==
  IF map = <<>> THEN With(map, "GLOBAL", v)
  ELSE IF "GLOBAL" \in DOMAIN map /\ map["GLOBAL"] = v THEN map
  ELSE With(map, l, v)

Get(map, l) == IF l \in DOMAIN map THEN map[l] ELSE map["GLOBAL"]

MapOf(c, type) ==
  LET Set(map, key) == IF key[2] = type THEN SetValue(map, key[1], c.of[key]) ELSE map
  IN  Iterate(Set, <<>>, c.keys)

\* m_logStreamsReference: the stream that is open for a file.  NoStream stands
\* for the null pointer that is kept for a file that could not be opened.
NoStream == 0
Stream(name) == [file |-> name, buffer |-> <<>>, failed |-> FALSE]

\* Faulty: every level opens the file for itself.
SharedByNobody(log, name) == FALSE
Shared(log, name) == name \in DOMAIN log.reference

\* insertFile for one level, which has no stream yet (each level comes once, and
\* GLOBAL first); a file that cannot be opened is not written to.
InsertFile(log, l, name) ==
  LET id == IF Shared(log, name) THEN log.reference[name]
            ELSE IF name \in BadFiles THEN NoStream ELSE Len(log.streams) + 1
      level == IF log.fileStream = <<>> THEN "GLOBAL" ELSE l
  IN  [log EXCEPT
        !.streams    = IF id \in {NoStream} \cup DOMAIN @ THEN @ ELSE Append(@, Stream(name)),
        !.reference  = Inserted(@, name, id),
        !.fileStream = Inserted(@, level, id),
        !.toFile     = IF id = NoStream THEN SetValue(@, level, FALSE) ELSE @]

\* A file that has grown to its limit is emptied, now and not while it grows.
ValidateFileRolling(log, l) ==
  LET id == Get(log.fileStream, l)
      max == Get(log.maxLogFileSize, l)
  IN  IF id = NoStream \/ max = 0 THEN log
      ELSE LET name == log.streams[id].file
           IN  IF Len(log.disk[name]) < max THEN log
               ELSE [log EXCEPT !.disk[name] = <<>>, !.logged[name] = <<>>]

Build(log, c) ==
  LET maps == [log EXCEPT !.enabled = MapOf(c, "ENABLED"),
                          !.toFile = MapOf(c, "TO_FILE"),
                          !.maxLogFileSize = MapOf(c, "MAX_LOG_FILE_SIZE"),
                          !.logFlushThreshold = MapOf(c, "LOG_FLUSH_THRESHOLD"),
                          !.fileStream = <<>>]
      Insert(g, key) == IF key[2] = "FILENAME" THEN InsertFile(g, key[1], c.of[key]) ELSE g
      Validate(g, key) ==
        IF key[2] = "MAX_LOG_FILE_SIZE" THEN ValidateFileRolling(g, key[1]) ELSE g
  IN  Iterate(Validate, Iterate(Insert, maps, c.keys), c.keys)

-----------------------------------------------------------------------------
(* Logger.  Its state is one record: the maps, the streams, the lines not  *)
(* flushed per level, the files on disk, and (history) what was logged to  *)
(* each file.                                                              *)

InitUnflushedCount == [l \in Level |-> 0]

\* The logger of a new process, before any settings are read.
NewLogger(disk) ==
  Build([streams |-> <<>>, reference |-> <<>>, fileStream |-> <<>>, enabled |-> <<>>,
         toFile |-> <<>>, maxLogFileSize |-> <<>>, logFlushThreshold |-> <<>>,
         unflushed |-> InitUnflushedCount, disk |-> disk, logged |-> disk],
        SetToDefault)

\* Nothing has been logged that had to be flushed first.
ConfigureLogger(log, file) ==
  Build([log EXCEPT !.unflushed = InitUnflushedCount],
        SetFromBase(SetToDefault, Configurations(file)))

Enabled(log, l) == Get(log.enabled, l)

\* Faulty: one line more than the threshold is held back.
IsFlushNeededLate(count, threshold) == count > threshold
IsFlushNeeded(count, threshold) == count >= threshold

\* The first n lines of what a stream holds are written to its file.  One that
\* fails keeps them, and may write them again when it is closed.
Write(log, id, held, n, fails) ==
  [log EXCEPT !.disk[log.streams[id].file] = @ \o SubSeq(held, 1, n),
              !.streams[id] =
                [@ EXCEPT !.buffer = IF fails THEN held ELSE SubSeq(held, n + 1, Len(held)),
                          !.failed = fails]]

\* What one line at level l may make of the logger.  The stream holds the line back,
\* or writes some of what it holds on its own, unless it has failed.  The disk may
\* refuse that, then the line is neither taken nor counted; or it may refuse the
\* flush of a line that has been taken: its count is reset all the same.
Dispatch(log, l, line) ==
  LET id == Get(log.fileStream, l)
      count == log.unflushed[l] + 1
      flush == IsFlushNeeded(count, Get(log.logFlushThreshold, l))
      buffer == log.streams[id].buffer
      held == Append(buffer, line)
      taken == [log EXCEPT !.unflushed[l] = IF flush THEN 0 ELSE count,
                           !.logged[log.streams[id].file] = Append(@, line)]
      all == Len(held)
  IN  IF ~Enabled(log, l) \/ ~Get(log.toFile, l) \/ id = NoStream THEN {log}
      ELSE IF log.streams[id].failed THEN {log}
      ELSE {Write(log, id, buffer, n, TRUE) : n \in 0 .. Len(buffer)}
           \cup {Write(taken, id, held, n, FALSE) : n \in IF flush THEN {all} ELSE 0 .. all}
           \cup {Write(taken, id, held, n, TRUE) : n \in IF flush THEN 0 .. Len(buffer) ELSE {}}

\* A fatal line is followed by a warning and the end of the process.
DispatchFatal(log, n) ==
  IF ~Enabled(log, "FATAL") THEN {log}
  ELSE UNION {Dispatch(g, "WARNING", <<"WARNING", n + 1>>) :
                g \in Dispatch(log, "FATAL", <<"FATAL", n>>)}

\* What the streams of a file hold.
Held(log, name) ==
  LET Add(b, s) == IF s.file = name THEN b \o s.buffer ELSE b
  IN  Iterate(Add, <<>>, log.streams)

\* flushAll, and the streams are closed; the disk may refuse some of the files,
\* whose streams lose all that they hold.
Close(log, refused) ==
  LET Closed(s) == [s EXCEPT !.buffer = <<>>, !.failed = s.failed \/ s.file \in refused]
      Filled(name) == IF name \in refused THEN log.disk[name]
                      ELSE log.disk[name] \o Held(log, name)
  IN  [log EXCEPT !.disk = [name \in FileNames |-> Filled(name)],
                  !.streams = [id \in DOMAIN @ |-> Closed(@[id])]]

FlushAll(log) ==
  {Close(log, refused) : refused \in SUBSET {name \in FileNames : Held(log, name) # <<>>}}

=============================================================================
