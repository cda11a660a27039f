-------------------------- MODULE MCServerProcess --------------------------
(***************************************************************************)
(* The process with every log configuration of two settings, and some of   *)
(* more: files shared by levels, thresholds that differ, late sections.    *)
(***************************************************************************)
EXTENDS ServerProcess

\* the levels at which the process logs
LevelsUsed == <<"DEBUG", "FATAL", "WARNING">>
Names == {"main", "other", "bad"}

Section(l) == [section |-> l]
Value(t, v) == [type |-> t, value |-> v]

Settings == {Value("ENABLED", FALSE), Value("TO_FILE", FALSE), Value("FILENAME", "other"),
             Value("FILENAME", "bad"), Value("LOG_FLUSH_THRESHOLD", 2),
             Value("LOG_FLUSH_THRESHOLD", 3), Value("MAX_LOG_FILE_SIZE", 1),
             Value("SYSLOG", TRUE)}
Parts == {<<Section(l), v>> : l \in {"GLOBAL", "DEBUG", "NOTICE"}, v \in Settings}

\* GLOBAL and one level, and what comes after them
Global(t, v) == <<Section("GLOBAL"), Value(t, v)>>
Debug(t, v) == <<Section("DEBUG"), Value(t, v)>>
Longer ==
  {Global("FILENAME", "main") \o <<Value("LOG_FLUSH_THRESHOLD", 3)>>
     \o Debug("FILENAME", f) \o <<Value("LOG_FLUSH_THRESHOLD", 2)>> : f \in Names}
  \cup {Debug("ENABLED", FALSE) \o Global("ENABLED", e) \o Debug("ENABLED", FALSE) : e \in BOOLEAN}
  \cup {Global("FILENAME", f) \o Debug("FILENAME", "other") \o Global("FILENAME", "main")
          \o Debug("TO_FILE", TRUE) : f \in Names}
  \cup {Global("TO_FILE", FALSE) \o <<Value("FILENAME", f)>> \o Debug("TO_FILE", TRUE) : f \in Names}

ManyFiles == {<<>>} \cup Parts \cup {p \o q : p, q \in Parts} \cup Longer
=============================================================================
