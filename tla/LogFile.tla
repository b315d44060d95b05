------------------------------- MODULE LogFile -------------------------------
(***************************************************************************)
(* The log file of the core service with its rotation (log/logger.cpp):    *)
(* Logger::write, rotateFileIfNeeded one file operation a step, and        *)
(* reopenActiveFile.  While `faulty` holds every operation may fail and    *)
(* the process may be killed between any two of them.                      *)
(*                                                                         *)
(* Lines have the same length and are known by their age, 1 the newest;    *)
(* a line that could not be written has none.  A file that is open         *)
(* although its size cannot be read is left out.                           *)
(***************************************************************************)
EXTENDS Integers, FiniteSets, Storage

CONSTANTS
  MaxLines,     \* storage_log_max_bytes in lines
  BackupCount,  \* storage_log_backup_count
  MaxGrowth     \* bound: a rotation is not given up with so many lines

ASSUME LogAssumption ==
  /\ {MaxLines, BackupCount} \subseteq Nat \ {0}
  /\ MaxGrowth \in Nat /\ MaxGrowth > MaxLines

VARIABLE log   \* the files and the state of the logger

\* The files: 0 is the active one, i the backup .i; "kept" below.
Files == 0..BackupCount

LogInit ==
  log = [at |-> "idle", index |-> 0,            \* the next operation
            file |-> [i \in Files |-> {}],
            open |-> TRUE, bad |-> FALSE, size |-> 0,
            counted |-> FALSE,                     \* a failure counter is not zero
            lost |-> FALSE,                        \* a line of this session was lost
            disturbed |-> FALSE]                   \* an operation failed or was cut short

LogIdle == log.at = "idle"
Failure(l) == [l EXCEPT !.counted = TRUE, !.disturbed = TRUE]
Dropped(l) == [l EXCEPT !.at = "idle", !.lost = TRUE]
-----------------------------------------------------------------------------
(* Logger::write.                                                          *)

\* Fault: a line that just fits is taken to be too long, and vice versa.
NeedsRotationLate == log.size > MaxLines

NeedsRotation == log.size + 1 > MaxLines

LogLine ==
  /\ LogIdle
  /\ log' = CASE ~log.open -> Dropped(log)
              [] log.open /\ NeedsRotation -> [log EXCEPT !.at = "remove"]
              [] OTHER -> [log EXCEPT !.at = "put"]
  /\ UNCHANGED faulty

\* Every line is a write older.
Aged(file) == [i \in Files |-> {n + 1 : n \in file[i]} \cup (IF i = 0 THEN {1} ELSE {})]

\* A failed write is never cleared but by a rotation, and a file that is not
\* written to is not rotated.
Put ==
  /\ log.at = "put"
  /\ \/ /\ ~log.bad
        /\ log' = [log EXCEPT !.at = "idle", !.file = Aged(@), !.size = @ + 1]
     \/ /\ log.bad \/ faulty
        /\ log' = Failure(Dropped([log EXCEPT !.bad = TRUE]))
  /\ UNCHANGED faulty
-----------------------------------------------------------------------------
(* rotateFileIfNeeded.                                                     *)

\* Fault: the file is started anew also when it could not be moved away.
GivenUpAnew(l) == [Failure(l) EXCEPT !.at = "trunc"]

GivenUp(l) == [Failure(l) EXCEPT !.at = "append"]

\* The next operation succeeds, or the rotation is given up.
Operation(at, done) ==
  /\ log.at = at
  /\ \/ log' = done
     \/ /\ faulty /\ Cardinality(log.file[0]) < MaxGrowth
        /\ log' = GivenUp(log)
  /\ UNCHANGED faulty

RemoveOldest ==
  Operation("remove", [log EXCEPT !.at = IF BackupCount > 1 THEN "shift" ELSE "rename",
                                  !.index = BackupCount, !.file[BackupCount] = {}])

\* From the oldest to the newest.
Shift ==
  Operation("shift", [log EXCEPT !.at = IF log.index > 2 THEN "shift" ELSE "rename",
                                 !.index = @ - 1,
                                 !.file[log.index] = log.file[log.index - 1],
                                 !.file[log.index - 1] = {}])

RenameActive ==
  Operation("rename", [log EXCEPT !.at = "trunc", !.file[1] = log.file[0], !.file[0] = {}])

\* Fault: that the file is closed for good is not counted.
ClosedUncounted(l) == [l EXCEPT !.open = FALSE, !.disturbed = TRUE]

ReopenFailed(l) == Failure([l EXCEPT !.open = FALSE])

\* reopenActiveFile: behind a rotation, or to go on with the file as it is.
Reopen ==
  /\ log.at \in {"trunc", "append"}
  /\ LET active == IF log.at = "trunc" THEN {} ELSE log.file[0] IN
     \/ log' = [log EXCEPT !.at = "put", !.open = TRUE, !.bad = FALSE,
                           !.file[0] = active, !.size = Cardinality(active)]
     \/ faulty /\ log' = Dropped(ReopenFailed(log))
  /\ UNCHANGED faulty
-----------------------------------------------------------------------------
\* The process dies and the next one opens the file (setFileOutput).
LogRestarted ==
  [log EXCEPT !.at = "idle", !.index = 0, !.open = TRUE, !.bad = FALSE,
              !.size = Cardinality(log.file[0]),
              !.counted = FALSE, !.lost = FALSE, !.disturbed = @ \/ ~LogIdle]

LogStep == LogLine \/ Put \/ RemoveOldest \/ Shift \/ RenameActive \/ Reopen
-----------------------------------------------------------------------------
(* Properties. *)

Kept == UNION {log.file[i] : i \in Files}
Lines(n) == 1..n

\* What the files hold is the newest lines that were written, in order from
\* the oldest backup to the active file: however many operations failed and
\* wherever the process died, only the oldest lines go.
NewestLinesKept ==
  /\ Kept = Lines(Cardinality(Kept))
  /\ \A i, j \in Files : i < j => \A m \in log.file[i], n \in log.file[j] : m < n

\* The active file outgrows its limit only where an operation failed or the
\* process died in a rotation.
SizeLimited == ~log.disturbed => Cardinality(log.file[0]) <= MaxLines
=============================================================================
