---------------------------- MODULE RuntimeFiles ----------------------------
(***************************************************************************)
(* The status file and the log file of one core service: they are written  *)
(* by the same thread, on the same storage, and each tells of the failures *)
(* of the other.  A publication that fails is logged by publishStatus      *)
(* (main.cpp); the text that is published carries the failure counters of  *)
(* the logger (buildStatus).                                               *)
(***************************************************************************)
EXTENDS StatusFile, LogFile

VARIABLES
  warn,   \* publish has failed and the line about it is still to be logged
  says    \* history: whether the text in the temporary file, and in the
          \* status file, says that a log counter is not zero

statusVars == <<pc, version, target, temp>>
fileVars == <<statusVars, log, faulty, warn, says>>

FilesInit ==
  /\ StatusInit /\ LogInit /\ faulty = TRUE
  /\ warn = FALSE /\ says = [temp |-> FALSE, target |-> FALSE]
-----------------------------------------------------------------------------
\* Fault: the text is made with the counters of the publication before.
SerializedBefore == says.target

\* What a text made now says.
Serialized == log.counted

\* A call of publish, with nothing else under way.
PublishCall ==
  /\ LogIdle /\ ~warn
  /\ Publisher
  /\ says' = [temp |-> IF pc = "idle" THEN Serialized ELSE says.temp,
              target |-> IF pc = "rename" THEN says.temp ELSE says.target]
  /\ warn' = (pc' = "idle" /\ target' = target)
  /\ UNCHANGED log

\* Between two publications any number of lines is logged, behind a failed
\* one the warning first.
LogCall ==
  /\ pc = "idle" /\ LogStep
  /\ warn' = (warn /\ ~LogIdle)
  /\ UNCHANGED <<statusVars, says>>

\* The process dies anywhere and is started again.
KillAndRestart ==
  /\ Failed /\ log' = LogRestarted /\ warn' = FALSE
  /\ UNCHANGED <<version, target, temp, faulty, says>>

StorageRecovers == FaultsEnd /\ UNCHANGED <<statusVars, log, warn, says>>

FilesNext == PublishCall \/ LogCall \/ KillAndRestart \/ StorageRecovers

\* However much is logged, the loop callback publishes once a second.
FilesSpec ==
  /\ FilesInit /\ [][FilesNext]_fileVars
  /\ SF_fileVars(PublishCall) /\ WF_fileVars(LogCall /\ (warn \/ ~LogIdle))
-----------------------------------------------------------------------------
(* Properties. *)

\* What appears under the name of the status file is the text made last, whole
\* or cut off by a fault, never what an earlier publication has left behind;
\* and a whole one says that lines of this session are missing from the log if
\* any are, whether a write lost them, a rotation, or the file that could not
\* be opened again and takes no line since.
PublishedIsCurrent ==
  [][target' # target /\ target' # Missing =>
       /\ target' \in {version, Partial}
       /\ target' = version /\ log.lost => says'.target]_fileVars

\* Once the storage works again, whoever reads the status file learns that
\* lines of this session are missing from the log, also while the log itself
\* stays closed.
LossIsReported == (~faulty /\ log.lost) ~> (target \in 1..Texts /\ says.target)
=============================================================================
