----------------------------- MODULE StatusFile -----------------------------
(***************************************************************************)
(* How StatusPublisher::publish replaces the status file: the text goes to *)
(* a temporary file, then the old file is removed and the temporary one    *)
(* renamed.  The dashboard, the agent and the scripts open the file by its *)
(* name at any moment.  While `faulty` holds, every call may fail.         *)
(***************************************************************************)
EXTENDS Integers, Storage

CONSTANT Texts   \* bound: the status texts are numbered 1..Texts, in a circle

ASSUME TextsAssumption == Texts \in Nat \ {0, 1}

Missing == 0
Partial == -1          \* a text cut off in the middle

VARIABLES
  pc,        \* the next call of publish
  version,   \* the status text being published, or published last
  target,    \* the content of the status file
  temp       \* the content of the temporary file

StatusInit ==
  /\ pc = "idle" /\ version = Texts
  /\ target \in {Missing, Texts} /\ temp = Missing
-----------------------------------------------------------------------------
\* publish returns false; main() logs a warning and goes on.
Failed == faulty /\ pc' = "idle"

\* std::ofstream with trunc.
OpenTemp ==
  /\ pc = "idle"
  /\ version' = (version % Texts) + 1
  /\ \/ temp' = Partial /\ pc' = "write"
     \/ Failed /\ UNCHANGED temp
  /\ UNCHANGED <<target, faulty>>

\* stream.good() is tested before the destructor writes the buffer out, so
\* the failure of that last write goes unnoticed.
WriteTemp ==
  /\ pc = "write"
  /\ \/ temp' = version /\ pc' = "remove"
     \/ faulty /\ temp' = Partial /\ pc' = "remove"
     \/ Failed /\ UNCHANGED temp
  /\ UNCHANGED <<version, target, faulty>>

\* Fault: removing a file that is not there counts as a failure.
RemoveExisting ==
  /\ pc = "remove"
  /\ \/ target # Missing /\ target' = Missing /\ pc' = "rename"
     \/ (faulty \/ target = Missing) /\ pc' = "idle" /\ UNCHANGED target
  /\ UNCHANGED <<version, temp, faulty>>

RemoveTarget ==
  /\ pc = "remove"
  /\ \/ target' = Missing /\ pc' = "rename"
     \/ Failed /\ UNCHANGED target
  /\ UNCHANGED <<version, temp, faulty>>

RenameTemp ==
  /\ pc = "rename"
  /\ \/ target' = temp /\ temp' = Missing
     \/ faulty /\ UNCHANGED <<target, temp>>
  /\ pc' = "idle"
  /\ UNCHANGED <<version, faulty>>

Publisher == OpenTemp \/ WriteTemp \/ RemoveTarget \/ RenameTemp
-----------------------------------------------------------------------------
(* Properties. *)

\* Whatever calls failed and wherever the process died before, once the
\* faults are over the file holds the newest text again: no leftover of an
\* interrupted publication (a temporary file, a missing file) stops a later
\* one.
Recovers == ~faulty ~> (pc = "idle" /\ target = version)
=============================================================================
