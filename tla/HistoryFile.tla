----------------------------- MODULE HistoryFile -----------------------------
(***************************************************************************)
(* HistoryRecorder with its CSV files: start() with openCsv, recordSnapshot*)
(* as the service callbacks and the loop callback of main() call it,       *)
(* flushIfDue, stop(), and the end of the process when one of them fails.  *)
(* While `faulty` holds a write may fail and the process may be killed; of *)
(* what a stream buffers any part may then have reached the file, the last *)
(* row of it perhaps cut off.                                              *)
(*                                                                         *)
(* A row is known by the key it is told from the row before by: the        *)
(* sentence or sample count, or the uptime.                                *)
(***************************************************************************)
EXTENDS Integers, Sequences, FiniteSets, Storage

CONSTANTS
  Streams,    \* the CSV files
  Keys,       \* bound: keys are counted in a circle of this size
  MaxBuffer   \* bound: rows and header a stream buffers before the next flush

ASSUME HistoryAssumption == Keys \in Nat /\ Keys > 2 /\ MaxBuffer \in Nat \ {0, 1}

VARIABLES
  rec,  \* the recorder
  csv   \* each file and what is known of its rows
recVars == <<rec, csv, faulty>>

\* What a file or a buffer holds: the header, the key of a row, or an item
\* that was cut off.  Of a file the first and the last item are known.
None == -1
Header == -2
Cut == -3
NextKey(k) == IF k = None THEN 0 ELSE (k + 1) % Keys

RecInit ==
  /\ rec = [at |-> "off",                         \* the next step
            seen |-> [s \in Streams |-> None],    \* the newest sample
            last |-> [s \in Streams |-> None],    \* the one recorded last
            buffer |-> [s \in Streams |-> <<>>],
            bad |-> {}]                           \* streams with an error
  /\ csv = [s \in Streams |-> [there |-> FALSE, first |-> None, tail |-> None,
                               own |-> FALSE]]    \* tail is from this session
  /\ faulty = TRUE
-----------------------------------------------------------------------------
(* Files.                                                                  *)

\* An item behind one that was cut off becomes part of the same line.
Stored(f, items) ==
  IF items = <<>> THEN f
  ELSE [f EXCEPT !.first = IF @ = None THEN Head(items) ELSE @,
                 !.tail = IF @ = Cut /\ Len(items) = 1 THEN Cut ELSE items[Len(items)],
                 !.own = ~(f.tail = Cut /\ Len(items) = 1)]

\* What a file may hold when the writing of a buffer is cut short anywhere.
StoredInPart(f, items) ==
  {Stored(f, SubSeq(items, 1, n)) : n \in 0..Len(items)}
    \cup {Stored(f, Append(SubSeq(items, 1, n), Cut)) : n \in 0..(Len(items) - 1)}

Lost(buffer) == [s \in Streams |-> <<>>]

\* Every file gets its buffer, those of `failing` perhaps not all of it.
Flushed(failing) ==
  /\ csv' \in {f \in [Streams -> UNION {StoredInPart(csv[s], rec.buffer[s]) : s \in Streams}] :
                 \A s \in Streams :
                   IF s \in failing THEN f[s] \in StoredInPart(csv[s], rec.buffer[s])
                                    ELSE f[s] = Stored(csv[s], rec.buffer[s])}

Failures == IF faulty THEN SUBSET Streams ELSE {{}}
-----------------------------------------------------------------------------
(* The recorder.                                                           *)

\* Fault: only a file that does not exist gets a header.
HeaderForNewFile(f) == ~f.there

NeedsHeader(f) == f.first = None

\* openCsv for each file; with one that cannot be opened main() ends.
StartRecorder ==
  /\ rec.at = "off"
  /\ rec' = [rec EXCEPT
       !.at = "on", !.bad = {},
       !.seen = [s \in Streams |-> None], !.last = [s \in Streams |-> None],
       !.buffer = [s \in Streams |-> IF NeedsHeader(csv[s]) THEN <<Header>> ELSE <<>>]]
  /\ csv' = [s \in Streams |-> [csv[s] EXCEPT !.there = TRUE, !.own = FALSE]]
  /\ UNCHANGED faulty

\* A service applies a sample.  A serial service records it at once, any
\* other leaves it to the loop callback of the same pass.
Sample(s) ==
  /\ rec.at = "on" /\ rec.seen[s] = rec.last[s]
  /\ \E at \in {"on", "record"} :
       rec' = [rec EXCEPT !.at = at, !.seen[s] = NextKey(@)]
  /\ UNCHANGED <<csv, faulty>>

LoopCallback ==
  /\ rec.at = "on"
  /\ rec' = [rec EXCEPT !.at = "record"]
  /\ UNCHANGED <<csv, faulty>>

\* recordSnapshot: a row for each new sample, then the state of all streams,
\* then the flush when it is due.
Record ==
  LET changed == {s \in Streams : rec.seen[s] # rec.last[s]} IN
  /\ rec.at = "record"
  /\ \E bad \in Failures, due \in BOOLEAN :
       /\ bad \subseteq changed
       /\ (\E s \in Streams : Len(rec.buffer[s]) + 1 >= MaxBuffer) => due
       /\ rec' = [rec EXCEPT
            !.last = [s \in Streams |-> IF s \in changed THEN rec.seen[s] ELSE @[s]],
            !.buffer = [s \in Streams |->
                          IF s \in changed \ bad THEN Append(@[s], rec.seen[s]) ELSE @[s]],
            !.bad = bad,
            !.at = IF bad # {} THEN "failed" ELSE IF due THEN "flush" ELSE "on"]
  /\ UNCHANGED <<csv, faulty>>

\* Fault: one stream that could be flushed makes up for the others.
AllFailed(failing) == failing = Streams

FlushFailed(failing) == failing # {}

\* flushAll.
Flush ==
  /\ rec.at = "flush"
  /\ \E failing \in Failures :
       /\ Flushed(failing)
       /\ rec' = [rec EXCEPT !.bad = failing, !.buffer = Lost(@),
                             !.at = IF FlushFailed(failing) THEN "failed" ELSE "on"]
  /\ UNCHANGED faulty

\* The Runtime ends, by itself or because a record failed: stop() flushes and
\* ignores whether it could.
StopRecorder ==
  /\ rec.at \in {"on", "failed"}
  /\ \E failing \in Failures : Flushed(rec.bad \cup failing)
  /\ rec' = [rec EXCEPT !.at = "off", !.buffer = Lost(@)]
  /\ UNCHANGED faulty

Killed ==
  /\ rec.at # "off" /\ faulty
  /\ Flushed(Streams)
  /\ rec' = [rec EXCEPT !.at = "off", !.buffer = Lost(@)]
  /\ UNCHANGED faulty

RecFaultsEnd == FaultsEnd /\ UNCHANGED <<rec, csv>>
-----------------------------------------------------------------------------
Next ==
  \/ StartRecorder \/ (\E s \in Streams : Sample(s)) \/ LoopCallback
  \/ Record \/ Flush \/ StopRecorder \/ Killed \/ RecFaultsEnd

Spec == RecInit /\ [][Next]_recVars
-----------------------------------------------------------------------------
(* Properties. *)

\* The row of this session that stands last in the file.
LastRow(f) == IF f.own /\ f.tail >= 0 THEN <<f.tail>> ELSE <<>>

\* Of a session every sample that was applied becomes one row of its file, in
\* order: the two callbacks that record neither repeat one nor leave one out.
RowsOnceInOrder ==
  rec.at \in {"on", "record", "flush"} =>
    \A s \in Streams :
      LET line == LastRow(csv[s]) \o rec.buffer[s]
          rows == {i \in 1..Len(line) : line[i] >= 0} IN
      /\ \A i, j \in rows :
           i < j /\ rows \cap (i + 1)..(j - 1) = {} => line[j] = NextKey(line[i])
      /\ \A i \in rows : (\A j \in rows : j <= i) => line[i] = rec.last[s]

\* However often the process was killed, what stands first in a file is its
\* header, or what is left of a header that was cut off.
HeaderFirst == \A s \in Streams : csv[s].first \in {None, Header, Cut}
=============================================================================
