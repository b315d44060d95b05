---------------------------- MODULE StorageProofs ----------------------------
(***************************************************************************)
(* Safety of the files that grow on the storage of the core service: the   *)
(* log (RuntimeFiles) for any size of the active file and any number of    *)
(* backups, wherever a rotation fails or is cut short; the history         *)
(* (HistoryFile) for any number of streams, whatever a failed flush or a   *)
(* killed process leaves of a buffer.                                      *)
(***************************************************************************)
EXTENDS RuntimeFiles, HistoryFile, FiniteSetTheorems, TLAPS

(* The log.                                                                *)

Places == {"idle", "put", "remove", "shift", "rename", "trunc", "append"}

Logs ==
  [at : Places, index : Nat, file : [Files -> SUBSET Nat], open : BOOLEAN, bad : BOOLEAN,
   size : Nat, counted : BOOLEAN, lost : BOOLEAN, disturbed : BOOLEAN]

\* With a line, the files hold every newer one.
Gapless(file) ==
  \A i \in Files : \A m \in file[i] : \A n \in 1..m : \E j \in Files : n \in file[j]

\* A file holds newer lines than the files behind it.
Ordered(file) ==
  \A i, j \in Files : i < j => \A m \in file[i], n \in file[j] : m < n

\* The files hold finitely many lines.
Bounded(file) == \E n \in Nat : \A i \in Files : file[i] \subseteq 1..n

InOrder(file) == Gapless(file) /\ Ordered(file) /\ Bounded(file)

\* Where a rotation renames a file to, there is none; and none is truncated
\* that was not renamed before.
RoomMade ==
  /\ log.at = "shift" => log.index \in 2..BackupCount /\ log.file[log.index] = {}
  /\ log.at = "rename" => log.file[1] = {}
  /\ log.at = "trunc" => log.file[0] = {}

\* As long as nothing went wrong the logger knows the size of the file, and
\* writes only where a line fits.
SizeKnown ==
  ~log.disturbed =>
    /\ log.at # "append"
    /\ Cardinality(log.file[0]) <= log.size \/ log.at = "trunc"
    /\ log.size <= MaxLines
    /\ log.at = "put" => log.size < MaxLines

LogIInv == log \in Logs /\ InOrder(log.file) /\ RoomMade /\ SizeKnown
-----------------------------------------------------------------------------
(* What the operations on the files do to the lines they hold.             *)

LEMMA FilesAre == 0 \in Files /\ 1 \in Files /\ BackupCount \in Files /\ Files \subseteq Nat
BY LogAssumption DEF Files

\* Finitely many lines without a gap are the newest so many.
LEMMA GaplessIsInterval ==
  ASSUME NEW S, NEW n \in Nat, S \subseteq 1..n,
         \A m \in S : \A k \in 1..m : k \in S
  PROVE  S = 1..Cardinality(S)
<1>1. IsFiniteSet(1..n)
  BY FS_Interval
<1>2. IsFiniteSet(S) /\ Cardinality(S) \in Nat
  BY <1>1, FS_Subset, FS_CardinalityType
<1>3. S \subseteq 1..Cardinality(S)
  <2> SUFFICES ASSUME NEW m \in S PROVE m <= Cardinality(S) /\ m \in Nat \ {0}
    BY <1>2
  <2>1. m \in 1..n /\ 1..m \subseteq S
    OBVIOUS
  <2>2. Cardinality(1..m) = m
    BY <2>1, FS_Interval
  <2>3. Cardinality(1..m) <= Cardinality(S)
    BY <1>2, <2>1, FS_Subset
  <2> QED
    BY <2>1, <2>2, <2>3
<1>4. IsFiniteSet(1..Cardinality(S)) /\ Cardinality(1..Cardinality(S)) = Cardinality(S)
  BY <1>2, FS_Interval
<1> QED
  BY <1>3, <1>4, FS_Subset

LEMMA FilesFinite ==
  ASSUME NEW file \in [Files -> SUBSET Nat], Bounded(file), NEW i \in Files
  PROVE  IsFiniteSet(file[i]) /\ Cardinality(file[i]) \in Nat
<1> PICK n \in Nat : \A j \in Files : file[j] \subseteq 1..n
  BY DEF Bounded
<1>1. IsFiniteSet(1..n) /\ file[i] \in SUBSET (1..n)
  BY FS_Interval
<1> QED
  BY <1>1, FS_Subset, FS_CardinalityType

\* A line is appended to the active file.
LEMMA AgedInOrder ==
  ASSUME NEW file \in [Files -> SUBSET Nat], InOrder(file)
  PROVE  /\ Aged(file) \in [Files -> SUBSET Nat]
         /\ InOrder(Aged(file))
         /\ Cardinality(Aged(file)[0]) <= Cardinality(file[0]) + 1
<1> DEFINE new == Aged(file)
<1>1. /\ new \in [Files -> SUBSET Nat]
      /\ \A i \in Files : \A n \in Nat :
           n \in new[i] <=> (\E m \in file[i] : n = m + 1) \/ (i = 0 /\ n = 1)
  BY FilesAre DEF Aged
<1> HIDE DEF new
<1>2. PICK N \in Nat : \A i \in Files : file[i] \subseteq 1..N
  BY DEF InOrder, Bounded
<1>3. Gapless(new)
  <2> SUFFICES ASSUME NEW i \in Files, NEW m \in new[i], NEW n \in 1..m
               PROVE  \E j \in Files : n \in new[j]
    BY DEF Gapless
  <2>1. CASE n = 1
    BY <1>1, <2>1, FilesAre
  <2>2. CASE n # 1
    <3>1. m \in Nat /\ n \in Nat /\ n > 1 /\ n <= m
      BY <1>1, <2>2
    <3>2. PICK k \in file[i] : m = k + 1
      BY <1>1, <3>1
    <3>3. k \in Nat /\ n - 1 \in 1..k
      BY <3>1, <3>2
    <3>4. PICK j \in Files : n - 1 \in file[j]
      BY <3>3 DEF InOrder, Gapless
    <3> QED
      BY <1>1, <3>1, <3>4
  <2> QED
    BY <2>1, <2>2
<1>4. Ordered(new)
  <2> SUFFICES ASSUME NEW i \in Files, NEW j \in Files, i < j,
                      NEW m \in new[i], NEW n \in new[j]
               PROVE  m < n
    BY DEF Ordered
  <2>1. j # 0 /\ m \in Nat /\ n \in Nat
    BY <1>1, FilesAre
  <2>2. PICK k \in file[j] : n = k + 1
    BY <1>1, <2>1
  <2>3. k \in 1..N
    BY <1>2
  <2>4. CASE m = 1
    BY <2>2, <2>3, <2>4
  <2>5. CASE m # 1
    <3>1. PICK l \in file[i] : m = l + 1
      BY <1>1, <2>1, <2>5
    <3>2. l < k /\ l \in Nat
      BY DEF InOrder, Ordered
    <3> QED
      BY <2>2, <2>3, <3>1, <3>2
  <2> QED
    BY <2>4, <2>5
<1>5. Bounded(new)
  <2> SUFFICES ASSUME NEW i \in Files, NEW m \in new[i]
               PROVE  m \in 1..(N + 1)
    BY DEF Bounded
  <2> QED
    BY <1>1, <1>2
<1>6. Cardinality(new[0]) <= Cardinality(file[0]) + 1
  <2> DEFINE older == {n + 1 : n \in file[0]}
             age == [n \in file[0] |-> n + 1]
  <2>1. IsFiniteSet(file[0]) /\ Cardinality(file[0]) \in Nat
    BY FilesAre, FilesFinite DEF InOrder
  <2>2. age \in Surjection(file[0], older)
    BY DEF Surjection
  <2>3. IsFiniteSet(older) /\ Cardinality(older) <= Cardinality(file[0])
    BY <2>1, <2>2, FS_Surjection
  <2>4. new[0] = older \cup {1}
    BY FilesAre DEF new, Aged
  <2> HIDE DEF older
  <2>5. Cardinality(older) \in Nat
    BY <2>3, FS_CardinalityType
  <2>6. Cardinality(older \cup {1})
           = IF 1 \in older THEN Cardinality(older) ELSE Cardinality(older) + 1
    BY <2>3, FS_AddElement
  <2> DEFINE n == Cardinality(older)
  <2>7. Cardinality(new[0]) <= n + 1 /\ Cardinality(new[0]) \in {n, n + 1}
    <3> HIDE DEF n
    <3> QED
      BY <2>4, <2>5, <2>6 DEF n
  <2> DEFINE old == Cardinality(file[0])
             now == Cardinality(new[0])
  <2>8. old \in Nat /\ n \in Nat /\ n <= old /\ now \in {n, n + 1}
    BY <2>1, <2>3, <2>5, <2>7
  <2> HIDE DEF old, now, n
  <2>9. now <= old + 1
    BY <2>8
  <2> QED
    BY <2>9 DEF old, now
<1> QED
  BY <1>1, <1>3, <1>4, <1>5, <1>6 DEF new, InOrder

\* Only the oldest file may go.
LEMMA OldestInOrder ==
  ASSUME NEW file \in [Files -> SUBSET Nat], InOrder(file)
  PROVE  /\ [file EXCEPT ![BackupCount] = {}] \in [Files -> SUBSET Nat]
         /\ InOrder([file EXCEPT ![BackupCount] = {}])
<1> DEFINE new == [file EXCEPT ![BackupCount] = {}]
<1>1. /\ new \in [Files -> SUBSET Nat]
      /\ new[BackupCount] = {}
      /\ \A i \in Files : i # BackupCount => new[i] = file[i]
  BY FilesAre
<1> HIDE DEF new
<1>2. Gapless(new)
  <2> SUFFICES ASSUME NEW i \in Files, NEW m \in new[i], NEW n \in 1..m
               PROVE  \E j \in Files : n \in new[j]
    BY DEF Gapless
  <2>1. i # BackupCount /\ m \in file[i] /\ m \in Nat
    BY <1>1
  <2>2. PICK j \in Files : n \in file[j]
    BY <2>1 DEF InOrder, Gapless
  <2>3. j # BackupCount
    <3> SUFFICES ASSUME j = BackupCount PROVE FALSE
      OBVIOUS
    <3>1. i < j
      BY <2>1, LogAssumption DEF Files
    <3>2. m < n
      BY <2>1, <2>2, <3>1 DEF InOrder, Ordered
    <3> QED
      BY <2>1, <3>2
  <2> QED
    BY <1>1, <2>2, <2>3
<1>3. Ordered(new)
  BY <1>1 DEF InOrder, Ordered
<1>4. Bounded(new)
  BY <1>1 DEF InOrder, Bounded
<1> QED
  BY <1>1, <1>2, <1>3, <1>4 DEF new, InOrder

\* A file is renamed to the next place, where there is none.
LEMMA MovedInOrder ==
  ASSUME NEW file \in [Files -> SUBSET Nat], InOrder(file),
         NEW k \in Files, k # 0, file[k] = {}
  PROVE  LET new == [file EXCEPT ![k] = file[k - 1], ![k - 1] = {}]
         IN  new \in [Files -> SUBSET Nat] /\ InOrder(new) /\ new[k - 1] = {}
<1> DEFINE new == [file EXCEPT ![k] = file[k - 1], ![k - 1] = {}]
<1>0. k - 1 \in Files /\ k \in Nat /\ Files \subseteq Nat
  BY LogAssumption DEF Files
<1>1. /\ new \in [Files -> SUBSET Nat]
      /\ new[k] = file[k - 1] /\ new[k - 1] = {}
      /\ \A i \in Files : i # k /\ i # k - 1 => new[i] = file[i]
  BY <1>0
<1> HIDE DEF new
<1>2. Gapless(new)
  <2> SUFFICES ASSUME NEW i \in Files, NEW m \in new[i], NEW n \in 1..m
               PROVE  \E j \in Files : n \in new[j]
    BY DEF Gapless
  <2>1. \E h \in Files : m \in file[h]
    BY <1>0, <1>1
  <2>2. PICK j \in Files : n \in file[j]
    BY <2>1 DEF InOrder, Gapless
  <2>3. CASE j = k - 1
    BY <1>1, <2>2, <2>3
  <2>4. CASE j # k - 1
    BY <1>1, <2>2, <2>4
  <2> QED
    BY <2>3, <2>4
<1>3. Ordered(new)
  <2> SUFFICES ASSUME NEW i \in Files, NEW j \in Files, i < j,
                      NEW m \in new[i], NEW n \in new[j]
               PROVE  m < n
    BY DEF Ordered
  <2>1. CASE i = k
    <3>1. m \in file[k - 1] /\ n \in file[j] /\ k - 1 < j
      BY <1>0, <1>1, <2>1
    <3> QED
      BY <1>0, <3>1 DEF InOrder, Ordered
  <2>2. CASE i # k /\ j = k
    <3>1. m \in file[i] /\ n \in file[k - 1] /\ i < k - 1
      BY <1>0, <1>1, <2>2
    <3> QED
      BY <1>0, <3>1 DEF InOrder, Ordered
  <2>3. CASE i # k /\ j # k
    <3>1. m \in file[i] /\ n \in file[j]
      BY <1>0, <1>1, <2>3
    <3> QED
      BY <3>1 DEF InOrder, Ordered
  <2> QED
    BY <2>1, <2>2, <2>3
<1>4. Bounded(new)
  BY <1>0, <1>1 DEF InOrder, Bounded
<1> QED
  BY <1>1, <1>2, <1>3, <1>4 DEF new, InOrder
-----------------------------------------------------------------------------
(* The steps of the logger.                                                *)

LEMMA LineStep ==
  ASSUME LogIInv, LogLine
  PROVE  LogIInv'
<1>0. log \in Logs /\ log.at = "idle"
  BY DEF LogIInv, LogLine, LogIdle
<1> DEFINE fits == log.size + 1 <= MaxLines
<1>f. NeedsRotation = ~fits
  BY <1>0, LogAssumption DEF NeedsRotation, Logs
<1> HIDE DEF fits
<1>a. \/ log' = [log EXCEPT !.at = "idle", !.lost = TRUE]
      \/ log' = [log EXCEPT !.at = "remove"]
      \/ fits /\ log' = [log EXCEPT !.at = "put"]
  BY <1>f DEF LogLine, Dropped
<1>b. /\ log' \in Logs /\ log'.file = log.file /\ log'.size = log.size
      /\ log'.disturbed = log.disturbed
      /\ log'.at \in {"idle", "remove", "put"}
      /\ log'.at = "put" => fits
  BY <1>0, <1>a DEF Logs, Places
<1>1. /\ log \in Logs
      /\ log' \in Logs /\ log'.file = log.file /\ log'.size = log.size
      /\ log'.disturbed = log.disturbed
      /\ log'.at \in {"idle", "remove", "put"}
      /\ log'.at = "put" => log.size + 1 <= MaxLines
      /\ log.at = "idle"
  BY <1>0, <1>b DEF fits
<1>2. InOrder(log'.file) /\ RoomMade'
  BY <1>1 DEF LogIInv, RoomMade
<1>3. SizeKnown'
  <2>1. log.size \in Nat /\ MaxLines \in Nat
    BY <1>1, LogAssumption DEF Logs
  <2> QED
    BY <1>1, <2>1 DEF LogIInv, SizeKnown
<1> QED
  BY <1>1, <1>2, <1>3 DEF LogIInv

LEMMA PutStep ==
  ASSUME LogIInv, Put
  PROVE  LogIInv'
<1>1. log \in Logs /\ log.at = "put" /\ InOrder(log.file)
  BY DEF LogIInv, Put
<1>2. CASE log' = [log EXCEPT !.at = "idle", !.file = Aged(@), !.size = @ + 1]
  <2> DEFINE new == Aged(log.file)
  <2>1. /\ new \in [Files -> SUBSET Nat] /\ InOrder(new)
        /\ Cardinality(new[0]) <= Cardinality(log.file[0]) + 1
    BY <1>1, AgedInOrder DEF Logs
  <2> DEFINE size == log.size + 1
  <2>2. size \in Nat
    BY <1>1 DEF Logs
  <2>a. log' = [log EXCEPT !.at = "idle", !.file = new, !.size = size]
    BY <1>2
  <2> HIDE DEF new, size
  <2>b. /\ log' \in Logs /\ log'.file = new /\ log'.size = size
        /\ log'.disturbed = log.disturbed /\ log'.at = "idle"
    BY <1>1, <2>1, <2>2, <2>a DEF Logs, Places
  <2>3. /\ log' \in Logs /\ log'.file = new /\ log'.size = log.size + 1
        /\ log'.disturbed = log.disturbed /\ log'.at = "idle"
    BY <2>b DEF size
  <2>4. RoomMade'
    BY <2>3 DEF RoomMade
  <2>5. SizeKnown'
    <3>1. log.size \in Nat /\ MaxLines \in Nat
      BY <1>1, LogAssumption DEF Logs
    <3>2. Cardinality(log.file[0]) \in Nat /\ Cardinality(new[0]) \in Nat
      BY <1>1, <2>1, FilesFinite, FilesAre DEF Logs, InOrder
    <3> QED
      BY <1>1, <2>1, <2>3, <3>1, <3>2 DEF LogIInv, SizeKnown
  <2> QED
    BY <2>1, <2>3, <2>4, <2>5 DEF LogIInv
<1>3. CASE log' = Failure(Dropped([log EXCEPT !.bad = TRUE]))
  <2>1. /\ log' \in Logs /\ log'.file = log.file /\ log'.at = "idle"
        /\ log'.disturbed = TRUE
    BY <1>1, <1>3 DEF Logs, Places, Failure, Dropped
  <2> QED
    BY <1>1, <2>1 DEF LogIInv, RoomMade, SizeKnown
<1> QED
  BY <1>2, <1>3 DEF Put

\* A rotation that is given up leaves the files as they are.
LEMMA GivenUpKeeps ==
  ASSUME LogIInv, log' = GivenUp(log)
  PROVE  LogIInv'
<1>1. log \in Logs
  BY DEF LogIInv
<1>2. /\ log' \in Logs /\ log'.file = log.file /\ log'.at = "append"
      /\ log'.disturbed = TRUE
  BY <1>1 DEF Logs, Places, GivenUp, Failure
<1> QED
  BY <1>2 DEF LogIInv, RoomMade, SizeKnown

LEMMA RemoveStep ==
  ASSUME LogIInv, RemoveOldest
  PROVE  LogIInv'
<1>1. log \in Logs /\ log.at = "remove" /\ InOrder(log.file)
  BY DEF LogIInv, RemoveOldest, Operation
<1> DEFINE next == IF BackupCount > 1 THEN "shift" ELSE "rename"
           new == [log.file EXCEPT ![BackupCount] = {}]
<1>2. CASE log' = [log EXCEPT !.at = next, !.index = BackupCount, !.file = new]
  <2>1. new \in [Files -> SUBSET Nat] /\ InOrder(new) /\ new[BackupCount] = {}
    BY <1>1, OldestInOrder, FilesAre DEF Logs
  <2>2. BackupCount \in Nat \ {0}
    BY LogAssumption
  <2>3. /\ next \in Places /\ next # "trunc" /\ next # "append" /\ next # "put"
        /\ next = "shift" => BackupCount > 1
        /\ next = "rename" => BackupCount = 1
    BY <2>2 DEF Places
  <2>4. new[0] = log.file[0]
    BY <1>1, <2>2, FilesAre DEF Logs
  <2> HIDE DEF new, next
  <2>5. /\ log' \in Logs /\ log'.file = new /\ log'.at = next
        /\ log'.index = BackupCount
        /\ log'.disturbed = log.disturbed /\ log'.size = log.size
    BY <1>1, <1>2, <2>1, <2>2, <2>3 DEF Logs
  <2>6. RoomMade'
    BY <2>1, <2>2, <2>3, <2>5 DEF RoomMade
  <2>7. SizeKnown'
    BY <1>1, <2>3, <2>4, <2>5 DEF LogIInv, SizeKnown
  <2> QED
    BY <2>1, <2>5, <2>6, <2>7 DEF LogIInv
<1>3. CASE log' = GivenUp(log)
  BY <1>3, GivenUpKeeps
<1> QED
  BY <1>2, <1>3 DEF RemoveOldest, Operation

LEMMA ShiftStep ==
  ASSUME LogIInv, Shift
  PROVE  LogIInv'
<1>1. /\ log \in Logs /\ log.at = "shift" /\ InOrder(log.file)
      /\ log.index \in 2..BackupCount /\ log.file[log.index] = {}
  BY DEF LogIInv, Shift, Operation, RoomMade
<1> DEFINE next == IF log.index > 2 THEN "shift" ELSE "rename"
           k == log.index
           new == [log.file EXCEPT ![k] = log.file[k - 1], ![k - 1] = {}]
<1>2. CASE log' = [log EXCEPT !.at = next, !.index = @ - 1, !.file = new]
  <2>1. k \in Files /\ k # 0 /\ k \in 2..BackupCount /\ BackupCount \in Nat
    BY <1>1, LogAssumption DEF Files
  <2>2. new \in [Files -> SUBSET Nat] /\ InOrder(new) /\ new[k - 1] = {}
    BY <1>1, <2>1, MovedInOrder DEF Logs
  <2>3. /\ next \in Places /\ next # "trunc" /\ next # "append" /\ next # "put"
        /\ next = "shift" => k > 2
        /\ next = "rename" => k = 2
    BY <2>1 DEF Places
  <2>4. new[0] = log.file[0]
    BY <1>1, <2>1, FilesAre DEF Logs
  <2> DEFINE index == k - 1
  <2>a. index \in Nat /\ log' = [log EXCEPT !.at = next, !.index = index, !.file = new]
    BY <1>2, <2>1
  <2> HIDE DEF new, next, index
  <2>b. /\ log' \in Logs /\ log'.file = new /\ log'.at = next
        /\ log'.index = index
        /\ log'.disturbed = log.disturbed /\ log'.size = log.size
    BY <1>1, <2>2, <2>3, <2>a DEF Logs
  <2>5. /\ log' \in Logs /\ log'.file = new /\ log'.at = next
        /\ log'.index = k - 1
        /\ log'.disturbed = log.disturbed /\ log'.size = log.size
    BY <2>b DEF index
  <2> HIDE DEF k
  <2>6. RoomMade'
    BY <2>1, <2>2, <2>3, <2>5 DEF RoomMade
  <2>7. SizeKnown'
    BY <1>1, <2>3, <2>4, <2>5 DEF LogIInv, SizeKnown
  <2> QED
    BY <2>2, <2>5, <2>6, <2>7 DEF LogIInv
<1>3. CASE log' = GivenUp(log)
  BY <1>3, GivenUpKeeps
<1> QED
  BY <1>2, <1>3 DEF Shift, Operation

LEMMA RenameStep ==
  ASSUME LogIInv, RenameActive
  PROVE  LogIInv'
<1>1. log \in Logs /\ log.at = "rename" /\ InOrder(log.file) /\ log.file[1] = {}
  BY DEF LogIInv, RenameActive, Operation, RoomMade
<1> DEFINE new == [log.file EXCEPT ![1] = log.file[0], ![0] = {}]
<1>2. CASE log' = [log EXCEPT !.at = "trunc", !.file = new]
  <2>1. new \in [Files -> SUBSET Nat] /\ InOrder(new) /\ new[0] = {}
    <3>1. 1 \in Files /\ 1 # 0 /\ 1 - 1 = 0
      BY FilesAre
    <3>2. log.file \in [Files -> SUBSET Nat]
      BY <1>1 DEF Logs
    <3>3. LET moved == [log.file EXCEPT ![1] = log.file[1 - 1], ![1 - 1] = {}]
          IN  moved \in [Files -> SUBSET Nat] /\ InOrder(moved) /\ moved[1 - 1] = {}
      BY <1>1, <3>1, <3>2, MovedInOrder
    <3> QED
      BY <3>1, <3>3
  <2> HIDE DEF new
  <2>2. /\ log' \in Logs /\ log'.file = new /\ log'.at = "trunc"
        /\ log'.disturbed = log.disturbed /\ log'.size = log.size
    BY <1>1, <1>2, <2>1 DEF Logs, Places
  <2>3. RoomMade'
    BY <2>1, <2>2 DEF RoomMade
  <2>4. SizeKnown'
    BY <1>1, <2>2 DEF LogIInv, SizeKnown
  <2> QED
    BY <2>1, <2>2, <2>3, <2>4 DEF LogIInv
<1>3. CASE log' = GivenUp(log)
  BY <1>3, GivenUpKeeps
<1> QED
  BY <1>2, <1>3 DEF RenameActive, Operation

LEMMA ReopenStep ==
  ASSUME LogIInv, Reopen
  PROVE  LogIInv'
<1> DEFINE active == IF log.at = "trunc" THEN {} ELSE log.file[0]
           new == [log.file EXCEPT ![0] = active]
<1>1. log \in Logs /\ log.at \in {"trunc", "append"} /\ InOrder(log.file)
  BY DEF LogIInv, Reopen
<1>2. active = log.file[0] /\ (~log.disturbed => active = {})
  BY <1>1 DEF LogIInv, RoomMade, SizeKnown
<1>3. CASE log' = [log EXCEPT !.at = "put", !.open = TRUE, !.bad = FALSE,
                              !.file = new, !.size = Cardinality(active)]
  <2>1. new = log.file
    BY <1>1, <1>2 DEF Logs
  <2>2. Cardinality(active) \in Nat
    BY <1>1, <1>2, FilesFinite, FilesAre DEF Logs, InOrder
  <2>3. ~log.disturbed => Cardinality(active) = 0
    BY <1>2, FS_EmptySet
  <2> HIDE DEF active, new
  <2>4. /\ log' \in Logs /\ log'.file = log.file /\ log'.at = "put"
        /\ log'.disturbed = log.disturbed /\ log'.size = Cardinality(active)
    BY <1>1, <1>3, <2>1, <2>2 DEF Logs, Places
  <2>5. RoomMade'
    BY <2>4 DEF RoomMade
  <2>6. SizeKnown'
    BY <1>2, <2>2, <2>3, <2>4, LogAssumption DEF SizeKnown
  <2> QED
    BY <1>1, <2>4, <2>5, <2>6 DEF LogIInv
<1>4. CASE log' = Dropped(ReopenFailed(log))
  <2>1. /\ log' \in Logs /\ log'.file = log.file /\ log'.at = "idle"
        /\ log'.disturbed = TRUE
    BY <1>1, <1>4 DEF Logs, Places, Failure, Dropped, ReopenFailed
  <2> QED
    BY <1>1, <2>1 DEF LogIInv, RoomMade, SizeKnown
<1> QED
  BY <1>3, <1>4 DEF Reopen

\* The process may die between any two operations.
LEMMA RestartStep ==
  ASSUME LogIInv, log' = LogRestarted
  PROVE  LogIInv'
<1>1. log \in Logs /\ InOrder(log.file)
  BY DEF LogIInv
<1>2. Cardinality(log.file[0]) \in Nat
  BY <1>1, FilesFinite, FilesAre DEF Logs, InOrder
<1>3. /\ log' \in Logs /\ log'.file = log.file /\ log'.at = "idle"
      /\ log'.size = Cardinality(log.file[0])
      /\ ~log'.disturbed => ~log.disturbed /\ log.at = "idle"
  BY <1>1, <1>2 DEF Logs, Places, LogRestarted, LogIdle
<1>4. SizeKnown'
  <2>1. log.size \in Nat /\ MaxLines \in Nat
    BY <1>1, LogAssumption DEF Logs
  <2> QED
    BY <1>2, <1>3, <2>1 DEF LogIInv, SizeKnown
<1> QED
  BY <1>1, <1>3, <1>4 DEF LogIInv, RoomMade
-----------------------------------------------------------------------------
LEMMA LogInitIInv == FilesInit => LogIInv
<1> SUFFICES ASSUME FilesInit PROVE LogIInv
  OBVIOUS
<1>1. /\ log \in Logs /\ log.file = [i \in Files |-> {}] /\ log.at = "idle"
      /\ log.size = 0
  BY FilesAre DEF FilesInit, LogInit, Logs, Places
<1>2. InOrder(log.file)
  BY <1>1 DEF InOrder, Gapless, Ordered, Bounded
<1>3. SizeKnown
  BY <1>1, FilesAre, FS_EmptySet, LogAssumption DEF SizeKnown
<1> QED
  BY <1>1, <1>2, <1>3 DEF LogIInv, RoomMade

LEMMA LogNextIInv == LogIInv /\ [FilesNext]_fileVars => LogIInv'
<1> SUFFICES ASSUME LogIInv, [FilesNext]_fileVars PROVE LogIInv'
  OBVIOUS
<1>1. CASE PublishCall
  BY <1>1 DEF PublishCall, LogIInv, RoomMade, SizeKnown
<1>2. CASE LogCall
  BY <1>2, LineStep, PutStep, RemoveStep, ShiftStep, RenameStep, ReopenStep
  DEF LogCall, LogStep
<1>3. CASE KillAndRestart
  BY <1>3, RestartStep DEF KillAndRestart
<1>4. CASE StorageRecovers
  BY <1>4 DEF StorageRecovers, LogIInv, RoomMade, SizeKnown
<1>5. CASE UNCHANGED fileVars
  BY <1>5 DEF fileVars, LogIInv, RoomMade, SizeKnown
<1> QED
  BY <1>1, <1>2, <1>3, <1>4, <1>5 DEF FilesNext

\* The files always hold the newest lines, in order: wherever a rotation
\* fails or the process dies, only the oldest lines are lost.
THEOREM NewestCorrect == FilesSpec => []NewestLinesKept
<1>1. LogIInv => NewestLinesKept
  <2> SUFFICES ASSUME LogIInv PROVE NewestLinesKept
    OBVIOUS
  <2>1. Gapless(log.file) /\ Ordered(log.file) /\ Bounded(log.file)
    BY DEF LogIInv, InOrder
  <2>2. PICK n \in Nat : \A i \in Files : log.file[i] \subseteq 1..n
    BY <2>1 DEF Bounded
  <2>3. /\ Kept \subseteq 1..n
        /\ \A m \in Kept : \A k \in 1..m : k \in Kept
    BY <2>1, <2>2 DEF Kept, Gapless
  <2>4. Kept = 1..Cardinality(Kept)
    BY <2>3, GaplessIsInterval
  <2> QED
    BY <2>1, <2>4 DEF NewestLinesKept, Lines, Ordered
<1> QED
  BY <1>1, LogInitIInv, LogNextIInv, PTL DEF FilesSpec

\* As long as no operation failed and no rotation was cut short the active
\* file stays within its limit.
THEOREM SizeCorrect == FilesSpec => []SizeLimited
<1>1. LogIInv => SizeLimited
  <2> SUFFICES ASSUME LogIInv, ~log.disturbed PROVE Cardinality(log.file[0]) <= MaxLines
    BY DEF SizeLimited
  <2>1. log.size \in Nat /\ MaxLines \in Nat
    BY LogAssumption DEF LogIInv, Logs
  <2>2. Cardinality(log.file[0]) \in Nat
    BY FilesFinite, FilesAre DEF LogIInv, Logs, InOrder
  <2>3. CASE log.at = "trunc"
    BY <2>1, <2>3, FS_EmptySet DEF LogIInv, RoomMade
  <2>4. CASE log.at # "trunc"
    BY <2>1, <2>2, <2>4 DEF LogIInv, SizeKnown
  <2> QED
    BY <2>3, <2>4
<1> QED
  BY <1>1, LogInitIInv, LogNextIInv, PTL DEF FilesSpec
-----------------------------------------------------------------------------
(* The status file, which tells of the log.                                *)

\* What has cost a line, or will cost the next one, has been counted.
LossesCounted == log.lost \/ ~log.open \/ log.bad => log.counted

\* Nothing is logged within a publication, so its text stays true; and it is
\* not renamed before it has replaced what was in the temporary file.
TextIsTrue ==
  /\ pc # "idle" => LogIdle /\ says.temp = log.counted
  /\ pc \in {"remove", "rename"} => temp \in {version, Partial}

TellsIInv == LogIInv /\ LossesCounted /\ TextIsTrue

LEMMA TellsInit == FilesInit => TellsIInv
BY LogInitIInv DEF FilesInit, StatusInit, LogInit, TellsIInv, LossesCounted, TextIsTrue

\* The publisher makes its text with the counters as they are.
LEMMA PublishTells ==
  ASSUME TellsIInv, PublishCall
  PROVE  LossesCounted' /\ TextIsTrue'
<1>1. /\ log' = log /\ LogIdle /\ LogIdle' /\ Publisher
      /\ says'.temp = IF pc = "idle" THEN log.counted ELSE says.temp
  BY DEF PublishCall, LogIdle, Serialized
<1>2. LossesCounted'
  BY <1>1 DEF TellsIInv, LossesCounted
<1>3. /\ pc # "idle" => says.temp = log.counted
      /\ pc \in {"remove", "rename"} => temp \in {version, Partial}
  BY DEF TellsIInv, TextIsTrue
<1>4. pc' # "idle" => says'.temp = log'.counted
  BY <1>1, <1>3
<1>5. pc' \in {"remove", "rename"} => temp' \in {version', Partial}
  BY <1>1, <1>3 DEF Publisher, OpenTemp, WriteTemp, RemoveTarget, RenameTemp, Failed
<1> QED
  BY <1>1, <1>2, <1>4, <1>5 DEF TextIsTrue

\* Whatever the logger does to lose a line, it counts; the only line it drops
\* without counting finds the file closed, which was counted before.
LEMMA LogTells ==
  ASSUME TellsIInv, LogStep
  PROVE  LossesCounted'
<1>1. log \in Logs /\ LossesCounted
  BY DEF TellsIInv, LogIInv
<1>2. CASE LogLine
  <2>1. \/ ~log.open /\ log' = [log EXCEPT !.at = "idle", !.lost = TRUE]
        \/ log' = [log EXCEPT !.at = "remove"]
        \/ log' = [log EXCEPT !.at = "put"]
    BY <1>2 DEF LogLine, Dropped
  <2> QED
    BY <1>1, <2>1 DEF Logs, LossesCounted
<1>3. CASE Put
  BY <1>1, <1>3 DEF Put, Failure, Dropped, Logs, LossesCounted
<1>4. ASSUME NEW at, NEW done, Operation(at, done),
             done.lost = log.lost, done.open = log.open, done.bad = log.bad,
             done.counted = log.counted
      PROVE  LossesCounted'
  BY <1>1, <1>4 DEF Operation, GivenUp, Failure, Logs, LossesCounted
<1>5. CASE RemoveOldest
  BY <1>1, <1>4, <1>5 DEF RemoveOldest, Logs
<1>6. CASE Shift
  BY <1>1, <1>4, <1>6 DEF Shift, Logs
<1>7. CASE RenameActive
  BY <1>1, <1>4, <1>7 DEF RenameActive, Logs
<1>8. CASE Reopen
  <2>1. CASE log' = Dropped(ReopenFailed(log))
    BY <1>1, <2>1 DEF Dropped, ReopenFailed, Failure, Logs, LossesCounted
  <2>2. CASE log'.lost = log.lost /\ log'.open /\ ~log'.bad /\ log'.counted = log.counted
    BY <1>1, <2>2 DEF LossesCounted
  <2> QED
    BY <1>1, <1>8, <2>1, <2>2 DEF Reopen, Logs
<1> QED
  BY <1>2, <1>3, <1>5, <1>6, <1>7, <1>8 DEF LogStep

LEMMA TellsNext == TellsIInv /\ [FilesNext]_fileVars => TellsIInv'
<1> SUFFICES ASSUME TellsIInv, [FilesNext]_fileVars PROVE TellsIInv'
  OBVIOUS
<1>1. LogIInv'
  BY LogNextIInv DEF TellsIInv
<1>2. CASE PublishCall
  BY <1>1, <1>2, PublishTells DEF TellsIInv
<1>3. CASE LogCall
  <2>1. LossesCounted'
    BY <1>3, LogTells DEF LogCall
  <2>2. TextIsTrue'
    BY <1>3 DEF LogCall, statusVars, TextIsTrue
  <2> QED
    BY <1>1, <2>1, <2>2 DEF TellsIInv
<1>4. CASE KillAndRestart
  <2>1. pc' = "idle" /\ ~log'.lost /\ log'.open /\ ~log'.bad
    BY <1>4 DEF KillAndRestart, Failed, LogRestarted, TellsIInv, LogIInv, Logs
  <2> QED
    BY <1>1, <2>1 DEF TellsIInv, LossesCounted, TextIsTrue
<1>5. CASE StorageRecovers \/ UNCHANGED fileVars
  BY <1>1, <1>5
  DEF StorageRecovers, fileVars, statusVars, TellsIInv, LossesCounted, TextIsTrue, LogIdle
<1> QED
  BY <1>2, <1>3, <1>4, <1>5 DEF FilesNext

\* What is renamed to the status file is the text just made or what a fault
\* left of it, never an older one; and no whole text is published in a session
\* that has lost a line of its log without saying so.
THEOREM PublishedCorrect == FilesSpec => PublishedIsCurrent
<1> DEFINE Current == target' # target /\ target' # Missing =>
                        /\ target' \in {version, Partial}
                        /\ target' = version /\ log.lost => says'.target
<1>1. TellsIInv /\ [FilesNext]_fileVars => [Current]_fileVars
  <2> SUFFICES ASSUME TellsIInv, FilesNext, target' # target, target' # Missing
               PROVE  /\ target' \in {version, Partial}
                      /\ target' = version /\ log.lost => says'.target
    OBVIOUS
  <2>1. PublishCall /\ RenameTemp /\ target' = temp
    BY DEF FilesNext, LogCall, KillAndRestart, StorageRecovers, statusVars,
           PublishCall, Publisher, OpenTemp, WriteTemp, RemoveTarget, RenameTemp
  <2>2. pc = "rename" /\ says'.target = says.temp
    BY <2>1 DEF PublishCall, RenameTemp
  <2>3. log.lost => log.counted
    BY DEF TellsIInv, LossesCounted
  <2> QED
    BY <2>1, <2>2, <2>3 DEF TellsIInv, TextIsTrue
<1> QED
  BY <1>1, TellsInit, TellsNext, PTL DEF FilesSpec, PublishedIsCurrent
-----------------------------------------------------------------------------
(* The history.                                                            *)

KeySet == 0..(Keys - 1)
Items == {None, Header, Cut} \cup KeySet
Rows == {Header} \cup KeySet

CsvFiles == [there : BOOLEAN, first : Items, tail : Items, own : BOOLEAN]

Recorders ==
  [at : {"off", "on", "record", "flush", "failed"},
   seen : [Streams -> {None} \cup KeySet], last : [Streams -> {None} \cup KeySet],
   buffer : [Streams -> Seq(Rows)], bad : SUBSET Streams]

RecTypes == rec \in Recorders /\ csv \in [Streams -> CsvFiles]

InSession == rec.at \in {"on", "record", "flush"}

\* A file without a header gets it in front of its first row.
Headed(f, b) ==
  /\ f.first \in {None, Header, Cut}
  /\ f.first = None /\ b # <<>> => b[1] = Header

\* What is written of a session and what is buffered for it is one run of
\* rows up to the one recorded last.
OneRun(f, b, last) ==
  /\ \A i \in 2..Len(b) : b[i] # Header /\ (b[i - 1] # Header => b[i] = NextKey(b[i - 1]))
  /\ b # <<>> /\ b[1] = Header => ~f.own
  /\ b # <<>> /\ b[Len(b)] # Header => b[Len(b)] = last
  /\ f.own /\ f.tail \in KeySet /\ b # <<>> => b[1] = NextKey(f.tail)
  /\ f.own /\ f.tail \in KeySet /\ b = <<>> => f.tail = last

InStep(seen, last) == seen = last \/ seen = NextKey(last)

RecIInv ==
  /\ RecTypes
  /\ \A s \in Streams :
       /\ Headed(csv[s], rec.buffer[s])
       /\ InSession => /\ csv[s].first = None => rec.buffer[s] # <<>>
                       /\ OneRun(csv[s], rec.buffer[s], rec.last[s])
                       /\ InStep(rec.seen[s], rec.last[s])
-----------------------------------------------------------------------------
LEMMA ItemsAre ==
  /\ \A k \in KeySet : k # None /\ k # Header /\ k # Cut /\ k >= 0
  /\ None # Header /\ None # Cut /\ Header # Cut
  /\ ~(None >= 0) /\ ~(Header >= 0) /\ ~(Cut >= 0)
  /\ \A k \in {None} \cup KeySet : NextKey(k) \in KeySet /\ NextKey(k) # k
<1>1. Keys \in Nat /\ Keys > 2
  BY HistoryAssumption
<1>2. 0 \in KeySet
  BY <1>1 DEF KeySet
<1>3. ASSUME NEW k \in KeySet PROVE (k + 1) % Keys \in KeySet /\ (k + 1) % Keys # k
  <2>1. CASE k + 1 < Keys
    BY <1>1, <2>1 DEF KeySet
  <2>2. CASE k + 1 = Keys
    <3>1. (k + 1) % Keys = 0
      BY <1>1, <2>2
    <3> QED
      BY <1>1, <1>2, <2>2, <3>1
  <2> QED
    BY <1>1, <2>1, <2>2 DEF KeySet
<1> QED
  BY <1>1, <1>2, <1>3 DEF NextKey, None, Header, Cut, KeySet

\* What a file becomes when items are written to it.
LEMMA StoredIs ==
  ASSUME NEW f \in CsvFiles, NEW items \in Seq(Items)
  PROVE  /\ items = <<>> => Stored(f, items) = f
         /\ Stored(f, items) \in CsvFiles
         /\ Stored(f, items).there = f.there
         /\ items # <<>> =>
              /\ Stored(f, items).first = IF f.first = None THEN items[1] ELSE f.first
              /\ \/ /\ f.tail = Cut /\ Stored(f, items).tail = Cut
                    /\ ~Stored(f, items).own
                 \/ /\ Stored(f, items).tail = items[Len(items)]
                    /\ Stored(f, items).own
<1>1. CASE items = <<>>
  BY <1>1 DEF Stored
<1>2. CASE items # <<>>
  <2> DEFINE glued == f.tail = Cut /\ Len(items) = 1
             first == IF f.first = None THEN items[1] ELSE f.first
             tail == IF glued THEN Cut ELSE items[Len(items)]
             new == [f EXCEPT !.first = first, !.tail = tail, !.own = ~glued]
  <2>1. Len(items) \in 1..Len(items) /\ 1 \in 1..Len(items) /\ Head(items) = items[1]
    BY <1>2
  <2>2. first \in Items /\ tail \in Items
    BY <2>1 DEF CsvFiles, Items
  <2>3. Stored(f, items) = new
    BY <1>2, <2>1 DEF Stored, CsvFiles
  <2>4. glued \in BOOLEAN /\ (glued => f.tail = Cut /\ tail = Cut)
        /\ (~glued => tail = items[Len(items)])
    OBVIOUS
  <2> HIDE DEF glued, first, tail
  <2>5. /\ new \in CsvFiles /\ new.first = first /\ new.tail = tail /\ new.own = ~glued
        /\ new.there = f.there
    BY <2>2, <2>4 DEF CsvFiles
  <2> HIDE DEF new
  <2> QED
    BY <1>2, <2>3, <2>4, <2>5 DEF first
<1> QED
  BY <1>1, <1>2

\* Whatever part of a buffer reaches a file, the header comes first.
LEMMA InPartIs ==
  ASSUME NEW f \in CsvFiles, NEW b \in Seq(Rows), Headed(f, b),
         NEW g \in StoredInPart(f, b)
  PROVE  g \in CsvFiles /\ g.first \in {None, Header, Cut}
<1>1. ASSUME NEW items \in Seq(Items), items # <<>> => items[1] = Cut \/ (b # <<>> /\ items[1] = b[1])
      PROVE  Stored(f, items) \in CsvFiles /\ Stored(f, items).first \in {None, Header, Cut}
  BY <1>1, StoredIs DEF Headed
<1>2. ASSUME NEW n \in 0..Len(b)
      PROVE  /\ SubSeq(b, 1, n) \in Seq(Items) /\ Len(SubSeq(b, 1, n)) = n
             /\ n > 0 => SubSeq(b, 1, n)[1] = b[1] /\ b # <<>>
  <2>1. \A i \in 1..Len(b) : b[i] \in Items
    BY DEF Rows, Items
  <2> QED
    BY <2>1
<1>3. ASSUME NEW n \in 0..Len(b), g = Stored(f, SubSeq(b, 1, n))
      PROVE  g \in CsvFiles /\ g.first \in {None, Header, Cut}
  <2> DEFINE items == SubSeq(b, 1, n)
  <2>1. items \in Seq(Items) /\ Len(items) = n /\ (n > 0 => items[1] = b[1] /\ b # <<>>)
    BY <1>2
  <2> HIDE DEF items
  <2>2. items # <<>> => n > 0
    BY <2>1
  <2> QED
    BY <1>1, <1>3, <2>1, <2>2 DEF items
<1>4. ASSUME NEW n \in 0..(Len(b) - 1), g = Stored(f, Append(SubSeq(b, 1, n), Cut))
      PROVE  g \in CsvFiles /\ g.first \in {None, Header, Cut}
  <2> DEFINE part == SubSeq(b, 1, n)
             items == Append(part, Cut)
  <2>1. part \in Seq(Items) /\ Len(part) = n /\ (n > 0 => part[1] = b[1] /\ b # <<>>)
    <3>1. n \in 0..Len(b)
      OBVIOUS
    <3> QED
      BY <1>2, <3>1
  <2> HIDE DEF part
  <2>2. items \in Seq(Items) /\ (n = 0 => items[1] = Cut) /\ (n > 0 => items[1] = part[1])
    BY <2>1 DEF Items
  <2>3. n = 0 \/ n > 0
    OBVIOUS
  <2> HIDE DEF items
  <2> QED
    BY <1>1, <1>4, <2>1, <2>2, <2>3 DEF items, part
<1> QED
  BY <1>3, <1>4 DEF StoredInPart

\* A buffer is written, by `failing` perhaps in part.
LEMMA FlushedIs ==
  ASSUME RecIInv, NEW failing, Flushed(failing)
  PROVE  /\ csv' \in [Streams -> CsvFiles]
         /\ \A s \in Streams :
              /\ csv'[s].first \in {None, Header, Cut}
              /\ s \notin failing => csv'[s] = Stored(csv[s], rec.buffer[s])
<1>1. /\ csv' = [s \in Streams |-> csv'[s]]
      /\ \A s \in Streams : IF s \in failing THEN csv'[s] \in StoredInPart(csv[s], rec.buffer[s])
                                             ELSE csv'[s] = Stored(csv[s], rec.buffer[s])
  <2> DEFINE All == UNION {StoredInPart(csv[s], rec.buffer[s]) : s \in Streams}
             Ok(f) == \A s \in Streams :
                        IF s \in failing THEN f[s] \in StoredInPart(csv[s], rec.buffer[s])
                                         ELSE f[s] = Stored(csv[s], rec.buffer[s])
  <2>1. csv' \in {f \in [Streams -> All] : Ok(f)}
    BY DEF Flushed
  <2>2. csv' \in [Streams -> All] /\ Ok(csv')
    <3> HIDE DEF All, Ok
    <3> QED
      BY <2>1
  <2> QED
    BY <2>2
<1>2. ASSUME NEW s \in Streams
      PROVE  csv'[s] \in CsvFiles /\ csv'[s].first \in {None, Header, Cut}
  <2> DEFINE f == csv[s]
             b == rec.buffer[s]
  <2>1. f \in CsvFiles /\ b \in Seq(Rows) /\ Headed(f, b)
    BY DEF RecIInv, RecTypes, Recorders
  <2>2. CASE s \in failing
    <3>1. csv'[s] \in StoredInPart(f, b)
      BY <1>1, <2>2
    <3> HIDE DEF f, b
    <3> QED
      BY <2>1, <3>1, InPartIs
  <2>3. CASE s \notin failing
    <3>1. csv'[s] = Stored(f, b)
      BY <1>1, <2>3
    <3> HIDE DEF f, b
    <3>2. b \in Seq(Items)
      <4>1. \A i \in 1..Len(b) : b[i] \in Items
        BY <2>1 DEF Rows, Items
      <4> QED
        BY <2>1, <4>1
    <3> QED
      BY <2>1, <3>1, <3>2, StoredIs DEF Headed
  <2> QED
    BY <2>2, <2>3
<1> QED
  BY <1>1, <1>2

LEMMA RecStart ==
  ASSUME RecIInv, StartRecorder
  PROVE  RecIInv'
<1> DEFINE Buffer(s) == IF NeedsHeader(csv[s]) THEN <<Header>> ELSE <<>>
<1>1. /\ rec' = [rec EXCEPT
           !.at = "on", !.bad = {},
           !.seen = [s \in Streams |-> None], !.last = [s \in Streams |-> None],
           !.buffer = [s \in Streams |-> Buffer(s)]]
      /\ csv' = [s \in Streams |-> [csv[s] EXCEPT !.there = TRUE, !.own = FALSE]]
      /\ rec \in Recorders /\ csv \in [Streams -> CsvFiles]
  BY DEF StartRecorder, RecIInv, RecTypes
<1>2. \A s \in Streams : Buffer(s) \in Seq(Rows)
  <2>1. <<>> \in Seq(Rows) /\ Header \in Rows
    BY DEF Rows
  <2>2. <<Header>> \in Seq(Rows)
    BY <2>1
  <2> QED
    BY <2>1, <2>2
<1>3. /\ rec' \in Recorders /\ rec'.at = "on"
      /\ \A s \in Streams : rec'.seen[s] = None /\ rec'.last[s] = None
                            /\ rec'.buffer[s] = Buffer(s)
  <2> HIDE DEF Buffer
  <2> QED
    BY <1>1, <1>2 DEF Recorders
<1>4. \A s \in Streams : /\ csv'[s] \in CsvFiles /\ csv'[s].first = csv[s].first
                         /\ ~csv'[s].own
  BY <1>1 DEF CsvFiles
<1>5. RecTypes'
  BY <1>1, <1>3, <1>4 DEF RecTypes
<1>6. ASSUME NEW s \in Streams
      PROVE  /\ Headed(csv[s], rec.buffer[s])'
             /\ csv'[s].first = None => rec'.buffer[s] # <<>>
             /\ OneRun(csv[s], rec.buffer[s], rec.last[s])'
             /\ InStep(rec.seen[s], rec.last[s])'
  <2>1. Headed(csv[s], rec.buffer[s])
    BY DEF RecIInv
  <2>2. CASE csv[s].first = None
    <3>1. rec'.buffer[s] = <<Header>>
      BY <1>3, <2>2 DEF NeedsHeader
    <3> QED
      BY <1>3, <1>4, <2>1, <3>1 DEF Headed, OneRun, InStep
  <2>3. CASE csv[s].first # None
    <3>1. rec'.buffer[s] = <<>>
      BY <1>3, <2>3 DEF NeedsHeader
    <3> QED
      BY <1>3, <1>4, <2>1, <2>3, <3>1 DEF Headed, OneRun, InStep
  <2> QED
    BY <2>2, <2>3
<1> QED
  BY <1>5, <1>6 DEF RecIInv

LEMMA RecSample ==
  ASSUME RecIInv, NEW s \in Streams, Sample(s)
  PROVE  RecIInv'
<1>1. PICK at \in {"on", "record"} : rec' = [rec EXCEPT !.at = at, !.seen[s] = NextKey(@)]
  BY DEF Sample
<1>2. /\ rec.at = "on" /\ rec.seen[s] = rec.last[s] /\ csv' = csv
      /\ rec \in Recorders /\ csv \in [Streams -> CsvFiles]
  BY DEF Sample, RecIInv, RecTypes
<1> DEFINE seen == [rec.seen EXCEPT ![s] = NextKey(rec.seen[s])]
<1>3. rec' = [rec EXCEPT !.at = at, !.seen = seen]
  BY <1>1
<1>4. seen \in [Streams -> {None} \cup KeySet]
  BY <1>2, ItemsAre DEF Recorders
<1>5. seen[s] = NextKey(rec.seen[s]) /\ \A t \in Streams : t # s => seen[t] = rec.seen[t]
  BY <1>2 DEF Recorders
<1> HIDE DEF seen
<1>6. /\ rec' \in Recorders /\ rec'.at = at /\ rec'.seen = seen /\ rec'.last = rec.last
      /\ rec'.buffer = rec.buffer
  BY <1>2, <1>3, <1>4 DEF Recorders
<1>7. RecTypes'
  BY <1>2, <1>6 DEF RecTypes
<1>8. ASSUME NEW t \in Streams
      PROVE  /\ Headed(csv[t], rec.buffer[t])'
             /\ csv'[t].first = None => rec'.buffer[t] # <<>>
             /\ OneRun(csv[t], rec.buffer[t], rec.last[t])'
             /\ InStep(rec.seen[t], rec.last[t])'
  <2>1. /\ Headed(csv[t], rec.buffer[t])
        /\ csv[t].first = None => rec.buffer[t] # <<>>
        /\ OneRun(csv[t], rec.buffer[t], rec.last[t])
        /\ InStep(rec.seen[t], rec.last[t])
    BY <1>2 DEF RecIInv, InSession
  <2>2. InStep(rec'.seen[t], rec'.last[t])
    BY <1>2, <1>5, <1>6, <2>1 DEF InStep
  <2> QED
    BY <1>2, <1>6, <2>1, <2>2
<1> QED
  BY <1>7, <1>8 DEF RecIInv

\* A row follows the one recorded last.
LEMMA RowFits ==
  ASSUME NEW f \in CsvFiles, NEW b \in Seq(Rows), NEW last \in {None} \cup KeySet,
         NEW seen, seen = NextKey(last), Headed(f, b), OneRun(f, b, last),
         f.first = None => b # <<>>
  PROVE  /\ Append(b, seen) \in Seq(Rows)
         /\ Headed(f, Append(b, seen)) /\ Append(b, seen) # <<>>
         /\ OneRun(f, Append(b, seen), seen)
<1> DEFINE c == Append(b, seen)
           n == Len(b)
<1>1. seen \in KeySet /\ seen # Header
  BY ItemsAre
<1>2. /\ c \in Seq(Rows) /\ Len(c) = n + 1 /\ n \in Nat /\ c[n + 1] = seen
      /\ \A i \in 1..n : c[i] = b[i]
      /\ b = <<>> <=> n = 0
  BY <1>1 DEF Rows
<1>3. c # <<>> /\ 1 \in 1..Len(c)
  BY <1>2
<1> HIDE DEF c, n
<1>4. Headed(f, c)
  BY <1>2, <1>3 DEF Headed
<1>5. OneRun(f, c, seen)
  <2>1. ASSUME NEW i \in 2..Len(c)
        PROVE  c[i] # Header /\ (c[i - 1] # Header => c[i] = NextKey(c[i - 1]))
    <3>1. CASE i = n + 1
      <4>1. n \in 1..n /\ b # <<>> /\ c[i - 1] = b[n] /\ n = Len(b)
        BY <1>2, <3>1 DEF n
      <4>2. b[n] # Header => b[n] = last
        BY <4>1 DEF OneRun
      <4> QED
        BY <1>1, <1>2, <3>1, <4>1, <4>2
    <3>2. CASE i # n + 1
      <4>1. i \in 2..n /\ i - 1 \in 1..n /\ i \in 1..n
        BY <1>2, <3>2
      <4> QED
        BY <1>2, <4>1 DEF OneRun, n
    <3> QED
      BY <3>1, <3>2
  <2>2. c[1] = Header => ~f.own
    <3>1. CASE n = 0
      BY <1>1, <1>2, <3>1
    <3>2. CASE n # 0
      <4>1. c[1] = b[1] /\ b # <<>>
        BY <1>2, <3>2
      <4> QED
        BY <4>1 DEF OneRun
    <3> QED
      BY <3>1, <3>2
  <2>3. c[Len(c)] = seen
    BY <1>2
  <2>4. f.own /\ f.tail \in KeySet => c[1] = NextKey(f.tail)
    <3>1. CASE n = 0
      BY <1>2, <3>1 DEF OneRun
    <3>2. CASE n # 0
      <4>1. c[1] = b[1] /\ b # <<>>
        BY <1>2, <3>2
      <4> QED
        BY <4>1 DEF OneRun
    <3> QED
      BY <3>1, <3>2
  <2> QED
    BY <1>3, <2>1, <2>2, <2>3, <2>4 DEF OneRun
<1> QED
  BY <1>2, <1>3, <1>4, <1>5 DEF c

LEMMA RecRecord ==
  ASSUME RecIInv, Record
  PROVE  RecIInv'
<1> DEFINE changed == {s \in Streams : rec.seen[s] # rec.last[s]}
<1>1. /\ rec.at = "record" /\ csv' = csv
      /\ rec \in Recorders /\ csv \in [Streams -> CsvFiles]
  BY DEF Record, RecIInv, RecTypes
<1>2. PICK bad \in Failures, due \in BOOLEAN :
        /\ bad \subseteq changed
        /\ rec' = [rec EXCEPT
             !.last = [s \in Streams |-> IF s \in changed THEN rec.seen[s] ELSE @[s]],
             !.buffer = [s \in Streams |->
                           IF s \in changed \ bad THEN Append(@[s], rec.seen[s]) ELSE @[s]],
             !.bad = bad,
             !.at = IF bad # {} THEN "failed" ELSE IF due THEN "flush" ELSE "on"]
  BY DEF Record
<1> DEFINE last == [s \in Streams |-> IF s \in changed THEN rec.seen[s] ELSE rec.last[s]]
           buffer == [s \in Streams |-> IF s \in changed \ bad
                                        THEN Append(rec.buffer[s], rec.seen[s])
                                        ELSE rec.buffer[s]]
           at == IF bad # {} THEN "failed" ELSE IF due THEN "flush" ELSE "on"
<1>3. rec' = [rec EXCEPT !.last = last, !.buffer = buffer, !.bad = bad, !.at = at]
  BY <1>2
<1>4. at \in {"on", "flush", "failed"} /\ (at # "failed" => bad = {})
  OBVIOUS
<1>5. bad \in SUBSET Streams
  BY <1>2
<1>6. \A s \in Streams : /\ last[s] = IF s \in changed THEN rec.seen[s] ELSE rec.last[s]
                         /\ buffer[s] = IF s \in changed \ bad
                                        THEN Append(rec.buffer[s], rec.seen[s])
                                        ELSE rec.buffer[s]
  OBVIOUS
<1>7. last \in [Streams -> {None} \cup KeySet]
  BY <1>1 DEF Recorders
<1>8. ASSUME NEW s \in Streams
      PROVE  /\ buffer[s] \in Seq(Rows)
             /\ Headed(csv[s], buffer[s])
             /\ csv[s].first = None => buffer[s] # <<>>
             /\ bad = {} => OneRun(csv[s], buffer[s], last[s])
             /\ rec.seen[s] = last[s]
  <2> DEFINE f == csv[s]
             b == rec.buffer[s]
  <2>1. /\ f \in CsvFiles /\ b \in Seq(Rows) /\ Headed(f, b)
        /\ f.first = None => b # <<>>
        /\ OneRun(f, b, rec.last[s])
        /\ InStep(rec.seen[s], rec.last[s])
        /\ rec.last[s] \in {None} \cup KeySet
    BY <1>1 DEF RecIInv, InSession, Recorders
  <2> HIDE DEF f, b
  <2>2. CASE s \in changed \ bad
    <3>1. rec.seen[s] = NextKey(rec.last[s])
      BY <2>1, <2>2 DEF InStep
    <3>2. buffer[s] = Append(b, rec.seen[s]) /\ last[s] = rec.seen[s]
      BY <1>6, <2>2 DEF b
    <3> HIDE DEF buffer, last
    <3>3. /\ Append(b, rec.seen[s]) \in Seq(Rows)
          /\ Headed(f, Append(b, rec.seen[s])) /\ Append(b, rec.seen[s]) # <<>>
          /\ OneRun(f, Append(b, rec.seen[s]), rec.seen[s])
      BY <2>1, <3>1, RowFits
    <3> QED
      BY <3>2, <3>3 DEF f
  <2>3. CASE s \notin changed
    <3>1. buffer[s] = b /\ last[s] = rec.last[s] /\ rec.seen[s] = rec.last[s]
      BY <1>6, <2>3 DEF b
    <3> HIDE DEF buffer, last, changed
    <3> QED
      BY <2>1, <3>1 DEF f
  <2>4. CASE s \in bad
    <3>1. buffer[s] = b /\ last[s] = rec.seen[s] /\ bad # {}
      BY <1>2, <1>6, <2>4 DEF b
    <3> HIDE DEF buffer, last, changed
    <3> QED
      BY <2>1, <3>1 DEF f
  <2> QED
    BY <2>2, <2>3, <2>4
<1> HIDE DEF buffer, last, at, changed
<1>9. buffer \in [Streams -> Seq(Rows)]
  <2>1. buffer = [s \in Streams |-> buffer[s]]
    BY DEF buffer
  <2> QED
    BY <1>8, <2>1
<1>10. /\ rec' \in Recorders /\ rec'.at = at /\ rec'.seen = rec.seen /\ rec'.last = last
       /\ rec'.buffer = buffer
  BY <1>1, <1>3, <1>4, <1>5, <1>7, <1>9 DEF Recorders
<1>11. RecTypes'
  BY <1>1, <1>10 DEF RecTypes
<1>12. ASSUME NEW s \in Streams
       PROVE  /\ Headed(csv[s], rec.buffer[s])'
              /\ InSession' => /\ csv'[s].first = None => rec'.buffer[s] # <<>>
                               /\ OneRun(csv[s], rec.buffer[s], rec.last[s])'
                               /\ InStep(rec.seen[s], rec.last[s])'
  <2>1. InSession' => bad = {}
    BY <1>4, <1>10 DEF InSession
  <2>2. InStep(rec'.seen[s], rec'.last[s])
    BY <1>8, <1>10 DEF InStep
  <2> QED
    BY <1>1, <1>8, <1>10, <2>1, <2>2
<1> QED
  BY <1>11, <1>12 DEF RecIInv

\* Without a failure the buffer continues the file, and is written whole.
LEMMA FlushFits ==
  ASSUME NEW f \in CsvFiles, NEW b \in Seq(Rows), NEW last,
         Headed(f, b), OneRun(f, b, last), f.first = None => b # <<>>
  PROVE  /\ Stored(f, b).first # None
         /\ OneRun(Stored(f, b), <<>>, last)
<1> DEFINE g == Stored(f, b)
<1>1. b \in Seq(Items)
  <2>1. \A i \in 1..Len(b) : b[i] \in Items
    BY DEF Rows, Items
  <2> QED
    BY <2>1
<1>2. CASE b = <<>>
  <2>1. g = f
    BY <1>1, <1>2, StoredIs
  <2> QED
    BY <1>2, <2>1
<1>3. CASE b # <<>>
  <2>1. /\ g.first = IF f.first = None THEN b[1] ELSE f.first
        /\ \/ g.tail = Cut /\ ~g.own
           \/ g.tail = b[Len(b)] /\ g.own
    BY <1>1, <1>3, StoredIs
  <2>2. g.first # None
    BY <1>3, <2>1, ItemsAre DEF Headed
  <2> HIDE DEF g
  <2>3. g.own /\ g.tail \in KeySet => g.tail = last
    BY <1>3, <2>1, ItemsAre DEF OneRun
  <2>4. Len(<<>>) = 0
    OBVIOUS
  <2>5. OneRun(g, <<>>, last)
    BY <2>3, <2>4 DEF OneRun
  <2> QED
    BY <2>2, <2>5 DEF g
<1> QED
  BY <1>2, <1>3

\* Behind any writing of the buffers, whole or in part.
LEMMA RecWritten ==
  ASSUME RecIInv, NEW failing, Flushed(failing),
         NEW at \in {"off", "on", "failed"}, NEW bad \in SUBSET Streams,
         rec' = [rec EXCEPT !.at = at, !.bad = bad, !.buffer = Lost(@)],
         at = "on" => InSession /\ failing = {}
  PROVE  RecIInv'
<1>1. /\ csv' \in [Streams -> CsvFiles]
      /\ \A s \in Streams :
           /\ csv'[s].first \in {None, Header, Cut}
           /\ s \notin failing => csv'[s] = Stored(csv[s], rec.buffer[s])
  BY FlushedIs
<1>2. rec \in Recorders /\ csv \in [Streams -> CsvFiles]
  BY DEF RecIInv, RecTypes
<1> DEFINE empty == [s \in Streams |-> <<>>]
<1>3. empty \in [Streams -> Seq(Rows)] /\ \A s \in Streams : empty[s] = <<>>
  OBVIOUS
<1>4. rec' = [rec EXCEPT !.at = at, !.bad = bad, !.buffer = empty]
  BY DEF Lost
<1> HIDE DEF empty
<1>5. /\ rec' \in Recorders /\ rec'.at = at /\ rec'.seen = rec.seen /\ rec'.last = rec.last
      /\ rec'.buffer = empty
  BY <1>2, <1>3, <1>4 DEF Recorders
<1>6. RecTypes'
  BY <1>1, <1>5 DEF RecTypes
<1>7. ASSUME NEW s \in Streams
      PROVE  /\ Headed(csv[s], rec.buffer[s])'
             /\ InSession' => /\ csv'[s].first = None => rec'.buffer[s] # <<>>
                              /\ OneRun(csv[s], rec.buffer[s], rec.last[s])'
                              /\ InStep(rec.seen[s], rec.last[s])'
  <2>1. Headed(csv'[s], rec'.buffer[s])
    BY <1>1, <1>3, <1>5 DEF Headed
  <2>2. CASE at = "on"
    <3> DEFINE f == csv[s]
               b == rec.buffer[s]
    <3>1. /\ f \in CsvFiles /\ b \in Seq(Rows) /\ Headed(f, b)
          /\ f.first = None => b # <<>>
          /\ OneRun(f, b, rec.last[s])
          /\ InStep(rec.seen[s], rec.last[s])
      BY <1>2, <2>2 DEF RecIInv, Recorders
    <3>2. csv'[s] = Stored(f, b)
      BY <1>1, <2>2
    <3> HIDE DEF f, b
    <3>3. csv'[s].first # None /\ OneRun(csv'[s], <<>>, rec.last[s])
      BY <3>1, <3>2, FlushFits
    <3> QED
      BY <1>3, <1>5, <2>1, <3>1, <3>3
  <2>3. CASE at # "on"
    <3>1. ~InSession'
      BY <1>5, <2>3 DEF InSession
    <3> QED
      BY <2>1, <3>1
  <2> QED
    BY <2>2, <2>3
<1> QED
  BY <1>6, <1>7 DEF RecIInv

LEMMA RecEnds ==
  ASSUME RecIInv, Flush \/ StopRecorder \/ Killed
  PROVE  RecIInv'
<1>1. rec \in Recorders
  BY DEF RecIInv, RecTypes
<1>2. CASE Flush
  <2>1. PICK failing \in Failures :
          /\ Flushed(failing)
          /\ rec' = [rec EXCEPT !.bad = failing, !.buffer = Lost(@),
                                !.at = IF FlushFailed(failing) THEN "failed" ELSE "on"]
    BY <1>2 DEF Flush
  <2> DEFINE at == IF FlushFailed(failing) THEN "failed" ELSE "on"
  <2>2. rec' = [rec EXCEPT !.at = at, !.bad = failing, !.buffer = Lost(@)]
    BY <1>1, <2>1 DEF Recorders
  <2>3. at \in {"off", "on", "failed"} /\ (at = "on" => InSession /\ failing = {})
    BY <1>2 DEF Flush, FlushFailed, InSession
  <2>4. failing \in SUBSET Streams
    BY DEF Failures
  <2> HIDE DEF at
  <2> QED
    BY <2>1, <2>2, <2>3, <2>4, RecWritten
<1>3. CASE StopRecorder \/ Killed
  <2>1. PICK failing :
          /\ Flushed(failing)
          /\ rec' = [rec EXCEPT !.at = "off", !.buffer = Lost(@)]
    BY <1>3 DEF StopRecorder, Killed
  <2>2. rec.bad \in SUBSET Streams
    BY <1>1 DEF Recorders
  <2>3. rec' = [rec EXCEPT !.at = "off", !.bad = rec.bad, !.buffer = Lost(@)]
    BY <1>1, <2>1 DEF Recorders
  <2> QED
    BY <2>1, <2>2, <2>3, RecWritten
<1> QED
  BY <1>2, <1>3

LEMMA RecInitIInv == RecInit => RecIInv
<1> SUFFICES ASSUME RecInit PROVE RecIInv
  OBVIOUS
<1> USE DEF RecInit
<1>1. rec \in Recorders /\ ~InSession /\ \A s \in Streams : rec.buffer[s] = <<>>
  BY DEF Recorders, InSession
<1>2. csv \in [Streams -> CsvFiles] /\ \A s \in Streams : csv[s].first = None
  BY DEF CsvFiles, Items
<1> QED
  BY <1>1, <1>2 DEF RecIInv, RecTypes, Headed

LEMMA RecNextIInv == RecIInv /\ [Next]_recVars => RecIInv'
<1> SUFFICES ASSUME RecIInv, [Next]_recVars PROVE RecIInv'
  OBVIOUS
<1>1. CASE LoopCallback
  <2>1. /\ rec' = [rec EXCEPT !.at = "record"] /\ csv' = csv /\ rec \in Recorders
        /\ InSession
    BY <1>1 DEF LoopCallback, RecIInv, RecTypes, InSession
  <2>2. /\ rec' \in Recorders /\ rec'.at = "record" /\ rec'.seen = rec.seen
        /\ rec'.last = rec.last /\ rec'.buffer = rec.buffer
    BY <2>1 DEF Recorders
  <2> QED
    BY <2>1, <2>2 DEF RecIInv, RecTypes
<1>2. CASE RecFaultsEnd
  BY <1>2 DEF RecFaultsEnd, RecIInv, RecTypes, InSession
<1>3. CASE UNCHANGED recVars
  BY <1>3 DEF recVars, RecIInv, RecTypes, InSession
<1> QED
  BY <1>1, <1>2, <1>3, RecStart, RecSample, RecRecord, RecEnds DEF Next

\* However often the process was killed or a flush failed, the first line of a
\* file is the header or what was left of one.
THEOREM HeaderCorrect == Spec => []HeaderFirst
<1>1. RecIInv => HeaderFirst
  BY DEF RecIInv, Headed, HeaderFirst
<1> QED
  BY <1>1, RecInitIInv, RecNextIInv, PTL DEF Spec

\* Of each stream, what a session wrote and what it has buffered is one run of
\* rows, each the next key, up to the row recorded last.
THEOREM RowsCorrect == Spec => []RowsOnceInOrder
<1>1. RecIInv => RowsOnceInOrder
  <2> SUFFICES ASSUME RecIInv, InSession, NEW s \in Streams
               PROVE  LET line == LastRow(csv[s]) \o rec.buffer[s]
                          rows == {i \in 1..Len(line) : line[i] >= 0} IN
                      /\ \A i, j \in rows :
                           i < j /\ rows \cap (i + 1)..(j - 1) = {} => line[j] = NextKey(line[i])
                      /\ \A i \in rows : (\A j \in rows : j <= i) => line[i] = rec.last[s]
    BY DEF RowsOnceInOrder, InSession
  <2> DEFINE f == csv[s]
             b == rec.buffer[s]
             last == rec.last[s]
             n == Len(b)
             line == LastRow(f) \o b
             rows == {i \in 1..Len(line) : line[i] >= 0}
  <2>1. f \in CsvFiles /\ b \in Seq(Rows) /\ OneRun(f, b, last) /\ n \in Nat
    BY DEF RecIInv, RecTypes, Recorders
  <2>2. \A i \in 1..n : b[i] \in Rows /\ (b[i] # Header <=> b[i] >= 0)
    <3>1. \A i \in 1..n : b[i] \in Rows
      BY <2>1
    <3> QED
      BY <3>1, ItemsAre DEF Rows
  <2>3. f.tail \in KeySet <=> f.tail >= 0
    BY <2>1, ItemsAre DEF CsvFiles, Items
  <2>4. n # 0 => b # <<>> /\ 1 \in 1..n /\ n \in 1..n
    BY <2>1
  <2>5. \A i \in 2..n : b[i] # Header /\ (b[i - 1] # Header => b[i] = NextKey(b[i - 1]))
    BY <2>1 DEF OneRun
  <2>6. CASE ~(f.own /\ f.tail >= 0)
    <3>1. line = b
      <4>1. LastRow(f) = <<>>
        BY <2>6 DEF LastRow
      <4> QED
        BY <2>1, <4>1
    <3> HIDE DEF line, n, f
    <3>2. ASSUME NEW i \in rows, NEW j \in rows, i < j, rows \cap (i + 1)..(j - 1) = {}
          PROVE  line[j] = NextKey(line[i])
      <4>1. i \in 1..n /\ j \in 1..n
        BY <3>1 DEF n
      <4>2. j = i + 1
        <5> SUFFICES ASSUME j # i + 1 PROVE FALSE
          OBVIOUS
        <5>1. i + 1 \in 2..n /\ i + 1 \in (i + 1)..(j - 1)
          BY <2>1, <3>2, <4>1
        <5>2. i + 1 \in rows
          BY <2>1, <2>2, <2>5, <3>1, <5>1 DEF n
        <5> QED
          BY <3>2, <5>1, <5>2
      <4>3. b[i] # Header
        BY <2>2, <3>1, <4>1
      <4>4. j \in 2..n /\ j - 1 = i
        BY <2>1, <4>1, <4>2
      <4> QED
        BY <2>5, <3>1, <4>3, <4>4
    <3>3. ASSUME NEW i \in rows, \A j \in rows : j <= i
          PROVE  line[i] = last
      <4>1. i \in 1..n /\ b[i] # Header
        BY <2>2, <3>1 DEF n
      <4>2. n # 0 /\ n \in Nat
        BY <2>1, <4>1
      <4>3. b[n] # Header
        BY <2>1, <2>5, <4>1, <4>2
      <4>4. n \in rows
        BY <2>2, <2>4, <3>1, <4>2, <4>3 DEF n
      <4>5. i = n
        BY <2>1, <3>3, <4>1, <4>4
      <4> QED
        BY <2>1, <2>4, <3>1, <4>2, <4>3, <4>5 DEF OneRun, n
    <3> QED
      BY <3>2, <3>3 DEF line, f
  <2>7. CASE f.own /\ f.tail >= 0
    <3>1. LastRow(f) = <<f.tail>> /\ f.tail \in KeySet
      BY <2>3, <2>7 DEF LastRow
    <3>2. /\ Len(line) = n + 1 /\ line[1] = f.tail
          /\ \A i \in 1..n : line[i + 1] = b[i]
      BY <2>1, <3>1
    <3> HIDE DEF line, n, f
    <3>3. \A i \in 1..n : b[i] # Header
      BY <2>1, <2>4, <2>5, <2>7 DEF OneRun
    <3>4. rows = 1..(n + 1)
      <4> SUFFICES ASSUME NEW i \in 1..(n + 1) PROVE line[i] >= 0
        BY <3>2
      <4>1. CASE i = 1
        BY <2>7, <3>2, <4>1
      <4>2. CASE i # 1
        <5>1. i - 1 \in 1..n /\ (i - 1) + 1 = i
          BY <2>1, <4>2
        <5> QED
          BY <2>2, <3>2, <3>3, <5>1
      <4> QED
        BY <4>1, <4>2
    <3> HIDE DEF rows
    <3>5. ASSUME NEW i \in rows, NEW j \in rows, i < j, rows \cap (i + 1)..(j - 1) = {}
          PROVE  line[j] = NextKey(line[i])
      <4>1. j = i + 1 /\ i \in 1..n
        <5>1. i \in 1..(n + 1) /\ j \in 1..(n + 1)
          BY <3>4
        <5>2. j # i + 1 => i + 1 \in rows /\ i + 1 \in (i + 1)..(j - 1)
          BY <2>1, <3>4, <3>5, <5>1
        <5> QED
          BY <2>1, <3>5, <5>1, <5>2
      <4>2. line[j] = b[i]
        BY <3>2, <4>1
      <4>3. CASE i = 1
        <5>1. b # <<>> /\ b[1] = NextKey(f.tail)
          BY <2>1, <2>4, <2>7, <3>1, <4>1, <4>3 DEF OneRun
        <5> QED
          BY <3>2, <4>2, <4>3, <5>1
      <4>4. CASE i # 1
        <5>1. i \in 2..n /\ i - 1 \in 1..n /\ (i - 1) + 1 = i
          BY <2>1, <4>1, <4>4
        <5> QED
          BY <2>5, <3>2, <3>3, <4>2, <5>1
      <4> QED
        BY <4>3, <4>4
    <3>6. ASSUME NEW i \in rows, \A j \in rows : j <= i
          PROVE  line[i] = last
      <4>1. i = n + 1
        BY <2>1, <3>4, <3>6
      <4>2. CASE n = 0
        <5>1. b = <<>>
          BY <2>1, <4>2 DEF n
        <5> QED
          BY <2>1, <2>7, <3>1, <3>2, <4>1, <4>2, <5>1 DEF OneRun
      <4>3. CASE n # 0
        <5>1. line[i] = b[n] /\ b[n] # Header /\ b # <<>>
          BY <2>4, <3>2, <3>3, <4>1, <4>3
        <5> QED
          BY <2>1, <5>1 DEF OneRun, n
      <4> QED
        BY <4>2, <4>3
    <3> QED
      BY <3>5, <3>6 DEF line, rows, f
  <2> QED
    BY <2>6, <2>7
<1> QED
  BY <1>1, RecInitIInv, RecNextIInv, PTL DEF Spec
=============================================================================
