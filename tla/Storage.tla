------------------------------ MODULE Storage ------------------------------
(***************************************************************************)
(* External: the file system the core service writes its files to.         *)
(***************************************************************************)
VARIABLE faulty   \* operations on files may fail, and the process may die

\* From now on neither happens any more.
FaultsEnd == faulty /\ faulty' = FALSE
=============================================================================
