---------------------------- MODULE StatusSocket ----------------------------
(***************************************************************************)
(* The life of a process of the core service on its status socket path:    *)
(* start() of UnixStatusService with removeStaleSocket, stop(), and a      *)
(* crash, one system call a step.                                          *)
(***************************************************************************)
CONSTANT Processes

VARIABLES
  path,  \* external: what is at the socket path
  srv    \* where each process stands

\* A path holds nothing, a file, the socket of a process, or one that nobody
\* has open any more.
Paths == {"none", "file", "stale"} \cup Processes
Places == {"off", "refused", "inspect", "probe", "unlink", "bind", "listen", "up", "closed"}

SocketInit ==
  /\ path \in {"none", "file", "stale"}
  /\ srv = [p \in Processes |-> "off"]

Goto(p, place) == srv' = [srv EXCEPT ![p] = place]
Listening(p) == p \in Processes /\ srv[p] = "up"
-----------------------------------------------------------------------------
StartService(p) ==
  /\ srv[p] \in {"off", "refused"}
  /\ Goto(p, "inspect") /\ UNCHANGED path

\* lstat.
Inspect(p) ==
  /\ srv[p] = "inspect"
  /\ Goto(p, CASE path = "none" -> "bind" [] path = "file" -> "refused" [] OTHER -> "probe")
  /\ UNCHANGED path

\* Fault: a socket is taken for a served one whatever the probe said.
RefusedAnyway == IF path = "none" THEN "bind" ELSE "refused"

\* connect: a socket that does not listen refuses.
Probed ==
  CASE path = "none" -> "bind"
    [] path \in Processes /\ Listening(path) -> "refused"
    [] OTHER -> "unlink"

Probe(p) == srv[p] = "probe" /\ Goto(p, Probed) /\ UNCHANGED path

\* By name: whatever is there now.
Unlink(p) == srv[p] = "unlink" /\ path' = "none" /\ Goto(p, "bind")

Bind(p) ==
  /\ srv[p] = "bind"
  /\ IF path = "none" THEN path' = p /\ Goto(p, "listen")
                      ELSE UNCHANGED path /\ Goto(p, "refused")

\* chmod, by name as well, and listen.
Listen(p) ==
  /\ srv[p] = "listen"
  /\ Goto(p, IF path = "none" THEN "closed" ELSE "up")
  /\ UNCHANGED path

\* What closing a listener leaves at the path.
Left(p) == IF path = p THEN "stale" ELSE path

\* stop() closes the listener first.
Close(p) == srv[p] = "up" /\ Goto(p, "closed") /\ path' = Left(p)

\* Then it removes the path, by name.
UnlinkOwn(p) == srv[p] = "closed" /\ Goto(p, "off") /\ path' = "none"

\* A system call of start() fails; stop() cleans up behind bind.
StartFails(p) ==
  \/ /\ srv[p] \in {"inspect", "probe", "unlink", "bind"}
     /\ Goto(p, "off") /\ UNCHANGED path
  \/ /\ srv[p] = "listen"
     /\ Goto(p, "closed") /\ path' = Left(p)

Crash(p) == srv[p] \notin {"off", "refused"} /\ Goto(p, "off") /\ path' = Left(p)

\* Everything but Close and Crash, which end connections as well.
SocketStep(p) ==
  \/ StartService(p) \/ Inspect(p) \/ Probe(p) \/ Unlink(p) \/ Bind(p) \/ Listen(p)
  \/ UnlinkOwn(p) \/ StartFails(p)

SocketTypeOK == path \in Paths /\ srv \in [Processes -> Places]
=============================================================================
