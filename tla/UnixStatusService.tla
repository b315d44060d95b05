-------------------------- MODULE UnixStatusService --------------------------
(***************************************************************************)
(* The status socket of the core service: UnixStatusService with its       *)
(* accept loop, its client slots and their idle deadlines; UnixStatusClient*)
(* as it queries it; other clients that send little, too much or nothing,  *)
(* do not read, and leave when they like.  The path and the life of the    *)
(* process are StatusSocket's.                                             *)
(*                                                                         *)
(* A request is counted in pieces, an answer in chunks the socket takes at *)
(* a time.                                                                 *)
(***************************************************************************)
EXTENDS Integers, Sequences, FiniteSets

CONSTANTS
  Process,           \* the process that serves
  Polite,            \* clients that run UnixStatusClient::query
  Others,            \* clients that do as they like
  Probes,            \* clients that close at once, as a probe of the path does
  MaximumClients,    \* kMaximumClients, the backlog of listen() as well
  AcceptsPerPoll,    \* kMaximumAcceptsPerPoll
  RequestLimit,      \* kMaximumRequestBytes in pieces
  ResponseChunks,    \* an answer to GET_STATUS
  SocketRoom,        \* chunks a socket holds unread
  IdleTimeout,       \* kClientIdleTimeout in ticks
  ClientDelay,       \* ticks query() may see pass by before it asks or reads
  PassDelay          \* ticks that may pass between two passes of the service

Clients == Polite \cup Others \cup Probes

ASSUME ServiceAssumption ==
  /\ {MaximumClients, AcceptsPerPoll, RequestLimit, ResponseChunks, SocketRoom, IdleTimeout}
       \subseteq Nat \ {0}
  /\ Polite \cap (Others \cup Probes) = {} /\ Others \cap Probes = {}
  /\ {ClientDelay, PassDelay} \subseteq Nat /\ ClientDelay + PassDelay < IdleTimeout

VARIABLES
  path, srv,  \* StatusSocket
  backlog,    \* connections that wait to be accepted
  conn,       \* each client's connection, at both ends
  poll        \* where poll() stands
vars == <<path, srv, backlog, conn, poll>>

Socket == INSTANCE StatusSocket WITH Processes <- {Process}

\* at: where the connection is; gone: the client left and the service has not
\* noticed.  pending, ended, shut: pieces not received yet, line end sent,
\* nothing more comes.  got, left: pieces received, chunks of the answer still
\* to send.  unread, read: chunks in the socket of the client, and read from
\* it.  behind: ticks query() has had something to do.  History: cut, a call of
\* the service failed or the service ended before it was done with this client;
\* stalled, query() or the passes of the service took longer than they may.
Away ==
  [at |-> "away", gone |-> FALSE, pending |-> 0, ended |-> FALSE, shut |-> FALSE,
   got |-> 0, left |-> 0, idle |-> 0, unread |-> 0, read |-> 0, behind |-> 0,
   cut |-> FALSE, stalled |-> FALSE, result |-> "none"]

\* missed: ticks since the last pass read the clock.
Accepting == [pc |-> "accept", accepted |-> 0, todo |-> {}, late |-> {}, missed |-> 0]

Init ==
  /\ Socket!SocketInit
  /\ backlog = <<>>
  /\ conn = [c \in Clients |-> Away]
  /\ poll = Accepting

Up == srv[Process] = "up"
Slots == {c \in Clients : conn[c].at = "slot"}
Connected(c) == conn[c].at \in {"backlog", "slot"} /\ ~conn[c].gone

\* closeClient, or a socket that closes with its process.
Dropped(k, cut) ==
  IF k.gone THEN Away
  ELSE [Away EXCEPT !.at = "closed", !.unread = k.unread, !.read = k.read, !.cut = cut,
                    !.stalled = k.stalled]
-----------------------------------------------------------------------------
(* Clients (external but for UnixStatusClient::query).                     *)

Update(c, k) == conn' = [conn EXCEPT ![c] = k] /\ UNCHANGED <<path, srv, poll>>

\* A probe of the path closes behind its connect().
Connect(c) ==
  /\ conn[c].at = "away" /\ Up
  /\ Update(c, [Away EXCEPT !.at = "backlog", !.gone = c \in Probes])
  /\ backlog' = Append(backlog, c)

\* The request goes out whole and the sending side is shut down behind it.
Asks(c) ==
  /\ c \in Polite /\ Connected(c) /\ ~conn[c].ended
  /\ Update(c, [conn[c] EXCEPT !.ended = TRUE, !.shut = TRUE, !.behind = 0])
  /\ UNCHANGED backlog

\* Any other client sends what it likes, piece by piece, perhaps too much.
Sends(c) ==
  LET k == conn[c] IN
  /\ c \in Others /\ Connected(c) /\ ~k.ended /\ k.left = 0
  /\ \/ k.got + k.pending <= RequestLimit /\ Update(c, [k EXCEPT !.pending = @ + 1])
     \/ Update(c, [k EXCEPT !.ended = TRUE])
  /\ UNCHANGED backlog

Reads(c) ==
  /\ conn[c].unread > 0 /\ ~conn[c].gone
  /\ Update(c, [conn[c] EXCEPT !.unread = @ - 1, !.read = IF c \in Polite THEN @ + 1 ELSE 0,
                                !.behind = 0])
  /\ UNCHANGED backlog

\* recv() returns 0 behind the last chunk: what was read is the answer.
ReadsEnd(c) ==
  /\ conn[c].at = "closed" /\ conn[c].unread = 0
  /\ Update(c, IF c \notin Polite THEN Away
               ELSE [Away EXCEPT !.result = IF conn[c].read > 0 THEN "success" ELSE "failed"])
  /\ UNCHANGED backlog

\* A client leaves; query() does so when one of its waits times out.
Leaves(c) ==
  /\ Connected(c)
  /\ Update(c, [conn[c] EXCEPT !.gone = TRUE, !.unread = 0, !.read = 0])
  /\ UNCHANGED backlog
-----------------------------------------------------------------------------
(* poll().                                                                 *)

FreeSlot == Cardinality(Slots) < MaximumClients

\* One round of acceptPendingClients: without a free slot the connection is
\* closed at once.
PollAccepts ==
  /\ Up /\ poll.pc = "accept" /\ poll.accepted < AcceptsPerPoll /\ backlog # <<>>
  /\ LET c == Head(backlog) IN
     conn' = [conn EXCEPT ![c] = IF FreeSlot THEN [@ EXCEPT !.at = "slot"]
                                             ELSE Dropped(@, FALSE)]
  /\ backlog' = Tail(backlog)
  /\ poll' = [poll EXCEPT !.accepted = @ + 1]
  /\ UNCHANGED <<path, srv>>

\* Fault: only clients that have not asked yet time out.
LateUnlessAnswered == {c \in Slots : conn[c].idle >= IdleTimeout /\ conn[c].left = 0}

Late == {c \in Slots : conn[c].idle >= IdleTimeout}

\* The clock is read once for all clients.
PollServes ==
  /\ Up /\ poll.pc = "accept"
  /\ poll.accepted = AcceptsPerPoll \/ backlog = <<>>
  /\ poll' = [poll EXCEPT !.pc = "serve", !.todo = Slots, !.late = Late, !.missed = 0]
  /\ UNCHANGED <<path, srv, backlog, conn>>

\* Fault: the end of the input is noticed before the request in front of it.
EndFirst(k) ==
  CASE k.shut \/ k.gone -> {}
    [] OTHER -> {[k EXCEPT !.got = @ + k.pending, !.pending = 0, !.idle = 0,
                           !.left = IF k.ended THEN ResponseChunks ELSE 0]}

\* recv() and what is made of it: nothing if the client is to be closed, else
\* what it is with the answer it now has coming, if any.
Received(k) ==
  LET got == k.got + k.pending
      taken == [k EXCEPT !.got = got, !.pending = 0, !.idle = 0] IN
  CASE k.pending = 0 /\ ~k.ended /\ (k.shut \/ k.gone) -> {}
    [] k.pending = 0 /\ ~k.ended /\ ~k.shut /\ ~k.gone -> {k}
    [] OTHER -> {[taken EXCEPT !.left = CASE got > RequestLimit -> 1
                                          [] k.ended /\ got <= RequestLimit -> ResponseChunks
                                          [] OTHER -> 0]}

\* Fault: sending does not renew the deadline.
SentUnrenewed(k) ==
  LET n == IF k.left < SocketRoom - k.unread THEN k.left ELSE SocketRoom - k.unread
      sent == [k EXCEPT !.left = @ - n, !.unread = @ + n] IN
  CASE k.gone -> Dropped(k, FALSE)
    [] ~k.gone /\ n = 0 -> k
    [] OTHER -> IF sent.left = 0 THEN Dropped(sent, FALSE) ELSE sent

\* send() as much as the socket takes; the client is closed behind the last.
Sent(k) ==
  LET n == IF k.left < SocketRoom - k.unread THEN k.left ELSE SocketRoom - k.unread
      sent == [k EXCEPT !.left = @ - n, !.unread = @ + n, !.idle = 0] IN
  CASE k.gone -> Dropped(k, FALSE)
    [] ~k.gone /\ n = 0 -> k
    [] OTHER -> IF sent.left = 0 THEN Dropped(sent, FALSE) ELSE sent

\* serviceClient for a client in time.  recv() or send() may fail, with the
\* client still there: it is closed as it is.
Serviced(k) ==
  LET received == IF k.left > 0 THEN {k} ELSE Received(k) IN
  {Dropped(k, TRUE)} \cup
  IF received = {} THEN {Dropped(k, FALSE)}
  ELSE {IF r.left > 0 THEN Sent(r) ELSE r : r \in received}

\* One client of this pass, behind its deadline or not.
Serve(c) ==
  /\ Up /\ poll.pc = "serve" /\ c \in poll.todo
  /\ \E k \in IF c \in poll.late THEN {Dropped(conn[c], FALSE)} ELSE Serviced(conn[c]) :
       conn' = [conn EXCEPT ![c] = k]
  /\ poll' = [poll EXCEPT !.todo = @ \ {c}]
  /\ UNCHANGED <<path, srv, backlog>>

PollEnds ==
  /\ Up /\ poll.pc = "serve" /\ poll.todo = {}
  /\ poll' = [Accepting EXCEPT !.missed = poll.missed]
  /\ UNCHANGED <<path, srv, backlog, conn>>
-----------------------------------------------------------------------------
(* Time, start, stop and crash.                                            *)

\* query() has to ask, or to read.
Owes(c) == c \in Polite /\ ~conn[c].gone /\ (~conn[c].ended \/ conn[c].unread > 0)

\* A tick passes for a client in a slot; away: the last pass is too long ago.
Aged(c, away) ==
  LET k == conn[c] IN
  [k EXCEPT !.idle = IF @ < IdleTimeout THEN @ + 1 ELSE @,
            !.behind = IF Owes(c) /\ @ < ClientDelay THEN @ + 1 ELSE @,
            !.stalled = @ \/ (c \in Polite /\ away) \/ (Owes(c) /\ k.behind = ClientDelay)]

\* Anybody may be slow, the service in the middle of a pass as well.
Tick ==
  /\ Up
  /\ conn' = [c \in Clients |->
       IF c \in Slots THEN Aged(c, poll.missed = PassDelay) ELSE conn[c]]
  /\ poll' = [poll EXCEPT !.missed = IF @ < PassDelay THEN @ + 1 ELSE @]
  /\ UNCHANGED <<path, srv, backlog>>

DropAll ==
  /\ conn' = [c \in Clients |->
       IF conn[c].at \in {"backlog", "slot"} THEN Dropped(conn[c], TRUE) ELSE conn[c]]
  /\ backlog' = <<>>
  /\ poll' = Accepting

\* The Runtime stops the service, behind a poll or because accept() failed.
Stop == Socket!Close(Process) /\ poll.pc = "accept" /\ DropAll

Crash == Socket!Crash(Process) /\ DropAll

PathStep == Socket!SocketStep(Process) /\ UNCHANGED <<backlog, conn, poll>>
-----------------------------------------------------------------------------
Service == PollAccepts \/ PollServes \/ (\E c \in Clients : Serve(c)) \/ PollEnds

PoliteStep(c) == c \in Polite /\ (Asks(c) \/ Reads(c) \/ ReadsEnd(c))

Next ==
  \/ Service \/ Tick \/ Stop \/ Crash \/ PathStep
  \/ \E c \in Clients :
       Connect(c) \/ Asks(c) \/ Sends(c) \/ Reads(c) \/ ReadsEnd(c) \/ Leaves(c)

\* The Runtime polls its services for ever, time passes, and query() does not
\* stop on its way.  No other client owes anything.
Spec ==
  /\ Init /\ [][Next]_vars
  /\ WF_vars(Service) /\ WF_vars(Tick)
  /\ \A c \in Polite : WF_vars(PoliteStep(c))
-----------------------------------------------------------------------------
(* Properties. *)

TypeOK ==
  /\ Socket!SocketTypeOK
  /\ Cardinality(Slots) <= MaximumClients
  /\ poll.todo \subseteq Slots
  /\ \A c \in Clients : conn[c].idle \in 0..IdleTimeout /\ conn[c].unread \in 0..SocketRoom

\* What query() reports as success is a whole answer, although it cannot tell
\* it from a part: the deadline, renewed by every send(), cuts none short while
\* client and service keep to their delays; else it takes a call that fails or
\* the end of the service.
AnswersAreWhole ==
  [][ \A c \in Polite :
        conn[c].result # "success" /\ conn'[c].result = "success" =>
          conn[c].read = ResponseChunks \/ conn[c].cut \/ conn[c].stalled ]_vars

\* No client keeps its slot, however slowly it sends, whether it reads or not.
SlotsAreFreed == \A c \in Polite \cup Others : conn[c].at = "slot" ~> conn[c].at # "slot"

\* A client in a slot that asks and reads in time gets its answer, whatever the
\* others do, unless it gives up, a call of the service fails or it ends, or its
\* passes take too long.
PoliteAnswered ==
  \A c \in Polite :
    conn[c].at = "slot" ~>
      \/ conn[c].result = "success" \/ conn[c].gone
      \/ conn[c].cut \/ conn[c].stalled \/ ~Up

\* Only a file at the path refuses a start: no stop, crash or failed start
\* leaves a socket there that does.
RestartNotRefused ==
  [][ srv[Process] # "refused" /\ srv'[Process] = "refused" => path = "file" ]_vars
=============================================================================
