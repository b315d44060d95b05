----------------------- MODULE UnixStatusServiceProofs -----------------------
(***************************************************************************)
(* Safety of the status socket for any number of clients of each kind and  *)
(* any limits: slots, answers and restarts.                                *)
(***************************************************************************)
EXTENDS UnixStatusService, FiniteSetTheorems, TLAPS

Idles == 0..IdleTimeout
Unreads == 0..SocketRoom
Delays == 0..ClientDelay

Connections ==
  [at : {"away", "backlog", "slot", "closed"}, gone : BOOLEAN, pending : Nat,
   ended : BOOLEAN, shut : BOOLEAN, got : Nat, left : Nat, idle : Idles,
   unread : Unreads, read : Nat, behind : Delays, cut : BOOLEAN, stalled : BOOLEAN,
   result : {"none", "success", "failed"}]

Polls ==
  [pc : {"accept", "serve"}, accepted : Nat, todo : SUBSET Clients, late : SUBSET Clients,
   missed : 0..PassDelay]

Types ==
  /\ Socket!SocketTypeOK
  /\ conn \in [Clients -> Connections]
  /\ poll \in Polls
  /\ backlog \in Seq(Clients)

\* The backlog holds each client that waits once.
Waiting ==
  /\ \A i \in 1..Len(backlog) : conn[backlog[i]].at = "backlog"
  /\ \A i, j \in 1..Len(backlog) : backlog[i] = backlog[j] => i = j

\* Connections live with the process.
Served == \A c \in Clients : conn[c].at \in {"backlog", "slot"} => Up

SlotsFit ==
  /\ IsFiniteSet(Slots) /\ Cardinality(Slots) <= MaximumClients
  /\ poll.todo \subseteq Slots
  /\ poll.pc = "accept" => poll.todo = {}

\* A start gets to bind() only where the path is free.
PathFree == srv[Process] = "bind" => path = "none"

\* Until it is closed, what a polite client has read, what waits in its socket
\* and what is still to send make up the answer.
Whole(k) ==
  /\ k.pending = 0 /\ k.got = 0 /\ (k.shut <=> k.ended)
  /\ k.gone => k.at \in {"backlog", "slot"} /\ k.unread = 0 /\ k.read = 0
  /\ k.at # "away" => k.result = "none"
  /\ k.at = "backlog" => k.idle = 0 /\ k.left = 0 /\ k.unread = 0 /\ k.read = 0
  /\ k.at = "slot" /\ k.left = 0 => k.unread = 0 /\ k.read = 0
  /\ k.at = "slot" /\ k.left > 0 /\ ~k.gone => k.ended /\ k.read + k.unread + k.left = ResponseChunks
  /\ k.at = "closed" /\ ~k.cut /\ ~k.stalled /\ k.read + k.unread # ResponseChunks => k.read = 0 /\ k.unread = 0

\* The service waits for this client: to ask, or to make room.
Blocked(k) == ~k.ended \/ k.unread = SocketRoom

\* The deadline has moved no further than the client may be behind and, once it
\* is not waited for, the passes may be: no pass finds it met.
InTime(c) ==
  LET k == conn[c] IN
  /\ k.at = "slot" /\ ~k.gone /\ ~k.stalled =>
       /\ Blocked(k) => k.idle <= k.behind
       /\ ~Blocked(k) /\ c \notin poll.todo => k.idle <= ClientDelay + poll.missed
  /\ c \in poll.todo \cap poll.late => k.gone \/ k.stalled

Answers == \A c \in Polite : Whole(conn[c]) /\ InTime(c)

IInv == Types /\ Waiting /\ Served /\ SlotsFit /\ PathFree /\ Answers
-----------------------------------------------------------------------------
(* Single connections.                                                     *)

LEMMA NumbersAre ==
  /\ MaximumClients \in Nat \ {0} /\ AcceptsPerPoll \in Nat \ {0}
  /\ RequestLimit \in Nat \ {0} /\ ResponseChunks \in Nat \ {0}
  /\ SocketRoom \in Nat \ {0} /\ IdleTimeout \in Nat \ {0}
  /\ ClientDelay \in Nat /\ PassDelay \in Nat /\ ClientDelay + PassDelay < IdleTimeout
BY ServiceAssumption

LEMMA ZeroesAre ==
  /\ 0 \in Idles /\ 0 \in Unreads /\ 0 \in Delays /\ 0 \in 0..PassDelay
  /\ Idles \subseteq Nat /\ Unreads \subseteq Nat /\ Delays \subseteq Nat
BY NumbersAre DEF Idles, Unreads, Delays

LEMMA AwayIs == Away \in Connections
BY ZeroesAre DEF Away, Connections

LEMMA DroppedIs ==
  ASSUME NEW k \in Connections, NEW cut \in BOOLEAN
  PROVE  /\ Dropped(k, cut) \in Connections
         /\ k.gone => Dropped(k, cut) = Away
         /\ ~k.gone => /\ Dropped(k, cut).at = "closed"
                       /\ Dropped(k, cut).unread = k.unread
                       /\ Dropped(k, cut).read = k.read
                       /\ Dropped(k, cut).cut = cut
                       /\ Dropped(k, cut).stalled = k.stalled
         /\ Dropped(k, cut).at \in {"away", "closed"}
         /\ ~Dropped(k, cut).gone /\ ~Dropped(k, cut).ended /\ ~Dropped(k, cut).shut
         /\ Dropped(k, cut).pending = 0 /\ Dropped(k, cut).got = 0
         /\ Dropped(k, cut).left = 0 /\ Dropped(k, cut).idle = 0
         /\ Dropped(k, cut).result = "none"
<1>1. CASE k.gone
  BY <1>1, AwayIs DEF Dropped, Away
<1>2. CASE ~k.gone
  <2>1. Dropped(k, cut)
          = [Away EXCEPT !.at = "closed", !.unread = k.unread, !.read = k.read, !.cut = cut,
                         !.stalled = k.stalled]
    BY <1>2 DEF Dropped
  <2>2. k.unread \in Unreads /\ k.read \in Nat /\ k.stalled \in BOOLEAN
    BY DEF Connections
  <2> DEFINE unread == k.unread
             read == k.read
             stalled == k.stalled
             d == [at |-> "closed", gone |-> FALSE, pending |-> 0, ended |-> FALSE,
                   shut |-> FALSE, got |-> 0, left |-> 0, idle |-> 0, unread |-> unread,
                   read |-> read, behind |-> 0, cut |-> cut, stalled |-> stalled,
                   result |-> "none"]
  <2>3. Dropped(k, cut) = d
    BY <2>1 DEF Away
  <2> HIDE DEF unread, read, stalled
  <2>4. d \in Connections
    BY <2>2, ZeroesAre DEF Connections, unread, read, stalled
  <2> QED
    BY <1>2, <2>3, <2>4 DEF unread, read, stalled
<1> QED
  BY <1>1, <1>2

\* A polite client whose connection is closed with all of its answer in the
\* socket or read, with none of it, by a call that fails or the end of the
\* service, or when a delay was too long.
LEMMA DroppedWhole ==
  ASSUME NEW k \in Connections, NEW cut \in BOOLEAN,
         \/ k.gone \/ cut \/ k.stalled
         \/ k.read + k.unread = ResponseChunks \/ (k.read = 0 /\ k.unread = 0)
  PROVE  Whole(Dropped(k, cut))
<1> DEFINE d == Dropped(k, cut)
<1>1. /\ d.at \in {"away", "closed"} /\ ~d.gone /\ ~d.ended /\ ~d.shut
      /\ d.pending = 0 /\ d.got = 0 /\ d.left = 0
  BY DroppedIs
<1>2. CASE k.gone
  <2>1. d = Away
    BY <1>2, DroppedIs
  <2> QED
    BY <2>1 DEF Whole, Away
<1>3. CASE ~k.gone
  <2>1. /\ d.at = "closed" /\ d.unread = k.unread /\ d.read = k.read /\ d.cut = cut
        /\ d.stalled = k.stalled /\ d.result = "none"
    BY <1>3, DroppedIs
  <2> HIDE DEF d
  <2> DEFINE all == k.read + k.unread = ResponseChunks
             none == k.read = 0 /\ k.unread = 0
  <2>2. all <=> d.read + d.unread = ResponseChunks
    BY <2>1
  <2>3. none <=> d.read = 0 /\ d.unread = 0
    BY <2>1
  <2>4. cut \/ k.stalled \/ all \/ none
    BY <1>3
  <2> HIDE DEF all, none
  <2>5. Whole(d)
    BY <1>1, <2>1, <2>2, <2>3, <2>4 DEF Whole
  <2> QED
    BY <2>5 DEF d
<1> QED
  BY <1>2, <1>3
-----------------------------------------------------------------------------
(* The clients.                                                            *)

\* A client that asks or reads is not waited for if it was, and is not behind
\* any more; else nothing changes for its deadline.
StillInTime(old, k) ==
  /\ k.idle = old.idle /\ k.stalled = old.stalled
  /\ Blocked(k) => Blocked(old) /\ k.behind = old.behind

\* A step of one client: its place stays, and the service has not yet noticed.
LEMMA ClientStep ==
  ASSUME IInv, NEW c \in Clients, NEW k \in Connections,
         Update(c, k), UNCHANGED backlog,
         k.at = conn[c].at \/ (k.at = "away" /\ conn[c].at = "closed"),
         c \in Polite =>
           /\ Whole(k)
           /\ conn[c].gone => k.gone
           /\ k.at = "slot" /\ ~k.gone => StillInTime(conn[c], k)
  PROVE  IInv'
<1>1. /\ conn' \in [Clients -> Connections] /\ conn'[c] = k
      /\ \A d \in Clients : d # c => conn'[d] = conn[d]
      /\ conn \in [Clients -> Connections]
      /\ UNCHANGED <<path, srv, poll, backlog>>
  BY DEF Update, IInv, Types
<1>2. Types'
  BY <1>1 DEF IInv, Types, Socket!SocketTypeOK, Socket!Paths, Socket!Places
<1>3. \A d \in Clients : conn'[d].at \in {"slot", "backlog"} \/ conn[d].at \in {"slot", "backlog"}
                           => conn'[d].at = conn[d].at
  BY <1>1
<1>4. Slots' = Slots
  BY <1>3 DEF Slots
<1>5. Waiting'
  <2>1. \A i \in 1..Len(backlog) : backlog[i] \in Clients
    BY DEF IInv, Types
  <2> QED
    BY <1>1, <1>3, <2>1 DEF IInv, Waiting
<1>6. Served'
  BY <1>1, <1>3 DEF IInv, Served, Up
<1>7. SlotsFit' /\ PathFree'
  BY <1>1, <1>4 DEF IInv, SlotsFit, PathFree
<1>8. Answers'
  <2> SUFFICES ASSUME NEW d \in Polite PROVE Whole(conn'[d]) /\ InTime(d)'
    BY DEF Answers
  <2>0. d \in Clients /\ Whole(conn[d]) /\ InTime(d)
    BY DEF Clients, IInv, Answers
  <2>1. CASE d # c
    BY <1>1, <2>0, <2>1 DEF InTime
  <2>2. CASE d = c
    <3>1. Whole(k) /\ (conn[c].gone => k.gone) /\ (k.at = "slot" => conn[c].at = "slot")
      BY <2>2
    <3>2. /\ c \in poll.todo \cap poll.late => conn[c].gone \/ conn[c].stalled
          /\ c \in poll.todo => conn[c].at = "slot"
      BY <2>0, <2>2 DEF InTime, IInv, SlotsFit, Slots
    <3>3. CASE k.at = "slot" /\ ~k.gone
      <4>1. StillInTime(conn[c], k) /\ conn[c].at = "slot" /\ ~conn[c].gone
        BY <2>2, <3>1, <3>3
      <4>2. conn[c].behind <= ClientDelay /\ conn[c].behind \in Nat /\ conn[c].idle \in Nat
            /\ poll.missed \in Nat /\ ClientDelay \in Nat
        <5>1. conn[c].behind \in Delays /\ conn[c].idle \in Idles /\ poll.missed \in 0..PassDelay
          BY DEF IInv, Types, Connections, Polls
        <5> QED
          BY <5>1, NumbersAre DEF Delays, Idles
      <4>3. ~k.stalled => /\ Blocked(k) => k.idle <= k.behind
                          /\ ~Blocked(k) /\ c \notin poll.todo =>
                               k.idle <= ClientDelay + poll.missed
        BY <2>0, <2>2, <4>1, <4>2 DEF InTime, StillInTime
      <4>4. k.stalled = conn[c].stalled
        BY <4>1 DEF StillInTime
      <4> QED
        BY <1>1, <2>2, <3>1, <3>2, <4>1, <4>3, <4>4 DEF InTime
    <3>4. CASE ~(k.at = "slot" /\ ~k.gone)
      <4>1. c \in poll.todo => k.gone
        <5>1. c \in poll.todo => k.at = conn[c].at
          BY <3>2
        <5> QED
          BY <3>2, <3>4, <5>1
      <4> QED
        BY <1>1, <2>2, <3>1, <3>4, <4>1 DEF InTime
    <3> QED
      BY <3>3, <3>4
  <2> QED
    BY <2>1, <2>2
<1> QED
  BY <1>2, <1>5, <1>6, <1>7, <1>8 DEF IInv

LEMMA AsksStep ==
  ASSUME IInv, NEW c \in Clients, Asks(c)
  PROVE  IInv'
<1> DEFINE old == conn[c]
           k == [old EXCEPT !.ended = TRUE, !.shut = TRUE, !.behind = 0]
<1>1. old \in Connections /\ c \in Polite /\ Whole(old) /\ Update(c, k) /\ UNCHANGED backlog
      /\ Connected(c)
  BY DEF IInv, Types, Asks, Answers
<1> HIDE DEF old
<1>2. /\ k \in Connections /\ k.at = old.at /\ k.gone = old.gone /\ k.pending = old.pending
      /\ k.got = old.got /\ k.left = old.left /\ k.idle = old.idle /\ k.unread = old.unread
      /\ k.read = old.read /\ k.cut = old.cut /\ k.stalled = old.stalled
      /\ k.result = old.result /\ k.ended /\ k.shut
  BY <1>1, ZeroesAre DEF Connections
<1>3. Whole(k)
  BY <1>1, <1>2 DEF Whole
<1>4. k.at = "slot" => StillInTime(old, k)
  <2> SUFFICES ASSUME k.at = "slot" PROVE StillInTime(old, k)
    OBVIOUS
  <2>1. ~old.ended
    BY DEF Asks, old
  <2>2. old.unread = 0
    BY <1>1, <1>2, <2>1, NumbersAre, ZeroesAre DEF Whole, Connections, Connected, old
  <2>3. ~Blocked(k)
    BY <1>2, <2>2, NumbersAre DEF Blocked
  <2> QED
    BY <1>2, <2>3 DEF StillInTime
<1> HIDE DEF k
<1> QED
  BY <1>1, <1>2, <1>3, <1>4, ClientStep DEF old

LEMMA SendsStep ==
  ASSUME IInv, NEW c \in Clients, Sends(c)
  PROVE  IInv'
<1> DEFINE old == conn[c]
<1>1. old \in Connections /\ c \notin Polite /\ UNCHANGED backlog
  BY ServiceAssumption DEF IInv, Types, Sends
<1>2. PICK pending \in Nat, ended \in BOOLEAN :
        Update(c, [old EXCEPT !.pending = pending, !.ended = ended])
  <2>1. CASE Update(c, [old EXCEPT !.pending = @ + 1])
    <3>1. old.pending + 1 \in Nat /\ old.ended \in BOOLEAN
      BY <1>1 DEF Connections
    <3>2. [old EXCEPT !.pending = @ + 1]
            = [old EXCEPT !.pending = old.pending + 1, !.ended = old.ended]
      BY <1>1 DEF Connections
    <3> QED
      BY <2>1, <3>1, <3>2
  <2>2. CASE Update(c, [old EXCEPT !.ended = TRUE])
    <3>1. old.pending \in Nat
      BY <1>1 DEF Connections
    <3>2. [old EXCEPT !.ended = TRUE] = [old EXCEPT !.pending = old.pending, !.ended = TRUE]
      BY <1>1 DEF Connections
    <3> QED
      BY <2>2, <3>1, <3>2
  <2> QED
    BY <2>1, <2>2 DEF Sends
<1> DEFINE k == [old EXCEPT !.pending = pending, !.ended = ended]
<1>3. k \in Connections /\ k.at = old.at
  BY <1>1 DEF Connections
<1> QED
  BY <1>1, <1>2, <1>3, ClientStep

LEMMA ReadsStep ==
  ASSUME IInv, NEW c \in Clients, Reads(c)
  PROVE  IInv'
<1> DEFINE old == conn[c]
           read == IF c \in Polite THEN old.read + 1 ELSE 0
           unread == old.unread - 1
           k == [old EXCEPT !.unread = unread, !.read = read, !.behind = 0]
<1>1. old \in Connections /\ Update(c, k) /\ UNCHANGED backlog /\ old.unread > 0 /\ ~old.gone
  BY DEF IInv, Types, Reads
<1>2. c \in Polite => Whole(old)
  BY DEF IInv, Answers
<1> HIDE DEF old
<1>3. old.read \in Nat /\ old.unread \in Unreads /\ old.left \in Nat
  BY <1>1 DEF Connections
<1>4. read \in Nat /\ unread \in Unreads /\ unread # SocketRoom
  BY <1>1, <1>3, NumbersAre DEF Unreads
<1>5. c \in Polite => read + unread = old.read + old.unread
  <2>1. old.unread \in Int
    BY <1>3, NumbersAre DEF Unreads
  <2>2. c \in Polite => read = old.read + 1
    OBVIOUS
  <2> QED
    BY <1>3, <2>1, <2>2
<1> HIDE DEF read, unread
<1>6. /\ k \in Connections /\ k.at = old.at /\ k.gone = old.gone /\ k.pending = old.pending
      /\ k.got = old.got /\ k.left = old.left /\ k.idle = old.idle /\ k.unread = unread
      /\ k.read = read /\ k.cut = old.cut /\ k.stalled = old.stalled
      /\ k.result = old.result /\ k.ended = old.ended /\ k.shut = old.shut
  BY <1>1, <1>4, ZeroesAre DEF Connections
<1>7. c \in Polite => Whole(k)
  <2> SUFFICES ASSUME c \in Polite PROVE Whole(k)
    OBVIOUS
  <2>1. old.unread # 0
    BY <1>1, <1>3, ZeroesAre
  <2>2. k.read + k.unread = old.read + old.unread
        /\ k.read + k.unread + k.left = old.read + old.unread + old.left
    BY <1>5, <1>6
  <2> HIDE DEF k
  <2> QED
    BY <1>1, <1>2, <1>6, <2>1, <2>2 DEF Whole
<1>8. c \in Polite /\ k.at = "slot" => StillInTime(old, k)
  <2> SUFFICES ASSUME c \in Polite, k.at = "slot" PROVE StillInTime(old, k)
    OBVIOUS
  <2>1. old.unread # 0 /\ old.at = "slot"
    BY <1>1, <1>3, <1>6, ZeroesAre
  <2>2. old.ended
    BY <1>1, <1>2, <1>3, <2>1 DEF Whole
  <2>3. ~Blocked(k)
    BY <1>4, <1>6, <2>2 DEF Blocked
  <2> QED
    BY <1>6, <2>3 DEF StillInTime
<1> HIDE DEF k
<1> QED
  BY <1>1, <1>6, <1>7, <1>8, ClientStep DEF old

LEMMA ReadsEndStep ==
  ASSUME IInv, NEW c \in Clients, ReadsEnd(c)
  PROVE  IInv'
<1> DEFINE old == conn[c]
           result == IF old.read > 0 THEN "success" ELSE "failed"
           k == IF c \notin Polite THEN Away
                ELSE [Away EXCEPT !.result = result]
<1>1. /\ old \in Connections /\ Update(c, k) /\ UNCHANGED backlog
      /\ old.at = "closed" /\ old.unread = 0
  BY DEF IInv, Types, ReadsEnd
<1>2. c \in Polite => Whole(old)
  BY DEF IInv, Answers
<1> HIDE DEF old
<1>3. result \in {"none", "success", "failed"}
  OBVIOUS
<1> HIDE DEF result
<1>4. k \in Connections /\ k.at = "away" /\ ~k.gone /\ k.unread = 0
  BY <1>3, AwayIs DEF Away, Connections
<1>5. CASE c \in Polite
  <2>1. Whole(k)
    <3>1. /\ k.at = "away" /\ ~k.gone /\ k.unread = 0 /\ k.pending = 0 /\ k.got = 0 /\ ~k.shut
          /\ ~k.ended
      BY <1>3, <1>5, AwayIs DEF Away, Connections
    <3> HIDE DEF k
    <3> QED
      BY <3>1 DEF Whole
  <2>2. ~old.gone
    BY <1>1, <1>2, <1>5 DEF Whole
  <2> HIDE DEF k
  <2> QED
    BY <1>1, <1>4, <1>5, <2>1, <2>2, ClientStep DEF old
<1>6. CASE c \notin Polite
  <2> HIDE DEF k
  <2> QED
    BY <1>1, <1>4, <1>6, ClientStep DEF old
<1> QED
  BY <1>5, <1>6

LEMMA LeavesStep ==
  ASSUME IInv, NEW c \in Clients, Leaves(c)
  PROVE  IInv'
<1> DEFINE old == conn[c]
           k == [old EXCEPT !.gone = TRUE, !.unread = 0, !.read = 0]
<1>1. old \in Connections /\ Update(c, k) /\ UNCHANGED backlog /\ Connected(c)
  BY DEF IInv, Types, Leaves
<1>2. c \in Polite => Whole(old)
  BY DEF IInv, Answers
<1>3. old.at \in {"backlog", "slot"}
  BY <1>1 DEF Connected
<1> HIDE DEF old
<1>4. /\ k \in Connections /\ k.at = old.at /\ k.gone /\ k.pending = old.pending
      /\ k.got = old.got /\ k.left = old.left /\ k.idle = old.idle /\ k.unread = 0
      /\ k.read = 0 /\ k.cut = old.cut /\ k.stalled = old.stalled /\ k.result = old.result
      /\ k.ended = old.ended /\ k.shut = old.shut
  BY <1>1, ZeroesAre DEF Connections
<1> HIDE DEF k
<1>5. c \in Polite => Whole(k)
  BY <1>2, <1>3, <1>4 DEF Whole
<1> QED
  BY <1>1, <1>4, <1>5, ClientStep DEF old

LEMMA ConnectStep ==
  ASSUME IInv, NEW c \in Clients, Connect(c)
  PROVE  IInv'
<1> DEFINE gone == c \in Probes
           k == [Away EXCEPT !.at = "backlog", !.gone = gone]
<1>1. /\ conn[c].at = "away" /\ Up /\ conn' = [conn EXCEPT ![c] = k]
      /\ UNCHANGED <<path, srv, poll>> /\ backlog' = Append(backlog, c)
      /\ conn \in [Clients -> Connections] /\ backlog \in Seq(Clients)
  BY DEF Connect, Update, IInv, Types
<1>0. gone \in BOOLEAN
  OBVIOUS
<1> HIDE DEF gone
<1>2. /\ k \in Connections /\ k.at = "backlog" /\ Whole(k)
  <2>1. /\ k \in Connections /\ k.at = "backlog" /\ k.pending = 0 /\ k.got = 0
        /\ ~k.ended /\ ~k.shut /\ k.left = 0 /\ k.idle = 0 /\ k.unread = 0 /\ k.read = 0
        /\ k.result = "none"
    BY <1>0, AwayIs DEF Away, Connections
  <2> HIDE DEF k
  <2> QED
    BY <2>1 DEF Whole
<1> HIDE DEF k
<1>3. /\ conn' \in [Clients -> Connections] /\ conn'[c] = k
      /\ \A d \in Clients : d # c => conn'[d] = conn[d]
  BY <1>1, <1>2
<1>4. Types'
  BY <1>1, <1>3 DEF IInv, Types, Socket!SocketTypeOK, Socket!Paths, Socket!Places
<1>5. Slots' = Slots
  BY <1>1, <1>2, <1>3 DEF Slots
<1>6. Waiting'
  <2>1. /\ \A i \in 1..Len(backlog) : backlog[i] \in Clients /\ backlog[i] # c
                                      /\ backlog'[i] = backlog[i]
        /\ Len(backlog') = Len(backlog) + 1 /\ backlog'[Len(backlog')] = c
        /\ Len(backlog) \in Nat
    BY <1>1 DEF IInv, Waiting
  <2> QED
    BY <1>2, <1>3, <2>1 DEF IInv, Waiting
<1>7. Served' /\ SlotsFit' /\ PathFree'
  BY <1>1, <1>3, <1>5 DEF IInv, Served, SlotsFit, PathFree, Up
<1>8. Answers'
  <2>1. c \notin poll.todo
    BY <1>1 DEF IInv, SlotsFit, Slots
  <2> SUFFICES ASSUME NEW d \in Polite PROVE Whole(conn'[d]) /\ InTime(d)'
    BY DEF Answers
  <2>2. d \in Clients /\ Whole(conn[d]) /\ InTime(d)
    BY DEF Clients, IInv, Answers
  <2> QED
    BY <1>1, <1>2, <1>3, <2>1, <2>2 DEF InTime
<1> QED
  BY <1>4, <1>6, <1>7, <1>8 DEF IInv
-----------------------------------------------------------------------------
(* The service.                                                            *)

\* A deadline just renewed is in time.
LEMMA Renewed ==
  ASSUME NEW k \in Connections, NEW missed \in 0..PassDelay, k.idle = 0
  PROVE  k.idle <= k.behind /\ k.idle <= ClientDelay + missed
<1>1. k.behind \in Delays
  BY DEF Connections
<1> QED
  BY <1>1, NumbersAre DEF Delays

LEMMA AcceptsStep ==
  ASSUME IInv, PollAccepts
  PROVE  IInv'
<1> DEFINE c == Head(backlog)
           old == conn[c]
           k == IF FreeSlot THEN [old EXCEPT !.at = "slot"] ELSE Dropped(old, FALSE)
<1>1. /\ Up /\ poll.pc = "accept" /\ backlog # <<>> /\ backlog \in Seq(Clients)
      /\ poll \in Polls /\ conn \in [Clients -> Connections]
      /\ conn' = [conn EXCEPT ![c] = k] /\ backlog' = Tail(backlog)
      /\ poll' = [poll EXCEPT !.accepted = @ + 1] /\ UNCHANGED <<path, srv>>
  BY DEF PollAccepts, IInv, Types
<1>2. c \in Clients /\ old \in Connections /\ old.at = "backlog"
  BY <1>1, SMTT(30) DEF IInv, Waiting
<1>3. /\ \A i \in 1..Len(backlog') : /\ backlog'[i] = backlog[i + 1]
                                     /\ i + 1 \in 1..Len(backlog)
                                     /\ backlog'[i] \in Clients /\ backlog'[i] # c
      /\ backlog' \in Seq(Clients)
  <2>1. /\ Len(backlog) \in Nat \ {0} /\ backlog[1] = c /\ backlog' \in Seq(Clients)
        /\ Len(backlog') = Len(backlog) - 1
        /\ \A i \in 1..Len(backlog') : backlog'[i] = backlog[i + 1]
    BY <1>1
  <2> HIDE DEF c
  <2> SUFFICES ASSUME NEW i \in 1..Len(backlog')
               PROVE  /\ i + 1 \in 1..Len(backlog) /\ backlog[i + 1] \in Clients
                      /\ backlog[i + 1] # c
    BY <2>1
  <2>2. i + 1 \in 1..Len(backlog) /\ i + 1 # 1 /\ 1 \in 1..Len(backlog)
    BY <2>1
  <2> QED
    BY <1>1, <2>1, <2>2 DEF IInv, Waiting
<1>4. /\ poll' \in Polls /\ poll'.pc = poll.pc /\ poll'.todo = poll.todo
      /\ poll'.late = poll.late /\ poll'.missed = poll.missed
  <2>1. poll.accepted + 1 \in Nat
    BY <1>1 DEF Polls
  <2> DEFINE n == poll.accepted + 1
  <2>2. n \in Nat /\ poll' = [poll EXCEPT !.accepted = n]
    BY <1>1, <2>1
  <2> HIDE DEF n
  <2> QED
    BY <1>1, <2>2 DEF Polls
<1> HIDE DEF c
<1>5. c \in Polite => Whole(old)
  BY DEF IInv, Answers
<1>6. CASE FreeSlot
  <2>1. k = [old EXCEPT !.at = "slot"]
    BY <1>6
  <2> HIDE DEF old, k
  <2>2. /\ k \in Connections /\ k.at = "slot" /\ k.gone = old.gone /\ k.pending = old.pending
        /\ k.got = old.got /\ k.left = old.left /\ k.idle = old.idle /\ k.unread = old.unread
        /\ k.read = old.read /\ k.cut = old.cut /\ k.stalled = old.stalled
        /\ k.result = old.result /\ k.ended = old.ended /\ k.shut = old.shut
    BY <1>2, <2>1 DEF Connections
  <2>3. c \in Polite => /\ Whole(k)
                       /\ k.idle <= k.behind /\ k.idle <= ClientDelay + poll.missed
    <3> SUFFICES ASSUME c \in Polite
                 PROVE  /\ Whole(k)
                        /\ k.idle <= k.behind /\ k.idle <= ClientDelay + poll.missed
      OBVIOUS
    <3>1. Whole(k) /\ k.idle = 0
      BY <1>2, <1>5, <2>2 DEF Whole
    <3>2. poll.missed \in 0..PassDelay
      BY <1>1 DEF Polls
    <3> QED
      BY <2>2, <3>1, <3>2, Renewed
  <2>4. /\ conn' \in [Clients -> Connections] /\ conn'[c] = k
        /\ \A d \in Clients : d # c => conn'[d] = conn[d]
    BY <1>1, <1>2, <2>2
  <2>5. Types'
    BY <1>1, <1>3, <1>4, <2>4
    DEF IInv, Types, Socket!SocketTypeOK, Socket!Paths, Socket!Places
  <2>6. Slots' = Slots \cup {c} /\ c \notin Slots
    BY <1>2, <2>2, <2>4 DEF Slots, old
  <2>7. Waiting'
    <3>1. \A i \in 1..Len(backlog') : conn'[backlog'[i]].at = "backlog"
      BY <1>3, <2>4 DEF IInv, Waiting
    <3>2. ASSUME NEW i \in 1..Len(backlog'), NEW j \in 1..Len(backlog'),
                 backlog'[i] = backlog'[j]
          PROVE  i = j
      <4>1. i + 1 = j + 1
        BY <1>3, <3>2 DEF IInv, Waiting
      <4> QED
        BY <4>1
    <3> QED
      BY <3>1, <3>2 DEF Waiting
  <2>8. Served' /\ PathFree'
    BY <1>1, <2>4 DEF IInv, Served, PathFree, Up
  <2>9. SlotsFit'
    <3>1. IsFiniteSet(Slots \cup {c}) /\ Cardinality(Slots \cup {c}) = Cardinality(Slots) + 1
      BY <2>6, FS_AddElement DEF IInv, SlotsFit
    <3>2. Cardinality(Slots) \in Nat /\ Cardinality(Slots) < MaximumClients
      BY <1>6, FS_CardinalityType DEF IInv, SlotsFit, FreeSlot
    <3>3. Cardinality(Slots) + 1 <= MaximumClients
      BY <3>2, NumbersAre
    <3> QED
      BY <1>4, <2>6, <3>1, <3>3 DEF IInv, SlotsFit
  <2>10. Answers'
    <3>1. c \notin poll.todo
      BY <2>6 DEF IInv, SlotsFit
    <3> SUFFICES ASSUME NEW d \in Polite PROVE Whole(conn'[d]) /\ InTime(d)'
      BY DEF Answers
    <3>2. d \in Clients /\ Whole(conn[d]) /\ InTime(d)
      BY DEF Clients, IInv, Answers
    <3> QED
      BY <1>4, <2>2, <2>3, <2>4, <3>1, <3>2 DEF InTime
  <2> QED
    BY <2>5, <2>7, <2>8, <2>9, <2>10 DEF IInv
<1>7. CASE ~FreeSlot
  <2>1. k = Dropped(old, FALSE)
    BY <1>7
  <2> HIDE DEF old, k
  <2>2. k \in Connections /\ k.at \in {"away", "closed"} /\ ~k.gone /\ k.idle = 0
    BY <1>2, <2>1, DroppedIs
  <2>3. c \in Polite => Whole(k)
    <3>1. c \in Polite => old.read = 0 /\ old.unread = 0
      BY <1>2, <1>5 DEF Whole
    <3> QED
      BY <1>2, <2>1, <3>1, DroppedWhole
  <2>4. /\ conn' \in [Clients -> Connections] /\ conn'[c] = k
        /\ \A d \in Clients : d # c => conn'[d] = conn[d]
    BY <1>1, <1>2, <2>2
  <2>5. Types'
    BY <1>1, <1>3, <1>4, <2>4
    DEF IInv, Types, Socket!SocketTypeOK, Socket!Paths, Socket!Places
  <2>6. Slots' = Slots /\ c \notin Slots
    BY <1>2, <2>2, <2>4 DEF Slots, old
  <2>7. Waiting'
    <3>1. \A i \in 1..Len(backlog') : conn'[backlog'[i]].at = "backlog"
      BY <1>3, <2>4 DEF IInv, Waiting
    <3>2. ASSUME NEW i \in 1..Len(backlog'), NEW j \in 1..Len(backlog'),
                 backlog'[i] = backlog'[j]
          PROVE  i = j
      <4>1. i + 1 = j + 1
        BY <1>3, <3>2 DEF IInv, Waiting
      <4> QED
        BY <4>1
    <3> QED
      BY <3>1, <3>2 DEF Waiting
  <2>8. Served' /\ PathFree' /\ SlotsFit'
    BY <1>1, <1>4, <2>2, <2>4, <2>6 DEF IInv, Served, PathFree, SlotsFit, Up
  <2>9. Answers'
    <3>1. c \notin poll.todo
      BY <2>6 DEF IInv, SlotsFit
    <3> SUFFICES ASSUME NEW d \in Polite PROVE Whole(conn'[d]) /\ InTime(d)'
      BY DEF Answers
    <3>2. d \in Clients /\ Whole(conn[d]) /\ InTime(d)
      BY DEF Clients, IInv, Answers
    <3> QED
      BY <1>4, <2>2, <2>3, <2>4, <3>1, <3>2 DEF InTime
  <2> QED
    BY <2>5, <2>7, <2>8, <2>9 DEF IInv
<1> QED
  BY <1>6, <1>7

LEMMA ServesStep ==
  ASSUME IInv, PollServes
  PROVE  IInv'
<1>1. /\ poll \in Polls /\ conn \in [Clients -> Connections]
      /\ UNCHANGED <<path, srv, backlog, conn>>
      /\ poll' = [poll EXCEPT !.pc = "serve", !.todo = Slots, !.late = Late, !.missed = 0]
      /\ Slots \subseteq Clients /\ Late \subseteq Slots
  BY DEF IInv, Types, PollServes, Slots, Late
<1>2. /\ poll' \in Polls /\ poll'.pc = "serve" /\ poll'.todo = Slots /\ poll'.late = Late
      /\ poll'.missed = 0
  BY <1>1, ZeroesAre DEF Polls
<1>3. Types' /\ Waiting' /\ Served' /\ SlotsFit' /\ PathFree'
  BY <1>1, <1>2 DEF IInv, Types, Socket!SocketTypeOK, Socket!Paths, Socket!Places,
    Waiting, Served, SlotsFit, Slots, PathFree, Up
<1>4. Answers'
  <2> SUFFICES ASSUME NEW c \in Polite PROVE Whole(conn'[c]) /\ InTime(c)'
    BY DEF Answers
  <2>1. c \in Clients /\ Whole(conn[c]) /\ InTime(c)
    BY DEF Clients, IInv, Answers
  <2>2. c \in Late => conn[c].gone \/ conn[c].stalled
    <3> SUFFICES ASSUME c \in Late, ~conn[c].gone, ~conn[c].stalled PROVE FALSE
      OBVIOUS
    <3>1. conn[c].at = "slot" /\ conn[c].idle >= IdleTimeout /\ c \notin poll.todo
      BY DEF Late, Slots, PollServes, IInv, SlotsFit
    <3>2. conn[c].idle <= conn[c].behind \/ conn[c].idle <= ClientDelay + poll.missed
      BY <2>1, <3>1 DEF InTime
    <3>3. conn[c].idle \in Idles /\ conn[c].behind \in Delays /\ poll.missed \in 0..PassDelay
      BY <1>1, <2>1 DEF Connections, Polls
    <3> QED
      BY <3>1, <3>2, <3>3, NumbersAre DEF Idles, Delays
  <2>3. conn[c].at = "slot" => c \in Slots
    BY <2>1 DEF Slots
  <2> QED
    BY <1>1, <1>2, <2>1, <2>2, <2>3 DEF InTime
<1> QED
  BY <1>3, <1>4 DEF IInv

LEMMA EndsStep ==
  ASSUME IInv, PollEnds
  PROVE  IInv'
<1>1. /\ UNCHANGED <<path, srv, backlog, conn>> /\ poll.pc = "serve" /\ poll.todo = {}
      /\ poll' = [Accepting EXCEPT !.missed = poll.missed] /\ poll \in Polls
  BY DEF PollEnds, IInv, Types
<1>2. poll' \in Polls /\ poll'.todo = {} /\ poll'.late = {} /\ poll'.missed = poll.missed
  BY <1>1 DEF Accepting, Polls
<1>3. Types' /\ Waiting' /\ Served' /\ SlotsFit' /\ PathFree'
  BY <1>1, <1>2 DEF IInv, Types, Socket!SocketTypeOK, Socket!Paths, Socket!Places,
    Waiting, Served, SlotsFit, Slots, PathFree, Up
<1>4. Answers'
  <2> SUFFICES ASSUME NEW c \in Polite PROVE Whole(conn'[c]) /\ InTime(c)'
    BY DEF Answers
  <2>1. Whole(conn[c]) /\ InTime(c)
    BY DEF IInv, Answers
  <2> QED
    BY <1>1, <1>2, <2>1 DEF InTime
<1> QED
  BY <1>3, <1>4 DEF IInv

\* recv() at its end or with nothing to read, or with something.
LEMMA ReceivedIs ==
  ASSUME NEW k \in Connections
  PROVE  \/ Received(k) = {} /\ k.pending = 0 /\ ~k.ended /\ (k.shut \/ k.gone)
         \/ Received(k) = {k} /\ k.pending = 0 /\ ~k.ended /\ ~k.gone
         \/ \E got \in Nat, left \in Nat :
              /\ Received(k) = {[k EXCEPT !.got = got, !.pending = 0, !.idle = 0, !.left = left]}
              /\ k.got = 0 /\ k.pending = 0 => k.ended /\ got = 0 /\ left = ResponseChunks
<1> DEFINE end == k.pending = 0 /\ ~k.ended /\ (k.shut \/ k.gone)
           none == k.pending = 0 /\ ~k.ended /\ ~k.shut /\ ~k.gone
           got == k.got + k.pending
           left == CASE got > RequestLimit -> 1
                     [] k.ended /\ got <= RequestLimit -> ResponseChunks
                     [] OTHER -> 0
           taken == [k EXCEPT !.got = got, !.pending = 0, !.idle = 0]
           more == [k EXCEPT !.got = got, !.pending = 0, !.idle = 0, !.left = left]
<1>1. k.got \in Nat /\ k.pending \in Nat /\ k.ended \in BOOLEAN /\ k.shut \in BOOLEAN
      /\ k.gone \in BOOLEAN
  BY DEF Connections
<1>2. CASE end
  BY <1>2 DEF Received
<1>3. CASE none
  BY <1>3 DEF Received
<1>4. CASE ~end /\ ~none
  <2>1. got \in Nat
    BY <1>1
  <2>2. left \in Nat
    <3>1. left \in {0, 1, ResponseChunks}
      BY <2>1, NumbersAre
    <3> QED
      BY <3>1, NumbersAre
  <2>3. k.got = 0 /\ k.pending = 0 => k.ended /\ got = 0 /\ left = ResponseChunks
    <3> SUFFICES ASSUME k.got = 0, k.pending = 0
                 PROVE  k.ended /\ got = 0 /\ left = ResponseChunks
      OBVIOUS
    <3>1. k.ended
      BY <1>1, <1>4
    <3>2. got = 0 /\ ~(got > RequestLimit) /\ got <= RequestLimit
      BY NumbersAre
    <3> HIDE DEF got
    <3> QED
      BY <3>1, <3>2
  <2>4. Received(k) = {[taken EXCEPT !.left = left]}
    BY <1>4 DEF Received
  <2> HIDE DEF left, got
  <2>5. [taken EXCEPT !.left = left] = more
    OBVIOUS
  <2> QED
    BY <2>1, <2>2, <2>3, <2>4, <2>5
<1> QED
  BY <1>2, <1>3, <1>4

\* send() moves chunks to the socket; behind the last the client is closed.
LEMMA SentIs ==
  ASSUME NEW k \in Connections, k.left > 0
  PROVE  \/ k.gone /\ Sent(k) = Dropped(k, FALSE)
         \/ ~k.gone /\ k.unread = SocketRoom /\ Sent(k) = k
         \/ \E left \in Nat, unread \in Unreads :
              LET sent == [k EXCEPT !.left = left, !.unread = unread, !.idle = 0] IN
              /\ ~k.gone /\ unread > 0
              /\ k.read + unread + left = k.read + k.unread + k.left
              /\ \/ left = 0 /\ Sent(k) = Dropped(sent, FALSE)
                 \/ left > 0 /\ Sent(k) = sent
<1> DEFINE room == SocketRoom - k.unread
           n == IF k.left < room THEN k.left ELSE room
           left == k.left - n
           unread == k.unread + n
           sent == [k EXCEPT !.left = left, !.unread = unread, !.idle = 0]
<1>1. k.left \in Nat /\ k.unread \in Nat /\ k.unread <= SocketRoom /\ k.gone \in BOOLEAN
      /\ k.read \in Nat /\ SocketRoom \in Nat \ {0}
  BY NumbersAre DEF Connections, Unreads
<1>2. room \in Nat /\ n \in Nat /\ n <= k.left /\ n <= room
      /\ (n = 0 => k.unread = SocketRoom)
  BY <1>1
<1>3. Sent(k) = CASE k.gone -> Dropped(k, FALSE)
                  [] ~k.gone /\ n = 0 -> k
                  [] OTHER -> IF left = 0 THEN Dropped(sent, FALSE) ELSE sent
  <2>1. [k EXCEPT !.left = @ - n, !.unread = @ + n, !.idle = 0] = sent /\ sent.left = left
    BY DEF Connections
  <2> QED
    BY <2>1 DEF Sent
<1>4. CASE k.gone
  <2> HIDE DEF n, left, sent
  <2> QED
    BY <1>3, <1>4
<1>5. CASE ~k.gone /\ n = 0
  <2>1. k.unread = SocketRoom
    BY <1>2, <1>5
  <2> HIDE DEF n, left, sent
  <2> QED
    BY <1>3, <1>5, <2>1
<1>6. CASE ~k.gone /\ n # 0
  <2>1. left \in Nat /\ unread \in Unreads /\ unread > 0
        /\ k.read + unread + left = k.read + k.unread + k.left
    BY <1>1, <1>2, <1>6 DEF Unreads
  <2>2. Sent(k) = IF left = 0 THEN Dropped(sent, FALSE) ELSE sent
    <3> HIDE DEF n, left, sent
    <3> QED
      BY <1>3, <1>6
  <2>3. left = 0 \/ left > 0
    BY <2>1
  <2> HIDE DEF n, left, unread
  <2> QED
    BY <1>6, <2>1, <2>2, <2>3
<1> QED
  BY <1>4, <1>5, <1>6

\* What serving may make of a client in a slot.
ServedAs(k, late) == IF late THEN {Dropped(k, FALSE)} ELSE Serviced(k)

\* It is closed, or its deadline renewed, or it was waited for and still is.
Settled(old, k) == k.at = "slot" => k.idle = 0 \/ (k = old /\ Blocked(old))

LEMMA SentWhole ==
  ASSUME NEW k \in Connections, k.left > 0, k.at = "slot"
  PROVE  /\ Sent(k) \in Connections
         /\ Sent(k).at \in {"slot", "away", "closed"}
         /\ Settled(k, Sent(k)) /\ Sent(k).result \in {"none", k.result}
         /\ Whole(k) => Whole(Sent(k))
<1>1. CASE k.gone /\ Sent(k) = Dropped(k, FALSE)
  <2>1. Whole(Dropped(k, FALSE))
    BY <1>1, DroppedWhole
  <2> DEFINE d == Dropped(k, FALSE)
  <2>2. d \in Connections /\ d.at \in {"away", "closed"} /\ d.result = "none"
    BY DroppedIs
  <2> HIDE DEF d
  <2> QED
    BY <1>1, <2>1, <2>2 DEF d, Settled
<1>2. CASE ~k.gone /\ k.unread = SocketRoom /\ Sent(k) = k
  BY <1>2 DEF Settled, Blocked
<1>3. ASSUME NEW left \in Nat, NEW unread \in Unreads,
             ~k.gone, unread > 0, k.read + unread + left = k.read + k.unread + k.left,
             LET sent == [k EXCEPT !.left = left, !.unread = unread, !.idle = 0]
             IN  \/ left = 0 /\ Sent(k) = Dropped(sent, FALSE)
                 \/ left > 0 /\ Sent(k) = sent
      PROVE  /\ Sent(k) \in Connections
             /\ Sent(k).at \in {"slot", "away", "closed"}
             /\ Settled(k, Sent(k)) /\ Sent(k).result \in {"none", k.result}
             /\ Whole(k) => Whole(Sent(k))
  <2> DEFINE sent == [k EXCEPT !.left = left, !.unread = unread, !.idle = 0]
  <2>1. /\ sent \in Connections /\ sent.at = "slot" /\ ~sent.gone /\ sent.pending = k.pending
        /\ sent.got = k.got /\ sent.left = left /\ sent.idle = 0 /\ sent.unread = unread
        /\ sent.read = k.read /\ sent.cut = k.cut /\ sent.stalled = k.stalled
        /\ sent.result = k.result /\ sent.ended = k.ended /\ sent.shut = k.shut
    BY <1>3, ZeroesAre DEF Connections
  <2>2. \/ left = 0 /\ Sent(k) = Dropped(sent, FALSE)
        \/ left > 0 /\ Sent(k) = sent
    BY <1>3
  <2> HIDE DEF sent
  <2>3. Whole(k) => k.ended /\ k.read + k.unread + k.left = ResponseChunks
    BY <1>3 DEF Whole
  <2>4. CASE left = 0 /\ Sent(k) = Dropped(sent, FALSE)
    <3>1. Whole(k) => sent.read + sent.unread = ResponseChunks
      <4>1. k.read \in Nat /\ unread \in Nat /\ left \in Nat /\ left = 0
        BY <2>4, ZeroesAre DEF Connections
      <4>2. k.read + unread = k.read + unread + left
        BY <4>1
      <4> QED
        BY <1>3, <2>1, <2>3, <4>2
    <3>2. Whole(k) => Whole(Dropped(sent, FALSE))
      BY <2>1, <3>1, DroppedWhole
    <3> DEFINE d == Dropped(sent, FALSE)
    <3>3. d \in Connections /\ d.at \in {"away", "closed"} /\ d.result = "none"
      BY <2>1, DroppedIs
    <3> HIDE DEF d
    <3> QED
      BY <2>4, <3>2, <3>3 DEF d, Settled
  <2>5. CASE left > 0 /\ Sent(k) = sent
    <3>1. Whole(k) => sent.read + sent.unread + sent.left = ResponseChunks
      BY <1>3, <2>1, <2>3
    <3>2. left # 0
      BY <2>5
    <3>3. Whole(k) => Whole(sent)
      BY <2>1, <2>3, <3>1, <3>2 DEF Whole
    <3> QED
      BY <2>1, <2>5, <3>3 DEF Settled
  <2> QED
    BY <2>2, <2>4, <2>5
<1> QED
  BY <1>1, <1>2, <1>3, SentIs

LEMMA ServedIs ==
  ASSUME NEW k \in Connections, NEW late \in BOOLEAN, k.at = "slot",
         NEW s \in ServedAs(k, late)
  PROVE  /\ s \in Connections /\ s.at \in {"slot", "away", "closed"}
         /\ Settled(k, s) /\ s.result \in {"none", k.result}
         /\ Whole(k) /\ (late => k.gone \/ k.stalled) => Whole(s)
<1> DEFINE ok == Whole(k) /\ (late => k.gone \/ k.stalled)
           drop == Dropped(k, FALSE)
<1>1. k.left \in Nat /\ k.unread \in Nat /\ k.gone \in BOOLEAN
  BY ZeroesAre DEF Connections
<1>2. drop \in Connections /\ drop.at \in {"away", "closed"} /\ drop.result = "none"
      /\ (k.gone \/ k.stalled => Whole(drop))
  BY DroppedIs, DroppedWhole
<1>3. CASE s = Dropped(k, TRUE)
  <2>1. s \in Connections /\ s.at \in {"away", "closed"} /\ s.result = "none" /\ Whole(s)
    BY <1>3, DroppedIs, DroppedWhole
  <2> QED
    BY <2>1 DEF Settled
<1>4. CASE late
  <2>1. s = drop
    BY <1>4 DEF ServedAs
  <2> HIDE DEF drop
  <2> QED
    BY <1>2, <1>4, <2>1 DEF Settled
<1>5. CASE ~late /\ k.left > 0 /\ s # Dropped(k, TRUE)
  <2>1. s = Sent(k)
    BY <1>5 DEF ServedAs, Serviced
  <2> QED
    BY <1>5, <2>1, SentWhole
<1>6. CASE /\ ~late /\ ~(k.left > 0) /\ s # Dropped(k, TRUE)
           /\ Received(k) = {} /\ ~k.ended /\ (k.shut \/ k.gone)
  <2>1. s = drop
    BY <1>6 DEF ServedAs, Serviced
  <2>2. ok => k.gone
    BY <1>6 DEF Whole
  <2> HIDE DEF drop
  <2> QED
    BY <1>2, <2>1, <2>2 DEF Settled
<1>7. CASE /\ ~late /\ ~(k.left > 0) /\ s # Dropped(k, TRUE)
           /\ Received(k) = {k} /\ ~k.ended /\ ~k.gone
  <2>1. s = k
    BY <1>7 DEF ServedAs, Serviced
  <2> QED
    BY <1>7, <2>1 DEF Settled, Blocked
<1>8. ASSUME NEW got \in Nat, NEW left \in Nat,
             ~late, ~(k.left > 0), s # Dropped(k, TRUE),
             Received(k) = {[k EXCEPT !.got = got, !.pending = 0, !.idle = 0, !.left = left]},
             k.got = 0 /\ k.pending = 0 => k.ended /\ got = 0 /\ left = ResponseChunks
      PROVE  /\ s \in Connections /\ s.at \in {"slot", "away", "closed"}
             /\ (s.at = "slot" => s.idle = 0) /\ s.result \in {"none", k.result}
             /\ ok => Whole(s)
  <2> DEFINE r == [k EXCEPT !.got = got, !.pending = 0, !.idle = 0, !.left = left]
  <2>1. /\ r \in Connections /\ r.at = "slot" /\ r.gone = k.gone /\ r.pending = 0
        /\ r.got = got /\ r.left = left /\ r.idle = 0 /\ r.unread = k.unread
        /\ r.read = k.read /\ r.cut = k.cut /\ r.stalled = k.stalled
        /\ r.result = k.result /\ r.ended = k.ended /\ r.shut = k.shut
    BY ZeroesAre DEF Connections
  <2>2. Received(k) = {r}
    BY <1>8
  <2> HIDE DEF r
  <2>3. s = IF r.left > 0 THEN Sent(r) ELSE r
    BY <1>8, <2>2 DEF ServedAs, Serviced
  <2>4. ok => Whole(r) /\ r.left > 0
    <3> SUFFICES ASSUME ok PROVE Whole(r) /\ r.left > 0
      OBVIOUS
    <3>1. k.ended /\ got = 0 /\ left = ResponseChunks /\ k.left = 0
      BY <1>1, <1>8 DEF Whole
    <3>2. k.unread = 0 /\ k.read = 0
      BY <3>1 DEF Whole
    <3>3. r.read + r.unread + r.left = ResponseChunks
      BY <2>1, <3>1, <3>2, NumbersAre
    <3>4. r.left # 0 /\ r.left > 0
      BY <2>1, <3>1, NumbersAre
    <3>5. Whole(k)
      OBVIOUS
    <3> HIDE DEF ok
    <3>6. Whole(r)
      BY <2>1, <3>1, <3>2, <3>3, <3>4, <3>5 DEF Whole
    <3> QED
      BY <3>4, <3>6
  <2>5. CASE r.left > 0
    <3>1. s = Sent(r)
      BY <2>3, <2>5
    <3>2. Settled(r, s) /\ s \in Connections /\ s.at \in {"slot", "away", "closed"}
          /\ (Whole(r) => Whole(s)) /\ s.result \in {"none", k.result}
      BY <2>1, <2>5, <3>1, SentWhole
    <3> HIDE DEF ok
    <3> QED
      BY <2>1, <2>4, <3>2 DEF Settled
  <2>6. CASE ~(r.left > 0)
    <3>1. s = r
      BY <2>3, <2>6
    <3> HIDE DEF ok
    <3> QED
      BY <2>1, <2>4, <2>6, <3>1
  <2> QED
    BY <2>5, <2>6
<1> QED
  <2> HIDE DEF ok
  <2>1. CASE late \/ k.left > 0 \/ s = Dropped(k, TRUE)
    BY <1>3, <1>4, <1>5, <2>1 DEF ok
  <2>2. CASE ~late /\ ~(k.left > 0) /\ s # Dropped(k, TRUE)
    <3>1. CASE \E got \in Nat, left \in Nat :
                 /\ Received(k) = {[k EXCEPT !.got = got, !.pending = 0, !.idle = 0, !.left = left]}
                 /\ k.got = 0 /\ k.pending = 0 => k.ended /\ got = 0 /\ left = ResponseChunks
      <4>1. /\ s \in Connections /\ s.at \in {"slot", "away", "closed"}
            /\ (s.at = "slot" => s.idle = 0) /\ s.result \in {"none", k.result}
            /\ ok => Whole(s)
        BY <1>8, <2>2, <3>1
      <4> QED
        BY <4>1 DEF ok, Settled
    <3>2. CASE Received(k) = {} /\ ~k.ended /\ (k.shut \/ k.gone)
      BY <1>6, <2>2, <3>2 DEF ok
    <3>3. CASE Received(k) = {k} /\ ~k.ended /\ ~k.gone
      BY <1>7, <2>2, <3>3 DEF ok
    <3> QED
      BY <3>1, <3>2, <3>3, ReceivedIs
  <2> QED
    BY <2>1, <2>2

LEMMA ServeStep ==
  ASSUME IInv, NEW c \in Clients, Serve(c)
  PROVE  IInv'
<1> DEFINE old == conn[c]
           late == c \in poll.late
<1>1. /\ Up /\ poll.pc = "serve" /\ c \in poll.todo
      /\ poll' = [poll EXCEPT !.todo = @ \ {c}]
      /\ UNCHANGED <<path, srv, backlog>>
      /\ poll \in Polls /\ conn \in [Clients -> Connections] /\ old \in Connections
      /\ backlog \in Seq(Clients)
  BY DEF Serve, IInv, Types
<1>k. PICK k \in ServedAs(old, late) : conn' = [conn EXCEPT ![c] = k]
  BY DEF Serve, ServedAs
<1>2. c \in Slots /\ old.at = "slot"
  BY <1>1 DEF IInv, SlotsFit, Slots
<1>l. late \in BOOLEAN
  OBVIOUS
<1>3. k \in Connections /\ k.at \in {"slot", "away", "closed"} /\ Settled(old, k)
  <2> HIDE DEF late
  <2> QED
    BY <1>1, <1>2, <1>l, ServedIs
<1>4. c \in Polite => Whole(k)
  <2> SUFFICES ASSUME c \in Polite
               PROVE  Whole(k)
    OBVIOUS
  <2>1. Whole(old) /\ InTime(c)
    BY DEF IInv, Answers
  <2>2. late => old.gone \/ old.stalled
    BY <1>1, <1>2, <2>1 DEF InTime
  <2> HIDE DEF late
  <2> QED
    BY <1>1, <1>2, <1>l, <2>1, <2>2, ServedIs
<1>5. /\ conn' \in [Clients -> Connections] /\ conn'[c] = k
      /\ \A d \in Clients : d # c => conn'[d] = conn[d]
  BY <1>1, <1>3, <1>k
<1>6. /\ poll' \in Polls /\ poll'.pc = "serve" /\ poll'.todo = poll.todo \ {c}
      /\ poll'.late = poll.late /\ poll'.missed = poll.missed
  BY <1>1 DEF Polls
<1>7. Types'
  BY <1>1, <1>5, <1>6 DEF IInv, Types, Socket!SocketTypeOK, Socket!Paths, Socket!Places
<1>8. Waiting'
  <2>1. \A i \in 1..Len(backlog) : backlog[i] \in Clients /\ backlog[i] # c
    BY <1>1, <1>2 DEF IInv, Waiting
  <2> QED
    BY <1>1, <1>5, <2>1 DEF IInv, Waiting
<1>9. Served' /\ PathFree'
  BY <1>1, <1>5 DEF IInv, Served, PathFree, Up
<1>10. SlotsFit'
  <2>1. Slots' \in SUBSET Slots /\ \A d \in Slots : d # c => d \in Slots'
    BY <1>2, <1>5 DEF Slots
  <2>2. IsFiniteSet(Slots') /\ Cardinality(Slots') <= Cardinality(Slots)
    BY <2>1, FS_Subset DEF IInv, SlotsFit
  <2>3. Cardinality(Slots') \in Nat /\ Cardinality(Slots) \in Nat
    BY <2>2, FS_CardinalityType DEF IInv, SlotsFit
  <2>4. Cardinality(Slots') <= MaximumClients
    BY <2>2, <2>3, NumbersAre DEF IInv, SlotsFit
  <2> QED
    BY <1>6, <2>1, <2>2, <2>4 DEF IInv, SlotsFit
<1>11. Answers'
  <2> SUFFICES ASSUME NEW d \in Polite PROVE Whole(conn'[d]) /\ InTime(d)'
    BY DEF Answers
  <2>1. d \in Clients /\ Whole(conn[d]) /\ InTime(d)
    BY DEF Clients, IInv, Answers
  <2>2. CASE d = c
    <3>1. CASE k.at # "slot"
      BY <1>4, <1>5, <1>6, <2>2, <3>1 DEF InTime
    <3>2. CASE k.at = "slot" /\ k.idle = 0
      <4>1. poll.missed \in 0..PassDelay
        BY <1>1 DEF Polls
      <4>2. k.idle <= k.behind /\ k.idle <= ClientDelay + poll.missed
        BY <1>3, <3>2, <4>1, Renewed
      <4> QED
        BY <1>4, <1>5, <1>6, <2>2, <4>2 DEF InTime
    <3>3. CASE k.at = "slot" /\ k = old /\ Blocked(old)
      BY <1>4, <1>5, <1>6, <2>1, <2>2, <3>3 DEF InTime
    <3> QED
      BY <1>3, <3>1, <3>2, <3>3 DEF Settled
  <2>3. CASE d # c
    BY <1>1, <1>5, <1>6, <2>1, <2>3 DEF InTime
  <2> QED
    BY <2>2, <2>3
<1> QED
  BY <1>7, <1>8, <1>9, <1>10, <1>11 DEF IInv
-----------------------------------------------------------------------------
(* Time, start, stop and crash.                                            *)

\* What time does to a client in a slot.
LEMMA AgedIs ==
  ASSUME NEW c \in Clients, NEW away \in BOOLEAN, conn[c] \in Connections
  PROVE  LET old == conn[c]
             k == Aged(c, away)
         IN  /\ k \in Connections /\ k.at = old.at /\ k.gone = old.gone /\ k.pending = old.pending
             /\ k.got = old.got /\ k.left = old.left /\ k.unread = old.unread
             /\ k.read = old.read /\ k.cut = old.cut /\ k.result = old.result
             /\ k.ended = old.ended /\ k.shut = old.shut
             /\ k.idle <= old.idle + 1
             /\ old.stalled => k.stalled
             /\ c \in Polite /\ away => k.stalled
             /\ Owes(c) /\ ~k.stalled => k.behind = old.behind + 1
<1> DEFINE old == conn[c]
           owes == Owes(c)
           idle == IF old.idle < IdleTimeout THEN old.idle + 1 ELSE old.idle
           behind == IF owes /\ old.behind < ClientDelay THEN old.behind + 1 ELSE old.behind
           stalled == old.stalled \/ (c \in Polite /\ away) \/ (owes /\ old.behind = ClientDelay)
           k == [old EXCEPT !.idle = idle, !.behind = behind, !.stalled = stalled]
<1>1. Aged(c, away) = k
  BY DEF Aged, Connections
<1>2. old.idle \in Idles /\ old.behind \in Delays /\ old \in Connections
  BY DEF Connections
<1>3. idle \in Idles /\ idle <= old.idle + 1
  BY <1>2, NumbersAre DEF Idles
<1>4. behind \in Delays /\ (owes /\ old.behind # ClientDelay => behind = old.behind + 1)
  BY <1>2, NumbersAre DEF Delays
<1>5. stalled \in BOOLEAN
  OBVIOUS
<1>6. /\ old.stalled => stalled
      /\ c \in Polite /\ away => stalled
      /\ owes /\ ~stalled => behind = old.behind + 1
  BY <1>4
<1> HIDE DEF old, owes, idle, behind, stalled
<1>7. /\ k \in Connections /\ k.at = old.at /\ k.gone = old.gone /\ k.pending = old.pending
      /\ k.got = old.got /\ k.left = old.left /\ k.unread = old.unread
      /\ k.read = old.read /\ k.cut = old.cut /\ k.result = old.result
      /\ k.ended = old.ended /\ k.shut = old.shut
      /\ k.idle = idle /\ k.behind = behind /\ k.stalled = stalled
  BY <1>2, <1>3, <1>4, <1>5 DEF Connections
<1> HIDE DEF k
<1> QED
  BY <1>1, <1>3, <1>6, <1>7 DEF old, owes

LEMMA TickStep ==
  ASSUME IInv, Tick
  PROVE  IInv'
<1> DEFINE away == poll.missed = PassDelay
<1>1. /\ conn' = [c \in Clients |-> IF c \in Slots THEN Aged(c, away) ELSE conn[c]]
      /\ poll' = [poll EXCEPT !.missed = IF @ < PassDelay THEN @ + 1 ELSE @]
      /\ UNCHANGED <<path, srv, backlog>>
      /\ poll \in Polls /\ conn \in [Clients -> Connections] /\ backlog \in Seq(Clients)
      /\ away \in BOOLEAN
  BY DEF Tick, IInv, Types
<1>2. \A c \in Clients : conn'[c] = IF c \in Slots THEN Aged(c, away) ELSE conn[c]
  BY <1>1
<1>3. /\ poll' \in Polls /\ poll'.pc = poll.pc /\ poll'.todo = poll.todo
      /\ poll'.late = poll.late /\ (~away => poll'.missed = poll.missed + 1)
      /\ poll.missed \in Nat
  <2> DEFINE missed == IF poll.missed < PassDelay THEN poll.missed + 1 ELSE poll.missed
  <2>1. poll.missed \in 0..PassDelay
    BY <1>1 DEF Polls
  <2>2. missed \in 0..PassDelay /\ (~away => missed = poll.missed + 1) /\ poll.missed \in Nat
    BY <2>1, NumbersAre
  <2>3. poll' = [poll EXCEPT !.missed = missed]
    BY <1>1
  <2> HIDE DEF missed, away
  <2> QED
    BY <1>1, <2>2, <2>3 DEF Polls
<1> HIDE DEF away
<1>4. \A c \in Clients : /\ conn'[c] \in Connections /\ conn'[c].at = conn[c].at
                         /\ conn'[c].gone = conn[c].gone
  BY <1>1, <1>2, AgedIs
<1>5. conn' \in [Clients -> Connections]
  BY <1>1, <1>4
<1>6. Types'
  BY <1>1, <1>3, <1>5 DEF IInv, Types, Socket!SocketTypeOK, Socket!Paths, Socket!Places
<1>7. Waiting'
  <2>1. \A i \in 1..Len(backlog) : backlog[i] \in Clients
    BY <1>1
  <2> QED
    BY <1>1, <1>4, <2>1 DEF IInv, Waiting
<1>8. Slots' = Slots
  BY <1>4 DEF Slots
<1>9. Served' /\ SlotsFit' /\ PathFree'
  BY <1>1, <1>3, <1>4, <1>8 DEF IInv, Served, SlotsFit, PathFree, Up
<1>10. Answers'
  <2> SUFFICES ASSUME NEW c \in Polite PROVE Whole(conn'[c]) /\ InTime(c)'
    BY DEF Answers
  <2>1. c \in Clients /\ Whole(conn[c]) /\ InTime(c) /\ conn[c] \in Connections
    BY <1>1 DEF Clients, IInv, Answers
  <2>2. CASE c \notin Slots
    <3>1. conn'[c] = conn[c] /\ conn[c].at # "slot" /\ c \notin poll.todo
      BY <1>2, <2>1, <2>2 DEF Slots, IInv, SlotsFit
    <3> QED
      BY <1>3, <2>1, <3>1 DEF InTime
  <2>3. CASE c \in Slots
    <3> DEFINE old == conn[c]
               k == conn'[c]
    <3>1. k = Aged(c, away) /\ old.at = "slot"
      BY <1>2, <2>1, <2>3 DEF Slots
    <3>2. /\ k.at = old.at /\ k.gone = old.gone /\ k.pending = old.pending
          /\ k.got = old.got /\ k.left = old.left /\ k.unread = old.unread
          /\ k.read = old.read /\ k.cut = old.cut /\ k.result = old.result
          /\ k.ended = old.ended /\ k.shut = old.shut
          /\ k.idle <= old.idle + 1
          /\ old.stalled => k.stalled
          /\ away => k.stalled
          /\ Owes(c) /\ ~k.stalled => k.behind = old.behind + 1
          /\ k \in Connections
      BY <1>1, <2>1, <3>1, AgedIs
    <3>3. Whole(k)
      BY <2>1, <3>1, <3>2 DEF Whole
    <3>4. c \in poll.todo \cap poll.late => k.gone \/ k.stalled
      BY <2>1, <3>2 DEF InTime
    <3>5. ASSUME ~k.gone, ~k.stalled
          PROVE  /\ Blocked(k) => k.idle <= k.behind
                 /\ ~Blocked(k) /\ c \notin poll.todo => k.idle <= ClientDelay + poll'.missed
      <4>1. /\ ~old.gone /\ ~old.stalled /\ ~away /\ (Blocked(k) <=> Blocked(old))
            /\ poll'.missed = poll.missed + 1
        BY <1>3, <3>2, <3>5 DEF Blocked
      <4>2. /\ Blocked(old) => old.idle <= old.behind
            /\ ~Blocked(old) /\ c \notin poll.todo => old.idle <= ClientDelay + poll.missed
        BY <2>1, <3>1, <4>1 DEF InTime
      <4>3. Blocked(old) => k.behind = old.behind + 1
        <5>1. Blocked(old) => Owes(c)
          <6>1. old.unread = SocketRoom => old.unread > 0
            BY NumbersAre
          <6> QED
            BY <4>1, <6>1 DEF Blocked, Owes
        <5> QED
          BY <3>2, <3>5, <5>1
      <4>4. old.idle \in Nat /\ k.idle \in Nat /\ old.behind \in Nat /\ ClientDelay \in Nat
        <5>1. old.idle \in Idles /\ k.idle \in Idles /\ old.behind \in Delays
          BY <2>1, <3>2 DEF Connections
        <5> QED
          BY <5>1, NumbersAre, ZeroesAre
      <4>5. Blocked(k) => k.idle <= k.behind
        BY <3>2, <4>1, <4>2, <4>3, <4>4
      <4>6. ~Blocked(k) /\ c \notin poll.todo => k.idle <= ClientDelay + poll'.missed
        <5>1. poll.missed \in Nat /\ k.idle <= old.idle + 1
          BY <1>3, <3>2
        <5> QED
          BY <4>1, <4>2, <4>4, <5>1
      <4> QED
        BY <4>5, <4>6
    <3>6. InTime(c)'
      BY <1>3, <3>2, <3>4, <3>5 DEF InTime
    <3> QED
      BY <3>3, <3>6
  <2> QED
    BY <2>2, <2>3
<1> QED
  BY <1>6, <1>7, <1>9, <1>10 DEF IInv

\* The service ends: no connection is left at it.
LEMMA DropAllStep ==
  ASSUME IInv, DropAll, Socket!SocketTypeOK', srv'[Process] # "bind"
  PROVE  IInv'
<1>1. /\ conn' = [c \in Clients |->
            IF conn[c].at \in {"backlog", "slot"} THEN Dropped(conn[c], TRUE) ELSE conn[c]]
      /\ backlog' = <<>> /\ poll' = Accepting /\ conn \in [Clients -> Connections]
  BY DEF DropAll, IInv, Types
<1>2. ASSUME NEW c \in Clients
      PROVE  /\ conn'[c] \in Connections /\ conn'[c].at \in {"away", "closed"}
             /\ c \in Polite => Whole(conn'[c])
  <2>1. conn[c] \in Connections
    BY <1>1
  <2>2. CASE conn[c].at \in {"backlog", "slot"}
    <3>1. conn'[c] = Dropped(conn[c], TRUE)
      BY <1>1, <2>2
    <3> QED
      BY <2>1, <3>1, DroppedIs, DroppedWhole
  <2>3. CASE conn[c].at \notin {"backlog", "slot"}
    <3>1. conn'[c] = conn[c]
      BY <1>1, <2>3
    <3>2. conn[c].at \in {"away", "closed"}
      BY <2>1, <2>3 DEF Connections
    <3> QED
      BY <2>1, <3>1, <3>2 DEF IInv, Answers
  <2> QED
    BY <2>2, <2>3
<1>3. poll' \in Polls /\ poll'.todo = {} /\ poll'.late = {}
  BY <1>1, ZeroesAre DEF Accepting, Polls
<1>4. Types' /\ Waiting' /\ Served' /\ PathFree'
  <2>1. conn' \in [Clients -> Connections]
    BY <1>1, <1>2
  <2>2. backlog' \in Seq(Clients) /\ Len(backlog') = 0
    BY <1>1
  <2>3. Types'
    BY <1>3, <2>1, <2>2 DEF Types
  <2>4. Waiting'
    BY <2>2 DEF Waiting
  <2>5. Served'
    BY <1>2 DEF Served
  <2> QED
    BY <2>3, <2>4, <2>5 DEF PathFree
<1>5. SlotsFit'
  <2>1. Slots' = {}
    BY <1>2 DEF Slots
  <2> QED
    BY <1>3, <2>1, FS_EmptySet, NumbersAre DEF SlotsFit
<1>6. Answers'
  <2> SUFFICES ASSUME NEW c \in Polite PROVE Whole(conn'[c]) /\ InTime(c)'
    BY DEF Answers
  <2>1. c \in Clients
    BY DEF Clients
  <2> QED
    BY <1>2, <1>3, <2>1 DEF InTime
<1> QED
  BY <1>4, <1>5, <1>6 DEF IInv

LEMMA StopStep ==
  ASSUME IInv, Stop
  PROVE  IInv'
<1>1. Socket!SocketTypeOK' /\ srv'[Process] # "bind"
  BY DEF IInv, Types, Stop, Socket!Close, Socket!Goto, Socket!Left, Socket!SocketTypeOK,
    Socket!Paths, Socket!Places
<1> QED
  BY <1>1, DropAllStep DEF Stop

LEMMA CrashStep ==
  ASSUME IInv, Crash
  PROVE  IInv'
<1>1. Socket!SocketTypeOK' /\ srv'[Process] # "bind"
  BY DEF IInv, Types, Crash, Socket!Crash, Socket!Goto, Socket!Left, Socket!SocketTypeOK,
    Socket!Paths, Socket!Places
<1> QED
  BY <1>1, DropAllStep DEF Crash

\* No connection is there while the process is on its way up or down, and no
\* step of its own takes the path from a process that is about to bind.
LEMMA PathKeeps ==
  ASSUME IInv, PathStep
  PROVE  /\ Socket!SocketTypeOK' /\ PathFree' /\ ~Up
         /\ srv[Process] # "refused" /\ srv'[Process] = "refused" => path = "file"
<1> USE DEF Socket!Goto, Socket!SocketTypeOK, Socket!Paths, Socket!Places, PathFree, Up
<1>1. /\ path \in {"none", "file", "stale"} \cup {Process}
      /\ srv \in [{Process} -> Socket!Places] /\ PathFree
  BY DEF IInv, Types
<1>2. CASE Socket!StartService(Process)
  BY <1>1, <1>2 DEF Socket!StartService
<1>3. CASE Socket!Inspect(Process)
  BY <1>1, <1>3 DEF Socket!Inspect
<1>4. CASE Socket!Probe(Process)
  BY <1>1, <1>4 DEF Socket!Probe, Socket!Probed, Socket!Listening
<1>5. CASE Socket!Unlink(Process)
  BY <1>1, <1>5 DEF Socket!Unlink
<1>6. CASE Socket!Bind(Process)
  BY <1>1, <1>6 DEF Socket!Bind
<1>7. CASE Socket!Listen(Process)
  BY <1>1, <1>7 DEF Socket!Listen
<1>8. CASE Socket!UnlinkOwn(Process)
  BY <1>1, <1>8 DEF Socket!UnlinkOwn
<1>9. CASE Socket!StartFails(Process)
  BY <1>1, <1>9 DEF Socket!StartFails, Socket!Left
<1> QED
  BY <1>2, <1>3, <1>4, <1>5, <1>6, <1>7, <1>8, <1>9 DEF PathStep, Socket!SocketStep

LEMMA PathStepKeeps ==
  ASSUME IInv, PathStep
  PROVE  IInv'
<1>1. Socket!SocketTypeOK' /\ PathFree' /\ ~Up
  BY PathKeeps
<1>2. UNCHANGED <<backlog, conn, poll>>
  BY DEF PathStep
<1>3. Types' /\ Waiting' /\ Served'
  BY <1>1, <1>2 DEF IInv, Types, Waiting, Served
<1>4. Slots' = Slots
  BY <1>2 DEF Slots
<1>5. SlotsFit'
  BY <1>2, <1>4 DEF IInv, SlotsFit
<1>6. Answers'
  BY <1>2 DEF IInv, Answers, InTime
<1> QED
  BY <1>1, <1>3, <1>5, <1>6 DEF IInv
-----------------------------------------------------------------------------
LEMMA InitIInv == Init => IInv
<1> SUFFICES ASSUME Init PROVE IInv
  OBVIOUS
<1> USE DEF Init
<1>1. /\ conn \in [Clients -> Connections] /\ poll \in Polls /\ backlog \in Seq(Clients)
      /\ poll.todo = {} /\ poll.late = {}
  BY AwayIs, ZeroesAre DEF Accepting, Polls
<1>2. Types /\ PathFree
  BY <1>1 DEF Types, PathFree, Socket!SocketInit, Socket!SocketTypeOK, Socket!Paths,
    Socket!Places
<1>3. \A c \in Clients : conn[c].at = "away" /\ Whole(conn[c])
  BY DEF Away, Whole
<1>4. Waiting /\ Served
  BY <1>3 DEF Waiting, Served
<1>5. SlotsFit
  <2>1. Slots = {}
    BY <1>3 DEF Slots
  <2> QED
    BY <1>1, <2>1, FS_EmptySet, NumbersAre DEF SlotsFit
<1>6. Answers
  BY <1>1, <1>3 DEF Answers, InTime, Clients
<1> QED
  BY <1>2, <1>4, <1>5, <1>6 DEF IInv

LEMMA NextIInv == IInv /\ [Next]_vars => IInv'
<1> SUFFICES ASSUME IInv, [Next]_vars PROVE IInv'
  OBVIOUS
<1>1. CASE Service
  BY <1>1, AcceptsStep, ServesStep, ServeStep, EndsStep DEF Service
<1>2. CASE Tick \/ Stop \/ Crash \/ PathStep
  BY <1>2, TickStep, StopStep, CrashStep, PathStepKeeps
<1>3. ASSUME NEW c \in Clients,
             Connect(c) \/ Asks(c) \/ Sends(c) \/ Reads(c) \/ ReadsEnd(c) \/ Leaves(c)
      PROVE  IInv'
  BY <1>3, ConnectStep, AsksStep, SendsStep, ReadsStep, ReadsEndStep, LeavesStep
<1>4. CASE UNCHANGED vars
  <2>1. Slots' = Slots
    BY <1>4 DEF vars, Slots
  <2> QED
    BY <1>4, <2>1 DEF vars, IInv, Types, Socket!SocketTypeOK, Socket!Paths, Socket!Places,
      Waiting, Served, Up, SlotsFit, PathFree, Answers, InTime
<1> QED
  BY <1>1, <1>2, <1>3, <1>4 DEF Next

\* query() succeeds by what it reads, nothing else makes it.
LEMMA OnlyReadsEnd ==
  ASSUME IInv, Next, NEW c \in Polite, conn[c].result # "success", conn'[c].result = "success"
  PROVE  ReadsEnd(c)
<1> DEFINE kept == conn'[c].result \in {"none", conn[c].result}
<1>1. c \in Clients /\ conn \in [Clients -> Connections] /\ backlog \in Seq(Clients)
  BY DEF Clients, IInv, Types
<1>2. ~kept
  OBVIOUS
<1>3. ASSUME PollAccepts PROVE kept
  <2> DEFINE d == Head(backlog)
             k == IF FreeSlot THEN [conn[d] EXCEPT !.at = "slot"] ELSE Dropped(conn[d], FALSE)
  <2>1. conn' = [conn EXCEPT ![d] = k] /\ d \in Clients /\ conn[d] \in Connections
    BY <1>1, <1>3 DEF PollAccepts
  <2>2. k.result \in {"none", conn[d].result}
    <3>1. [conn[d] EXCEPT !.at = "slot"].result = conn[d].result
      BY <2>1 DEF Connections
    <3> QED
      BY <2>1, <3>1, DroppedIs
  <2> HIDE DEF k, d
  <2> QED
    BY <1>1, <2>1, <2>2
<1>4. ASSUME NEW d \in Clients, Serve(d) PROVE kept
  <2> DEFINE late == d \in poll.late
  <2>1. PICK k \in ServedAs(conn[d], late) : conn' = [conn EXCEPT ![d] = k]
    BY <1>4 DEF Serve, ServedAs
  <2>2. conn[d].at = "slot" /\ conn[d] \in Connections /\ late \in BOOLEAN
    BY <1>1, <1>4 DEF Serve, IInv, SlotsFit, Slots
  <2> HIDE DEF late
  <2>3. k.result \in {"none", conn[d].result}
    BY <2>2, ServedIs
  <2> QED
    BY <1>1, <2>1, <2>3
<1>5. ASSUME PollServes \/ PollEnds \/ PathStep PROVE kept
  BY <1>5 DEF PollServes, PollEnds, PathStep
<1>6. ASSUME Tick PROVE kept
  <2>1. conn'[c] = IF c \in Slots THEN Aged(c, poll.missed = PassDelay) ELSE conn[c]
    BY <1>1, <1>6 DEF Tick
  <2>2. conn[c] \in Connections /\ (poll.missed = PassDelay) \in BOOLEAN
    BY <1>1
  <2>3. Aged(c, poll.missed = PassDelay).result = conn[c].result
    BY <1>1, <2>2, AgedIs
  <2> QED
    BY <2>1, <2>3
<1>7. ASSUME DropAll PROVE kept
  <2>1. conn'[c] = IF conn[c].at \in {"backlog", "slot"} THEN Dropped(conn[c], TRUE) ELSE conn[c]
    BY <1>1, <1>7 DEF DropAll
  <2>2. conn[c] \in Connections /\ TRUE \in BOOLEAN
    BY <1>1
  <2>3. Dropped(conn[c], TRUE).result = "none"
    BY <2>2, DroppedIs
  <2> QED
    BY <2>1, <2>3
<1>8. ASSUME NEW d \in Clients, Asks(d) \/ Sends(d) \/ Reads(d) \/ Leaves(d) \/ Connect(d)
      PROVE  kept
  <2>1. conn[d] \in Connections /\ Away \in Connections /\ Away.result = "none"
    BY <1>1, AwayIs DEF Away
  <2>2. ASSUME NEW k, Update(d, k), k.result \in {"none", conn[d].result} PROVE kept
    BY <1>1, <2>2 DEF Update
  <2> HIDE DEF kept
  <2>3. CASE Asks(d)
    <3> DEFINE k == [conn[d] EXCEPT !.ended = TRUE, !.shut = TRUE, !.behind = 0]
    <3>1. Update(d, k) /\ k.result = conn[d].result
      BY <2>1, <2>3 DEF Asks, Connections
    <3> QED
      BY <2>2, <3>1
  <2>4. CASE Sends(d)
    BY <2>1, <2>2, <2>4 DEF Sends, Connections
  <2>5. CASE Reads(d)
    <3> DEFINE read == IF d \in Polite THEN conn[d].read + 1 ELSE 0
               k == [conn[d] EXCEPT !.unread = conn[d].unread - 1, !.read = read, !.behind = 0]
    <3>1. Update(d, k)
      BY <2>1, <2>5 DEF Reads, Connections
    <3>2. k.result = conn[d].result
      BY <2>1 DEF Connections
    <3> QED
      BY <2>2, <3>1, <3>2
  <2>6. CASE Leaves(d)
    <3> DEFINE k == [conn[d] EXCEPT !.gone = TRUE, !.unread = 0, !.read = 0]
    <3>1. Update(d, k) /\ k.result = conn[d].result
      BY <2>1, <2>6 DEF Leaves, Connections
    <3> QED
      BY <2>2, <3>1
  <2>7. CASE Connect(d)
    <3> DEFINE k == [Away EXCEPT !.at = "backlog", !.gone = d \in Probes]
    <3>1. Update(d, k)
      BY <2>7 DEF Connect
    <3>2. k.result = "none"
      BY DEF Away
    <3> QED
      BY <2>2, <3>1, <3>2
  <2> QED
    BY <1>8, <2>3, <2>4, <2>5, <2>6, <2>7
<1>9. ASSUME NEW d \in Clients, ReadsEnd(d), d # c PROVE kept
  BY <1>1, <1>9 DEF ReadsEnd, Update
<1> HIDE DEF kept
<1> QED
  BY <1>2, <1>3, <1>4, <1>5, <1>6, <1>7, <1>8, <1>9 DEF Next, Service, Stop, Crash

\* All states are of the types given, and no more than kMaximumClients
\* connections are in service.
THEOREM TypeCorrect == Spec => []TypeOK
<1>1. IInv => TypeOK
  BY DEF IInv, Types, SlotsFit, TypeOK, Connections, Idles, Unreads
<1> QED
  BY <1>1, InitIInv, NextIInv, PTL DEF Spec

\* Whatever the other clients do, what query() takes for an answer is all of it
\* unless a call failed, the service ended, or query() or the passes took longer
\* than the delays that fit the deadline.
THEOREM AnswersCorrect == Spec => AnswersAreWhole
<1> DEFINE A == \A c \in Polite :
                  conn[c].result # "success" /\ conn'[c].result = "success" =>
                    conn[c].read = ResponseChunks \/ conn[c].cut \/ conn[c].stalled
<1>1. IInv /\ [Next]_vars => [A]_vars
  <2> SUFFICES ASSUME IInv, Next, NEW c \in Polite,
                      conn[c].result # "success", conn'[c].result = "success"
               PROVE  conn[c].read = ResponseChunks \/ conn[c].cut \/ conn[c].stalled
    BY DEF vars
  <2>1. c \in Clients /\ Whole(conn[c]) /\ conn[c] \in Connections
    BY DEF Clients, IInv, Answers, Types
  <2>2. ReadsEnd(c)
    BY <2>1, OnlyReadsEnd
  <2>3. /\ conn[c].at = "closed" /\ conn[c].unread = 0 /\ conn[c].read # 0
        /\ conn[c].read \in Nat
    BY <2>1, <2>2 DEF ReadsEnd, Update, Connections, Away, IInv, Types
  <2>4. conn[c].read + conn[c].unread = conn[c].read
    BY <2>3
  <2> QED
    BY <2>1, <2>3, <2>4 DEF Whole
<1> QED
  BY <1>1, InitIInv, NextIInv, PTL DEF Spec, AnswersAreWhole

\* Nothing a stop, a crash or a failed start leaves at the path refuses the
\* next start.
THEOREM RestartCorrect == Spec => RestartNotRefused
<1> DEFINE A == srv[Process] # "refused" /\ srv'[Process] = "refused" => path = "file"
<1>1. IInv /\ [Next]_vars => [A]_vars
  <2> SUFFICES ASSUME IInv, Next, srv[Process] # "refused", srv'[Process] = "refused"
               PROVE  path = "file"
    BY DEF vars
  <2>1. CASE PathStep
    BY <2>1, PathKeeps
  <2>2. CASE Stop \/ Crash
    BY <2>2 DEF IInv, Types, Stop, Crash, Socket!Close, Socket!Crash, Socket!Goto,
      Socket!SocketTypeOK
  <2>3. CASE Service
    BY <2>3 DEF Service, PollAccepts, PollServes, Serve, PollEnds
  <2>4. CASE Tick
    BY <2>4 DEF Tick
  <2>5. ASSUME NEW c \in Clients,
               Connect(c) \/ Asks(c) \/ Sends(c) \/ Reads(c) \/ ReadsEnd(c) \/ Leaves(c)
        PROVE  UNCHANGED srv
    BY <2>5 DEF Connect, Asks, Sends, Reads, ReadsEnd, Leaves, Update
  <2> QED
    BY <2>1, <2>2, <2>3, <2>4, <2>5 DEF Next
<1> QED
  BY <1>1, InitIInv, NextIInv, PTL DEF Spec, RestartNotRefused
=============================================================================
