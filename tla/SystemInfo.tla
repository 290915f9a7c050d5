----------------------------- MODULE SystemInfo -----------------------------
(***************************************************************************)
(* The system information servers of lab5 with their clients: part1 over   *)
(* System V shared memory, a mapped file or a System V message queue, and  *)
(* part3 over a Unix socket.  The server keeps one record and refreshes it *)
(* field by field; what differs is how a client comes by a copy.           *)
(*                                                                         *)
(* The record holds the ids, which are set once and are one field here,    *)
(* the run time and three load averages, each of which is numbered by the  *)
(* refresh that stored it, 0 before the first.  Names and ids of channels  *)
(* are not modelled.                                                       *)
(***************************************************************************)
EXTENDS Naturals, Sequences, FiniteSets

CONSTANTS
  Channels,    \* subset of {"shm", "mmap", "msgq", "socket"}
  Clients,     \* processes that run the client program, again and again
  Killable,    \* clients that may be killed while they wait
  Readers,     \* bound: clients that map a shared record, where none meets another
  NoClient,    \* the end of a connection whose client was killed
  MaxTime,     \* bound on the refreshes of a shared record
  MaxAsks      \* bound on the runs of the client program

ASSUME SystemInfoAssumption ==
  /\ Channels \subseteq {"shm", "mmap", "msgq", "socket"}
  /\ IsFiniteSet(Clients) /\ Killable \subseteq Clients /\ Readers \subseteq Clients
  /\ NoClient \notin Clients
  /\ MaxTime \in Nat /\ MaxAsks \in Nat

Backlog == 1   \* connections that wait after listen(sock_fd, 0)

VARIABLES
  channel,          \* the option the server was started with, or part3
  spc,              \* where the server is; "down" once it has ended
  rec,              \* *sys_info
  file,             \* the mapped file, or the socket, has a name
  queries, replies, \* the message queue: queries have no content
  backlog, peer,    \* the socket: waiting connections, client_fd's other end
  cpc, got,         \* clients: where they are, their copy of the record
  asked,            \* rec.time when they attached, asked or connected
  asks,             \* runs of the client program so far
  lost              \* clients killed between their query and its reply

server == <<spc, rec, file>>
queue  == <<queries, replies>>
socket == <<backlog, peer>>
clients == <<cpc, got, asked, asks, lost>>
vars == <<channel, server, queue, socket, clients>>

Zeros == [pid |-> 0, time |-> 0, load1 |-> 0, load5 |-> 0, load15 |-> 0]
Shared == channel \in {"shm", "mmap"}
Published == spc # "create"
Down == spc = "down"

Init ==
  /\ channel \in Channels
  /\ spc = "create" /\ rec = Zeros /\ file = FALSE
  /\ queries = 0 /\ replies = <<>>
  /\ backlog = <<>> /\ peer = NoClient
  /\ cpc = [c \in Clients |-> "idle"]
  /\ got = [c \in Clients |-> Zeros]
  /\ asked = [c \in Clients |-> 0]
  /\ asks = 0 /\ lost = 0

-----------------------------------------------------------------------------
(* The server: part1/server.c lines 43-135, part3/server.c lines 30-72.    *)

(* The channel is made and its name printed, so clients may come, before   *)
(* the record is filled in.                                                *)
Publish ==
  /\ spc = "create"
  /\ spc' = "publish"
  /\ file' = (channel \in {"mmap", "socket"})
  /\ UNCHANGED <<channel, rec, queue, socket, clients>>

WriteIds ==
  /\ spc = "publish"
  /\ rec' = [rec EXCEPT !.pid = 1]
  /\ spc' = "ids"
  /\ UNCHANGED <<channel, file, queue, socket, clients>>

(* A refresh in the start (112-113), for every query (121-122) or          *)
(* connection (68-69), or once a second (132-133): run_time is stored, and *)
(* getloadavg stores the three loads, one after the other.                 *)
WriteTime ==
  /\ \/ spc \in {"ids", "taken"}
     \/ Shared /\ spc = "loop" /\ rec.time < MaxTime
  /\ rec' = [rec EXCEPT !.time = @ + 1]
  /\ spc' = "load1"
  /\ UNCHANGED <<channel, file, queue, socket, clients>>

Refreshing == spc \in {"load1", "load5", "load15"}
First == rec.time = 1
Refreshed == IF First THEN (IF channel = "socket" THEN "handlers" ELSE "loop")
             ELSE IF Shared THEN "loop" ELSE "reply"

\* Fault: the loads are read in the start only.
WriteLoadOnce(load, to) ==
  /\ spc = load
  /\ rec' = IF First THEN [rec EXCEPT ![load] = rec.time] ELSE rec
  /\ spc' = to
  /\ UNCHANGED <<channel, file, queue, socket, clients>>

WriteLoad(load, to) ==
  /\ spc = load
  /\ rec' = [rec EXCEPT ![load] = rec.time]
  /\ spc' = to
  /\ UNCHANGED <<channel, file, queue, socket, clients>>

WriteLoads == \/ WriteLoad("load1", "load5")
              \/ WriteLoad("load5", "load15")
              \/ WriteLoad("load15", Refreshed)

TakeQuery ==
  /\ channel = "msgq" /\ spc = "loop" /\ queries > 0
  /\ queries' = queries - 1
  /\ spc' = "taken"
  /\ UNCHANGED <<channel, rec, file, replies, socket, clients>>

\* Fault: the reply is lost (msgsnd fails in line 127, nobody looks).
ReplyLost ==
  /\ channel = "msgq" /\ spc = "reply"
  /\ spc' = "loop"
  /\ UNCHANGED <<channel, rec, file, queue, socket, clients>>

\* Fault: the reply is sent twice.
ReplyTwice ==
  /\ channel = "msgq" /\ spc = "reply"
  /\ replies' = replies \o <<rec, rec>>
  /\ spc' = "loop"
  /\ UNCHANGED <<channel, rec, file, queries, socket, clients>>

Reply ==
  /\ channel = "msgq" /\ spc = "reply"
  /\ replies' = Append(replies, rec)
  /\ spc' = "loop"
  /\ UNCHANGED <<channel, rec, file, queries, socket, clients>>

InstallHandlers ==
  /\ spc = "handlers"
  /\ spc' = "loop"
  /\ UNCHANGED <<channel, rec, file, queue, socket, clients>>

Accept ==
  /\ channel = "socket" /\ spc = "loop" /\ backlog # <<>>
  /\ peer' = Head(backlog)
  /\ backlog' = Tail(backlog)
  /\ spc' = "taken"
  /\ UNCHANGED <<channel, rec, file, queue, clients>>

Give(c, r) == /\ cpc' = [cpc EXCEPT ![c] = "done"]
              /\ got' = [got EXCEPT ![c] = r]
              /\ UNCHANGED <<asked, asks, lost>>

(* Line 70.  Nobody handles SIGPIPE: a client that was killed takes the    *)
(* server with it, which leaves its socket behind.                         *)
Answer ==
  /\ channel = "socket" /\ spc = "reply"
  /\ IF peer = NoClient
     THEN spc' = "down" /\ UNCHANGED clients
     ELSE spc' = "loop" /\ Give(peer, rec)
  /\ peer' = NoClient
  /\ UNCHANGED <<channel, rec, file, queue, backlog>>

(* SIGINT: part1 lines 31-41, where it is handled from the start; part3    *)
(* lines 16-28, where it is handled once the handlers are installed.       *)
Handled == \/ channel # "socket"
           \/ spc \in {"loop", "taken", "reply"}
           \/ Refreshing /\ ~First

Interrupt ==
  /\ ~Down
  /\ spc' = "down"
  /\ file' = (file /\ ~Handled)
  /\ UNCHANGED <<channel, rec, queue, socket, clients>>

Kill ==
  /\ ~Down
  /\ spc' = "down"
  /\ UNCHANGED <<channel, rec, file, queue, socket, clients>>

Server == \/ Publish \/ WriteIds \/ WriteTime \/ WriteLoads
          \/ TakeQuery \/ Reply
          \/ InstallHandlers \/ Accept \/ Answer

-----------------------------------------------------------------------------
(* The clients: part1/client.c lines 15-67, part3/client.c lines 11-40.    *)

Begin(c, to) ==
  /\ Published /\ cpc[c] = "idle" /\ asks < MaxAsks
  /\ cpc' = [cpc EXCEPT ![c] = to]
  /\ asked' = [asked EXCEPT ![c] = rec.time]
  /\ asks' = asks + 1
  /\ UNCHANGED <<got, lost>>

(* Lines 23-36.  A segment is there for good, nobody removes it; a file    *)
(* may be gone, and then the client reads through MAP_FAILED.              *)
Attach(c) ==
  /\ Shared /\ c \in Readers
  /\ Begin(c, IF channel = "mmap" /\ ~file THEN "crashed" ELSE "attached")
  /\ UNCHANGED <<channel, server, queue, socket>>

(* Lines 58-66 read the fields one by one as they print them.              *)
Copy(c, from, to, field) ==
  /\ cpc[c] = from
  /\ cpc' = [cpc EXCEPT ![c] = to]
  /\ got' = [got EXCEPT ![c][field] = rec[field]]
  /\ UNCHANGED <<channel, server, queue, socket, asked, asks, lost>>

ReadTime(c)  == Copy(c, "attached", "time", "time")
ReadIds(c)   == Copy(c, "time", "ids", "pid")
ReadLoads(c) == \/ Copy(c, "ids", "load1", "load1")
                \/ Copy(c, "load1", "load5", "load5")
                \/ Copy(c, "load5", "done", "load15")

(* Lines 41-43.  The queue is never removed: a dead server's takes the     *)
(* query as well.                                                          *)
SendQuery(c) ==
  /\ channel = "msgq"
  /\ Begin(c, "waiting")
  /\ queries' = queries + 1
  /\ UNCHANGED <<channel, server, replies, socket>>

(* Lines 45-47: the first reply in the queue, whoever it was meant for.    *)
ReceiveReply(c) ==
  /\ channel = "msgq" /\ cpc[c] = "waiting" /\ replies # <<>>
  /\ Give(c, Head(replies))
  /\ replies' = Tail(replies)
  /\ UNCHANGED <<channel, server, queries, socket>>

(* part3/client.c line 26.                                                 *)
Connect(c) ==
  /\ channel = "socket" /\ ~Down /\ Len(backlog) < Backlog
  /\ Begin(c, "waiting")
  /\ backlog' = Append(backlog, c)
  /\ UNCHANGED <<channel, server, queue, peer>>

(* Neither connect() nor read() is checked: without a server the client    *)
(* prints "Data received:" and what its stack happens to hold.             *)
ConnectRefused(c) ==
  /\ channel = "socket" /\ Down
  /\ Begin(c, "garbage")
  /\ UNCHANGED <<channel, server, queue, socket>>

ConnectionReset(c) ==
  /\ channel = "socket" /\ cpc[c] = "waiting" /\ Down
  /\ cpc' = [cpc EXCEPT ![c] = "garbage"]
  /\ UNCHANGED <<channel, server, queue, socket, got, asked, asks, lost>>

(* The client ends, and may be run again.                                  *)
Finish(c) ==
  /\ cpc[c] \in {"done", "garbage", "crashed"}
  /\ cpc' = [cpc EXCEPT ![c] = "idle"]
  /\ got' = [got EXCEPT ![c] = Zeros]
  /\ asked' = [asked EXCEPT ![c] = 0]
  /\ UNCHANGED <<channel, server, queue, socket, asks, lost>>

(* Its query stays in the queue, its connection in the backlog.            *)
KillClient(c) ==
  /\ c \in Killable /\ cpc[c] = "waiting"
  /\ cpc' = [cpc EXCEPT ![c] = "idle"]
  /\ asked' = [asked EXCEPT ![c] = 0]
  /\ lost' = lost + 1
  /\ backlog' = [i \in 1 .. Len(backlog) |->
                   IF backlog[i] = c THEN NoClient ELSE backlog[i]]
  /\ peer' = IF peer = c THEN NoClient ELSE peer
  /\ UNCHANGED <<channel, server, queue, got, asks>>

Proceed(c) == \/ ReadTime(c) \/ ReadIds(c) \/ ReadLoads(c)
              \/ ReceiveReply(c) \/ ConnectionReset(c)
Client(c) == \/ Attach(c) \/ SendQuery(c) \/ Connect(c) \/ ConnectRefused(c)
             \/ Proceed(c) \/ Finish(c) \/ KillClient(c)

Next == Server \/ Interrupt \/ Kill \/ \E c \in Clients : Client(c)

Spec == Init /\ [][Next]_vars

(* The server runs until it is stopped, and a client that has begun goes   *)
(* on when it can.  Nobody is obliged to run the client.                   *)
FairSpec == Spec /\ WF_vars(Server) /\ \A c \in Clients : WF_vars(Proceed(c))

-----------------------------------------------------------------------------
Received(c) == cpc[c] = "done"

(* A record that was sent is of one refresh and complete.  One that is     *)
(* read while the server rewrites it may mix refreshes, however far apart: *)
(* the client may sleep between two reads.  But a field that is read later *)
(* is never more than one refresh older than one that is read earlier, and *)
(* the ids may be missing only if the time is, too (lines 109-113 and      *)
(* 132-133 against the order in which lines 59-65 read).                   *)
OneMoment ==
  \A c \in Clients : Received(c) =>
    LET r == got[c] IN
    /\ ~Shared => /\ r.pid = 1 /\ r.time > 0
                  /\ r.load1 = r.time /\ r.load5 = r.time /\ r.load15 = r.time
    /\ r.time > 0 => r.pid = 1
    /\ r.time <= r.load1 + 1 /\ r.time <= r.load5 + 1 /\ r.time <= r.load15 + 1
    /\ r.load1 <= r.load5 + 1 /\ r.load1 <= r.load15 + 1 /\ r.load5 <= r.load15 + 1

(* How old a record may be that a client receives: over the socket it is   *)
(* refreshed after the client came, in shared memory it is not older than  *)
(* the client.  Over the queue the client may get the reply to another     *)
(* query, as many refreshes before its own as there were other clients     *)
(* waiting and clients ever killed while they waited.                      *)
LagBounded ==
  \A c \in Clients : Received(c) =>
    CASE channel = "socket" -> got[c].time > asked[c]
      [] Shared -> got[c].time >= asked[c]
      [] channel = "msgq" ->
           got[c].time + Cardinality(Clients \ {c}) + lost > asked[c]

(* For every client that waits, and for every one that was killed while it *)
(* waited, there is one query or one reply, in the queue or in the         *)
(* server's hands (lines 117-128); a server that ends takes one along.     *)
RepliesAccounted ==
  channel = "msgq" =>
    LET waiting == Cardinality({c \in Clients : cpc[c] = "waiting"})
        inHand  == IF spc \in {"taken", "reply"} \/ (Refreshing /\ ~First) THEN 1 ELSE 0
        owed    == queries + Len(replies) + inHand
    IN IF Down THEN waiting + lost \in {owed, owed + 1} ELSE waiting + lost = owed

(* Whoever asks comes to an end, however many others were killed, unless   *)
(* the server has ended: then the clients of the queue wait for good.      *)
ClientsEnd ==
  \A c \in Clients :
    (cpc[c] = "waiting") ~> (cpc[c] # "waiting" \/ (channel = "msgq" /\ Down))
=============================================================================
