----------------------------- MODULE PoolServer -----------------------------
(***************************************************************************)
(* The thread-pool directory server of lab6 (server.c) with its clients    *)
(* (client.c, or anything else that connects).  The main thread claims a   *)
(* slot of the pool, accepts a connection and leaves the descriptor in the *)
(* slot; the slot's worker polls the two plain fields busy and client_fd,  *)
(* reads the request, answers path by path with the listing of an open     *)
(* directory, closes and frees the slot.  Connections and directories take *)
(* their descriptors from one table.                                       *)
(*                                                                         *)
(* Every load and store of a shared field is a step of its own.  The build *)
(* has no optimisation flag, so the racy accesses reach memory in program  *)
(* order; their order between threads is free.                             *)
(***************************************************************************)
EXTENDS Naturals, Sequences, FiniteSets

CONSTANTS
  ThreadCount,   \* the second argument of the server (line 134)
  Clients,       \* processes that connect once each
  PathCount,     \* [Clients -> Nat]: lines a client sends before the empty one
  Quitters,      \* clients that may close their end, or fall silent, any time
  Fds,           \* descriptors the process has for connections and directories
  NoFd,          \* -1, or no directory
  NoClient,      \* the peer of a descriptor that is not open
  Backlog        \* length of the listen queue (line 166)

ASSUME PoolAssumption ==
  /\ ThreadCount \in Nat
  /\ PathCount \in [Clients -> Nat]
  /\ Quitters \subseteq Clients
  /\ NoFd \notin Fds
  /\ NoClient \notin Clients
  /\ Backlog \in Nat \ {0}

Threads == 0 .. ThreadCount - 1

(* Requests that are refused: no path before the empty line, or a client   *)
(* that leaves before the empty line.                                      *)
Misbehaving == Quitters \cup {c \in Clients : PathCount[c] = 0}
Polite == Clients \ Misbehaving

VARIABLES
  busy, client_fd,        \* the shared fields of the slots (lines 20, 21)
  mpc, slot, accepted,    \* main: where it is, its index, its client_fd
  wpc, wfd,               \* workers: where they are, their client_fd
  request, next, dir,     \* the request a worker holds, its next path, and the
                          \* descriptor of the directory that is open for it
  sock,                   \* peer of every descriptor
  dirs,                   \* descriptors that are open directories
  backlog,                \* connections in the listen queue
  cst, sent,              \* clients: state, lines written
  replies,                \* what was written to each client's connection
  closed, rejected,       \* connections the server closed, requests refused
  killed                  \* the process died of SIGPIPE

slots      == <<busy, client_fd>>
mainVars   == <<mpc, slot, accepted>>
rounds     == <<request, next, dir>>
workerVars == <<wpc, wfd, rounds>>
netVars    == <<sock, dirs, backlog, closed>>
clientVars == <<cst, sent>>
outcome    == <<replies, rejected, killed>>
envVars    == <<netVars, clientVars, outcome>>
vars == <<slots, mainVars, workerVars, envVars>>

Gone(c) == cst[c] = "gone"
Complete(c) == sent[c] = PathCount[c] + 1     \* the empty line was sent
FreeFds == {f \in Fds \ dirs : sock[f] = NoClient}
Peer(t) == sock[wfd[t]]

Init ==
  /\ busy = [t \in Threads |-> FALSE]
  /\ client_fd = [t \in Threads |-> NoFd]
  /\ mpc = "scan" /\ slot = 0 /\ accepted = NoFd
  /\ wpc = [t \in Threads |-> "poll"]
  /\ wfd = [t \in Threads |-> NoFd]
  /\ request = [t \in Threads |-> NoClient]
  /\ next = [t \in Threads |-> 1]
  /\ dir = [t \in Threads |-> NoFd]
  /\ sock = [f \in Fds |-> NoClient] /\ dirs = {}
  /\ backlog = <<>>
  /\ cst = [c \in Clients |-> "start"]
  /\ sent = [c \in Clients |-> 0]
  /\ replies = [c \in Clients |-> <<>>]
  /\ closed = {} /\ rejected = {}
  /\ killed = FALSE

-----------------------------------------------------------------------------
(* The main thread: lines 170-177 with get_free_thread, lines 115-123.     *)

\* Fault: the search takes one slot too many (<= in line 116); the memory
\* beyond the array happens to read as a slot that is free.
ScanSlotPastEnd ==
  /\ mpc = "scan" /\ slot <= ThreadCount
  /\ IF slot < ThreadCount /\ busy[slot] THEN slot' = slot + 1 /\ UNCHANGED mpc
                                         ELSE mpc' = "claim" /\ UNCHANGED slot
  /\ UNCHANGED <<slots, accepted, workerVars, envVars>>

(* busy is read here and set in Claim: two accesses, not one.              *)
ScanSlot ==
  /\ mpc = "scan" /\ slot < ThreadCount
  /\ IF busy[slot] THEN slot' = slot + 1 /\ UNCHANGED mpc
                   ELSE mpc' = "claim" /\ UNCHANGED slot
  /\ UNCHANGED <<slots, accepted, workerVars, envVars>>

NoFreeThread ==
  /\ mpc = "scan" /\ slot = ThreadCount
  /\ mpc' = "sleep"
  /\ UNCHANGED <<slots, slot, accepted, workerVars, envVars>>

\* Fault: the slot is not marked when it is claimed (line 118 missing).
ClaimUnmarked ==
  /\ mpc = "claim"
  /\ mpc' = "accept"
  /\ UNCHANGED <<slots, slot, accepted, workerVars, envVars>>

Claim ==
  /\ mpc = "claim"
  /\ busy' = [busy EXCEPT ![slot] = TRUE]
  /\ mpc' = "accept"
  /\ UNCHANGED <<client_fd, slot, accepted, workerVars, envVars>>

(* accept() hands out some descriptor that is not open; opendir() in the   *)
(* workers makes which one unpredictable.                                  *)
AcceptClient ==
  /\ mpc = "accept" /\ backlog # <<>>
  /\ \E f \in FreeFds : /\ accepted' = f
                        /\ sock' = [sock EXCEPT ![f] = Head(backlog)]
  /\ backlog' = Tail(backlog)
  /\ mpc' = "store"
  /\ UNCHANGED <<slots, slot, workerVars, dirs, closed, clientVars, outcome>>

(* accept() returns -1 at once when connections and open directories have  *)
(* taken every descriptor.                                                 *)
AcceptNoDescriptor ==
  /\ mpc = "accept" /\ FreeFds = {}
  /\ accepted' = NoFd
  /\ mpc' = "store"
  /\ UNCHANGED <<slots, slot, workerVars, envVars>>

(* accept() returns -1 for a connection aborted while it was queued.       *)
AcceptAborted ==
  /\ mpc = "accept" /\ backlog # <<>> /\ Gone(Head(backlog))
  /\ accepted' = NoFd
  /\ backlog' = Tail(backlog)
  /\ closed' = closed \cup {Head(backlog)}
  /\ mpc' = "store"
  /\ UNCHANGED <<slots, slot, workerVars, sock, dirs, clientVars, outcome>>

(* Line 174: accept()'s result is stored whatever it is.                   *)
Store ==
  /\ mpc = "store"
  /\ client_fd' = [client_fd EXCEPT ![slot] = accepted]
  /\ accepted' = NoFd
  /\ mpc' = "sleep"
  /\ UNCHANGED <<busy, slot, workerVars, envVars>>

Sleep ==
  /\ mpc = "sleep"
  /\ slot' = 0
  /\ mpc' = "scan"
  /\ UNCHANGED <<slots, accepted, workerVars, envVars>>

Main == \/ ScanSlot \/ NoFreeThread \/ Claim
        \/ AcceptClient \/ AcceptNoDescriptor \/ AcceptAborted
        \/ Store \/ Sleep

-----------------------------------------------------------------------------
(* A worker: lines 53-106.                                                 *)

(* The polling test of line 57 reads busy, and only then client_fd.        *)
PollBusy(t) ==
  /\ wpc[t] = "poll" /\ busy[t]
  /\ wpc' = [wpc EXCEPT ![t] = "poll_fd"]
  /\ UNCHANGED <<slots, mainVars, wfd, rounds, envVars>>

PollFd(t) ==
  /\ wpc[t] = "poll_fd"
  /\ wpc' = [wpc EXCEPT ![t] = IF client_fd[t] \in Fds THEN "take" ELSE "poll"]
  /\ UNCHANGED <<slots, mainVars, wfd, rounds, envVars>>

Take(t) ==
  /\ wpc[t] = "take"
  /\ wfd' = [wfd EXCEPT ![t] = client_fd[t]]
  /\ wpc' = [wpc EXCEPT ![t] = "read"]
  /\ UNCHANGED <<slots, mainVars, rounds, envVars>>

(* read_request, lines 25-51: it keeps reading until the empty line that   *)
(* follows at least one path ...                                           *)
ReadRequest(t) ==
  /\ wpc[t] = "read"
  /\ LET c == Peer(t) IN
       /\ Complete(c) /\ PathCount[c] > 0
       /\ request' = [request EXCEPT ![t] = c]
  /\ wpc' = [wpc EXCEPT ![t] = "serve"]
  /\ UNCHANGED <<slots, mainVars, wfd, next, dir, envVars>>

(* A write to a peer that has left is lost or raises SIGPIPE, which nobody *)
(* handles.                                                                *)
WriteTo(c) == IF Gone(c) THEN killed' \in BOOLEAN ELSE UNCHANGED killed

(* ... or refuses: an empty line with nothing before it, or the end of the *)
(* connection (lines 37-41 and 48-50).                                     *)
RefuseRequest(t) ==
  /\ wpc[t] = "read"
  /\ LET c == Peer(t) IN
       /\ (Complete(c) /\ PathCount[c] = 0) \/ Gone(c)
       /\ rejected' = rejected \cup {c}
       /\ WriteTo(c)
  /\ wpc' = [wpc EXCEPT ![t] = "drop"]
  /\ UNCHANGED <<slots, mainVars, wfd, rounds, netVars, clientVars, replies>>

Close(f) == /\ closed' = closed \cup {sock[f]}
            /\ sock' = [sock EXCEPT ![f] = NoClient]
            /\ UNCHANGED <<backlog, dirs>>

(* Lines 69-72: the worker thread ends; busy and client_fd stay set.       *)
DropClient(t) ==
  /\ wpc[t] = "drop"
  /\ Close(wfd[t])
  /\ wpc' = [wpc EXCEPT ![t] = "dead"]
  /\ UNCHANGED <<slots, mainVars, wfd, rounds, clientVars, outcome>>

(* A round of the loop over the lines of a request, 75-100.                *)
InRound(t) == wpc[t] = "serve" /\ next[t] <= PathCount[request[t]]

(* Lines 77-80: opendir() takes a descriptor of the same table as accept() *)
(* does.                                                                   *)
OpenDir(t) ==
  /\ InRound(t) /\ dir[t] = NoFd
  /\ \E f \in FreeFds : /\ dir' = [dir EXCEPT ![t] = f]
                        /\ dirs' = dirs \cup {f}
  /\ UNCHANGED <<slots, mainVars, wpc, wfd, request, next, sock, backlog, closed, clientVars,
                 outcome>>

(* The listing or the message goes to the descriptor the worker copied.    *)
Answer(t) ==
  /\ LET c == Peer(t) IN
       /\ replies' = [replies EXCEPT ![c] = Append(@, <<request[t], next[t]>>)]
       /\ WriteTo(c)
  /\ next' = [next EXCEPT ![t] = @ + 1]
  /\ UNCHANGED <<slots, mainVars, wpc, wfd, request, sock, backlog, closed, clientVars, rejected>>

(* Lines 81-86: a path opendir() refuses, and any path when there is no    *)
(* descriptor left.                                                        *)
OpenDirFails(t) ==
  /\ InRound(t) /\ dir[t] = NoFd
  /\ Answer(t)
  /\ UNCHANGED <<dir, dirs>>

\* Fault: the loop also takes the empty line for a path (no skip in line 97).
ListDirAndEmptyLine(t) ==
  /\ wpc[t] = "serve" /\ next[t] <= PathCount[request[t]] + 1
  /\ dir[t] # NoFd \/ next[t] > PathCount[request[t]]
  /\ Answer(t)
  /\ dir' = [dir EXCEPT ![t] = NoFd]
  /\ dirs' = dirs \ {dir[t]}

\* Fault: the directory is left open (line 95 missing).
ListDirLeftOpen(t) ==
  /\ InRound(t) /\ dir[t] # NoFd
  /\ Answer(t)
  /\ dir' = [dir EXCEPT ![t] = NoFd]
  /\ UNCHANGED dirs

(* Lines 88-98: the listing, and closedir().                               *)
ListDir(t) ==
  /\ InRound(t) /\ dir[t] # NoFd
  /\ Answer(t)
  /\ dir' = [dir EXCEPT ![t] = NoFd]
  /\ dirs' = dirs \ {dir[t]}

CloseClient(t) ==
  /\ wpc[t] = "serve" /\ next[t] > PathCount[request[t]]
  /\ Close(wfd[t])
  /\ wpc' = [wpc EXCEPT ![t] = "clear_fd"]
  /\ UNCHANGED <<slots, mainVars, wfd, rounds, clientVars, outcome>>

\* Fault: the descriptor is left in the slot (line 103 missing).
ClearFdSkipped(t) ==
  /\ wpc[t] = "clear_fd"
  /\ wpc' = [wpc EXCEPT ![t] = "clear_busy"]
  /\ UNCHANGED <<slots, mainVars, wfd, rounds, envVars>>

ClearFd(t) ==
  /\ wpc[t] = "clear_fd"
  /\ client_fd' = [client_fd EXCEPT ![t] = NoFd]
  /\ wpc' = [wpc EXCEPT ![t] = "clear_busy"]
  /\ UNCHANGED <<busy, mainVars, wfd, rounds, envVars>>

(* The locals of one round of the worker's loop go out of scope.           *)
NextRound(t) == /\ wpc' = [wpc EXCEPT ![t] = "poll"] /\ UNCHANGED dir
                /\ wfd' = [wfd EXCEPT ![t] = NoFd]
                /\ request' = [request EXCEPT ![t] = NoClient]
                /\ next' = [next EXCEPT ![t] = 1]

\* Fault: the slot is never given back (line 104 missing).
ClearBusySkipped(t) ==
  /\ wpc[t] = "clear_busy" /\ NextRound(t)
  /\ UNCHANGED <<slots, mainVars, envVars>>

ClearBusy(t) ==
  /\ wpc[t] = "clear_busy" /\ NextRound(t)
  /\ busy' = [busy EXCEPT ![t] = FALSE]
  /\ UNCHANGED <<client_fd, mainVars, envVars>>

Worker(t) == \/ PollBusy(t) \/ PollFd(t) \/ Take(t)
             \/ ReadRequest(t) \/ RefuseRequest(t) \/ DropClient(t)
             \/ OpenDir(t) \/ OpenDirFails(t) \/ ListDir(t)
             \/ CloseClient(t) \/ ClearFd(t) \/ ClearBusy(t)

-----------------------------------------------------------------------------
(* The clients: client.c, lines 27-52.                                     *)

Connect(c) ==
  /\ cst[c] = "start" /\ Len(backlog) < Backlog
  /\ cst' = [cst EXCEPT ![c] = "open"]
  /\ backlog' = Append(backlog, c)
  /\ UNCHANGED <<slots, mainVars, workerVars, sock, dirs, closed, sent, outcome>>

(* One line at a time; the line after the last path is the empty one.      *)
SendLine(c) ==
  /\ cst[c] = "open" /\ sent[c] <= PathCount[c]
  /\ sent' = [sent EXCEPT ![c] = @ + 1]
  /\ UNCHANGED <<slots, mainVars, workerVars, netVars, cst, outcome>>

(* The reading loop ends at the end of the connection.                     *)
ReadToEnd(c) ==
  /\ cst[c] = "open" /\ Complete(c) /\ c \in closed
  /\ cst' = [cst EXCEPT ![c] = "done"]
  /\ UNCHANGED <<slots, mainVars, workerVars, netVars, sent, outcome>>

(* The client process ends early.                                          *)
Quit(c) ==
  /\ c \in Quitters /\ cst[c] = "open"
  /\ cst' = [cst EXCEPT ![c] = "gone"]
  /\ UNCHANGED <<slots, mainVars, workerVars, netVars, sent, outcome>>

Client(c) == Connect(c) \/ SendLine(c) \/ ReadToEnd(c)

Next == /\ ~killed
        /\ \/ Main
           \/ \E t \in Threads : Worker(t)
           \/ \E c \in Clients : Client(c) \/ Quit(c)

(* The scheduler runs every thread, but an answer may wait for ever for a  *)
(* quitter that does not read it, with the directory open; a client that   *)
(* is no quitter goes on.                                                  *)
Stuck(t) == wpc[t] = "serve" /\ request[t] \in Quitters

Fairness ==
  /\ WF_vars(~killed /\ Main)
  /\ \A t \in Threads : WF_vars(~killed /\ ~Stuck(t) /\ Worker(t))
  /\ \A c \in Clients \ Quitters : WF_vars(~killed /\ Client(c))

Spec == Init /\ [][Next]_vars
FairSpec == Spec /\ Fairness

-----------------------------------------------------------------------------
(* Correctness.                                                            *)

(* Type invariant: the values every variable ranges over.                  *)
TypeOK ==
  /\ busy \in [Threads -> BOOLEAN]
  /\ client_fd \in [Threads -> Fds \cup {NoFd}]
  /\ mpc \in {"scan", "claim", "accept", "store", "sleep"}
  /\ slot \in 0 .. ThreadCount
  /\ accepted \in Fds \cup {NoFd}
  /\ wpc \in [Threads -> {"poll", "poll_fd", "take", "read", "drop", "dead",
                          "serve", "clear_fd", "clear_busy"}]
  /\ wfd \in [Threads -> Fds \cup {NoFd}]
  /\ request \in [Threads -> Clients \cup {NoClient}]
  /\ next \in [Threads -> Nat \ {0}]
  /\ dir \in [Threads -> Fds \cup {NoFd}]
  /\ sock \in [Fds -> Clients \cup {NoClient}]
  /\ dirs \subseteq Fds
  /\ backlog \in Seq(Clients)
  /\ cst \in [Clients -> {"start", "open", "done", "gone"}]
  /\ sent \in [Clients -> Nat]
  /\ replies \in [Clients -> Seq(Clients \X (Nat \ {0}))]
  /\ closed \subseteq Clients
  /\ rejected \subseteq Clients
  /\ killed \in BOOLEAN
  /\ \A t \in Threads : wpc[t] = "serve" => request[t] \in Clients
  /\ mpc \in {"claim", "accept", "store"} => slot < ThreadCount

(* How the two polled fields and the positions of the threads hang         *)
(* together: an unmarked slot is empty and its worker waits; the slot main *)
(* has claimed is marked, empty, and its worker still waits; a worker      *)
(* beyond the polling loop sees the descriptor it copied in its slot until *)
(* it clears it, and main never touches the slot meanwhile.                *)
SlotProtocol ==
  /\ mpc = "claim" => ~busy[slot]
  /\ mpc \in {"accept", "store"} =>
       /\ busy[slot] /\ client_fd[slot] = NoFd
       /\ wpc[slot] \in {"poll", "poll_fd"}
  /\ \A t \in Threads :
       /\ ~busy[t] => client_fd[t] = NoFd /\ wpc[t] = "poll"
       /\ wpc[t] = "take" => client_fd[t] \in Fds
       /\ wpc[t] \in {"read", "drop", "dead", "serve", "clear_fd"} =>
            wfd[t] \in Fds /\ client_fd[t] = wfd[t]
       /\ wpc[t] = "clear_busy" => client_fd[t] = NoFd

(* Who is responsible for an open descriptor: main between accept and the  *)
(* store, the worker it is handed to, until that worker closes it.         *)
MainHolds(f) == mpc = "store" /\ accepted = f
Handed(t, f) == wpc[t] \in {"poll", "poll_fd", "take"} /\ client_fd[t] = f
Serving(t, f) == wpc[t] \in {"read", "drop", "serve"} /\ wfd[t] = f
WorkerHolds(t, f) == Handed(t, f) \/ Serving(t, f)

(* A descriptor in anybody's hands is open for what they hold it for, and  *)
(* it is in one thread's hands only: nobody reads, answers or closes       *)
(* another thread's client or directory, although numbers are reused as    *)
(* soon as they are closed and slots still show the old number then (lines *)
(* 102-104).                                                               *)
OneHolder ==
  \A f \in Fds :
    /\ \A t \in Threads : WorkerHolds(t, f) => sock[f] \in Clients /\ ~MainHolds(f)
    /\ MainHolds(f) => sock[f] \in Clients
    /\ \A t \in Threads : dir[t] = f => f \in dirs
    /\ f \in dirs => sock[f] = NoClient
    /\ \A t, u \in Threads : WorkerHolds(t, f) /\ WorkerHolds(u, f) => t = u
    /\ \A t, u \in Threads : dir[t] = f /\ dir[u] = f => t = u

(* Every open descriptor is in somebody's hands: none leaks.               *)
NoDescriptorLeak ==
  \A f \in Fds :
    /\ sock[f] \in Clients => MainHolds(f) \/ \E t \in Threads : WorkerHolds(t, f)
    /\ f \in dirs => \E t \in Threads : dir[t] = f /\ wpc[t] = "serve"

(* The handover through the polled fields loses nothing: main stores only  *)
(* into a slot whose previous client is finished with, and a worker clears *)
(* only a descriptor it has closed itself.                                 *)
HandoverKept ==
  [][\A t \in Threads :
       client_fd'[t] # client_fd[t] =>
         \/ client_fd[t] = NoFd /\ wpc[t] \in {"poll", "poll_fd"} /\ busy[t]
         \/ client_fd'[t] = NoFd /\ wpc[t] = "clear_fd" /\ wfd[t] = client_fd[t]]_vars

(* A client reads exactly the answers to its own paths, in the order it    *)
(* sent them, and all of them before the end of the connection, unless its *)
(* request was refused: then it gets none.                                 *)
AnsweredInFull ==
  \A c \in Clients :
    /\ \A i \in DOMAIN replies[c] : replies[c][i] = <<c, i>>
    /\ cst[c] = "done" => Len(replies[c]) = IF c \in rejected THEN 0 ELSE PathCount[c]
    /\ c \in rejected => c \in Misbehaving

(* A slot that serves nobody any more: its thread returned, or accept's -1 *)
(* was left in it while it is marked busy.                                 *)
Lost(t) ==
  \/ wpc[t] = "dead"
  \/ /\ busy[t] /\ client_fd[t] = NoFd /\ wpc[t] \in {"poll", "poll_fd"}
     /\ ~(mpc \in {"accept", "store"} /\ slot = t)
LostSlots == {t \in Threads : Lost(t)}

(* Two descriptors for each thread but the one whose slot main fills.      *)
EnoughFds == Cardinality(Fds) + 1 >= 2 * ThreadCount

(* The pool shrinks for good with every refused request and every failed   *)
(* accept, and with nothing else: with two descriptors for each thread but *)
(* one, for its connection and a directory, accept() does not fail, and no *)
(* more slots are lost than clients misbehaved.                            *)
CapacityAccounted ==
  EnoughFds =>
    Cardinality(LostSlots) <= Cardinality({c \in Misbehaving : c \in closed})

(* The server implements the connection service.                           *)
Open == {sock[f] : f \in Fds} \ {NoClient}
Service == INSTANCE ConnectionService
             WITH Capacity <- ThreadCount, waiting <- backlog,
                  active <- Open, finished <- closed
ServiceSpec == Service!Spec

(* While there are descriptors enough and more threads than misbehaving    *)
(* clients, every other client is served in the end, however many slots    *)
(* were lost or are held by silent clients, unless SIGPIPE ends the        *)
(* process.  With fewer descriptors this holds as long as nobody           *)
(* misbehaves: the slot that keeps accept() from succeeding comes back.    *)
Manageable ==
  \/ EnoughFds /\ Cardinality(Misbehaving) < ThreadCount
  \/ Fds # {} /\ Misbehaving = {} /\ ThreadCount > 0

PoliteServed ==
  Manageable => \A c \in Polite : <>(killed \/ cst[c] = "done")
=============================================================================
