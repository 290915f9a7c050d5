-------------------------- MODULE PoolServerProofs --------------------------
(***************************************************************************)
(* Proofs about PoolServer, for any number of threads, clients, paths and  *)
(* descriptors: type correctness, exclusive ownership of descriptors, no   *)
(* descriptor leak, the safety of the handover through polled fields, what *)
(* the clients get, how many slots are lost, and that the server           *)
(* implements the connection service.                                      *)
(***************************************************************************)
EXTENDS PoolServer, SequenceTheorems, FiniteSetTheorems, TLAPS

(* The inductive invariant.  Not even types are inductive alone: that a    *)
(* worker answers a client, and not the peer of a closed descriptor,       *)
(* follows from the ownership of descriptors, and this from the protocol.  *)
ConnectionHeld ==
  \A f \in Fds :
    /\ \A t \in Threads : WorkerHolds(t, f) => sock[f] \in Clients /\ ~MainHolds(f)
    /\ MainHolds(f) => sock[f] \in Clients
    /\ \A t, u \in Threads : WorkerHolds(t, f) /\ WorkerHolds(u, f) => t = u

ConnectionKept ==
  \A f \in Fds :
    sock[f] \in Clients => MainHolds(f) \/ \E t \in Threads : WorkerHolds(t, f)

(* An open directory belongs to one worker that is serving a path, and its *)
(* descriptor is no connection.                                            *)
DirInv ==
  /\ \A t \in Threads :
       dir[t] \in Fds => dir[t] \in dirs /\ InRound(t)
  /\ \A f \in dirs : sock[f] = NoClient /\ \E t \in Threads : dir[t] = f
  /\ \A t, u \in Threads : dir[t] \in Fds /\ dir[u] = dir[t] => t = u

IInv == TypeOK /\ SlotProtocol /\ ConnectionHeld /\ ConnectionKept /\ DirInv

(* The invariant holds initially: all slots are empty, no descriptor open. *)
LEMMA InitInv == Init => IInv
<1> SUFFICES ASSUME Init PROVE IInv
  OBVIOUS
<1> USE PoolAssumption DEF Init, Threads
<1>1. /\ backlog \in Seq(Clients)
      /\ replies \in [Clients -> Seq(Clients \X (Nat \ {0}))]
  BY EmptySeq
<1>2. TypeOK
  <2>1. /\ wpc \in [Threads -> {"poll", "poll_fd", "take", "read", "drop", "dead",
                                "serve", "clear_fd", "clear_busy"}]
        /\ cst \in [Clients -> {"start", "open", "done", "gone"}]
        /\ \A t \in Threads : wpc[t] # "serve"
    OBVIOUS
  <2>2. slot \in 0 .. ThreadCount /\ next \in [Threads -> Nat \ {0}]
    OBVIOUS
  <2>3. /\ busy \in [Threads -> BOOLEAN] /\ killed \in BOOLEAN
        /\ client_fd \in [Threads -> Fds \cup {NoFd}]
        /\ wfd \in [Threads -> Fds \cup {NoFd}]
        /\ request \in [Threads -> Clients \cup {NoClient}]
        /\ sock \in [Fds -> Clients \cup {NoClient}] /\ dirs \subseteq Fds
        /\ dir \in [Threads -> Fds \cup {NoFd}]
    OBVIOUS
  <2>4. sent \in [Clients -> Nat] /\ closed \subseteq Clients /\ rejected \subseteq Clients
    OBVIOUS
  <2> QED
    BY <1>1, <2>1, <2>2, <2>3, <2>4 DEF TypeOK
<1>3. SlotProtocol
  BY DEF SlotProtocol
<1>4. ConnectionHeld /\ ConnectionKept
  BY DEF ConnectionHeld, ConnectionKept, MainHolds, WorkerHolds, Handed, Serving
<1>5. DirInv
  BY DEF DirInv
<1> QED
  BY <1>2, <1>3, <1>4, <1>5 DEF IInv

(* The peer of a worker between its copy of the descriptor and its close   *)
(* is a client: the descriptor is still open.                              *)
LEMMA PeerIsClient ==
  ASSUME IInv, NEW t \in Threads, wpc[t] \in {"read", "drop", "serve"}
  PROVE  wfd[t] \in Fds /\ Peer(t) \in Clients
<1>1. wfd[t] \in Fds
  BY DEF IInv, SlotProtocol
<1>2. WorkerHolds(t, wfd[t])
  BY DEF WorkerHolds, Serving
<1> QED
  BY <1>1, <1>2 DEF IInv, ConnectionHeld, Peer

(* The head of the backlog is a client, and the rest a backlog again.      *)
LEMMA BacklogHead ==
  ASSUME TypeOK, backlog # <<>>
  PROVE  Head(backlog) \in Clients /\ Tail(backlog) \in Seq(Clients)
  BY HeadTailProperties DEF TypeOK

(* Every step keeps every variable in its range.                           *)
LEMMA TypeStep == IInv /\ [Next]_vars => TypeOK'
<1> SUFFICES ASSUME IInv, [Next]_vars PROVE TypeOK'
  OBVIOUS
<1>0. TypeOK
  BY DEF IInv
<1> USE PoolAssumption
    DEF Threads, vars, slots, mainVars, workerVars, rounds, envVars, netVars,
        clientVars, outcome
<1>1. CASE ScanSlot
  BY <1>0, <1>1 DEF ScanSlot, TypeOK
<1>2. CASE NoFreeThread
  BY <1>0, <1>2 DEF NoFreeThread, TypeOK
<1>3. CASE Claim
  BY <1>0, <1>3 DEF Claim, TypeOK
<1>4. CASE AcceptClient
  <2>1. /\ Head(backlog) \in Clients /\ backlog' = Tail(backlog)
        /\ Tail(backlog) \in Seq(Clients)
    BY <1>0, <1>4, BacklogHead DEF AcceptClient
  <2>2. PICK f \in Fds : /\ accepted' = f
                         /\ sock' = [sock EXCEPT ![f] = Head(backlog)]
    BY <1>4 DEF AcceptClient, FreeFds
  <2> QED
    BY <1>0, <1>4, <2>1, <2>2 DEF AcceptClient, TypeOK
<1>5. CASE AcceptNoDescriptor
  BY <1>0, <1>5 DEF AcceptNoDescriptor, TypeOK
<1>6. CASE AcceptAborted
  BY <1>0, <1>6, BacklogHead DEF AcceptAborted, TypeOK
<1>7. CASE Store
  BY <1>0, <1>7 DEF Store, TypeOK
<1>8. CASE Sleep
  BY <1>0, <1>8 DEF Sleep, TypeOK
<1>9. ASSUME NEW t \in Threads, Worker(t) PROVE TypeOK'
  <2>1. CASE PollBusy(t)
    BY <1>0, <2>1 DEF PollBusy, TypeOK
  <2>2. CASE PollFd(t)
    BY <1>0, <2>2 DEF PollFd, TypeOK
  <2>3. CASE Take(t)
    BY <1>0, <2>3 DEF Take, TypeOK
  <2>4. CASE ReadRequest(t)
    <3>1. Peer(t) \in Clients
      BY <2>4, PeerIsClient DEF ReadRequest
    <3> QED
      BY <1>0, <2>4, <3>1 DEF ReadRequest, TypeOK
  <2>5. CASE RefuseRequest(t)
    <3>1. Peer(t) \in Clients
      BY <2>5, PeerIsClient DEF RefuseRequest
    <3> QED
      BY <1>0, <2>5, <3>1 DEF RefuseRequest, WriteTo, TypeOK
  <2>6. CASE DropClient(t)
    <3>1. wfd[t] \in Fds /\ sock[wfd[t]] \in Clients
      BY <2>6, PeerIsClient DEF DropClient, Peer
    <3> QED
      BY <1>0, <2>6, <3>1 DEF DropClient, Close, TypeOK
  <2>7. CASE OpenDirFails(t) \/ ListDir(t)
    <3> DEFINE answer == <<request[t], next[t]>>
    <3>0. InRound(t) /\ Answer(t)
      BY <2>7 DEF OpenDirFails, ListDir
    <3>1. Peer(t) \in Clients
      BY <3>0, PeerIsClient DEF InRound
    <3>2. answer \in Clients \X (Nat \ {0})
      BY <1>0, <3>0 DEF InRound, TypeOK
    <3>3. replies[Peer(t)] \in Seq(Clients \X (Nat \ {0}))
      BY <1>0, <3>1 DEF TypeOK
    <3>4. Append(replies[Peer(t)], answer) \in Seq(Clients \X (Nat \ {0}))
      BY <3>2, <3>3, AppendProperties
    <3>5. replies' \in [Clients -> Seq(Clients \X (Nat \ {0}))]
      BY <1>0, <3>0, <3>1, <3>4 DEF Answer, TypeOK
    <3>6. killed' \in BOOLEAN
      BY <1>0, <3>0 DEF Answer, WriteTo, TypeOK
    <3>7. next' \in [Threads -> Nat \ {0}]
      BY <1>0, <3>0 DEF Answer, TypeOK
    <3>8. UNCHANGED <<slots, mainVars, wpc, wfd, request, sock, backlog, closed, clientVars,
                     rejected>>
      BY <3>0 DEF Answer
    <3>9. dir' \in [Threads -> Fds \cup {NoFd}] /\ dirs' \subseteq Fds
      BY <1>0, <2>7 DEF OpenDirFails, ListDir, TypeOK
    <3> QED
      BY <1>0, <3>5, <3>6, <3>7, <3>8, <3>9 DEF TypeOK
  <2>11. CASE OpenDir(t)
    <3>1. PICK f \in Fds : dir' = [dir EXCEPT ![t] = f] /\ dirs' = dirs \cup {f}
      BY <2>11 DEF OpenDir, FreeFds
    <3> QED
      BY <1>0, <2>11, <3>1 DEF OpenDir, TypeOK
  <2>8. CASE CloseClient(t)
    <3>1. wfd[t] \in Fds /\ sock[wfd[t]] \in Clients
      BY <2>8, PeerIsClient DEF CloseClient, Peer
    <3> QED
      BY <1>0, <2>8, <3>1 DEF CloseClient, Close, TypeOK
  <2>9. CASE ClearFd(t)
    BY <1>0, <2>9 DEF ClearFd, TypeOK
  <2>10. CASE ClearBusy(t)
    BY <1>0, <2>10 DEF ClearBusy, NextRound, TypeOK
  <2> QED
    BY <1>9, <2>1, <2>2, <2>3, <2>4, <2>5, <2>6, <2>7, <2>8, <2>9, <2>10, <2>11
    DEF Worker
<1>10. ASSUME NEW c \in Clients, Client(c) \/ Quit(c) PROVE TypeOK'
  <2>1. CASE Connect(c)
    <3>1. Append(backlog, c) \in Seq(Clients)
      BY <1>0, AppendProperties DEF TypeOK
    <3> QED
      BY <1>0, <2>1, <3>1 DEF Connect, TypeOK
  <2>2. CASE SendLine(c)
    BY <1>0, <2>2 DEF SendLine, TypeOK
  <2>3. CASE ReadToEnd(c)
    BY <1>0, <2>3 DEF ReadToEnd, TypeOK
  <2>4. CASE Quit(c)
    BY <1>0, <2>4 DEF Quit, TypeOK
  <2> QED
    BY <1>10, <2>1, <2>2, <2>3, <2>4 DEF Client
<1>11. CASE UNCHANGED vars
  BY <1>0, <1>11 DEF TypeOK
<1> QED
  BY <1>1, <1>2, <1>3, <1>4, <1>5, <1>6, <1>7, <1>8, <1>9, <1>10, <1>11
  DEF Next, Main

(* Every step keeps the protocol of the polled fields.                     *)
LEMMA SlotStep == IInv /\ [Next]_vars => SlotProtocol'
<1> SUFFICES ASSUME IInv, [Next]_vars PROVE SlotProtocol'
  OBVIOUS
<1>0. TypeOK /\ SlotProtocol
  BY DEF IInv
<1> USE PoolAssumption
    DEF TypeOK, Threads, vars, slots, mainVars, workerVars, rounds, envVars
<1>1. CASE ScanSlot
  BY <1>0, <1>1 DEF ScanSlot, SlotProtocol
<1>2. CASE NoFreeThread
  BY <1>0, <1>2 DEF NoFreeThread, SlotProtocol
<1>3. CASE Claim
  BY <1>0, <1>3 DEF Claim, SlotProtocol
<1>4. CASE AcceptClient \/ AcceptNoDescriptor \/ AcceptAborted
  <2>1. /\ mpc = "accept" /\ mpc' = "store"
        /\ UNCHANGED <<busy, client_fd, slot, wpc, wfd>>
    BY <1>4 DEF AcceptClient, AcceptNoDescriptor, AcceptAborted
  <2> QED
    BY <1>0, <2>1 DEF SlotProtocol
<1>5. CASE Store
  BY <1>0, <1>5 DEF Store, SlotProtocol
<1>6. CASE Sleep
  BY <1>0, <1>6 DEF Sleep, SlotProtocol
<1>7. ASSUME NEW t \in Threads, Worker(t) PROVE SlotProtocol'
  <2>1. CASE PollBusy(t)
    BY <1>0, <2>1 DEF PollBusy, SlotProtocol
  <2>2. CASE PollFd(t)
    BY <1>0, <2>2 DEF PollFd, SlotProtocol
  <2>3. CASE Take(t)
    BY <1>0, <2>3 DEF Take, SlotProtocol
  <2>4. CASE ReadRequest(t)
    <3>1. /\ wpc[t] = "read" /\ wpc' = [wpc EXCEPT ![t] = "serve"]
          /\ UNCHANGED <<busy, client_fd, mpc, slot, wfd>>
      BY <2>4 DEF ReadRequest
    <3> QED
      BY <1>0, <3>1 DEF SlotProtocol
  <2>5. CASE RefuseRequest(t)
    BY <1>0, <2>5 DEF RefuseRequest, SlotProtocol
  <2>6. CASE DropClient(t)
    BY <1>0, <2>6 DEF DropClient, SlotProtocol
  <2>7. CASE OpenDir(t) \/ OpenDirFails(t) \/ ListDir(t)
    <3>1. UNCHANGED <<slots, mainVars, wpc, wfd>>
      BY <2>7 DEF OpenDir, OpenDirFails, ListDir, Answer
    <3> QED
      BY <1>0, <3>1 DEF SlotProtocol
  <2>8. CASE CloseClient(t)
    BY <1>0, <2>8 DEF CloseClient, SlotProtocol
  <2>9. CASE ClearFd(t)
    BY <1>0, <2>9 DEF ClearFd, SlotProtocol
  <2>10. CASE ClearBusy(t)
    BY <1>0, <2>10 DEF ClearBusy, NextRound, SlotProtocol
  <2> QED
    BY <1>7, <2>1, <2>2, <2>3, <2>4, <2>5, <2>6, <2>7, <2>8, <2>9, <2>10
    DEF Worker
<1>8. ASSUME NEW c \in Clients, Client(c) \/ Quit(c) PROVE SlotProtocol'
  BY <1>0, <1>8 DEF Client, Connect, SendLine, ReadToEnd, Quit, SlotProtocol
<1>9. CASE UNCHANGED vars
  BY <1>0, <1>9 DEF SlotProtocol
<1> QED
  BY <1>1, <1>2, <1>3, <1>4, <1>5, <1>6, <1>7, <1>8, <1>9 DEF Next, Main

(* A step after which everybody holds what they held keeps ownership.      *)
LEMMA SameHolders ==
  ASSUME ConnectionHeld, ConnectionKept, sock' = sock,
         \A f \in Fds : MainHolds(f)' <=> MainHolds(f),
         \A t \in Threads, f \in Fds : WorkerHolds(t, f)' <=> WorkerHolds(t, f)
  PROVE  ConnectionHeld' /\ ConnectionKept'
  BY DEF ConnectionHeld, ConnectionKept, Threads

(* A close takes the descriptor out of the only hands it was in.           *)
LEMMA ClosingStep ==
  ASSUME ConnectionHeld, ConnectionKept, sock \in [Fds -> Clients \cup {NoClient}],
         NEW t \in Threads, NEW g \in Fds, WorkerHolds(t, g), Close(g),
         \A f \in Fds : MainHolds(f)' <=> MainHolds(f),
         \A u \in Threads, f \in Fds :
           WorkerHolds(u, f)' <=> WorkerHolds(u, f) /\ ~(u = t /\ f = g)
  PROVE  ConnectionHeld' /\ ConnectionKept'
  BY PoolAssumption DEF ConnectionHeld, ConnectionKept, Close, Threads

(* Every step keeps ownership exclusive and leaks no descriptor.  Only     *)
(* accept opens one, into main's hands, and Store hands it over.           *)
LEMMA HolderStep == IInv /\ [Next]_vars => ConnectionHeld' /\ ConnectionKept'
<1> SUFFICES ASSUME IInv, [Next]_vars PROVE ConnectionHeld' /\ ConnectionKept'
  OBVIOUS
<1>0. SlotProtocol /\ ConnectionHeld /\ ConnectionKept
  BY DEF IInv
<1>t. /\ client_fd \in [Threads -> Fds \cup {NoFd}]
      /\ wpc \in [Threads -> {"poll", "poll_fd", "take", "read", "drop", "dead",
                              "serve", "clear_fd", "clear_busy"}]
      /\ wfd \in [Threads -> Fds \cup {NoFd}]
      /\ sock \in [Fds -> Clients \cup {NoClient}]
      /\ accepted \in Fds \cup {NoFd}
      /\ mpc = "store" => slot \in Threads
  BY PoolAssumption DEF IInv, TypeOK, Threads
<1> USE DEF vars, slots, mainVars, workerVars, rounds, envVars, netVars
<1>1. ASSUME ScanSlot \/ NoFreeThread \/ Claim \/ Sleep
      PROVE  ConnectionHeld' /\ ConnectionKept'
  BY <1>0, <1>1, SameHolders
  DEF ScanSlot, NoFreeThread, Claim, Sleep, MainHolds, WorkerHolds, Handed, Serving
<1>2. ASSUME AcceptClient PROVE ConnectionHeld' /\ ConnectionKept'
  <2>1. PICK g \in Fds : /\ sock[g] = NoClient /\ accepted' = g
                         /\ sock' = [sock EXCEPT ![g] = Head(backlog)]
    BY <1>2 DEF AcceptClient, FreeFds
  <2>2. Head(backlog) \in Clients
    BY <1>2, BacklogHead DEF AcceptClient, IInv
  <2>3. /\ \A f \in Fds : ~MainHolds(f) /\ (MainHolds(f)' <=> f = g)
        /\ \A t \in Threads, f \in Fds : WorkerHolds(t, f)' <=> WorkerHolds(t, f)
    BY <1>2, <2>1 DEF AcceptClient, MainHolds, WorkerHolds, Handed, Serving
  <2>4. \A t \in Threads : ~WorkerHolds(t, g)
    BY <1>0, <2>1, PoolAssumption DEF ConnectionHeld
  <2> QED
    BY <1>0, <1>t, <2>1, <2>2, <2>3, <2>4 DEF ConnectionHeld, ConnectionKept, Threads
<1>3. ASSUME AcceptNoDescriptor \/ AcceptAborted
      PROVE  ConnectionHeld' /\ ConnectionKept'
  BY <1>0, <1>3, SameHolders, PoolAssumption
  DEF AcceptNoDescriptor, AcceptAborted, MainHolds, WorkerHolds, Handed, Serving
<1>4. ASSUME Store PROVE ConnectionHeld' /\ ConnectionKept'
  <2>1. slot \in Threads /\ client_fd[slot] = NoFd /\ wpc[slot] \in {"poll", "poll_fd"}
    BY <1>0, <1>t, <1>4 DEF Store, SlotProtocol
  <2>2. \A f \in Fds : ~MainHolds(f)'
    BY <1>4 DEF Store, MainHolds
  <2>3. \A t \in Threads, f \in Fds :
          WorkerHolds(t, f)' <=> WorkerHolds(t, f) \/ (t = slot /\ MainHolds(f))
    BY <1>t, <1>4, <2>1, PoolAssumption
    DEF Store, MainHolds, WorkerHolds, Handed, Serving
  <2>4. sock' = sock /\ \A f, g \in Fds : MainHolds(f) /\ MainHolds(g) => f = g
    BY <1>4 DEF Store, MainHolds
  <2> QED
    BY <1>0, <2>1, <2>2, <2>3, <2>4 DEF ConnectionHeld, ConnectionKept, Threads
<1>5. ASSUME NEW t \in Threads, Worker(t) PROVE ConnectionHeld' /\ ConnectionKept'
  <2> USE DEF MainHolds, WorkerHolds, Handed, Serving
  <2>1. CASE PollBusy(t) \/ ReadRequest(t) \/ RefuseRequest(t)
    BY <1>0, <1>t, <2>1, SameHolders
    DEF PollBusy, ReadRequest, RefuseRequest
  <2>8. CASE OpenDir(t) \/ OpenDirFails(t) \/ ListDir(t)
    <3>1. UNCHANGED <<slots, mainVars, wpc, wfd, sock>>
      BY <2>8 DEF OpenDir, OpenDirFails, ListDir, Answer
    <3> QED
      BY <1>0, <3>1, SameHolders
  <2>2. CASE PollFd(t)
    BY <1>0, <1>t, <2>2, SameHolders DEF PollFd
  <2>3. CASE Take(t)
    BY <1>0, <1>t, <2>3, SameHolders DEF Take
  <2>4. CASE DropClient(t)
    <3>1. wfd[t] \in Fds
      BY <1>0, <2>4 DEF SlotProtocol, DropClient
    <3> QED
      BY <1>0, <1>t, <2>4, <3>1, ClosingStep DEF DropClient
  <2>5. CASE CloseClient(t)
    <3>1. wfd[t] \in Fds
      BY <1>0, <2>5 DEF SlotProtocol, CloseClient
    <3> QED
      BY <1>0, <1>t, <2>5, <3>1, ClosingStep DEF CloseClient
  <2>6. CASE ClearFd(t)
    BY <1>0, <1>t, <2>6, SameHolders DEF ClearFd
  <2>7. CASE ClearBusy(t)
    BY <1>0, <1>t, <2>7, SameHolders, PoolAssumption DEF ClearBusy, NextRound, SlotProtocol
  <2> QED
    BY <1>5, <2>1, <2>2, <2>3, <2>4, <2>5, <2>6, <2>7, <2>8 DEF Worker
<1>6. ASSUME NEW c \in Clients, Client(c) \/ Quit(c)
      PROVE  ConnectionHeld' /\ ConnectionKept'
  BY <1>0, <1>6, SameHolders
  DEF Client, Connect, SendLine, ReadToEnd, Quit, MainHolds, WorkerHolds,
      Handed, Serving
<1>7. ASSUME UNCHANGED vars PROVE ConnectionHeld' /\ ConnectionKept'
  BY <1>0, <1>7, SameHolders DEF MainHolds, WorkerHolds, Handed, Serving
<1> QED
  BY <1>1, <1>2, <1>3, <1>4, <1>5, <1>6, <1>7 DEF Next, Main

(* Every step keeps the directories: only opendir() opens one, with a      *)
(* descriptor nobody has, and the worker that opened it closes it.         *)
LEMMA DirStep == IInv /\ [Next]_vars => DirInv'
<1> SUFFICES ASSUME IInv, [Next]_vars PROVE DirInv'
  OBVIOUS
<1>0. DirInv /\ \A t \in Threads : dir[t] \in Fds => wpc[t] = "serve"
  BY DEF IInv, DirInv, InRound
<1>t. /\ wpc \in [Threads -> {"poll", "poll_fd", "take", "read", "drop", "dead",
                              "serve", "clear_fd", "clear_busy"}]
      /\ request \in [Threads -> Clients \cup {NoClient}] /\ next \in [Threads -> Nat \ {0}]
      /\ dir \in [Threads -> Fds \cup {NoFd}] /\ dirs \subseteq Fds
      /\ sock \in [Fds -> Clients \cup {NoClient}] /\ NoFd \notin Fds
      /\ \A t \in Threads : wpc[t] = "serve" => request[t] \in Clients
  BY PoolAssumption DEF IInv, TypeOK
<1> USE DEF vars, slots, mainVars, workerVars, rounds, envVars, netVars, outcome, clientVars
<1>1. ASSUME UNCHANGED <<dir, dirs, sock>>,
             \A t \in Threads : InRound(t) /\ dir[t] \in Fds => InRound(t)'
      PROVE  DirInv'
  BY <1>0, <1>1 DEF DirInv, Threads
<1>2. CASE UNCHANGED <<dir, dirs, sock, wpc, next, request>>
  BY <1>1, <1>2 DEF InRound
<1>3. CASE AcceptClient
  <2>1. PICK g \in Fds \ dirs : sock' = [sock EXCEPT ![g] = Head(backlog)]
    BY <1>3 DEF AcceptClient, FreeFds
  <2>2. UNCHANGED <<dir, dirs, wpc, next, request>>
    BY <1>3 DEF AcceptClient
  <2>3. \A t \in Threads : InRound(t)' <=> InRound(t)
    BY <2>2 DEF InRound
  <2>4. \A f \in dirs : sock'[f] = sock[f]
    BY <1>t, <2>1
  <2> QED
    BY <1>0, <2>2, <2>3, <2>4 DEF DirInv, Threads
<1>4. CASE ScanSlot \/ NoFreeThread \/ Claim \/ AcceptNoDescriptor \/ AcceptAborted \/ Store
           \/ Sleep
  BY <1>2, <1>4
  DEF ScanSlot, NoFreeThread, Claim, AcceptNoDescriptor, AcceptAborted, Store, Sleep
<1>5. ASSUME NEW c \in Clients, Client(c) \/ Quit(c) PROVE DirInv'
  BY <1>2, <1>5 DEF Client, Connect, SendLine, ReadToEnd, Quit
<1>6. ASSUME NEW t \in Threads, Worker(t) PROVE DirInv'
  <2>1. CASE PollBusy(t) \/ PollFd(t) \/ Take(t) \/ ReadRequest(t) \/ RefuseRequest(t)
             \/ ClearFd(t) \/ ClearBusy(t)
    <3>1. UNCHANGED <<dir, dirs, sock>> /\ wpc[t] # "serve"
      BY <2>1 DEF PollBusy, PollFd, Take, ReadRequest, RefuseRequest, ClearFd, ClearBusy,
                  NextRound
    <3>2. \A u \in Threads \ {t} : /\ wpc'[u] = wpc[u] /\ next'[u] = next[u]
                                    /\ request'[u] = request[u]
      BY <1>t, <2>1 DEF PollBusy, PollFd, Take, ReadRequest, RefuseRequest, ClearFd, ClearBusy,
                        NextRound
    <3> QED
      BY <1>1, <3>1, <3>2 DEF InRound
  <2>2. CASE DropClient(t) \/ CloseClient(t)
    <3>1. dir[t] \notin Fds
      BY <1>0, <1>t, <2>2, PoolAssumption DEF DropClient, CloseClient, DirInv, InRound
    <3>2. /\ UNCHANGED <<dir, dirs, next, request>> /\ sock' = [sock EXCEPT ![wfd[t]] = NoClient]
          /\ \A u \in Threads \ {t} : wpc'[u] = wpc[u]
      BY <1>t, <2>2 DEF DropClient, CloseClient, Close
    <3>3. \A u \in Threads : dir[u] \in Fds /\ InRound(u) => InRound(u)'
      BY <3>1, <3>2 DEF InRound
    <3>4. \A f \in dirs : sock[f] = NoClient => sock'[f] = NoClient
      BY <1>t, <3>2
    <3> QED
      BY <1>0, <3>2, <3>3, <3>4 DEF DirInv, Threads
  <2>3. CASE OpenDir(t)
    <3>1. PICK g \in Fds \ dirs : /\ sock[g] = NoClient /\ dir' = [dir EXCEPT ![t] = g]
                                  /\ dirs' = dirs \cup {g}
      BY <2>3 DEF OpenDir, FreeFds
    <3>2. UNCHANGED <<sock, wpc, next, request>> /\ InRound(t) /\ dir[t] = NoFd
      BY <2>3 DEF OpenDir
    <3>3. \A u \in Threads : InRound(u)' <=> InRound(u)
      BY <3>2 DEF InRound
    <3>4. \A u \in Threads : dir'[u] = IF u = t THEN g ELSE dir[u]
      BY <1>t, <3>1
    <3>5. \A u \in Threads : dir[u] # g
      BY <1>0, <3>1 DEF DirInv
    <3>6. \A f \in dirs : f # g /\ \E u \in Threads \ {t} : dir[u] = f
      BY <1>0, <1>t, <3>1, <3>2 DEF DirInv
    <3> QED
      BY <1>0, <3>1, <3>2, <3>3, <3>4, <3>5, <3>6 DEF DirInv, Threads
  <2>4. CASE OpenDirFails(t)
    <3>1. UNCHANGED <<dir, dirs, sock, wpc, request>> /\ dir[t] = NoFd
      BY <2>4 DEF OpenDirFails, Answer
    <3>2. \A u \in Threads \ {t} : next'[u] = next[u]
      BY <1>t, <2>4 DEF OpenDirFails, Answer
    <3> QED
      BY <1>1, <1>t, <3>1, <3>2 DEF InRound
  <2>5. CASE ListDir(t)
    <3>1. /\ UNCHANGED <<sock, wpc, request>> /\ dirs' = dirs \ {dir[t]} /\ dir[t] \in Fds
          /\ \A u \in Threads : dir'[u] = IF u = t THEN NoFd ELSE dir[u]
      BY <1>t, <2>5 DEF ListDir, Answer
    <3>2. \A u \in Threads \ {t} : next'[u] = next[u]
      BY <1>t, <2>5 DEF ListDir, Answer
    <3>3. \A u \in Threads \ {t} : InRound(u)' <=> InRound(u)
      BY <3>1, <3>2 DEF InRound
    <3>4. \A u \in Threads \ {t} : dir[u] # dir[t]
      BY <1>0, <3>1 DEF DirInv
    <3>5. ASSUME NEW u \in Threads, dir'[u] \in Fds
          PROVE  u # t /\ dir'[u] = dir[u] /\ dir'[u] \in dirs' /\ InRound(u)'
      BY <1>0, <1>t, <3>1, <3>3, <3>4, <3>5 DEF DirInv
    <3>6. ASSUME NEW f \in dirs' PROVE sock[f] = NoClient /\ \E u \in Threads : dir'[u] = f
      BY <1>0, <3>1, <3>6 DEF DirInv
    <3> QED
      BY <1>0, <3>1, <3>5, <3>6 DEF DirInv, Threads
  <2> QED
    BY <1>6, <2>1, <2>2, <2>3, <2>4, <2>5 DEF Worker
<1> QED
  BY <1>2, <1>3, <1>4, <1>5, <1>6 DEF Next, Main

(* The inductive invariant holds in every reachable state.                 *)
THEOREM Invariance == Spec => []IInv
<1>1. IInv /\ [Next]_vars => IInv'
  BY TypeStep, SlotStep, HolderStep, DirStep DEF IInv
<1> QED
  BY InitInv, <1>1, PTL DEF Spec

(* Type correctness, for every size of the pool.                           *)
THEOREM TypeCorrect == Spec => []TypeOK
  BY Invariance, PTL DEF IInv

(* The protocol of the polled fields busy and client_fd.                   *)
THEOREM ProtocolCorrect == Spec => []SlotProtocol
  BY Invariance, PTL DEF IInv

(* No descriptor is ever in two threads' hands, nor used after its close,  *)
(* whether it is a connection or a directory.                              *)
THEOREM ExclusiveDescriptors == Spec => []OneHolder
<1>1. IInv => OneHolder
  BY PoolAssumption DEF IInv, ConnectionHeld, DirInv, OneHolder
<1> QED
  BY <1>1, Invariance, PTL

(* Every open descriptor has a thread that will close it.                  *)
THEOREM NoLeak == Spec => []NoDescriptorLeak
<1>1. IInv => NoDescriptorLeak
  BY DEF IInv, ConnectionKept, DirInv, InRound, NoDescriptorLeak
<1> QED
  BY <1>1, Invariance, PTL

(* Main never overwrites a descriptor that is still to be served, and no   *)
(* worker clears one that is not its own (lines 103 and 174).              *)
THEOREM HandoverSafe == Spec => HandoverKept
<1> DEFINE Kept ==
      \A t \in Threads :
        client_fd'[t] # client_fd[t] =>
          \/ client_fd[t] = NoFd /\ wpc[t] \in {"poll", "poll_fd"} /\ busy[t]
          \/ client_fd'[t] = NoFd /\ wpc[t] = "clear_fd" /\ wfd[t] = client_fd[t]
<1>1. ASSUME IInv, [Next]_vars PROVE Kept
  <2>0. TypeOK /\ SlotProtocol
    BY <1>1 DEF IInv
  <2> USE PoolAssumption
      DEF TypeOK, SlotProtocol, Threads, vars, slots, mainVars, workerVars, rounds
  <2>1. CASE Store
    BY <2>0, <2>1 DEF Store
  <2>2. ASSUME NEW u \in Threads, ClearFd(u) PROVE Kept
    BY <2>0, <2>2 DEF ClearFd
  <2>3. client_fd' = client_fd => Kept
    OBVIOUS
  <2> QED
    BY <1>1, <2>1, <2>2, <2>3
    DEF Next, Main, ScanSlot, NoFreeThread, Claim, AcceptClient,
        AcceptNoDescriptor, AcceptAborted, Sleep, Worker, PollBusy, PollFd,
        Take, ReadRequest, RefuseRequest, DropClient, OpenDir, OpenDirFails, ListDir,
        Answer, CloseClient, ClearBusy, Client, Connect, SendLine, ReadToEnd, Quit
<1>2. IInv /\ [Next]_vars => [Kept]_vars
  BY <1>1
<1> QED
  BY Invariance, <1>2, PTL DEF Spec, HandoverKept

-----------------------------------------------------------------------------
(* A connection is in one place: in the queue once, or behind one open     *)
(* descriptor, or closed; and nobody is there before connecting.           *)
PlaceInv ==
  /\ \A i \in DOMAIN backlog :
       /\ cst[backlog[i]] # "start" /\ backlog[i] \notin closed
       /\ \A f \in Fds : sock[f] # backlog[i]
       /\ \A j \in DOMAIN backlog : backlog[j] = backlog[i] => j = i
  /\ \A f \in Fds : sock[f] \in Clients =>
       /\ cst[sock[f]] # "start" /\ sock[f] \notin closed
       /\ \A g \in Fds : sock[g] = sock[f] => g = f
  /\ \A c \in closed : cst[c] # "start"

(* Nothing was written to a client whose request nobody has read.          *)
Untouched(c) == c \notin rejected /\ replies[c] = <<>>
Settling(t) == wpc[t] \in {"serve", "drop"}

UntouchedInv ==
  /\ \A c \in Clients : cst[c] = "start" => Untouched(c)
  /\ \A i \in DOMAIN backlog : Untouched(backlog[i])
  /\ \A f \in Fds :
       sock[f] \in Clients /\ (\A t \in Threads : Settling(t) => wfd[t] # f) =>
         Untouched(sock[f])

(* A worker answers the client whose request it read, and is as far as the *)
(* client's answers are.                                                   *)
ServeInv ==
  \A t \in Threads :
    /\ wpc[t] \in {"poll", "poll_fd", "take", "read"} => next[t] = 1
    /\ wpc[t] = "serve" =>
         /\ request[t] = Peer(t) /\ Peer(t) \notin rejected
         /\ next[t] = Len(replies[Peer(t)]) + 1
         /\ next[t] <= PathCount[Peer(t)] + 1
    /\ wpc[t] = "drop" => Peer(t) \in rejected

AnswerInv ==
  /\ \A c \in Clients :
       /\ \A i \in DOMAIN replies[c] : replies[c][i] = <<c, i>>
       /\ Gone(c) => c \in Quitters
       /\ cst[c] = "done" => c \in closed
  /\ \A c \in rejected : c \in Misbehaving /\ replies[c] = <<>>
  /\ \A c \in closed : Gone(c) \/ c \in rejected \/ Len(replies[c]) = PathCount[c]

(* Lost slots are paid for by misbehaving clients, one each; the slot that *)
(* is about to get a -1 is paid for already.                               *)
BadAccept == IF mpc = "store" /\ accepted = NoFd THEN 1 ELSE 0
Paid == Misbehaving \cap closed
CapacityInv ==
  /\ IsFiniteSet(closed)
  /\ EnoughFds => Cardinality(LostSlots) + BadAccept <= Cardinality(Paid)

ClientInv == PlaceInv /\ UntouchedInv /\ ServeInv /\ AnswerInv
FullInv == IInv /\ ClientInv /\ CapacityInv

(* Nobody has connected at first, and no slot is lost.                     *)
LEMMA ServiceInit == Init => ClientInv /\ CapacityInv
<1> SUFFICES ASSUME Init PROVE ClientInv /\ CapacityInv
  OBVIOUS
<1> USE PoolAssumption DEF Init
<1>1. PlaceInv
  BY DEF PlaceInv
<1>2. UntouchedInv
  BY DEF UntouchedInv, Untouched
<1>3. ServeInv
  BY DEF ServeInv
<1>4. AnswerInv
  BY DEF AnswerInv, Gone
<1>5. CapacityInv
  <2>1. LostSlots = {} /\ Paid = {} /\ BadAccept = 0
    BY DEF LostSlots, Lost, Paid, BadAccept
  <2> QED
    BY <2>1, FS_EmptySet DEF CapacityInv
<1> QED
  BY <1>1, <1>2, <1>3, <1>4, <1>5 DEF ClientInv

(* The types the following proofs use.                                     *)
LEMMA ServiceTypes ==
  ASSUME IInv
  PROVE  /\ sock \in [Fds -> Clients \cup {NoClient}] /\ backlog \in Seq(Clients)
         /\ wfd \in [Threads -> Fds \cup {NoFd}] /\ next \in [Threads -> Nat \ {0}]
         /\ request \in [Threads -> Clients \cup {NoClient}]
         /\ cst \in [Clients -> {"start", "open", "done", "gone"}]
         /\ wpc \in [Threads -> {"poll", "poll_fd", "take", "read", "drop", "dead",
                                 "serve", "clear_fd", "clear_busy"}]
         /\ replies \in [Clients -> Seq(Clients \X (Nat \ {0}))]
         /\ closed \subseteq Clients /\ rejected \subseteq Clients
         /\ NoClient \notin Clients
  BY PoolAssumption DEF IInv, TypeOK

(* Two workers with a client each have different clients, and what has     *)
(* another client has another peer.                                        *)
LEMMA PeersDiffer ==
  ASSUME IInv, PlaceInv, NEW t \in Threads, wpc[t] \in {"read", "drop", "serve"}
  PROVE  /\ \A u \in Threads \ {t} :
              wpc[u] \in {"read", "drop", "serve"} => wfd[u] # wfd[t] /\ Peer(u) # Peer(t)
         /\ \A f \in Fds \ {wfd[t]} : sock[f] # Peer(t)
         /\ \A i \in DOMAIN backlog : backlog[i] # Peer(t)
         /\ Peer(t) \notin closed /\ cst[Peer(t)] # "start"
<1>1. wfd[t] \in Fds /\ Peer(t) \in Clients /\ Peer(t) = sock[wfd[t]]
  BY PeerIsClient DEF Peer
<1>2. \A f \in Fds \ {wfd[t]} : sock[f] # Peer(t)
  BY <1>1, ServiceTypes DEF PlaceInv
<1>3. ASSUME NEW u \in Threads \ {t}, wpc[u] \in {"read", "drop", "serve"}
      PROVE  wfd[u] # wfd[t] /\ Peer(u) # Peer(t)
  <2>1. wfd[u] \in Fds /\ Peer(u) = sock[wfd[u]]
    BY <1>3, PeerIsClient DEF Peer
  <2>2. wfd[u] # wfd[t]
    BY <1>1, <1>3, <2>1 DEF IInv, ConnectionHeld, WorkerHolds, Serving
  <2> QED
    BY <1>2, <2>1, <2>2
<1> QED
  BY <1>1, <1>2, <1>3 DEF PlaceInv

(* Nothing was written to the client of a worker that still reads.         *)
LEMMA ReaderUntouched ==
  ASSUME IInv, PlaceInv, UntouchedInv, NEW t \in Threads, wpc[t] = "read"
  PROVE  Untouched(Peer(t))
<1>1. wfd[t] \in Fds /\ Peer(t) \in Clients /\ Peer(t) = sock[wfd[t]]
  BY PeerIsClient DEF Peer
<1>2. \A u \in Threads : Settling(u) => wfd[u] # wfd[t]
  BY PeersDiffer DEF Settling
<1> QED
  BY <1>1, <1>2 DEF UntouchedInv

-----------------------------------------------------------------------------
(* A step that moves no connection, writes nothing and refuses nobody, and *)
(* in which no worker comes to serve or stops.                             *)
LEMMA QuietStep ==
  ASSUME FullInv, UNCHANGED <<sock, backlog, closed, replies, rejected>>,
         \A u \in Threads : /\ Settling(u)' <=> Settling(u)
                            /\ Settling(u) => /\ wpc'[u] = wpc[u] /\ wfd'[u] = wfd[u]
                                              /\ request'[u] = request[u] /\ next'[u] = next[u]
                            /\ wpc'[u] \in {"poll", "poll_fd", "take", "read"} => next'[u] = 1,
         \A c \in Clients : \/ cst'[c] = cst[c]
                            \/ cst[c] = "open" /\ cst'[c] = "done" /\ c \in closed
                            \/ cst[c] = "open" /\ cst'[c] = "gone" /\ c \in Quitters
  PROVE  ClientInv'
<1>0. PlaceInv /\ UntouchedInv /\ ServeInv /\ AnswerInv
  BY DEF FullInv, ClientInv
<1>t. /\ sock \in [Fds -> Clients \cup {NoClient}] /\ backlog \in Seq(Clients)
      /\ closed \subseteq Clients
  BY ServiceTypes DEF FullInv
<1>1. \A i \in DOMAIN backlog : backlog[i] \in Clients
  BY <1>t
<1>2. PlaceInv'
  BY <1>0, <1>t, <1>1 DEF PlaceInv
<1>3. UntouchedInv'
  <2>1. \A c : Untouched(c)' <=> Untouched(c)
    BY DEF Untouched
  <2>2. \A c \in Clients : cst'[c] = "start" => cst[c] = "start"
    OBVIOUS
  <2>3. ASSUME NEW f \in Fds, sock[f] \in Clients, \A t \in Threads : Settling(t)' => wfd'[t] # f
        PROVE  Untouched(sock[f])
    BY <1>0, <2>3 DEF UntouchedInv
  <2>4. \A c : c \notin rejected' /\ replies'[c] = <<>> <=> Untouched(c)
    BY DEF Untouched
  <2> QED
    BY <1>0, <2>2, <2>3, <2>4 DEF UntouchedInv, Untouched, Threads, Settling
<1>4. ServeInv'
  <2>1. ASSUME NEW t \in Threads, wpc'[t] \in {"serve", "drop"}
        PROVE  /\ wpc'[t] = wpc[t] /\ Peer(t)' = Peer(t)
               /\ request'[t] = request[t] /\ next'[t] = next[t]
    BY <2>1 DEF Settling, Peer
  <2> QED
    BY <1>0, <2>1 DEF ServeInv, Threads, Peer
<1>5. AnswerInv'
  BY <1>0, <1>t DEF AnswerInv, Gone, Misbehaving
<1> QED
  BY <1>2, <1>3, <1>4, <1>5 DEF ClientInv

(* The steps of main that do not take a connection, and opendir().         *)
LEMMA MainQuiet ==
  ASSUME FullInv,
         \/ ScanSlot \/ NoFreeThread \/ Claim \/ AcceptNoDescriptor \/ Store \/ Sleep
         \/ UNCHANGED vars \/ \E t \in Threads : OpenDir(t)
  PROVE  ClientInv'
<1>1. /\ UNCHANGED <<sock, backlog, closed, replies, rejected>>
      /\ UNCHANGED <<wpc, wfd, request, next, cst>>
  BY DEF ScanSlot, NoFreeThread, Claim, AcceptNoDescriptor, Store, Sleep, OpenDir, vars,
         workerVars, rounds, envVars, netVars, clientVars, outcome
<1>2. ServeInv
  BY DEF FullInv, ClientInv
<1> QED
  BY <1>1, <1>2, QuietStep DEF Settling, ServeInv

(* The steps of a worker around its polling loop.                          *)
LEMMA PollQuiet ==
  ASSUME FullInv, NEW t \in Threads,
         PollBusy(t) \/ PollFd(t) \/ Take(t) \/ ClearFd(t) \/ ClearBusy(t)
  PROVE  ClientInv'
<1>0. ServeInv /\ \A u \in Threads : wpc[u] = "read" => next[u] = 1
  BY DEF FullInv, ClientInv, ServeInv
<1>t. /\ wpc \in [Threads -> {"poll", "poll_fd", "take", "read", "drop", "dead",
                              "serve", "clear_fd", "clear_busy"}]
      /\ wfd \in [Threads -> Fds \cup {NoFd}] /\ next \in [Threads -> Nat \ {0}]
      /\ request \in [Threads -> Clients \cup {NoClient}]
  BY ServiceTypes DEF FullInv
<1>1. UNCHANGED <<sock, backlog, closed, replies, rejected, cst>>
  BY DEF PollBusy, PollFd, Take, ClearFd, ClearBusy, envVars, netVars, clientVars, outcome
<1>2. /\ \A u \in Threads \ {t} : /\ wpc'[u] = wpc[u] /\ wfd'[u] = wfd[u]
                                   /\ request'[u] = request[u] /\ next'[u] = next[u]
      /\ ~Settling(t) /\ ~Settling(t)'
  BY <1>t DEF PollBusy, PollFd, Take, ClearFd, ClearBusy, NextRound, rounds, Settling
<1>3. wpc'[t] \in {"poll", "poll_fd", "take", "read"} => next'[t] = 1
  BY <1>0, <1>t DEF PollBusy, PollFd, Take, ClearFd, ClearBusy, NextRound, rounds, ServeInv
<1> QED
  BY <1>0, <1>1, <1>2, <1>3, QuietStep DEF Settling, ServeInv

(* The steps of a client once it is connected.                             *)
LEMMA ClientQuiet ==
  ASSUME FullInv, NEW c \in Clients, SendLine(c) \/ ReadToEnd(c) \/ Quit(c)
  PROVE  ClientInv'
<1>1. /\ UNCHANGED <<sock, backlog, closed, replies, rejected>>
      /\ UNCHANGED <<wpc, wfd, request, next>>
  BY DEF SendLine, ReadToEnd, Quit, workerVars, rounds, netVars, outcome
<1>2. ServeInv /\ cst \in [Clients -> {"start", "open", "done", "gone"}]
  BY ServiceTypes DEF FullInv, ClientInv
<1>3. \A d \in Clients : \/ cst'[d] = cst[d]
                         \/ cst[d] = "open" /\ cst'[d] = "done" /\ d \in closed
                         \/ cst[d] = "open" /\ cst'[d] = "gone" /\ d \in Quitters
  BY <1>2 DEF SendLine, ReadToEnd, Quit
<1> QED
  BY <1>1, <1>2, <1>3, QuietStep DEF Settling, ServeInv

-----------------------------------------------------------------------------
(* A worker has read the request of its client, which has no answer yet.   *)
LEMMA ReadStep ==
  ASSUME FullInv, NEW t \in Threads, ReadRequest(t)
  PROVE  ClientInv'
<1> USE DEF ReadRequest, mainVars, envVars, netVars, clientVars, outcome
<1>0. IInv /\ PlaceInv /\ UntouchedInv /\ ServeInv /\ AnswerInv
  BY DEF FullInv, ClientInv
<1>t. /\ wpc \in [Threads -> {"poll", "poll_fd", "take", "read", "drop", "dead",
                              "serve", "clear_fd", "clear_busy"}]
      /\ request \in [Threads -> Clients \cup {NoClient}]
  BY <1>0, ServiceTypes
<1>1. /\ UNCHANGED <<sock, backlog, closed, cst, replies, rejected, wfd, next>>
      /\ wpc'[t] = "serve" /\ wpc[t] = "read" /\ request'[t] = Peer(t)
      /\ \A u \in Threads \ {t} : wpc'[u] = wpc[u] /\ request'[u] = request[u]
  BY <1>t
<1>2. PlaceInv'
  BY <1>0, <1>1 DEF PlaceInv
<1>3. UntouchedInv'
  <2>1. ASSUME NEW f \in Fds, sock[f] \in Clients,
               \A u \in Threads : wpc'[u] \in {"serve", "drop"} => wfd[u] # f
        PROVE  sock[f] \notin rejected /\ replies[sock[f]] = <<>>
    <3>1. \A u \in Threads : Settling(u) => wfd[u] # f
      BY <1>1, <2>1 DEF Settling
    <3> QED
      BY <1>0, <2>1, <3>1 DEF UntouchedInv, Untouched
  <2> QED
    BY <1>0, <1>1, <2>1 DEF UntouchedInv, Untouched, Settling, Threads
<1>4. ServeInv'
  <2>1. Untouched(Peer(t)) /\ next[t] = 1
    BY <1>0, <1>1, ReaderUntouched DEF ServeInv
  <2>2. Peer(t) \in Clients
    BY <1>0, <1>1, PeerIsClient
  <2>3. Len(replies[Peer(t)]) = 0 /\ Peer(t) \notin rejected /\ 1 <= PathCount[Peer(t)] + 1
    BY <2>1, <2>2, PoolAssumption DEF Untouched
  <2>4. \A u \in Threads : Peer(u)' = Peer(u)
    BY <1>1 DEF Peer
  <2>5. ASSUME NEW u \in Threads
        PROVE  /\ wpc'[u] \in {"poll", "poll_fd", "take", "read"} => next'[u] = 1
               /\ wpc'[u] = "serve" =>
                    /\ request'[u] = Peer(u) /\ Peer(u) \notin rejected
                    /\ next[u] = Len(replies[Peer(u)]) + 1
                    /\ next[u] <= PathCount[Peer(u)] + 1
               /\ wpc'[u] = "drop" => Peer(u) \in rejected
    BY <1>0, <1>1, <2>1, <2>3 DEF ServeInv
  <2> QED
    BY <1>1, <2>4, <2>5 DEF ServeInv, Threads
<1>5. AnswerInv'
  BY <1>0, <1>1 DEF AnswerInv, Gone, Misbehaving
<1> QED
  BY <1>2, <1>3, <1>4, <1>5 DEF ClientInv

(* It refuses a request without a path, or of a client that left.          *)
LEMMA RefuseStep ==
  ASSUME FullInv, NEW t \in Threads, RefuseRequest(t)
  PROVE  ClientInv'
<1> USE DEF RefuseRequest, mainVars, rounds, netVars, clientVars
<1>0. IInv /\ PlaceInv /\ UntouchedInv /\ ServeInv /\ AnswerInv
  BY DEF FullInv, ClientInv
<1>t. /\ wpc \in [Threads -> {"poll", "poll_fd", "take", "read", "drop", "dead",
                              "serve", "clear_fd", "clear_busy"}]
      /\ sock \in [Fds -> Clients \cup {NoClient}]
  BY <1>0, ServiceTypes
<1>1. /\ UNCHANGED <<sock, backlog, closed, cst, replies, wfd, request, next>>
      /\ wpc'[t] = "drop" /\ wpc[t] = "read" /\ rejected' = rejected \cup {Peer(t)}
      /\ \A u \in Threads \ {t} : wpc'[u] = wpc[u]
  BY <1>t
<1>2. PlaceInv'
  BY <1>0, <1>1 DEF PlaceInv
<1>3. /\ Peer(t) \in Clients /\ Untouched(Peer(t)) /\ Peer(t) \notin closed
      /\ cst[Peer(t)] # "start" /\ \A i \in DOMAIN backlog : backlog[i] # Peer(t)
      /\ \A f \in Fds \ {wfd[t]} : sock[f] # Peer(t)
      /\ \A u \in Threads \ {t} : wpc[u] \in {"read", "drop", "serve"} => Peer(u) # Peer(t)
  BY <1>0, <1>1, PeerIsClient, ReaderUntouched, PeersDiffer
<1>4. UntouchedInv'
  <2>1. ASSUME NEW f \in Fds, sock[f] \in Clients,
               \A u \in Threads : wpc'[u] \in {"serve", "drop"} => wfd[u] # f
        PROVE  sock[f] \notin rejected' /\ replies[sock[f]] = <<>>
    <3>1. /\ \A u \in Threads : Settling(u) => wfd[u] # f
          /\ wfd[t] # f
      BY <1>1, <2>1 DEF Settling
    <3> QED
      BY <1>0, <1>1, <1>3, <2>1, <3>1 DEF UntouchedInv, Untouched
  <2> QED
    BY <1>0, <1>1, <1>3, <2>1 DEF UntouchedInv, Untouched, Settling, Threads
<1>5. ServeInv'
  <2>1. \A u \in Threads : Peer(u)' = Peer(u)
    BY <1>1 DEF Peer
  <2>2. ASSUME NEW u \in Threads
        PROVE  /\ wpc'[u] \in {"poll", "poll_fd", "take", "read"} => next[u] = 1
               /\ wpc'[u] = "serve" =>
                    /\ request[u] = Peer(u) /\ Peer(u) \notin rejected'
                    /\ next[u] = Len(replies[Peer(u)]) + 1
                    /\ next[u] <= PathCount[Peer(u)] + 1
               /\ wpc'[u] = "drop" => Peer(u) \in rejected'
    BY <1>0, <1>1, <1>3 DEF ServeInv
  <2> QED
    BY <1>1, <2>1, <2>2 DEF ServeInv, Threads
<1>6. AnswerInv'
  <2>1. Peer(t) \in Misbehaving
    BY <1>0, <1>3 DEF AnswerInv, Misbehaving
  <2> QED
    BY <1>0, <1>1, <1>3, <2>1 DEF AnswerInv, Gone, Misbehaving, Untouched
<1> QED
  BY <1>2, <1>4, <1>5, <1>6 DEF ClientInv

(* It answers the next path.                                               *)
LEMMA PathStep ==
  ASSUME FullInv, NEW t \in Threads, InRound(t), Answer(t)
  PROVE  ClientInv'
<1> USE DEF InRound, Answer, mainVars, netVars, clientVars
<1> DEFINE c == Peer(t)
           n == next[t]
<1>0. IInv /\ PlaceInv /\ UntouchedInv /\ ServeInv /\ AnswerInv
  BY DEF FullInv, ClientInv
<1>t. /\ next \in [Threads -> Nat \ {0}] /\ replies \in [Clients -> Seq(Clients \X (Nat \ {0}))]
      /\ rejected \subseteq Clients /\ closed \subseteq Clients
      /\ backlog \in Seq(Clients)
  BY <1>0, ServiceTypes
<1>1. /\ c \in Clients /\ c \notin closed /\ cst[c] # "start"
      /\ \A i \in DOMAIN backlog : backlog[i] # c
      /\ \A f \in Fds \ {wfd[t]} : sock[f] # c
      /\ \A u \in Threads \ {t} : wpc[u] \in {"read", "drop", "serve"} => Peer(u) # c
  BY <1>0, PeerIsClient, PeersDiffer
<1>2. request[t] = c /\ c \notin rejected /\ n = Len(replies[c]) + 1 /\ n <= PathCount[c]
  BY <1>0 DEF ServeInv
<1>3. /\ UNCHANGED <<sock, backlog, closed, cst, rejected, wpc, wfd, request>>
      /\ wpc[t] = "serve" /\ next'[t] = n + 1
      /\ \A u \in Threads \ {t} : next'[u] = next[u]
      /\ replies'[c] = Append(replies[c], <<c, n>>)
      /\ \A d \in Clients \ {c} : replies'[d] = replies[d]
  BY <1>t, <1>1, <1>2
<1>4. /\ Len(replies'[c]) = n /\ DOMAIN replies'[c] = 1 .. n
      /\ replies'[c][n] = <<c, n>> /\ \A i \in 1 .. n - 1 : replies'[c][i] = replies[c][i]
      /\ DOMAIN replies[c] = 1 .. n - 1
  <2>1. replies[c] \in Seq(Clients \X (Nat \ {0})) /\ <<c, n>> \in Clients \X (Nat \ {0})
    BY <1>t, <1>1
  <2>2. Len(replies[c]) = n - 1 /\ n \in Nat \ {0}
    BY <1>t, <1>2, <2>1
  <2>3. Append(replies[c], <<c, n>>) \in Seq(Clients \X (Nat \ {0}))
    BY <2>1
  <2>4. DOMAIN replies[c] = 1 .. n - 1
    BY <2>1, <2>2
  <2>5. /\ Len(replies'[c]) = n /\ replies'[c][n] = <<c, n>>
        /\ \A i \in 1 .. n - 1 : replies'[c][i] = replies[c][i]
    BY <1>3, <2>1, <2>2, AppendProperties
  <2> QED
    BY <1>3, <2>3, <2>4, <2>5
<1>5. PlaceInv'
  BY <1>0, <1>3 DEF PlaceInv
<1>6. UntouchedInv'
  <2>1. ASSUME NEW f \in Fds, sock[f] \in Clients,
               \A u \in Threads : wpc[u] \in {"serve", "drop"} => wfd[u] # f
        PROVE  sock[f] \notin rejected /\ replies'[sock[f]] = <<>>
    <3>1. \A u \in Threads : Settling(u) => wfd[u] # f
      BY <2>1 DEF Settling
    <3>2. sock[f] # c
      BY <1>1, <1>3, <2>1
    <3> QED
      BY <1>0, <1>3, <2>1, <3>1, <3>2 DEF UntouchedInv, Untouched
  <2>2. \A i \in DOMAIN backlog : backlog[i] \in Clients
    BY <1>t
  <2> QED
    BY <1>0, <1>1, <1>3, <2>1, <2>2 DEF UntouchedInv, Untouched, Settling, Threads
<1>7. ServeInv'
  <2>1. \A u \in Threads : Peer(u)' = Peer(u)
    BY <1>3 DEF Peer
  <2>2. n + 1 <= PathCount[c] + 1
    BY <1>t, <1>1, <1>2, PoolAssumption
  <2>3. ASSUME NEW u \in Threads \ {t}, wpc[u] = "serve"
        PROVE  replies'[Peer(u)] = replies[Peer(u)]
    BY <1>0, <1>1, <1>3, <2>3, PeerIsClient
  <2>4. ASSUME NEW u \in Threads
        PROVE  /\ wpc[u] \in {"poll", "poll_fd", "take", "read"} => next'[u] = 1
               /\ wpc[u] = "serve" =>
                    /\ request[u] = Peer(u) /\ Peer(u) \notin rejected
                    /\ next'[u] = Len(replies'[Peer(u)]) + 1
                    /\ next'[u] <= PathCount[Peer(u)] + 1
               /\ wpc[u] = "drop" => Peer(u) \in rejected
    <3>1. CASE u = t
      BY <1>2, <1>3, <1>4, <2>2, <3>1
    <3>2. CASE u # t
      BY <1>0, <1>3, <2>3, <3>2 DEF ServeInv
    <3> QED
      BY <3>1, <3>2
  <2> QED
    BY <1>3, <2>1, <2>4 DEF ServeInv, Threads
<1>8. AnswerInv'
  <2>1. ASSUME NEW i \in DOMAIN replies'[c] PROVE replies'[c][i] = <<c, i>>
    <3>1. i \in 1 .. n - 1 \/ i = n
      BY <1>4, <1>t
    <3> QED
      BY <1>0, <1>1, <1>4, <3>1 DEF AnswerInv
  <2>2. ASSUME NEW d \in Clients, NEW i \in DOMAIN replies'[d] PROVE replies'[d][i] = <<d, i>>
    <3>1. CASE d = c
      BY <2>1, <2>2, <3>1
    <3>2. CASE d # c
      BY <1>0, <1>3, <2>2, <3>2 DEF AnswerInv
    <3> QED
      BY <3>1, <3>2
  <2>3. \A d \in rejected \cup closed : replies'[d] = replies[d]
    BY <1>t, <1>1, <1>2, <1>3
  <2> QED
    BY <1>0, <1>3, <2>2, <2>3 DEF AnswerInv, Gone, Misbehaving
<1> QED
  BY <1>5, <1>6, <1>7, <1>8 DEF ClientInv

(* It closes the connection: the client is answered in full, or refused.   *)
LEMMA CloseStep ==
  ASSUME FullInv, NEW t \in Threads, DropClient(t) \/ CloseClient(t)
  PROVE  ClientInv'
<1> USE DEF DropClient, CloseClient, Close, mainVars, rounds, clientVars, outcome
<1> DEFINE c == Peer(t)
           g == wfd[t]
<1>0. IInv /\ PlaceInv /\ UntouchedInv /\ ServeInv /\ AnswerInv
  BY DEF FullInv, ClientInv
<1>t. /\ sock \in [Fds -> Clients \cup {NoClient}] /\ backlog \in Seq(Clients)
      /\ wpc \in [Threads -> {"poll", "poll_fd", "take", "read", "drop", "dead",
                              "serve", "clear_fd", "clear_busy"}]
      /\ replies \in [Clients -> Seq(Clients \X (Nat \ {0}))] /\ NoClient \notin Clients
      /\ next \in [Threads -> Nat \ {0}] /\ closed \subseteq Clients
  BY <1>0, ServiceTypes
<1>1. /\ g \in Fds /\ c \in Clients /\ c = sock[g] /\ c \notin closed /\ cst[c] # "start"
      /\ \A i \in DOMAIN backlog : backlog[i] # c
      /\ \A f \in Fds \ {g} : sock[f] # c
      /\ \A u \in Threads \ {t} :
           wpc[u] \in {"read", "drop", "serve"} => wfd[u] # g /\ Peer(u) # c
  BY <1>0, PeerIsClient, PeersDiffer DEF Peer
<1>2. /\ UNCHANGED <<backlog, cst, replies, rejected, wfd, request, next>>
      /\ closed' = closed \cup {c} /\ sock'[g] = NoClient
      /\ \A f \in Fds \ {g} : sock'[f] = sock[f]
      /\ wpc[t] \in {"drop", "serve"} /\ wpc'[t] \in {"dead", "clear_fd"}
      /\ \A u \in Threads \ {t} : wpc'[u] = wpc[u]
  BY <1>t, <1>1 DEF Peer
<1>3. \A i \in DOMAIN backlog : backlog[i] \in Clients
  BY <1>t
<1>4. PlaceInv'
  <2>1. ASSUME NEW i \in DOMAIN backlog
        PROVE  /\ cst[backlog[i]] # "start" /\ backlog[i] \notin closed'
               /\ \A f \in Fds : sock'[f] # backlog[i]
               /\ \A j \in DOMAIN backlog : backlog[j] = backlog[i] => j = i
    BY <1>0, <1>t, <1>1, <1>2, <1>3 DEF PlaceInv
  <2>2. ASSUME NEW f \in Fds, sock'[f] \in Clients
        PROVE  f # g /\ sock'[f] = sock[f] /\ sock'[f] # c
    BY <1>t, <1>1, <1>2, <2>2
  <2>3. ASSUME NEW f \in Fds, sock'[f] \in Clients
        PROVE  /\ cst[sock'[f]] # "start" /\ sock'[f] \notin closed'
               /\ \A h \in Fds : sock'[h] = sock'[f] => h = f
    BY <1>0, <1>2, <2>2, <2>3 DEF PlaceInv
  <2>4. \A d \in closed' : cst[d] # "start"
    BY <1>0, <1>1, <1>2 DEF PlaceInv
  <2> QED
    BY <1>2, <2>1, <2>3, <2>4 DEF PlaceInv
<1>5. UntouchedInv'
  <2>1. ASSUME NEW f \in Fds, sock'[f] \in Clients,
               \A u \in Threads : wpc'[u] \in {"serve", "drop"} => wfd[u] # f
        PROVE  sock'[f] \notin rejected /\ replies[sock'[f]] = <<>>
    <3>1. f # g /\ sock'[f] = sock[f]
      BY <1>t, <1>2, <2>1
    <3>2. \A u \in Threads : Settling(u) => wfd[u] # f
      BY <1>2, <2>1, <3>1 DEF Settling
    <3> QED
      BY <1>0, <2>1, <3>1, <3>2 DEF UntouchedInv, Untouched
  <2> QED
    BY <1>0, <1>2, <2>1 DEF UntouchedInv, Untouched, Settling, Threads
<1>6. ServeInv'
  <2>1. ASSUME NEW u \in Threads, wpc'[u] \in {"serve", "drop"}
        PROVE  u # t /\ Peer(u)' = Peer(u)
    <3>1. u # t /\ wpc[u] = wpc'[u]
      BY <1>2, <2>1
    <3>2. wfd[u] \in Fds /\ wfd[u] # g
      BY <1>0, <1>1, <2>1, <3>1, PeerIsClient
    <3> QED
      BY <1>2, <3>1, <3>2 DEF Peer
  <2>2. ASSUME NEW u \in Threads
        PROVE  /\ wpc'[u] \in {"poll", "poll_fd", "take", "read"} => next[u] = 1
               /\ wpc'[u] = "serve" =>
                    /\ request[u] = Peer(u)' /\ Peer(u)' \notin rejected
                    /\ next[u] = Len(replies[Peer(u)']) + 1
                    /\ next[u] <= PathCount[Peer(u)'] + 1
               /\ wpc'[u] = "drop" => Peer(u)' \in rejected
    BY <1>0, <1>2, <2>1 DEF ServeInv
  <2> QED
    BY <1>2, <2>2 DEF ServeInv, Threads, Peer
<1>7. AnswerInv'
  <2>1. c \in rejected \/ Len(replies[c]) = PathCount[c]
    <3>1. CASE DropClient(t)
      BY <1>0, <3>1 DEF ServeInv
    <3>2. CASE CloseClient(t)
      <4>1. /\ request[t] = c /\ next[t] = Len(replies[c]) + 1 /\ next[t] > PathCount[c]
            /\ next[t] <= PathCount[c] + 1
        BY <1>0, <3>2 DEF ServeInv
      <4>2. Len(replies[c]) \in Nat /\ PathCount[c] \in Nat
        BY <1>t, <1>1, PoolAssumption
      <4> QED
        BY <4>1, <4>2
    <3> QED
      BY <3>1, <3>2
  <2> QED
    BY <1>0, <1>2, <2>1 DEF AnswerInv, Gone, Misbehaving
<1> QED
  BY <1>4, <1>5, <1>6, <1>7 DEF ClientInv

-----------------------------------------------------------------------------
(* The backlog without its head.                                           *)
LEMMA BacklogTail ==
  ASSUME IInv, backlog # <<>>
  PROVE  /\ Head(backlog) = backlog[1] /\ 1 \in DOMAIN backlog /\ backlog[1] \in Clients
         /\ \A i \in DOMAIN Tail(backlog) :
              i + 1 \in DOMAIN backlog /\ Tail(backlog)[i] = backlog[i + 1] /\ i + 1 # 1
         /\ \A i, j \in DOMAIN Tail(backlog) : i + 1 = j + 1 => i = j
<1>1. backlog \in Seq(Clients)
  BY DEF IInv, TypeOK
<1>2. /\ Len(backlog) \in Nat /\ Len(backlog) > 0 /\ DOMAIN backlog = 1 .. Len(backlog)
      /\ DOMAIN Tail(backlog) = 1 .. Len(backlog) - 1
      /\ \A i \in 1 .. Len(backlog) - 1 : Tail(backlog)[i] = backlog[i + 1]
  BY <1>1
<1> QED
  BY <1>1, <1>2

(* What a connection that leaves the backlog leaves behind.                *)
LEMMA RestInv ==
  ASSUME IInv, PlaceInv, UntouchedInv, backlog # <<>>
  PROVE  \A i \in DOMAIN Tail(backlog) :
           /\ cst[Tail(backlog)[i]] # "start" /\ Tail(backlog)[i] \notin closed
           /\ Tail(backlog)[i] # Head(backlog)
           /\ \A f \in Fds : sock[f] # Tail(backlog)[i]
           /\ \A j \in DOMAIN Tail(backlog) : Tail(backlog)[j] = Tail(backlog)[i] => j = i
           /\ Untouched(Tail(backlog)[i])
<1> TAKE i \in DOMAIN Tail(backlog)
<1>1. i + 1 \in DOMAIN backlog /\ Tail(backlog)[i] = backlog[i + 1] /\ i + 1 # 1
  BY BacklogTail
<1>2. /\ cst[backlog[i + 1]] # "start" /\ backlog[i + 1] \notin closed
      /\ \A f \in Fds : sock[f] # backlog[i + 1]
      /\ \A j \in DOMAIN backlog : backlog[j] = backlog[i + 1] => j = i + 1
      /\ Untouched(backlog[i + 1])
  BY <1>1 DEF PlaceInv, UntouchedInv
<1>3. Tail(backlog)[i] # Head(backlog)
  BY <1>1, <1>2, BacklogTail
<1>4. ASSUME NEW j \in DOMAIN Tail(backlog), Tail(backlog)[j] = Tail(backlog)[i]
      PROVE  j = i
  BY <1>1, <1>2, <1>4, BacklogTail
<1> QED
  BY <1>1, <1>2, <1>3, <1>4

(* accept() gives the first connection of the backlog a free descriptor.   *)
LEMMA AcceptStep ==
  ASSUME FullInv, AcceptClient
  PROVE  ClientInv'
<1> USE DEF AcceptClient, workerVars, rounds, clientVars, outcome
<1>0. IInv /\ PlaceInv /\ UntouchedInv /\ ServeInv /\ AnswerInv
  BY DEF FullInv, ClientInv
<1>t. sock \in [Fds -> Clients \cup {NoClient}] /\ closed \subseteq Clients /\ NoClient \notin Clients
  BY <1>0, ServiceTypes
<1> DEFINE c == Head(backlog)
           rest == Tail(backlog)
<1>1. PICK g \in Fds : sock[g] = NoClient /\ sock' = [sock EXCEPT ![g] = c]
  BY DEF FreeFds
<1>2. /\ UNCHANGED <<closed, cst, replies, rejected, wpc, wfd, request, next>>
      /\ backlog' = rest /\ sock'[g] = c
      /\ \A f \in Fds \ {g} : sock'[f] = sock[f]
  BY <1>t, <1>1
<1>3. /\ c \in Clients /\ cst[c] # "start" /\ c \notin closed /\ Untouched(c)
      /\ \A f \in Fds : sock[f] # c
  BY <1>0, BacklogTail DEF PlaceInv, UntouchedInv
<1>4. \A i \in DOMAIN rest :
        /\ cst[rest[i]] # "start" /\ rest[i] \notin closed /\ rest[i] # c
        /\ \A f \in Fds : sock[f] # rest[i]
        /\ \A j \in DOMAIN rest : rest[j] = rest[i] => j = i
        /\ Untouched(rest[i])
  BY <1>0, RestInv
<1> HIDE DEF AcceptClient, c, rest
<1>5. PlaceInv'
  BY <1>0, <1>2, <1>3, <1>4 DEF PlaceInv
<1>6. UntouchedInv'
  <2>1. ASSUME NEW f \in Fds, sock'[f] \in Clients,
               \A u \in Threads : wpc[u] \in {"serve", "drop"} => wfd[u] # f
        PROVE  sock'[f] \notin rejected /\ replies[sock'[f]] = <<>>
    <3>1. CASE f = g
      BY <1>2, <1>3, <3>1 DEF Untouched
    <3>2. CASE f # g
      BY <1>0, <1>2, <2>1, <3>2 DEF UntouchedInv, Untouched, Settling
    <3> QED
      BY <3>1, <3>2
  <2> QED
    BY <1>0, <1>2, <1>4, <2>1 DEF UntouchedInv, Untouched, Settling, Threads
<1>7. ServeInv'
  <2>1. ASSUME NEW u \in Threads, wpc[u] \in {"serve", "drop"}
        PROVE  Peer(u)' = Peer(u)
    <3>1. wfd[u] \in Fds /\ sock[wfd[u]] \in Clients
      BY <1>0, <2>1, PeerIsClient DEF Peer
    <3> QED
      BY <1>t, <1>1, <1>2, <3>1 DEF Peer
  <2>2. ASSUME NEW u \in Threads
        PROVE  /\ wpc[u] \in {"poll", "poll_fd", "take", "read"} => next[u] = 1
               /\ wpc[u] = "serve" =>
                    /\ request[u] = Peer(u)' /\ Peer(u)' \notin rejected
                    /\ next[u] = Len(replies[Peer(u)']) + 1
                    /\ next[u] <= PathCount[Peer(u)'] + 1
               /\ wpc[u] = "drop" => Peer(u)' \in rejected
    BY <1>0, <2>1 DEF ServeInv
  <2> QED
    BY <1>2, <2>2 DEF ServeInv, Threads, Peer
<1>8. AnswerInv'
  BY <1>0, <1>2 DEF AnswerInv, Gone, Misbehaving
<1> QED
  BY <1>5, <1>6, <1>7, <1>8 DEF ClientInv

(* accept() reports a connection whose client left while it was queued.    *)
LEMMA AbortedStep ==
  ASSUME FullInv, AcceptAborted
  PROVE  ClientInv'
<1> USE DEF AcceptAborted, workerVars, rounds, clientVars, outcome
<1>0. IInv /\ PlaceInv /\ UntouchedInv /\ ServeInv /\ AnswerInv
  BY DEF FullInv, ClientInv
<1> DEFINE c == Head(backlog)
           rest == Tail(backlog)
<1>1. /\ UNCHANGED <<sock, cst, replies, rejected, wpc, wfd, request, next>>
      /\ backlog' = rest /\ closed' = closed \cup {c} /\ Gone(c)
  OBVIOUS
<1>2. /\ c \in Clients /\ cst[c] # "start" /\ c \notin closed
      /\ \A f \in Fds : sock[f] # c
  BY <1>0, BacklogTail DEF PlaceInv
<1>3. \A i \in DOMAIN rest :
        /\ cst[rest[i]] # "start" /\ rest[i] \notin closed /\ rest[i] # c
        /\ \A f \in Fds : sock[f] # rest[i]
        /\ \A j \in DOMAIN rest : rest[j] = rest[i] => j = i
        /\ Untouched(rest[i])
  BY <1>0, RestInv
<1> HIDE DEF AcceptAborted, c, rest
<1>4. PlaceInv'
  BY <1>0, <1>1, <1>2, <1>3 DEF PlaceInv
<1>5. UntouchedInv'
  BY <1>0, <1>1, <1>3 DEF UntouchedInv, Untouched, Settling, Threads
<1>6. ServeInv'
  BY <1>0, <1>1 DEF ServeInv, Threads, Peer
<1>7. AnswerInv'
  BY <1>0, <1>1 DEF AnswerInv, Gone, Misbehaving
<1> QED
  BY <1>4, <1>5, <1>6, <1>7 DEF ClientInv

(* A client joins the backlog.                                             *)
LEMMA ConnectStep ==
  ASSUME FullInv, NEW c \in Clients, Connect(c)
  PROVE  ClientInv'
<1> USE DEF Connect, workerVars, rounds, outcome
<1>0. IInv /\ PlaceInv /\ UntouchedInv /\ ServeInv /\ AnswerInv
  BY DEF FullInv, ClientInv
<1>t. /\ backlog \in Seq(Clients) /\ cst \in [Clients -> {"start", "open", "done", "gone"}]
      /\ sock \in [Fds -> Clients \cup {NoClient}] /\ closed \subseteq Clients
  BY <1>0, ServiceTypes
<1> DEFINE n == Len(backlog)
<1>1. /\ n \in Nat /\ DOMAIN backlog = 1 .. n /\ DOMAIN backlog' = 1 .. n + 1
      /\ \A i \in 1 .. n : backlog'[i] = backlog[i] /\ backlog[i] \in Clients
      /\ backlog'[n + 1] = c
  BY <1>t
<1>2. /\ UNCHANGED <<sock, closed, replies, rejected, wpc, wfd, request, next>>
      /\ cst[c] = "start" /\ cst'[c] = "open"
      /\ \A d \in Clients \ {c} : cst'[d] = cst[d]
  BY <1>t
<1>3. /\ c \notin closed /\ Untouched(c)
      /\ \A i \in 1 .. n : backlog[i] # c
      /\ \A f \in Fds : sock[f] # c
  BY <1>0, <1>1, <1>2 DEF PlaceInv, UntouchedInv
<1> HIDE DEF Connect
<1>4. ASSUME NEW i \in 1 .. n + 1
      PROVE  \/ i = n + 1 /\ backlog'[i] = c
             \/ i \in 1 .. n /\ backlog'[i] = backlog[i]
  BY <1>1, <1>4
<1>5. PlaceInv'
  <2>1. ASSUME NEW i \in 1 .. n + 1
        PROVE  /\ cst'[backlog'[i]] # "start" /\ backlog'[i] \notin closed
               /\ \A f \in Fds : sock[f] # backlog'[i]
               /\ \A j \in 1 .. n + 1 : backlog'[j] = backlog'[i] => j = i
    <3>1. CASE backlog'[i] = c
      BY <1>2, <1>3, <1>4, <3>1
    <3>2. CASE backlog'[i] # c
      BY <1>0, <1>1, <1>2, <1>4, <3>2 DEF PlaceInv
    <3> QED
      BY <3>1, <3>2
  <2> QED
    BY <1>0, <1>t, <1>1, <1>2, <1>3, <2>1 DEF PlaceInv
<1>6. UntouchedInv'
  <2>1. \A i \in 1 .. n + 1 : Untouched(backlog'[i])
    BY <1>0, <1>1, <1>3, <1>4 DEF UntouchedInv
  <2>2. ASSUME NEW f \in Fds, sock[f] \in Clients,
               \A u \in Threads : wpc[u] \in {"serve", "drop"} => wfd[u] # f
        PROVE  sock[f] \notin rejected /\ replies[sock[f]] = <<>>
    BY <1>0, <2>2 DEF UntouchedInv, Untouched, Settling
  <2> QED
    BY <1>0, <1>1, <1>2, <2>1, <2>2 DEF UntouchedInv, Untouched, Settling, Threads
<1>7. ServeInv'
  BY <1>0, <1>2 DEF ServeInv, Threads, Peer
<1>8. AnswerInv'
  BY <1>0, <1>t, <1>2, <1>3 DEF AnswerInv, Gone, Misbehaving
<1> QED
  BY <1>5, <1>6, <1>7, <1>8 DEF ClientInv

(* Every step keeps what is said of the clients.                           *)
LEMMA ClientStep == FullInv /\ [Next]_vars => ClientInv'
<1> SUFFICES ASSUME FullInv, [Next]_vars PROVE ClientInv'
  OBVIOUS
<1>1. CASE Main
  BY <1>1, MainQuiet, AcceptStep, AbortedStep DEF Main
<1>2. ASSUME NEW t \in Threads, Worker(t) PROVE ClientInv'
  BY <1>2, MainQuiet, PollQuiet, ReadStep, RefuseStep, PathStep, CloseStep
  DEF Worker, OpenDirFails, ListDir
<1>3. ASSUME NEW c \in Clients, Client(c) \/ Quit(c) PROVE ClientInv'
  BY <1>3, ClientQuiet, ConnectStep DEF Client
<1>4. CASE UNCHANGED vars
  BY <1>4, MainQuiet
<1> QED
  BY <1>1, <1>2, <1>3, <1>4 DEF Next

-----------------------------------------------------------------------------
OpenFds == {f \in Fds : sock[f] \in Clients}

(* While main accepts, every open descriptor is in the hands of a worker   *)
(* of another slot, and of one each: fewer are open than there are slots.  *)
LEMMA HeldByOthers ==
  ASSUME IInv, mpc = "accept"
  PROVE  IsFiniteSet(OpenFds) /\ Cardinality(OpenFds) < ThreadCount
<1> DEFINE others == Threads \ {slot}
           holder == [f \in OpenFds |-> CHOOSE t \in Threads : WorkerHolds(t, f)]
<1>0. TypeOK /\ SlotProtocol /\ ConnectionHeld /\ ConnectionKept
  BY DEF IInv
<1>1. slot \in Threads /\ \A f \in Fds : ~WorkerHolds(slot, f)
  BY <1>0, PoolAssumption DEF TypeOK, SlotProtocol, Threads, WorkerHolds, Handed, Serving
<1>2. ASSUME NEW f \in OpenFds
      PROVE  holder[f] \in others /\ WorkerHolds(holder[f], f)
  <2>1. f \in Fds /\ sock[f] \in Clients /\ ~MainHolds(f)
    BY DEF OpenFds, MainHolds
  <2>2. \E t \in Threads : WorkerHolds(t, f)
    BY <1>0, <2>1 DEF ConnectionKept
  <2>3. holder[f] \in Threads /\ WorkerHolds(holder[f], f)
    BY <2>2
  <2> QED
    BY <1>1, <2>1, <2>3
<1>3. ASSUME NEW f \in OpenFds, NEW g \in OpenFds, holder[f] = holder[g]
      PROVE  f = g
  <2>1. WorkerHolds(holder[f], f) /\ WorkerHolds(holder[f], g)
    BY <1>2, <1>3
  <2> HIDE DEF holder
  <2> QED
    BY <2>1 DEF WorkerHolds, Handed, Serving
<1>4. holder \in Injection(OpenFds, others)
  <2>1. holder \in [OpenFds -> others]
    BY <1>2
  <2> HIDE DEF holder, others
  <2> QED
    BY <1>3, <2>1 DEF Injection, IsInjective
<1>5. IsFiniteSet(Threads) /\ Cardinality(Threads) = ThreadCount
  <2>1. ThreadCount - 1 \in Int /\ 0 \in Int /\ ThreadCount \in Nat
    BY PoolAssumption
  <2> QED
    BY <2>1, FS_Interval DEF Threads
<1>6. IsFiniteSet(others) /\ Cardinality(others) = ThreadCount - 1
  BY <1>1, <1>5, FS_RemoveElement
<1>7. IsFiniteSet(OpenFds) /\ Cardinality(OpenFds) <= Cardinality(others)
  <2> HIDE DEF holder, others
  <2> QED
    BY <1>4, <1>6, FS_Injection
<1>8. Cardinality(OpenFds) \in Nat /\ ThreadCount \in Nat
  BY <1>7, FS_CardinalityType, PoolAssumption
<1> QED
  BY <1>6, <1>7, <1>8

(* Nor are there more open directories: each belongs to a worker of another *)
(* slot that serves.                                                        *)
LEMMA DirsOfOthers ==
  ASSUME IInv, mpc = "accept"
  PROVE  IsFiniteSet(dirs) /\ Cardinality(dirs) < ThreadCount
<1> DEFINE others == Threads \ {slot}
           owner == [f \in dirs |-> CHOOSE t \in Threads : dir[t] = f]
<1>0. TypeOK /\ SlotProtocol /\ DirInv
  BY DEF IInv
<1>1. slot \in Threads /\ wpc[slot] # "serve" /\ dirs \subseteq Fds
  BY <1>0, PoolAssumption DEF TypeOK, SlotProtocol, Threads
<1>2. ASSUME NEW f \in dirs PROVE owner[f] \in others /\ dir[owner[f]] = f
  <2>1. \E t \in Threads : dir[t] = f
    BY <1>0 DEF DirInv
  <2>2. owner[f] \in Threads /\ dir[owner[f]] = f
    BY <2>1
  <2>3. wpc[owner[f]] = "serve"
    BY <1>0, <1>1, <2>2 DEF DirInv, InRound
  <2> QED
    BY <1>1, <2>2, <2>3
<1>3. owner \in Injection(dirs, others)
  <2>1. owner \in [dirs -> others] /\ \A f, g \in dirs : owner[f] = owner[g] => f = g
    BY <1>2
  <2> HIDE DEF owner, others
  <2> QED
    BY <2>1 DEF Injection, IsInjective
<1>4. IsFiniteSet(Threads) /\ Cardinality(Threads) = ThreadCount
  <2>1. ThreadCount - 1 \in Int /\ 0 \in Int /\ ThreadCount \in Nat
    BY PoolAssumption
  <2> QED
    BY <2>1, FS_Interval DEF Threads
<1>5. IsFiniteSet(others) /\ Cardinality(others) = ThreadCount - 1
  BY <1>1, <1>4, FS_RemoveElement
<1>6. IsFiniteSet(dirs) /\ Cardinality(dirs) <= Cardinality(others)
  <2> HIDE DEF owner, others
  <2> QED
    BY <1>3, <1>5, FS_Injection
<1>7. Cardinality(dirs) \in Nat /\ ThreadCount \in Nat
  BY <1>6, FS_CardinalityType, PoolAssumption
<1> QED
  BY <1>5, <1>6, <1>7

(* So accept() does not run out of descriptors if there are two for each   *)
(* thread but one.                                                         *)
LEMMA EnoughDescriptors ==
  ASSUME IInv, mpc = "accept", FreeFds = {}
  PROVE  ~EnoughFds
<1>1. OpenFds \cup dirs = Fds
  <2>1. dirs \subseteq Fds
    BY DEF IInv, TypeOK
  <2> QED
    BY <2>1, ServiceTypes DEF OpenFds, FreeFds
<1>2. /\ IsFiniteSet(OpenFds) /\ Cardinality(OpenFds) < ThreadCount
      /\ IsFiniteSet(dirs) /\ Cardinality(dirs) < ThreadCount
  BY HeldByOthers, DirsOfOthers
<1>3. OpenFds \cap dirs = {}
  BY PoolAssumption DEF IInv, DirInv, OpenFds
<1>5. Cardinality(OpenFds) \in Nat /\ Cardinality(dirs) \in Nat /\ ThreadCount \in Nat
  BY <1>2, FS_CardinalityType, PoolAssumption
<1>4. Cardinality(Fds) = Cardinality(OpenFds) + Cardinality(dirs)
  BY <1>1, <1>2, <1>3, <1>5, FS_Union, FS_EmptySet
<1>6. \A a, b, n \in Nat : a < n /\ b < n => ~(a + b + 1 >= 2 * n)
  OBVIOUS
<1> QED
  BY <1>2, <1>4, <1>5, <1>6 DEF EnoughFds

(* The sets that are counted are finite.                                   *)
LEMMA FiniteCounts ==
  ASSUME CapacityInv
  PROVE  /\ IsFiniteSet(LostSlots) /\ Cardinality(LostSlots) \in Nat
         /\ IsFiniteSet(Paid) /\ Cardinality(Paid) \in Nat
<1>1. IsFiniteSet(Threads) /\ IsFiniteSet(closed)
  BY PoolAssumption, FS_Interval DEF Threads, CapacityInv
<1>2. LostSlots \in SUBSET Threads /\ Paid \in SUBSET closed
  BY DEF LostSlots, Paid
<1> QED
  BY <1>1, <1>2, FS_Subset, FS_CardinalityType

(* A step that loses no slot, leaves no -1 with main and un-closes nothing *)
(* keeps the balance.                                                      *)
LEMMA BalanceKept ==
  ASSUME CapacityInv, LostSlots' = LostSlots, BadAccept' <= BadAccept,
         closed' = closed \/ \E c : closed' = closed \cup {c}
  PROVE  CapacityInv'
<1>1. IsFiniteSet(closed') /\ closed \subseteq closed'
  BY FS_AddElement DEF CapacityInv
<1>2. IsFiniteSet(Paid') /\ Paid \in SUBSET Paid'
  <2>1. Paid' \in SUBSET closed' /\ Paid \in SUBSET Paid'
    BY <1>1 DEF Paid, Misbehaving
  <2> QED
    BY <1>1, <2>1, FS_Subset
<1>3. Cardinality(Paid) <= Cardinality(Paid') /\ Cardinality(Paid') \in Nat
  BY <1>2, FS_Subset, FS_CardinalityType
<1>4. BadAccept \in Nat /\ BadAccept' \in Nat
  BY DEF BadAccept
<1>5. ASSUME NEW a \in Nat, NEW b \in Nat, NEW d \in Nat, NEW p \in Nat, NEW q \in Nat,
             a + b <= p, d <= b, p <= q
      PROVE  a + d <= q
  BY <1>5
<1>6. Cardinality(LostSlots) \in Nat /\ Cardinality(Paid) \in Nat
  BY FiniteCounts
<1>7. EnoughFds => Cardinality(LostSlots) + BadAccept' <= Cardinality(Paid')
  BY <1>3, <1>4, <1>5, <1>6 DEF CapacityInv
<1> QED
  BY <1>1, <1>7 DEF CapacityInv

(* The steps of main.                                                      *)
LEMMA MainCapacity ==
  ASSUME FullInv, Main
  PROVE  CapacityInv'
<1>0. IInv /\ SlotProtocol /\ ClientInv /\ CapacityInv
  BY DEF FullInv, IInv
<1>t. /\ busy \in [Threads -> BOOLEAN] /\ client_fd \in [Threads -> Fds \cup {NoFd}]
      /\ mpc \in {"claim", "accept", "store"} => slot \in Threads
      /\ accepted \in Fds \cup {NoFd}
  BY PoolAssumption DEF FullInv, IInv, TypeOK, Threads
<1> USE DEF workerVars, rounds, envVars, slots
<1>1. CASE ScanSlot \/ NoFreeThread \/ Sleep
  <2>1. /\ UNCHANGED <<wpc, busy, client_fd, closed>>
        /\ mpc \notin {"accept", "store"} /\ mpc' \notin {"accept", "store"}
    BY <1>1 DEF ScanSlot, NoFreeThread, Sleep, netVars
  <2>2. LostSlots' = LostSlots /\ BadAccept' = 0 /\ BadAccept = 0
    BY <2>1 DEF LostSlots, Lost, Threads, BadAccept
  <2> QED
    BY <1>0, <2>1, <2>2, BalanceKept
<1>2. CASE Claim
  <2>1. ~Lost(slot) /\ slot \in Threads /\ wpc[slot] = "poll"
    BY <1>0, <1>t, <1>2 DEF Claim, SlotProtocol, Lost
  <2>2. ASSUME NEW t \in Threads PROVE Lost(t)' <=> Lost(t)
    BY <1>t, <1>2, <2>1 DEF Claim, Lost
  <2>3. LostSlots' = LostSlots /\ BadAccept' = 0 /\ BadAccept = 0 /\ closed' = closed
    BY <1>2, <2>2 DEF Claim, LostSlots, Threads, BadAccept, netVars
  <2> QED
    BY <1>0, <2>3, BalanceKept
<1>3. CASE AcceptClient
  <2>1. LostSlots' = LostSlots
    BY <1>3 DEF AcceptClient, LostSlots, Lost, Threads
  <2>2. BadAccept' = 0 /\ BadAccept = 0 /\ closed' = closed
    BY <1>3, PoolAssumption DEF AcceptClient, BadAccept, FreeFds
  <2> QED
    BY <1>0, <2>1, <2>2, BalanceKept
<1>4. CASE AcceptNoDescriptor
  <2>1. ~EnoughFds
    BY <1>0, <1>4, EnoughDescriptors DEF AcceptNoDescriptor
  <2>2. closed' = closed
    BY <1>4 DEF AcceptNoDescriptor, netVars
  <2> QED
    BY <1>0, <2>1, <2>2 DEF CapacityInv
<1>5. CASE AcceptAborted
  <2> DEFINE c == Head(backlog)
  <2>1. /\ c \in Misbehaving /\ c \notin closed /\ closed' = closed \cup {c}
    BY <1>0, <1>5, BacklogTail
    DEF AcceptAborted, ClientInv, AnswerInv, PlaceInv, Misbehaving
  <2>2. LostSlots' = LostSlots /\ BadAccept' = 1 /\ BadAccept = 0
    BY <1>5 DEF AcceptAborted, LostSlots, Lost, Threads, BadAccept
  <2>3. Paid' = Paid \cup {c} /\ c \notin Paid
    BY <2>1 DEF Paid, Misbehaving
  <2>4. Cardinality(Paid') = Cardinality(Paid) + 1
    BY <1>0, <2>3, FiniteCounts, FS_AddElement
  <2>5. IsFiniteSet(closed')
    BY <1>0, <2>1, FS_AddElement DEF CapacityInv
  <2>6. Cardinality(LostSlots) \in Nat /\ Cardinality(Paid) \in Nat
    BY <1>0, FiniteCounts
  <2>7. EnoughFds => Cardinality(LostSlots) + 0 <= Cardinality(Paid)
    BY <1>0, <2>2 DEF CapacityInv
  <2> QED
    BY <2>2, <2>4, <2>5, <2>6, <2>7 DEF CapacityInv
<1>6. CASE Store
  <2>1. /\ slot \in Threads /\ client_fd' = [client_fd EXCEPT ![slot] = accepted]
        /\ busy[slot] /\ client_fd[slot] = NoFd /\ wpc[slot] \in {"poll", "poll_fd"}
        /\ mpc = "store" /\ mpc' = "sleep" /\ UNCHANGED <<busy, slot, wpc, closed>>
    BY <1>0, <1>t, <1>6 DEF Store, SlotProtocol, netVars
  <2>2. ~Lost(slot) /\ (Lost(slot)' <=> accepted = NoFd)
    BY <1>t, <2>1 DEF Lost
  <2>3. ASSUME NEW t \in Threads \ {slot} PROVE Lost(t)' <=> Lost(t)
    BY <1>t, <2>1 DEF Lost
  <2>4. CASE accepted = NoFd
    <3>1. LostSlots' = LostSlots \cup {slot} /\ slot \notin LostSlots
      BY <2>1, <2>2, <2>3, <2>4 DEF LostSlots, Threads
    <3>2. Cardinality(LostSlots') = Cardinality(LostSlots) + 1
      BY <1>0, <3>1, FiniteCounts, FS_AddElement
    <3>3. BadAccept = 1 /\ BadAccept' = 0 /\ Paid' = Paid
      BY <2>1, <2>4 DEF BadAccept, Paid, Misbehaving
    <3>4. Cardinality(LostSlots) \in Nat
      BY <1>0, FiniteCounts
    <3>5. Cardinality(LostSlots) + 1 = Cardinality(LostSlots') + BadAccept'
      BY <3>2, <3>3, <3>4
    <3>6. IsFiniteSet(closed')
      BY <1>0, <2>1 DEF CapacityInv
    <3> QED
      BY <1>0, <3>3, <3>5, <3>6 DEF CapacityInv
  <2>5. CASE accepted # NoFd
    <3>1. LostSlots' = LostSlots
      BY <2>1, <2>2, <2>3, <2>5 DEF LostSlots, Threads
    <3>2. BadAccept' = 0 /\ BadAccept = 0
      BY <2>1, <2>5 DEF BadAccept
    <3> QED
      BY <1>0, <2>1, <3>1, <3>2, BalanceKept
  <2> QED
    BY <2>4, <2>5
<1> QED
  BY <1>1, <1>2, <1>3, <1>4, <1>5, <1>6 DEF Main

(* The steps of a worker: only the end of its thread loses a slot.         *)
LEMMA WorkerCapacity ==
  ASSUME FullInv, NEW t \in Threads, Worker(t)
  PROVE  CapacityInv'
<1>0. IInv /\ SlotProtocol /\ ClientInv /\ CapacityInv
  BY DEF FullInv, IInv
<1>t. /\ busy \in [Threads -> BOOLEAN] /\ client_fd \in [Threads -> Fds \cup {NoFd}]
      /\ wpc \in [Threads -> {"poll", "poll_fd", "take", "read", "drop", "dead",
                              "serve", "clear_fd", "clear_busy"}]
  BY DEF FullInv, IInv, TypeOK
<1>1. BadAccept' = BadAccept /\ UNCHANGED <<mpc, slot>>
  BY DEF Worker, PollBusy, PollFd, Take, ReadRequest, RefuseRequest, DropClient, OpenDir,
         OpenDirFails, ListDir, Answer,
         CloseClient, ClearFd, ClearBusy, mainVars, BadAccept
<1>2. BadAccept \in Nat
  BY DEF BadAccept
<1>3. CASE DropClient(t)
  <2> DEFINE c == Peer(t)
  <2>1. /\ c \in Misbehaving /\ c \notin closed /\ closed' = closed \cup {c}
    BY <1>0, <1>3, PeersDiffer
    DEF DropClient, Close, ClientInv, ServeInv, AnswerInv, Misbehaving, Peer
  <2>2. /\ wpc' = [wpc EXCEPT ![t] = "dead"] /\ wpc[t] = "drop"
        /\ UNCHANGED <<busy, client_fd>>
    BY <1>3 DEF DropClient, slots
  <2>3. Lost(t)' /\ ~Lost(t) /\ \A u \in Threads \ {t} : Lost(u)' <=> Lost(u)
    BY <1>t, <1>1, <2>2 DEF Lost
  <2>4. LostSlots' = LostSlots \cup {t} /\ t \notin LostSlots
    BY <2>3 DEF LostSlots, Threads
  <2>5. Paid' = Paid \cup {c} /\ c \notin Paid
    BY <2>1 DEF Paid, Misbehaving
  <2>6. /\ Cardinality(LostSlots') = Cardinality(LostSlots) + 1
        /\ Cardinality(Paid') = Cardinality(Paid) + 1
        /\ Cardinality(LostSlots) \in Nat /\ Cardinality(Paid) \in Nat
    BY <1>0, <2>4, <2>5, FiniteCounts, FS_AddElement
  <2>7. IsFiniteSet(closed')
    BY <1>0, <2>1, FS_AddElement DEF CapacityInv
  <2>8. ASSUME EnoughFds
        PROVE  Cardinality(LostSlots) + 1 + BadAccept <= Cardinality(Paid) + 1
    <3>1. Cardinality(LostSlots) + BadAccept <= Cardinality(Paid)
      BY <1>0, <2>8 DEF CapacityInv
    <3> QED
      BY <1>2, <2>6, <3>1
  <2> QED
    BY <1>1, <2>6, <2>7, <2>8 DEF CapacityInv
<1>4. CASE ~DropClient(t)
  <2>1. /\ \A u \in Threads \ {t} : /\ busy'[u] = busy[u] /\ client_fd'[u] = client_fd[u]
                                    /\ wpc'[u] = wpc[u]
        /\ closed' = closed \/ closed' = closed \cup {Peer(t)}
    BY <1>t, <1>4
    DEF Worker, PollBusy, PollFd, Take, ReadRequest, RefuseRequest, OpenDir, OpenDirFails,
        ListDir, Answer, CloseClient, ClearFd, ClearBusy, NextRound, Close, Peer, slots, envVars, netVars
  <2>2. Lost(t)' <=> Lost(t)
    <3>1. CASE PollBusy(t)
      BY <1>t, <1>1, <3>1 DEF PollBusy, Lost, slots
    <3>2. CASE PollFd(t)
      BY <1>t, <1>1, <3>2, PoolAssumption DEF PollFd, Lost, slots
    <3>3. CASE Take(t) \/ ReadRequest(t) \/ RefuseRequest(t) \/ CloseClient(t)
      BY <1>t, <1>1, <3>3
      DEF Take, ReadRequest, RefuseRequest, CloseClient, Lost, slots
    <3>5. CASE OpenDir(t) \/ OpenDirFails(t) \/ ListDir(t)
      BY <1>t, <1>1, <3>5 DEF OpenDir, OpenDirFails, ListDir, Answer, Lost, slots
    <3>4. CASE ClearFd(t) \/ ClearBusy(t)
      BY <1>t, <1>1, <3>4 DEF ClearFd, ClearBusy, NextRound, Lost
    <3> QED
      BY <1>4, <3>1, <3>2, <3>3, <3>4, <3>5 DEF Worker
  <2>3. \A u \in Threads \ {t} : Lost(u)' <=> Lost(u)
    BY <1>1, <2>1 DEF Lost
  <2>4. LostSlots' = LostSlots
    BY <2>2, <2>3 DEF LostSlots, Threads
  <2>5. BadAccept' <= BadAccept
    BY <1>1, <1>2
  <2>6. closed' = closed \/ \E c : closed' = closed \cup {c}
    <3>1. closed' = closed \/ closed' = closed \cup {Peer(t)}
      BY <2>1
    <3> QED
      BY <3>1, Zenon
  <2> QED
    BY <1>0, <2>4, <2>5, <2>6, BalanceKept
<1> QED
  BY <1>3, <1>4

(* Every step keeps the balance of slots.                                  *)
LEMMA CapacityStep == FullInv /\ [Next]_vars => CapacityInv'
<1> SUFFICES ASSUME FullInv, [Next]_vars PROVE CapacityInv'
  OBVIOUS
<1>1. CASE (\E c \in Clients : Client(c) \/ Quit(c)) \/ UNCHANGED vars
  <2>1. UNCHANGED <<busy, client_fd, mpc, slot, accepted, wpc, closed>>
    BY <1>1 DEF Client, Connect, SendLine, ReadToEnd, Quit, vars, slots, mainVars,
                workerVars, rounds, envVars, netVars
  <2>2. LostSlots' = LostSlots /\ BadAccept' = BadAccept
    BY <2>1 DEF LostSlots, Lost, Threads, BadAccept
  <2>3. BadAccept \in Nat
    BY DEF BadAccept
  <2> QED
    BY <2>1, <2>2, <2>3, BalanceKept DEF FullInv
<1> QED
  BY <1>1, MainCapacity, WorkerCapacity DEF Next

-----------------------------------------------------------------------------
(* The inductive invariant with the clients and the slots holds in every   *)
(* reachable state.                                                        *)
THEOREM ServiceInvariance == Spec => []FullInv
<1>1. Init => FullInv
  BY InitInv, ServiceInit DEF FullInv
<1>2. FullInv /\ [Next]_vars => FullInv'
  <2>1. IInv /\ [Next]_vars => IInv'
    BY TypeStep, SlotStep, HolderStep, DirStep DEF IInv
  <2> QED
    BY <2>1, ClientStep, CapacityStep DEF FullInv
<1> QED
  BY <1>1, <1>2, PTL DEF Spec

(* Every client that reads to the end has got the answers to its own paths *)
(* in their order, all of them or none, and only a client that left or     *)
(* sent no path is refused.                                                *)
THEOREM AnswersCorrect == Spec => []AnsweredInFull
<1>1. ASSUME FullInv, NEW c \in Clients
      PROVE  /\ \A i \in DOMAIN replies[c] : replies[c][i] = <<c, i>>
             /\ cst[c] = "done" => Len(replies[c]) = IF c \in rejected THEN 0 ELSE PathCount[c]
             /\ c \in rejected => c \in Misbehaving
  <2>1. AnswerInv
    BY <1>1 DEF FullInv, ClientInv
  <2>2. ASSUME cst[c] = "done"
        PROVE  Len(replies[c]) = IF c \in rejected THEN 0 ELSE PathCount[c]
    <3>1. c \in closed /\ ~Gone(c)
      BY <2>1, <2>2 DEF AnswerInv, Gone
    <3>2. CASE c \in rejected
      BY <2>1, <3>2 DEF AnswerInv
    <3>3. CASE c \notin rejected
      BY <2>1, <3>1, <3>3 DEF AnswerInv
    <3> QED
      BY <3>2, <3>3
  <2> QED
    BY <2>1, <2>2 DEF AnswerInv
<1>2. FullInv => AnsweredInFull
  BY <1>1 DEF AnsweredInFull
<1> QED
  BY <1>2, ServiceInvariance, PTL

(* With two descriptors for each thread but one, every slot that is lost   *)
(* for good was lost to another client that misbehaved.                                 *)
THEOREM CapacityCorrect == Spec => []CapacityAccounted
<1>1. ASSUME FullInv, EnoughFds
      PROVE  Cardinality(LostSlots) <= Cardinality({c \in Misbehaving : c \in closed})
  <2>1. CapacityInv
    BY <1>1 DEF FullInv
  <2>2. /\ Cardinality(LostSlots) + BadAccept <= Cardinality(Paid)
        /\ Cardinality(LostSlots) \in Nat /\ Cardinality(Paid) \in Nat /\ BadAccept \in Nat
    BY <1>1, <2>1, FiniteCounts DEF CapacityInv, BadAccept
  <2>3. Paid = {c \in Misbehaving : c \in closed}
    BY DEF Paid
  <2>4. Cardinality(LostSlots) <= Cardinality(Paid)
    BY <2>2
  <2> QED
    BY <2>3, <2>4
<1>2. FullInv => CapacityAccounted
  BY <1>1 DEF CapacityAccounted
<1> QED
  BY <1>2, ServiceInvariance, PTL

-----------------------------------------------------------------------------
(* The refinement.  What is open is what the service calls active, and     *)
(* while main accepts there is room for one more.                          *)
LEMMA OpenRoom ==
  ASSUME IInv, mpc = "accept"
  PROVE  Cardinality(Open) < ThreadCount
<1> DEFINE peer == [f \in OpenFds |-> sock[f]]
<1>1. Open = {sock[f] : f \in OpenFds}
  BY ServiceTypes DEF Open, OpenFds
<1>2. peer \in Surjection(OpenFds, Open)
  <2>1. peer \in [OpenFds -> Open] /\ \A c \in Open : \E f \in OpenFds : peer[f] = c
    BY <1>1
  <2> HIDE DEF peer
  <2> QED
    BY <2>1 DEF Surjection
<1>3. IsFiniteSet(OpenFds) /\ Cardinality(OpenFds) < ThreadCount
  BY HeldByOthers
<1>4. IsFiniteSet(Open) /\ Cardinality(Open) <= Cardinality(OpenFds)
  <2> HIDE DEF peer
  <2> QED
    BY <1>2, <1>3, FS_Surjection
<1>5. Cardinality(Open) \in Nat /\ Cardinality(OpenFds) \in Nat /\ ThreadCount \in Nat
  BY <1>3, <1>4, FS_CardinalityType, PoolAssumption
<1> QED
  BY <1>3, <1>4, <1>5

(* The service counts the open connections as the server does.             *)
LEMMA SameCount == \A S : Service!Cardinality(S) = Cardinality(S)
  BY Zenon DEF Service!Cardinality, Cardinality

(* Every step of the server is a step of the service, or none.             *)
LEMMA ServiceStep ==
  ASSUME FullInv, [Next]_vars
  PROVE  [Service!Next]_<<backlog, Open, closed>>
<1>0. IInv /\ PlaceInv
  BY DEF FullInv, ClientInv
<1>t. /\ sock \in [Fds -> Clients \cup {NoClient}] /\ backlog \in Seq(Clients)
      /\ NoClient \notin Clients
  BY <1>0, ServiceTypes
<1> USE DEF slots, mainVars, workerVars, rounds, envVars, netVars, clientVars, outcome
<1>1. CASE AcceptClient
  <2> DEFINE c == Head(backlog)
  <2>1. PICK g \in Fds : sock[g] = NoClient /\ sock' = [sock EXCEPT ![g] = c]
    BY <1>1 DEF AcceptClient, FreeFds
  <2>2. c \in Clients
    BY <1>0, <1>1, BacklogTail DEF AcceptClient
  <2>3. Open' = Open \cup {c}
    <3>1. \A f \in Fds : sock'[f] = IF f = g THEN c ELSE sock[f]
      BY <1>t, <2>1
    <3> HIDE DEF c
    <3> QED
      BY <1>t, <2>1, <2>2, <3>1 DEF Open
  <2>4. Cardinality(Open) < ThreadCount
    BY <1>0, <1>1, OpenRoom DEF AcceptClient
  <2>5. backlog # <<>> /\ backlog' = Tail(backlog) /\ closed' = closed
    BY <1>1 DEF AcceptClient
  <2>6. Service!Admit
    BY <2>3, <2>4, <2>5, SameCount, Zenon DEF Service!Admit
  <2> QED
    BY <2>6 DEF Service!Next
<1>2. CASE AcceptAborted
  <2>1. Cardinality(Open) < ThreadCount /\ Open' = Open
    BY <1>0, <1>2, OpenRoom DEF AcceptAborted, Open
  <2>2. /\ backlog # <<>> /\ backlog' = Tail(backlog)
        /\ closed' = closed \cup {Head(backlog)}
    BY <1>2 DEF AcceptAborted
  <2>3. Service!Drop
    BY <2>1, <2>2, SameCount, Zenon DEF Service!Drop
  <2> QED
    BY <2>3 DEF Service!Next
<1>3. ASSUME NEW t \in Threads, DropClient(t) \/ CloseClient(t)
      PROVE  Service!Next
  <2> DEFINE c == Peer(t)
  <2>1. /\ wfd[t] \in Fds /\ c \in Clients /\ c = sock[wfd[t]]
        /\ \A f \in Fds \ {wfd[t]} : sock[f] # c
    BY <1>0, <1>3, PeerIsClient, PeersDiffer DEF DropClient, CloseClient, Peer
  <2>2. /\ closed' = closed \cup {c} /\ backlog' = backlog
        /\ \A f \in Fds : sock'[f] = IF f = wfd[t] THEN NoClient ELSE sock[f]
    BY <1>3, <1>t DEF DropClient, CloseClient, Close, Peer
  <2>3. c \in Open /\ Open' = Open \ {c}
    <3> HIDE DEF c
    <3> QED
      BY <1>t, <2>1, <2>2 DEF Open
  <2>4. Service!Finish(c)
    BY <2>2, <2>3 DEF Service!Finish
  <2> QED
    BY <2>1, <2>4 DEF Service!Next
<1>4. ASSUME NEW c \in Clients, Connect(c)
      PROVE  Service!Next
  <2>1. c \notin Service!Waiting
    BY <1>0, <1>4 DEF Connect, PlaceInv, Service!Waiting
  <2>2. c \notin Open /\ c \notin closed
    BY <1>0, <1>4 DEF Connect, PlaceInv, Open
  <2>3. Open' = Open
    BY <1>4 DEF Connect, Open
  <2>4. Service!Arrive(c)
    BY <1>4, <2>1, <2>2, <2>3 DEF Connect, Service!Arrive
  <2> QED
    BY <2>4 DEF Service!Next
<1>5. ASSUME UNCHANGED <<sock, backlog, closed>>
      PROVE  UNCHANGED <<backlog, Open, closed>>
  BY <1>5 DEF Open
<1>6. CASE ScanSlot \/ NoFreeThread \/ Claim \/ AcceptNoDescriptor \/ Store \/ Sleep
  BY <1>5, <1>6 DEF ScanSlot, NoFreeThread, Claim, AcceptNoDescriptor, Store, Sleep
<1>7. ASSUME NEW t \in Threads,
             \/ PollBusy(t) \/ PollFd(t) \/ Take(t) \/ ReadRequest(t) \/ RefuseRequest(t)
             \/ OpenDir(t) \/ OpenDirFails(t) \/ ListDir(t) \/ ClearFd(t) \/ ClearBusy(t)
      PROVE  UNCHANGED <<sock, backlog, closed>>
  BY <1>7 DEF PollBusy, PollFd, Take, ReadRequest, RefuseRequest, OpenDir, OpenDirFails, ListDir,
              Answer, ClearFd, ClearBusy
<1>8. ASSUME NEW c \in Clients, SendLine(c) \/ ReadToEnd(c) \/ Quit(c)
      PROVE  UNCHANGED <<sock, backlog, closed>>
  BY <1>8 DEF SendLine, ReadToEnd, Quit
<1>9. CASE UNCHANGED vars
  BY <1>5, <1>9 DEF vars
<1> QED
  BY <1>1, <1>2, <1>3, <1>4, <1>5, <1>6, <1>7, <1>8, <1>9 DEF Next, Main, Worker, Client

(* The server is a connection service: connections are taken in the order  *)
(* they came, no more than there are threads are open at a time, and each  *)
(* is closed once, served or given up.                                     *)
THEOREM Refinement == Spec => ServiceSpec
<1>1. Init => Service!Init
  <2>1. ASSUME Init PROVE Open = {}
    BY <2>1 DEF Init, Open
  <2> QED
    BY <2>1 DEF Init, Service!Init
<1>2. FullInv /\ [Next]_vars => [Service!Next]_<<backlog, Open, closed>>
  BY ServiceStep
<1> QED
  BY <1>1, <1>2, ServiceInvariance, PTL DEF Spec, ServiceSpec, Service!Spec, Service!vars
=============================================================================
