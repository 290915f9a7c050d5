-------------------------- MODULE SystemInfoProofs --------------------------
(***************************************************************************)
(* Proofs about SystemInfo, for any number of clients, refreshes and runs: *)
(* which mixtures of refreshes a client can receive, how old they may be,  *)
(* and that there is a query or a reply for every client that waits.       *)
(***************************************************************************)
EXTENDS SystemInfo, FiniteSetTheorems, TLAPS

Records == [pid : Nat, time : Nat, load1 : Nat, load5 : Nat, load15 : Nat]
Fields == {"pid", "time", "load1", "load5", "load15"}

(* A record whose fields are of one refresh, and all that may be sent.     *)
OneRefresh(r) == r.load1 = r.time /\ r.load5 = r.time /\ r.load15 = r.time
Whole == {r \in Records : r.pid = 1 /\ r.time > 0 /\ OneRefresh(r)}

Places == {"idle", "attached", "time", "ids", "load1", "load5", "waiting", "done",
           "garbage", "crashed"}

TypeInv ==
  /\ channel \in Channels
  /\ rec \in Records
  /\ replies \in Seq(Whole)
  /\ cpc \in [Clients -> Places]
  /\ got \in [Clients -> Records]

(* A refresh goes through the fields in their order, so that none of them  *)
(* is ahead of one before it, and the last is one refresh behind at most;  *)
(* and a record with a time has its ids.                                   *)
RecordInv ==
  /\ rec.load15 <= rec.load5 /\ rec.load5 <= rec.load1 /\ rec.load1 <= rec.time
  /\ rec.time <= rec.load15 + 1
  /\ rec.time > 0 => rec.pid = 1
  /\ spc = "ids" => rec.pid = 1
  /\ spc \in {"load5", "load15"} => rec.load1 = rec.time
  /\ spc = "load15" => rec.load5 = rec.time
  /\ ~Refreshing /\ spc # "down" => OneRefresh(rec)
  /\ Refreshing \/ spc \in {"handlers", "loop", "taken", "reply"} => rec.time > 0

(* A copy that is being made field by field does not run ahead of the      *)
(* record, has the ids if it needs them, and loads that are no more than   *)
(* one refresh behind what was read before them.                           *)
CopyOf(c) ==
  /\ cpc[c] \in {"attached", "time", "ids", "load1", "load5"} => Shared
  /\ cpc[c] \in {"time", "ids", "load1", "load5"} => got[c].time <= rec.time
  /\ cpc[c] \in {"ids", "load1", "load5"} => (got[c].time > 0 => got[c].pid = 1)
  /\ cpc[c] \in {"load1", "load5"} =>
       got[c].load1 <= rec.time /\ got[c].time <= got[c].load1 + 1
  /\ cpc[c] = "load5" =>
       /\ got[c].load5 <= rec.time
       /\ got[c].time <= got[c].load5 + 1 /\ got[c].load1 <= got[c].load5 + 1
CopyInv == \A c \in Clients : CopyOf(c)

(* What OneMoment says of one client's record.                             *)
InOrder(r) ==
  /\ r.time > 0 => r.pid = 1
  /\ r.time <= r.load1 + 1 /\ r.time <= r.load5 + 1 /\ r.time <= r.load15 + 1
  /\ r.load1 <= r.load5 + 1 /\ r.load1 <= r.load15 + 1 /\ r.load5 <= r.load15 + 1
Mixed(c) ==
  /\ ~Shared => got[c].pid = 1 /\ got[c].time > 0 /\ OneRefresh(got[c])
  /\ InOrder(got[c])

IInv == TypeInv /\ RecordInv /\ CopyInv /\ OneMoment

(* Nobody has a copy at first, and the record is empty.                    *)
LEMMA InitInv == Init => IInv
<1> SUFFICES ASSUME Init PROVE IInv
  OBVIOUS
<1> USE DEF Init, Zeros
<1>1. TypeInv
  BY DEF TypeInv, Records, Whole, Places
<1>2. RecordInv
  BY DEF RecordInv, Refreshing, OneRefresh
<1>3. CopyInv /\ OneMoment
  BY DEF CopyInv, CopyOf, OneMoment, Received
<1> QED
  BY <1>1, <1>2, <1>3 DEF IInv

-----------------------------------------------------------------------------
(* A step of the server that leaves the clients alone keeps what is said   *)
(* of their copies, as long as the record does not go back.                *)
LEMMA ClientsAlone ==
  ASSUME IInv, UNCHANGED <<channel, cpc, got>>, rec' \in Records, rec.time <= rec'.time
  PROVE  CopyInv' /\ OneMoment'
<1> USE DEF IInv, TypeInv, Records
<1>1. CopyInv'
  <2> SUFFICES ASSUME NEW c \in Clients PROVE CopyOf(c)'
    BY DEF CopyInv
  <2>1. /\ CopyOf(c) /\ got[c] \in Records /\ rec \in Records
        /\ cpc'[c] = cpc[c] /\ got'[c] = got[c]
    BY DEF CopyInv
  <2> QED
    BY <2>1 DEF CopyOf, Shared
<1>2. OneMoment'
  BY DEF OneMoment, Received, Shared
<1> QED
  BY <1>1, <1>2

(* A store to the record, and what it changes besides it.                  *)
LEMMA StoreStep ==
  ASSUME IInv, WriteIds \/ WriteTime \/ WriteLoads
  PROVE  IInv'
<1> USE DEF IInv, TypeInv
<1>1. /\ UNCHANGED <<channel, replies, cpc, got>>
      /\ rec.pid \in Nat /\ rec.time \in Nat
      /\ rec.load1 \in Nat /\ rec.load5 \in Nat /\ rec.load15 \in Nat
  BY DEF WriteIds, WriteTime, WriteLoads, WriteLoad, queue, clients, Records
<1>2. rec' \in Records /\ rec.time <= rec'.time /\ RecordInv'
  <2>1. CASE WriteIds
    BY <1>1, <2>1 DEF WriteIds, Records, RecordInv, Refreshing, OneRefresh
  <2>2. CASE WriteTime
    <3>1. /\ rec'.time = rec.time + 1 /\ UNCHANGED <<rec.pid, rec.load1, rec.load5, rec.load15>>
          /\ rec' \in Records /\ spc' = "load1"
      <4>1. rec' = [rec EXCEPT !.time = rec.time + 1] /\ spc' = "load1"
        BY <2>2 DEF WriteTime
      <4>2. rec \in Records /\ rec.time + 1 \in Nat
        BY <1>1
      <4> HIDE DEF IInv, TypeInv
      <4> QED
        BY <4>1, <4>2 DEF Records
    <3>2. OneRefresh(rec) /\ rec.pid = 1
      BY <1>1, <2>2 DEF WriteTime, RecordInv, Refreshing, Shared
    <3> QED
      BY <1>1, <3>1, <3>2 DEF RecordInv, Refreshing, OneRefresh
  <2>3. CASE WriteLoad("load1", "load5")
    <3>1. /\ rec'.load1 = rec.time /\ UNCHANGED <<rec.pid, rec.time, rec.load5, rec.load15>>
          /\ rec' \in Records /\ spc = "load1" /\ spc' = "load5"
      BY <1>1, <2>3 DEF WriteLoad, Records
    <3> QED
      BY <1>1, <3>1 DEF RecordInv, Refreshing, OneRefresh
  <2>4. CASE WriteLoad("load5", "load15")
    <3>1. /\ rec'.load5 = rec.time /\ UNCHANGED <<rec.pid, rec.time, rec.load1, rec.load15>>
          /\ rec' \in Records /\ spc = "load5" /\ spc' = "load15"
      BY <1>1, <2>4 DEF WriteLoad, Records
    <3> QED
      BY <1>1, <3>1 DEF RecordInv, Refreshing, OneRefresh
  <2>5. CASE WriteLoad("load15", Refreshed)
    <3>1. Refreshed \in {"handlers", "loop", "reply"}
      BY DEF Refreshed
    <3>2. /\ rec'.load15 = rec.time /\ UNCHANGED <<rec.pid, rec.time, rec.load1, rec.load5>>
          /\ rec' \in Records /\ spc = "load15" /\ spc' = Refreshed
      BY <1>1, <2>5 DEF WriteLoad, Records
    <3> QED
      BY <1>1, <3>1, <3>2 DEF RecordInv, Refreshing, OneRefresh
  <2> QED
    BY <2>1, <2>2, <2>3, <2>4, <2>5 DEF WriteLoads
<1>3. CopyInv' /\ OneMoment'
  BY <1>1, <1>2, ClientsAlone
<1> QED
  BY <1>1, <1>2, <1>3

(* The other steps of the server but the answer over the socket.           *)
LEMMA OtherServerStep ==
  ASSUME IInv, Publish \/ TakeQuery \/ Reply \/ InstallHandlers \/ Accept
                 \/ Interrupt \/ Kill
  PROVE  IInv'
<1> USE DEF IInv, TypeInv
<1>1. UNCHANGED <<channel, rec, cpc, got>>
  BY DEF Publish, TakeQuery, Reply, InstallHandlers, Accept, Interrupt, Kill, clients
<1>2. RecordInv'
  BY <1>1 DEF RecordInv, Refreshing, OneRefresh, Publish, TakeQuery, Reply, InstallHandlers,
              Accept, Interrupt, Kill
<1>3. replies' \in Seq(Whole)
  <2>1. CASE Reply
    <3>1. rec \in Whole
      BY <2>1 DEF Reply, RecordInv, Refreshing, Whole
    <3> QED
      BY <2>1, <3>1 DEF Reply
  <2>2. CASE ~Reply
    BY <2>2 DEF Publish, TakeQuery, InstallHandlers, Accept, Interrupt, Kill, queue
  <2> QED
    BY <2>1, <2>2
<1>4. CopyInv' /\ OneMoment'
  BY <1>1, ClientsAlone DEF Records
<1> QED
  BY <1>1, <1>2, <1>3, <1>4

(* A client that is given a whole record has received one of one moment.   *)
LEMMA GiveStep ==
  ASSUME IInv, NEW c, NEW r \in Whole, Give(c, r), ~Shared, UNCHANGED <<channel, rec>>
  PROVE  CopyInv' /\ OneMoment' /\ cpc' \in [Clients -> Places] /\ got' \in [Clients -> Records]
<1> USE DEF IInv, TypeInv
<1>1. cpc' \in [Clients -> Places] /\ got' \in [Clients -> Records]
  BY DEF Give, Places, Whole
<1>2. ASSUME NEW d \in Clients
      PROVE  \/ d = c /\ cpc'[d] = "done" /\ got'[d] = r
             \/ d # c /\ cpc'[d] = cpc[d] /\ got'[d] = got[d]
  BY DEF Give
<1>3. CopyInv'
  BY <1>2 DEF CopyInv, CopyOf, Shared
<1>4. OneMoment'
  <2> SUFFICES ASSUME NEW d \in Clients, Received(d)' PROVE Mixed(d)'
    BY DEF OneMoment, Mixed, InOrder, OneRefresh
  <2>1. CASE d # c
    BY <1>2, <2>1 DEF OneMoment, Mixed, InOrder, OneRefresh, Received, Shared
  <2>2. CASE d = c
    <3>1. got'[d] = r /\ r.pid = 1 /\ r.time \in Nat /\ r.time > 0 /\ OneRefresh(r)
      BY <1>2, <2>2 DEF Whole, Records
    <3>2. InOrder(r)
      BY <3>1 DEF OneRefresh, InOrder
    <3> QED
      BY <3>1, <3>2 DEF Mixed
  <2> QED
    BY <2>1, <2>2
<1> QED
  BY <1>1, <1>3, <1>4

(* The answer over the socket is the record as it was just refreshed.      *)
LEMMA AnswerStep ==
  ASSUME IInv, Answer
  PROVE  IInv'
<1> USE DEF IInv, TypeInv
<1>1. UNCHANGED <<channel, rec, replies>> /\ ~Shared
  BY DEF Answer, queue, Shared
<1>2. RecordInv'
  BY <1>1 DEF Answer, RecordInv, Refreshing, OneRefresh
<1>3. rec \in Whole
  BY DEF Answer, RecordInv, Refreshing, Whole
<1>4. CASE peer = NoClient
  <2>1. UNCHANGED <<cpc, got>>
    BY <1>4 DEF Answer, clients
  <2>2. CopyInv' /\ OneMoment'
    BY <1>1, <2>1, ClientsAlone DEF Records
  <2> QED
    BY <1>1, <1>2, <2>1, <2>2
<1>5. CASE peer # NoClient
  <2>1. Give(peer, rec)
    BY <1>5 DEF Answer
  <2> QED
    BY <1>1, <1>2, <1>3, <2>1, GiveStep
<1> QED
  BY <1>4, <1>5

-----------------------------------------------------------------------------
(* A client that takes a reply, the first in the queue.                    *)
LEMMA ReceiveStep ==
  ASSUME IInv, NEW c \in Clients, ReceiveReply(c)
  PROVE  IInv'
<1> USE DEF IInv, TypeInv
<1>1. UNCHANGED <<channel, rec, spc>> /\ ~Shared
  BY DEF ReceiveReply, server, Shared
<1>2. Head(replies) \in Whole /\ replies' \in Seq(Whole)
  BY DEF ReceiveReply
<1>3. RecordInv'
  BY <1>1 DEF RecordInv, Refreshing
<1>4. Give(c, Head(replies))
  BY DEF ReceiveReply
<1> QED
  BY <1>1, <1>2, <1>3, <1>4, GiveStep

(* One field is copied from the record as it is at that moment.            *)
LEMMA CopyStep ==
  ASSUME IInv, NEW c \in Clients, ReadTime(c) \/ ReadIds(c) \/ ReadLoads(c)
  PROVE  IInv'
<1> USE DEF IInv, TypeInv
<1>1. UNCHANGED <<channel, rec, spc, replies>>
  BY DEF ReadTime, ReadIds, ReadLoads, Copy, server, queue
<1>2. RecordInv'
  BY <1>1 DEF RecordInv, Refreshing
<1>3. cpc' \in [Clients -> Places] /\ got' \in [Clients -> Records]
  <2>1. ASSUME NEW p \in Places, cpc' = [cpc EXCEPT ![c] = p]
        PROVE  cpc' \in [Clients -> Places]
    BY <2>1
  <2>2. ASSUME NEW f \in Fields, got' = [got EXCEPT ![c][f] = rec[f]]
        PROVE  got' \in [Clients -> Records]
    <3>1. got[c] \in Records /\ rec \in Records
      OBVIOUS
    <3>2. [got[c] EXCEPT ![f] = rec[f]] \in Records
      BY <3>1 DEF Records, Fields
    <3> QED
      BY <2>2, <3>2
  <2>3. CASE ReadTime(c)
    BY <2>1, <2>2, <2>3 DEF ReadTime, Copy, Places, Fields
  <2>4. CASE ReadIds(c)
    BY <2>1, <2>2, <2>4 DEF ReadIds, Copy, Places, Fields
  <2>5. CASE ReadLoads(c)
    BY <2>1, <2>2, <2>5 DEF ReadLoads, Copy, Places, Fields
  <2> QED
    BY <2>3, <2>4, <2>5
<1>4. \A d \in Clients : d # c => cpc'[d] = cpc[d] /\ got'[d] = got[d]
  BY DEF ReadTime, ReadIds, ReadLoads, Copy
<1>5. CopyOf(c) /\ Shared /\ got[c] \in Records /\ rec \in Records
  BY DEF CopyInv, CopyOf, ReadTime, ReadIds, ReadLoads, Copy
<1>6. CopyOf(c)' /\ (Received(c)' => InOrder(got'[c]))
  <2> USE <1>1, <1>5 DEF CopyOf, Received, Shared, Records, RecordInv
  <2>1. CASE ReadTime(c)
    <3>1. cpc'[c] = "time" /\ got'[c].time = rec.time
      BY <2>1 DEF ReadTime, Copy
    <3> QED
      BY <3>1
  <2>2. CASE ReadIds(c)
    <3>1. /\ cpc[c] = "time" /\ cpc'[c] = "ids"
          /\ got'[c].time = got[c].time /\ got'[c].pid = rec.pid
      BY <2>2 DEF ReadIds, Copy
    <3> QED
      BY <3>1
  <2>3. CASE Copy(c, "ids", "load1", "load1")
    <3>1. /\ cpc[c] = "ids" /\ cpc'[c] = "load1"
          /\ got'[c].time = got[c].time /\ got'[c].pid = got[c].pid
          /\ got'[c].load1 = rec.load1
      BY <2>3 DEF Copy
    <3> QED
      BY <3>1
  <2>4. CASE Copy(c, "load1", "load5", "load5")
    <3>1. /\ cpc[c] = "load1" /\ cpc'[c] = "load5"
          /\ got'[c].time = got[c].time /\ got'[c].pid = got[c].pid
          /\ got'[c].load1 = got[c].load1 /\ got'[c].load5 = rec.load5
      BY <2>4 DEF Copy
    <3> QED
      BY <3>1
  <2>5. CASE Copy(c, "load5", "done", "load15")
    <3>1. /\ cpc[c] = "load5" /\ cpc'[c] = "done"
          /\ got'[c].time = got[c].time /\ got'[c].pid = got[c].pid
          /\ got'[c].load1 = got[c].load1 /\ got'[c].load5 = got[c].load5
          /\ got'[c].load15 = rec.load15
      BY <2>5 DEF Copy
    <3> QED
      BY <3>1 DEF InOrder
  <2> QED
    BY <2>1, <2>2, <2>3, <2>4, <2>5 DEF ReadLoads
<1>7. CopyInv'
  <2> SUFFICES ASSUME NEW d \in Clients, d # c PROVE CopyOf(d)'
    BY <1>6 DEF CopyInv
  <2>1. CopyOf(d) /\ cpc'[d] = cpc[d] /\ got'[d] = got[d]
    BY <1>4 DEF CopyInv
  <2> QED
    BY <1>1, <2>1 DEF CopyOf, Shared
<1>8. OneMoment'
  <2> SUFFICES ASSUME NEW d \in Clients, Received(d)'
               PROVE  Mixed(d)'
    BY DEF OneMoment, Mixed, InOrder, OneRefresh
  <2>1. CASE d = c
    <3>1. Shared'
      BY <1>1, <1>5 DEF Shared
    <3>2. InOrder(got'[c])
      BY <1>6, <2>1
    <3> QED
      BY <2>1, <3>1, <3>2 DEF Mixed
  <2>2. CASE d # c
    BY <2>2, <1>1, <1>4 DEF OneMoment, Received, Shared, Mixed, InOrder, OneRefresh
  <2> QED
    BY <2>1, <2>2
<1> QED
  BY <1>1, <1>2, <1>3, <1>7, <1>8

(* The steps in which a client begins, waits in vain, ends or is killed.   *)
LEMMA OtherClientStep ==
  ASSUME IInv, NEW c \in Clients,
         \/ Attach(c) \/ SendQuery(c) \/ Connect(c) \/ ConnectRefused(c)
         \/ ConnectionReset(c) \/ Finish(c) \/ KillClient(c)
  PROVE  IInv'
<1> USE DEF IInv, TypeInv
<1>1. UNCHANGED <<channel, rec, spc, replies>>
  BY DEF Attach, SendQuery, Connect, ConnectRefused, ConnectionReset, Finish,
         KillClient, server, queue
<1>2. RecordInv'
  BY <1>1 DEF RecordInv, Refreshing
<1>3. \E p \in Places \ {"time", "ids", "load1", "load5", "done"} :
        cpc' = [cpc EXCEPT ![c] = p] /\ (p = "attached" => Shared)
  <2>1. CASE Attach(c)
    BY <2>1 DEF Attach, Begin, Places
  <2>2. CASE SendQuery(c) \/ Connect(c)
    BY <2>2 DEF SendQuery, Connect, Begin, Places
  <2>3. CASE ConnectRefused(c) \/ ConnectionReset(c)
    BY <2>3 DEF ConnectRefused, ConnectionReset, Begin, Places
  <2>4. CASE Finish(c) \/ KillClient(c)
    BY <2>4 DEF Finish, KillClient, Places
  <2> QED
    BY <2>1, <2>2, <2>3, <2>4
<1>4. got' \in [Clients -> Records] /\ \A d \in Clients : d # c => got'[d] = got[d]
  <2>1. CASE Finish(c)
    BY <2>1 DEF Finish, Zeros, Records
  <2>2. CASE ~Finish(c)
    <3>1. UNCHANGED got
      BY <2>2 DEF Attach, SendQuery, Connect, ConnectRefused, ConnectionReset,
                  KillClient, Begin
    <3> QED
      BY <3>1
  <2> QED
    BY <2>1, <2>2
<1>5. CopyInv'
  BY <1>1, <1>3, <1>4 DEF CopyInv, CopyOf, Shared
<1>6. OneMoment'
  BY <1>1, <1>3, <1>4 DEF OneMoment, Received, Shared
<1> QED
  BY <1>1, <1>2, <1>3, <1>4, <1>5, <1>6

-----------------------------------------------------------------------------
(* Every step keeps the invariant.                                         *)
LEMMA NextInv == IInv /\ [Next]_vars => IInv'
<1> SUFFICES ASSUME IInv, [Next]_vars PROVE IInv'
  OBVIOUS
<1>1. CASE Server
  BY <1>1, StoreStep, OtherServerStep, AnswerStep DEF Server
<1>2. CASE Interrupt \/ Kill
  BY <1>2, OtherServerStep
<1>3. ASSUME NEW c \in Clients, Client(c) PROVE IInv'
  BY <1>3, ReceiveStep, CopyStep, OtherClientStep DEF Client, Proceed
<1>4. CASE UNCHANGED vars
  BY <1>4 DEF vars, server, queue, clients, IInv, TypeInv, RecordInv, Refreshing,
              CopyInv, CopyOf, OneMoment, Received, Shared
<1> QED
  BY <1>1, <1>2, <1>3, <1>4 DEF Next

(* The inductive invariant holds in every reachable state.                 *)
THEOREM Invariance == Spec => []IInv
<1> QED
  BY InitInv, NextInv, PTL DEF Spec

(* Whatever channel the server uses, and however refreshes and clients     *)
(* interleave, a record that was sent is of one refresh.  A copy out of    *)
(* shared memory may mix refreshes that are any number apart, but none of  *)
(* its fields is more than one refresh older than one that was read before *)
(* it, and none has a time without the ids (part1/server.c lines 109-133,  *)
(* client.c lines 58-65).                                                  *)
THEOREM CopiesCorrect == Spec => []OneMoment
<1> QED
  BY Invariance, PTL DEF IInv

-----------------------------------------------------------------------------
(* Queries, replies and the age of what is received.  The counters, and    *)
(* nobody asked later than now; until the first refresh there is no reply. *)
CountInv ==
  /\ queries \in Nat /\ lost \in Nat
  /\ asked \in [Clients -> Nat]
  /\ \A c \in Clients : asked[c] <= rec.time
  /\ spc \in {"create", "publish", "ids"} => rec.time = 0 /\ replies = <<>>

WaitingClients == {c \in Clients : cpc[c] = "waiting"}
Waiting == Cardinality(WaitingClients)
Taken == IF spc = "taken" THEN 1 ELSE 0

(* RepliesAccounted, with its numbers named.                               *)
InHand == IF spc \in {"taken", "reply"} \/ (Refreshing /\ ~First) THEN 1 ELSE 0
Owed == queries + Len(replies) + InHand
Accounted ==
  channel = "msgq" => IF Down THEN Waiting + lost \in {Owed, Owed + 1}
                              ELSE Waiting + lost = Owed

(* The message queue: reply i from the front is no older than the clients  *)
(* that may take a reply before it allow, and a client whose query is      *)
(* neither in the queue nor just taken came before the last refresh.       *)
OrderInv ==
  channel = "msgq" =>
    /\ \A i \in DOMAIN replies :
         replies[i].time + Waiting + lost >= rec.time + i + queries + Taken
    /\ \A c \in WaitingClients :
         /\ ~Down => rec.time + queries + Taken > asked[c]
         /\ \A i \in DOMAIN replies : replies[i].time + Waiting + lost > asked[c] + i

(* The socket: who is connected waits, at one place, and the record is     *)
(* refreshed after the client came.                                        *)
Answering == Refreshing \/ spc = "reply"
SocketInv ==
  /\ backlog \in Seq(Clients \cup {NoClient}) /\ peer \in Clients \cup {NoClient}
  /\ channel # "socket" => backlog = <<>> /\ peer = NoClient
  /\ ~Down =>
       /\ peer # NoClient => cpc[peer] = "waiting"
       /\ \A i \in DOMAIN backlog : backlog[i] # NoClient =>
            /\ cpc[backlog[i]] = "waiting" /\ backlog[i] # peer
            /\ \A j \in DOMAIN backlog : backlog[j] = backlog[i] => j = i
  /\ Answering /\ peer # NoClient => asked[peer] < rec.time

(* Shared memory: a copy is no older than the client.                      *)
Timed == {"time", "ids", "load1", "load5", "done"}
SharedInv ==
  Shared => \A c \in Clients : cpc[c] \in Timed => got[c].time >= asked[c]

AgeInv == CountInv /\ Accounted /\ OrderInv /\ SocketInv /\ SharedInv /\ LagBounded
FullInv == IInv /\ AgeInv

USE DEF Refreshing, Answering, Timed

(* How the number of waiting clients changes when one of them moves.       *)
LEMMA WaitingStep ==
  ASSUME cpc \in [Clients -> Places], NEW c \in Clients, NEW p, cpc' = [cpc EXCEPT ![c] = p]
  PROVE  /\ WaitingClients' = IF p = "waiting" THEN WaitingClients \cup {c}
                                               ELSE WaitingClients \ {c}
         /\ cpc[c] # "waiting" /\ p # "waiting" => Waiting' = Waiting
         /\ cpc[c] = "waiting" /\ p # "waiting" => Waiting' = Waiting - 1
         /\ cpc[c] # "waiting" /\ p = "waiting" => Waiting' = Waiting + 1
<1>1. WaitingClients' = IF p = "waiting" THEN WaitingClients \cup {c}
                                         ELSE WaitingClients \ {c}
  BY DEF WaitingClients
<1>2. IsFiniteSet(WaitingClients)
  BY SystemInfoAssumption, FS_Subset DEF WaitingClients
<1>3. c \in WaitingClients <=> cpc[c] = "waiting"
  BY DEF WaitingClients
<1>4. Cardinality(WaitingClients \ {c}) =
        IF c \in WaitingClients THEN Cardinality(WaitingClients) - 1
                                ELSE Cardinality(WaitingClients)
  BY <1>2, FS_RemoveElement
<1>5. Cardinality(WaitingClients \cup {c}) =
        IF c \in WaitingClients THEN Cardinality(WaitingClients)
                                ELSE Cardinality(WaitingClients) + 1
  BY <1>2, FS_AddElement
<1> QED
  BY <1>1, <1>3, <1>4, <1>5 DEF Waiting

(* There are never more of them than clients, and none when nobody waits.  *)
LEMMA WaitingBounds ==
  /\ Waiting \in Nat /\ Waiting <= Cardinality(Clients) /\ Cardinality(Clients) \in Nat
  /\ (\A c \in Clients : cpc[c] # "waiting") => Waiting = 0
<1>1. WaitingClients \in SUBSET Clients /\ IsFiniteSet(Clients)
  BY SystemInfoAssumption DEF WaitingClients
<1>2. IsFiniteSet(WaitingClients)
  BY <1>1, FS_Subset
<1>3. (\A c \in Clients : cpc[c] # "waiting") => WaitingClients = {}
  BY DEF WaitingClients
<1> QED
  BY <1>1, <1>2, <1>3, FS_Subset, FS_CardinalityType, FS_EmptySet DEF Waiting

(* A reply in the queue has a time, and a place.                           *)
LEMMA QueuedReply ==
  ASSUME TypeInv, NEW i \in DOMAIN replies
  PROVE  i \in Nat /\ i <= Len(replies) /\ replies[i].time \in Nat
<1>1. i \in 1 .. Len(replies) /\ Len(replies) \in Nat /\ replies[i] \in Whole
  BY DEF TypeInv
<1>2. replies[i] \in Records
  BY <1>1 DEF Whole
<1>3. replies[i].time \in Nat
  BY <1>2 DEF Records
<1> QED
  BY <1>1, <1>3

(* Nothing has been asked, received or counted at first.                   *)
LEMMA AgeInit == Init => AgeInv
<1> SUFFICES ASSUME Init PROVE AgeInv
  OBVIOUS
<1> USE DEF Init, Zeros
<1>1. CountInv
  BY DEF CountInv
<1>2. Waiting = 0 /\ WaitingClients = {}
  BY WaitingBounds DEF WaitingClients
<1>3. Accounted /\ OrderInv
  BY <1>2 DEF Accounted, OrderInv, Owed, InHand, Taken, Down
<1>4. SocketInv /\ SharedInv /\ LagBounded
  BY DEF SocketInv, SharedInv, LagBounded, Received
<1> QED
  BY <1>1, <1>3, <1>4 DEF AgeInv

(* A step that leaves the clients alone leaves the age of their copies.    *)
LEMMA AgeKept ==
  ASSUME FullInv, UNCHANGED <<channel, cpc, got, asked, lost>>
  PROVE  /\ SharedInv' /\ LagBounded'
         /\ Waiting' = Waiting /\ WaitingClients' = WaitingClients
<1>1. SharedInv'
  BY DEF FullInv, AgeInv, SharedInv, Shared
<1>2. LagBounded'
  BY DEF FullInv, AgeInv, LagBounded, Received, Shared
<1>3. WaitingClients' = WaitingClients
  BY DEF WaitingClients
<1> QED
  BY <1>1, <1>2, <1>3 DEF Waiting

(* ... and what is known of the socket, unless it changes.                 *)
LEMMA SocketKept ==
  ASSUME FullInv, UNCHANGED <<channel, backlog, peer, cpc, asked>>, Down => Down',
         rec.time <= rec'.time, rec' \in Records,
         Answering' => Answering \/ rec.time < rec'.time
  PROVE  SocketInv'
<1>1. /\ rec.time \in Nat /\ rec'.time \in Nat
      /\ peer # NoClient => asked[peer] \in Nat /\ asked[peer] <= rec.time
  BY DEF FullInv, IInv, TypeInv, AgeInv, CountInv, SocketInv, Records
<1>2. SocketInv
  BY DEF FullInv, AgeInv
<1>3. Answering' /\ peer # NoClient => asked[peer] < rec'.time
  BY <1>1, <1>2 DEF SocketInv
<1> QED
  BY <1>2, <1>3 DEF SocketInv

(* The stores to the record.                                               *)
LEMMA StoreAge ==
  ASSUME FullInv, WriteIds \/ WriteTime \/ WriteLoads
  PROVE  AgeInv'
<1> USE DEF queue, socket, clients
<1>0. TypeInv /\ RecordInv /\ CountInv /\ Accounted /\ OrderInv /\ Waiting \in Nat
  BY WaitingBounds DEF FullInv, IInv, AgeInv
<1>1. /\ UNCHANGED <<channel, queries, replies, backlog, peer>>
      /\ UNCHANGED <<cpc, got, asked, lost>>
      /\ ~Down /\ ~Down'
  BY DEF WriteIds, WriteTime, WriteLoads, WriteLoad, Refreshed, Down, Shared
<1>2. SharedInv' /\ LagBounded' /\ Waiting' = Waiting /\ WaitingClients' = WaitingClients
  BY <1>1, AgeKept
<1>3. /\ rec.time \in Nat /\ rec'.time \in Nat /\ rec' \in Records
      /\ rec'.time = IF WriteTime THEN rec.time + 1 ELSE rec.time
      /\ ~WriteTime => spc' # "reply" \/ Refreshing
  <2>0. rec \in Records
    BY <1>0 DEF TypeInv
  <2>1. CASE WriteTime
    BY <2>0, <2>1 DEF WriteTime, Records
  <2>2. CASE ~WriteTime /\ WriteIds
    BY <2>0, <2>2 DEF WriteIds, Records
  <2>3. ASSUME ~WriteTime, NEW load \in {"load1", "load5", "load15"}, NEW to,
               WriteLoad(load, to)
        PROVE  UNCHANGED rec.time /\ rec' \in Records /\ Refreshing
    <3>1. rec' = [rec EXCEPT ![load] = rec.time] /\ spc = load
      BY <2>3 DEF WriteLoad
    <3> QED
      BY <2>0, <2>3, <3>1 DEF Records
  <2>4. CASE ~WriteTime /\ WriteLoads
    <3>1. rec'.time = rec.time /\ rec' \in Records /\ Refreshing
      BY <2>3, <2>4 DEF WriteLoads
    <3> QED
      BY <2>0, <2>4, <3>1 DEF Records
  <2> QED
    BY <2>1, <2>2, <2>4
<1>4. CountInv'
  BY <1>0, <1>1, <1>3 DEF CountInv, WriteIds, WriteTime, WriteLoads, WriteLoad, Refreshed
<1>5. SocketInv'
  BY <1>0, <1>1, <1>3, SocketKept DEF WriteIds, WriteTime, WriteLoads, WriteLoad
<1>6. ASSUME channel = "msgq"
      PROVE  /\ InHand' = InHand
             /\ \/ spc' # "taken" /\ spc # "taken" /\ rec'.time = rec.time
                \/ spc' # "taken" /\ spc = "taken" /\ rec'.time = rec.time + 1
                \/ spc' # "taken" /\ replies = <<>> /\ rec'.time = rec.time + 1
  BY <1>0, <1>1, <1>3, <1>6
  DEF WriteIds, WriteTime, WriteLoads, WriteLoad, Refreshed, InHand, First, Shared,
      RecordInv, CountInv
<1>7. Accounted'
  BY <1>0, <1>1, <1>2, <1>6 DEF Accounted, Owed
<1>8. OrderInv'
  <2> SUFFICES ASSUME channel = "msgq" PROVE OrderInv'
    BY <1>1 DEF OrderInv
  <2>1. rec'.time + Taken' >= rec.time + Taken
    BY <1>3, <1>6 DEF Taken
  <2>2. \A i \in DOMAIN replies : rec'.time + Taken' = rec.time + Taken
    BY <1>3, <1>6 DEF Taken
  <2>3. Taken \in Nat /\ Taken' \in Nat
    BY DEF Taken
  <2>4. ASSUME NEW i \in DOMAIN replies
        PROVE  replies[i].time + Waiting + lost >= rec'.time + i + queries + Taken'
    <3>1. replies[i].time + Waiting + lost >= rec.time + i + queries + Taken
      BY <1>0 DEF OrderInv
    <3>2. /\ i \in Nat /\ replies[i].time \in Nat
          /\ queries \in Nat /\ lost \in Nat /\ Waiting \in Nat
      BY <1>0, QueuedReply DEF CountInv
    <3> QED
      BY <2>2, <2>3, <3>1, <3>2, <1>3
  <2>5. ASSUME NEW c \in WaitingClients
        PROVE  rec'.time + queries + Taken' > asked[c]
    <3>1. rec.time + queries + Taken > asked[c]
      BY <1>0, <1>1 DEF OrderInv
    <3>2. /\ rec.time \in Nat /\ rec'.time \in Nat /\ queries \in Nat
          /\ asked[c] \in Nat
      BY <1>0, <1>3 DEF CountInv, WaitingClients
    <3> QED
      BY <2>1, <2>3, <3>1, <3>2
  <2> QED
    BY <1>0, <1>1, <1>2, <2>4, <2>5 DEF OrderInv
<1> QED
  BY <1>2, <1>4, <1>5, <1>7, <1>8 DEF AgeInv

(* A query is taken out of the queue: it is in the server's hands.         *)
LEMMA TakeAge ==
  ASSUME FullInv, TakeQuery
  PROVE  AgeInv'
<1> USE DEF TakeQuery, socket, clients
<1>0. TypeInv /\ CountInv /\ Accounted /\ OrderInv /\ Waiting \in Nat
  BY WaitingBounds DEF FullInv, IInv, AgeInv
<1>1. SharedInv' /\ LagBounded' /\ Waiting' = Waiting /\ WaitingClients' = WaitingClients
  BY AgeKept
<1>2. CountInv'
  BY <1>0 DEF CountInv
<1>3. SocketInv'
  BY <1>0, SocketKept DEF TypeInv, Records, Down
<1>4. Accounted'
  BY <1>0, <1>1 DEF Accounted, Owed, InHand, Down, CountInv
<1>5. Taken = 0 /\ Taken' = 1 /\ queries \in Nat /\ ~Down
  BY <1>0 DEF Taken, CountInv, Down
<1>6. OrderInv'
  <2>1. queries' + Taken' = queries + Taken
    BY <1>5
  <2>2. ASSUME NEW m \in Nat PROVE m + queries' + Taken' = m + queries + Taken
    BY <1>5
  <2>3. \A i \in DOMAIN replies : rec.time + i \in Nat
    BY <1>0, QueuedReply DEF TypeInv, Records
  <2>4. rec.time \in Nat
    BY <1>0 DEF TypeInv, Records
  <2> QED
    BY <1>0, <1>1, <1>5, <2>2, <2>3, <2>4 DEF OrderInv
<1> QED
  BY <1>1, <1>2, <1>3, <1>4, <1>6 DEF AgeInv

(* The reply goes to the end of the queue: it is of the last refresh, and  *)
(* every client that waits either came before that or has a query left.    *)
LEMMA ReplyAge ==
  ASSUME FullInv, Reply
  PROVE  AgeInv'
<1> USE DEF Reply, socket, clients
<1>0. TypeInv /\ RecordInv /\ CountInv /\ Accounted /\ OrderInv /\ Waiting \in Nat
  BY WaitingBounds DEF FullInv, IInv, AgeInv
<1>1. SharedInv' /\ LagBounded' /\ Waiting' = Waiting /\ WaitingClients' = WaitingClients
  BY AgeKept
<1>2. CountInv'
  BY <1>0 DEF CountInv
<1>3. SocketInv'
  BY <1>0, SocketKept DEF TypeInv, Records, Down
<1>4. /\ Len(replies) \in Nat /\ Len(replies') = Len(replies) + 1
      /\ DOMAIN replies = 1 .. Len(replies) /\ DOMAIN replies' = 1 .. Len(replies) + 1
      /\ \A i \in DOMAIN replies : replies'[i] = replies[i]
      /\ replies'[Len(replies) + 1] = rec
  <2>1. rec \in Whole
    BY <1>0 DEF TypeInv, RecordInv, Whole
  <2> QED
    BY <1>0, <2>1 DEF TypeInv
<1>5. Accounted'
  BY <1>0, <1>1, <1>4 DEF Accounted, Owed, InHand, Down, CountInv
<1>6. /\ queries \in Nat /\ lost \in Nat /\ rec.time \in Nat
      /\ Waiting + lost = queries + Len(replies) + 1
  BY <1>0 DEF Accounted, Owed, InHand, Down, CountInv, TypeInv, Records
<1>7. Taken = 0 /\ Taken' = 0 /\ ~Down /\ ~Down'
  BY DEF Taken, Down
<1>8. ASSUME NEW i \in DOMAIN replies'
      PROVE  /\ replies'[i].time + Waiting + lost >= rec.time + i + queries + Taken'
             /\ \A c \in WaitingClients : replies'[i].time + Waiting + lost > asked[c] + i
  <2>1. CASE i = Len(replies) + 1
    <3>1. replies'[i].time = rec.time
      BY <1>4, <2>1
    <3>2. ASSUME NEW c \in WaitingClients PROVE rec.time + queries > asked[c] /\ asked[c] \in Nat
      <4>1. rec.time + queries + Taken > asked[c] /\ asked[c] \in Nat
        BY <1>0, <1>7 DEF OrderInv, CountInv, WaitingClients
      <4> QED
        BY <1>6, <1>7, <4>1
    <3>3. rec.time + Waiting + lost = rec.time + i + queries
      <4>1. Waiting \in Nat /\ Len(replies) \in Nat
        BY <1>0, <1>4
      <4> QED
        BY <1>6, <2>1, <4>1
    <3>4. ASSUME NEW c \in WaitingClients PROVE rec.time + i + queries > asked[c] + i
      BY <1>4, <1>6, <2>1, <3>2
    <3> QED
      BY <1>4, <1>6, <1>7, <2>1, <3>1, <3>3, <3>4
  <2>2. CASE i # Len(replies) + 1
    <3>1. i \in DOMAIN replies /\ replies'[i] = replies[i]
      BY <1>4, <2>2
    <3> QED
      BY <1>0, <1>7, <3>1 DEF OrderInv
  <2> QED
    BY <2>1, <2>2
<1>9. OrderInv'
  BY <1>0, <1>1, <1>7, <1>8 DEF OrderInv
<1> QED
  BY <1>1, <1>2, <1>3, <1>5, <1>9 DEF AgeInv

(* The server goes on, or ends: nothing but its place changes.             *)
LEMMA PlaceAge ==
  ASSUME FullInv, Publish \/ InstallHandlers \/ Interrupt \/ Kill
  PROVE  AgeInv'
<1> USE DEF queue, socket, clients
<1>0. TypeInv /\ CountInv /\ Accounted /\ OrderInv /\ Waiting \in Nat
  BY WaitingBounds DEF FullInv, IInv, AgeInv
<1>1. /\ UNCHANGED <<channel, rec, queries, replies, backlog, peer>>
      /\ UNCHANGED <<cpc, got, asked, lost>>
      /\ ~Down
      /\ \/ Down'
         \/ spc = "create" /\ spc' = "publish"
         \/ spc = "handlers" /\ spc' = "loop"
  BY DEF Publish, InstallHandlers, Interrupt, Kill, Down
<1>2. SharedInv' /\ LagBounded' /\ Waiting' = Waiting /\ WaitingClients' = WaitingClients
  BY <1>1, AgeKept
<1>3. CountInv'
  BY <1>0, <1>1 DEF CountInv, Down
<1>4. SocketInv'
  BY <1>0, <1>1, SocketKept DEF TypeInv, Records, Down
<1>5. Accounted'
  <2>1. Len(replies) \in Nat /\ queries \in Nat /\ lost \in Nat
    BY <1>0 DEF TypeInv, CountInv
  <2>2. CASE Down'
    <3>1. InHand' = 0 /\ InHand \in {0, 1}
      BY <2>2 DEF InHand, Down
    <3> QED
      BY <1>0, <1>1, <1>2, <2>1, <2>2, <3>1 DEF Accounted, Owed
  <2>3. CASE ~Down'
    <3>1. InHand' = InHand
      BY <1>1, <2>3 DEF InHand
    <3> QED
      BY <1>0, <1>1, <1>2, <2>3, <3>1 DEF Accounted, Owed
  <2> QED
    BY <2>2, <2>3
<1>6. OrderInv'
  <2>1. Taken' = 0 /\ Taken \in {0, 1} /\ (~Down' => Taken = 0)
    BY <1>1 DEF Taken, Down
  <2>2. ASSUME channel = "msgq", NEW i \in DOMAIN replies
        PROVE  replies[i].time + Waiting + lost >= rec.time + i + queries + Taken'
    <3>1. /\ i \in Nat /\ replies[i].time \in Nat /\ rec.time \in Nat
          /\ queries \in Nat /\ lost \in Nat
      BY <1>0, QueuedReply DEF CountInv, TypeInv, Records
    <3>2. replies[i].time + Waiting + lost >= rec.time + i + queries + Taken
      BY <1>0, <2>2 DEF OrderInv
    <3> QED
      BY <1>0, <2>1, <3>1, <3>2
  <2> QED
    BY <1>0, <1>1, <1>2, <2>1, <2>2 DEF OrderInv
<1> QED
  BY <1>2, <1>3, <1>4, <1>5, <1>6 DEF AgeInv

(* The first connection of the backlog becomes the one that is served.     *)
LEMMA AcceptAge ==
  ASSUME FullInv, Accept
  PROVE  AgeInv'
<1> USE DEF Accept, queue, clients
<1>0. TypeInv /\ CountInv /\ SocketInv
  BY DEF FullInv, IInv, AgeInv
<1>1. SharedInv' /\ LagBounded'
  BY AgeKept
<1>2. CountInv' /\ Accounted' /\ OrderInv'
  BY <1>0 DEF CountInv, Accounted, OrderInv
<1>3. SocketInv'
  <2> DEFINE n == Len(backlog)
  <2>1. /\ n \in Nat /\ n > 0 /\ DOMAIN backlog = 1 .. n /\ peer' = backlog[1]
        /\ backlog' \in Seq(Clients \cup {NoClient}) /\ DOMAIN backlog' = 1 .. n - 1
        /\ \A i \in 1 .. n - 1 : backlog'[i] = backlog[i + 1]
        /\ peer' \in Clients \cup {NoClient}
    BY <1>0 DEF SocketInv
  <2>2. ~Down
    BY DEF Down
  <2>3. \A i \in 1 .. n : backlog[i] # NoClient =>
          /\ cpc[backlog[i]] = "waiting"
          /\ \A j \in 1 .. n : backlog[j] = backlog[i] => j = i
    BY <1>0, <2>1, <2>2 DEF SocketInv
  <2>4. peer' # NoClient => cpc[peer'] = "waiting"
    BY <2>1, <2>3
  <2>5. ASSUME NEW i \in 1 .. n - 1, backlog'[i] # NoClient
        PROVE  /\ cpc[backlog'[i]] = "waiting" /\ backlog'[i] # peer'
               /\ \A j \in 1 .. n - 1 : backlog'[j] = backlog'[i] => j = i
    <3>1. i + 1 \in 1 .. n /\ backlog'[i] = backlog[i + 1] /\ 1 \in 1 .. n /\ i + 1 # 1
      BY <2>1
    <3>2. \A j \in 1 .. n - 1 : j + 1 \in 1 .. n /\ backlog'[j] = backlog[j + 1]
      BY <2>1
    <3>3. backlog'[i] # peer'
      BY <2>1, <2>3, <2>5, <3>1
    <3> QED
      BY <2>3, <2>5, <3>1, <3>2, <3>3
  <2> QED
    BY <2>1, <2>4, <2>5 DEF SocketInv
<1> QED
  BY <1>1, <1>2, <1>3 DEF AgeInv

(* The answer goes to the client at the other end, which came before the   *)
(* refresh that was made for it.                                           *)
LEMMA AnswerAge ==
  ASSUME FullInv, Answer
  PROVE  AgeInv'
<1> USE DEF Answer, queue
<1>0. TypeInv /\ CountInv /\ SocketInv /\ SharedInv /\ LagBounded
  BY DEF FullInv, IInv, AgeInv
<1>1. CASE peer = NoClient
  <2>1. UNCHANGED <<cpc, got, asked, lost>>
    BY <1>1 DEF clients
  <2>2. SharedInv' /\ LagBounded'
    BY <2>1, AgeKept
  <2>3. CountInv' /\ Accounted' /\ OrderInv' /\ SocketInv'
    BY <1>0, <1>1, <2>1 DEF CountInv, Accounted, OrderInv, SocketInv, Down
  <2> QED
    BY <2>2, <2>3 DEF AgeInv
<1>2. CASE peer # NoClient
  <2>1. /\ peer \in Clients /\ spc' = "loop" /\ Give(peer, rec)
        /\ asked[peer] < rec.time /\ ~Down
    BY <1>0, <1>2 DEF SocketInv, Down
  <2>2. /\ cpc'[peer] = "done" /\ got'[peer] = rec
        /\ \A d \in Clients \ {peer} : cpc'[d] = cpc[d] /\ got'[d] = got[d]
        /\ UNCHANGED <<asked, lost>>
    BY <1>0, <2>1 DEF Give, TypeInv
  <2>3. CountInv' /\ Accounted' /\ OrderInv'
    BY <1>0, <2>1, <2>2 DEF CountInv, Accounted, OrderInv
  <2>4. SocketInv'
    BY <1>0, <2>1, <2>2 DEF SocketInv, Down
  <2>5. SharedInv'
    BY DEF SharedInv, Shared
  <2>6. LagBounded'
    <3> SUFFICES ASSUME NEW c \in Clients, Received(c)' PROVE got'[c].time > asked[c]
      BY <2>2 DEF LagBounded, Shared
    <3>1. CASE c = peer
      BY <1>0, <2>1, <2>2, <3>1 DEF TypeInv, Records, CountInv
    <3>2. CASE c # peer
      BY <1>0, <2>2, <3>2 DEF LagBounded, Received, Shared
    <3> QED
      BY <3>1, <3>2
  <2> QED
    BY <2>3, <2>4, <2>5, <2>6 DEF AgeInv
<1> QED
  BY <1>1, <1>2

-----------------------------------------------------------------------------
(* A step of a client that does not wait leaves the socket alone.          *)
LEMMA SocketClient ==
  ASSUME FullInv, NEW c \in Clients, cpc[c] # "waiting",
         UNCHANGED <<channel, backlog, peer, rec, spc>>,
         \A d \in Clients \ {c} : cpc'[d] = cpc[d] /\ asked'[d] = asked[d]
  PROVE  SocketInv'
<1>1. SocketInv
  BY DEF FullInv, AgeInv
<1>2. CASE Down
  BY <1>1, <1>2 DEF SocketInv, Down
<1>3. CASE ~Down
  <2>1. peer # c /\ \A i \in DOMAIN backlog : backlog[i] # c
    BY <1>1, <1>3, SystemInfoAssumption DEF SocketInv
  <2>2. \A i \in DOMAIN backlog : backlog[i] \in Clients \cup {NoClient}
    BY <1>1 DEF SocketInv
  <2> QED
    BY <1>1, <2>1, <2>2 DEF SocketInv, Down
<1> QED
  BY <1>2, <1>3

(* The first reply is taken: the replies behind it move up, and there is   *)
(* one client less that waits.                                             *)
LEMMA ReceiveAge ==
  ASSUME FullInv, NEW c \in Clients, ReceiveReply(c)
  PROVE  AgeInv'
<1> USE DEF ReceiveReply, server, socket, Give
<1>0. /\ TypeInv /\ CountInv /\ Accounted /\ OrderInv /\ SocketInv /\ LagBounded
      /\ Waiting \in Nat /\ Waiting <= Cardinality(Clients) /\ Cardinality(Clients) \in Nat
  BY WaitingBounds DEF FullInv, IInv, AgeInv
<1>1. /\ WaitingClients' = WaitingClients \ {c} /\ Waiting' = Waiting - 1
      /\ c \in WaitingClients
  BY <1>0, WaitingStep DEF TypeInv, WaitingClients
<1>2. /\ Len(replies) \in Nat /\ Len(replies) > 0 /\ Len(replies') = Len(replies) - 1
      /\ DOMAIN replies' = 1 .. Len(replies) - 1 /\ DOMAIN replies = 1 .. Len(replies)
      /\ \A i \in DOMAIN replies' : replies'[i] = replies[i + 1]
      /\ Head(replies) = replies[1]
  BY <1>0 DEF TypeInv
<1>3. CountInv'
  BY <1>0 DEF CountInv
<1>4. Accounted'
  <2>1. queries \in Nat /\ lost \in Nat /\ InHand' = InHand /\ InHand \in Nat
    BY <1>0 DEF CountInv, InHand, First
  <2>2. Owed' = Owed - 1 /\ Owed \in Nat
    BY <1>2, <2>1 DEF Owed
  <2> QED
    BY <1>0, <1>1, <2>1, <2>2 DEF Accounted, Down
<1>5. ASSUME NEW i \in DOMAIN replies'
      PROVE  /\ i + 1 \in DOMAIN replies /\ replies'[i] = replies[i + 1]
             /\ i \in Nat /\ replies[i + 1].time \in Nat
  BY <1>0, <1>2, <1>5, QueuedReply
<1>6. /\ queries \in Nat /\ lost \in Nat /\ rec.time \in Nat /\ Taken \in Nat
      /\ asked \in [Clients -> Nat]
  BY <1>0 DEF CountInv, TypeInv, Records, Taken
<1>7. OrderInv'
  <2>1. ASSUME NEW i \in DOMAIN replies'
        PROVE  replies'[i].time + Waiting' + lost >= rec.time + i + queries + Taken
    <3>1. replies[i + 1].time + Waiting + lost >= rec.time + (i + 1) + queries + Taken
      BY <1>0, <1>5 DEF OrderInv
    <3>2. Waiting \in Nat /\ Waiting' = Waiting - 1
      BY <1>0, <1>1
    <3> HIDE DEF ReceiveReply, server, socket, Give
    <3> QED
      BY <1>5, <1>6, <3>1, <3>2
  <2>2. ASSUME NEW d \in WaitingClients, NEW i \in DOMAIN replies'
        PROVE  replies'[i].time + Waiting' + lost > asked[d] + i
    <3>1. replies[i + 1].time + Waiting + lost > asked[d] + (i + 1)
      BY <1>0, <1>5 DEF OrderInv
    <3>2. /\ Waiting \in Nat /\ asked[d] \in Nat /\ lost \in Nat /\ Waiting' = Waiting - 1
          /\ i \in Nat /\ replies'[i].time = replies[i + 1].time /\ replies[i + 1].time \in Nat
      BY <1>0, <1>1, <1>5, <1>6 DEF WaitingClients
    <3> HIDE DEF ReceiveReply, server, socket, Give
    <3> QED
      BY <3>1, <3>2
  <2>3. Taken' = Taken /\ (Down' <=> Down)
    BY DEF Taken, Down
  <2>4. ASSUME NEW d \in WaitingClients', ~Down PROVE rec.time + queries + Taken > asked[d]
    BY <1>0, <1>1, <2>4 DEF OrderInv
  <2> QED
    BY <1>1, <2>1, <2>2, <2>3, <2>4 DEF OrderInv
<1>8. /\ cpc'[c] = "done" /\ got'[c] = replies[1]
      /\ \A d \in Clients \ {c} : cpc'[d] = cpc[d] /\ got'[d] = got[d]
  BY <1>0, <1>2 DEF TypeInv
<1>9. SharedInv'
  BY DEF SharedInv, Shared
<1>10. LagBounded'
  <2> SUFFICES ASSUME NEW d \in Clients, Received(d)'
               PROVE  got'[d].time + Cardinality(Clients \ {d}) + lost > asked[d]
    BY DEF LagBounded, Shared
  <2>1. CASE d = c
    <3>1. replies[1].time + Waiting + lost > asked[c] + 1 /\ replies[1].time \in Nat
      BY <1>0, <1>1, <1>2, QueuedReply DEF OrderInv
    <3>2. Cardinality(Clients \ {c}) = Cardinality(Clients) - 1
      BY SystemInfoAssumption, FS_RemoveElement
    <3>3. /\ asked[c] \in Nat /\ Cardinality(Clients) \in Nat
          /\ Waiting \in Nat /\ Waiting <= Cardinality(Clients)
      BY <1>0, <1>6
    <3>4. got'[d].time = replies[1].time /\ lost \in Nat
      BY <1>0, <1>6, <1>8, <2>1
    <3> QED
      BY <2>1, <3>1, <3>2, <3>3, <3>4, SMTT(20)
  <2>2. CASE d # c
    BY <1>0, <1>8, <2>2 DEF LagBounded, Received, Shared
  <2> QED
    BY <2>1, <2>2
<1>11. SocketInv'
  BY <1>0 DEF SocketInv  \* nobody is connected over the message queue
<1> QED
  BY <1>3, <1>4, <1>7, <1>9, <1>10, <1>11 DEF AgeInv

(* One field is copied out of the shared record, as it is now.             *)
LEMMA CopyAge ==
  ASSUME FullInv, NEW c \in Clients, ReadTime(c) \/ ReadIds(c) \/ ReadLoads(c)
  PROVE  AgeInv'
<1> USE DEF ReadTime, ReadIds, ReadLoads, Copy, server, queue, socket
<1>0. TypeInv /\ CopyInv /\ CountInv /\ SocketInv /\ SharedInv /\ LagBounded
  BY DEF FullInv, IInv, AgeInv
<1>1. /\ Shared /\ cpc[c] \in {"attached", "time", "ids", "load1", "load5"}
      /\ UNCHANGED <<channel, spc, rec, queries, replies, backlog, peer, asked, lost>>
      /\ \A d \in Clients \ {c} : cpc'[d] = cpc[d] /\ got'[d] = got[d]
      /\ cpc'[c] \in Timed
  BY <1>0 DEF CopyInv, CopyOf, TypeInv
<1>2. CountInv' /\ Accounted' /\ OrderInv'
  BY <1>0, <1>1 DEF CountInv, Accounted, OrderInv, Shared
<1>3. SocketInv'
  BY <1>1, SocketClient
<1>4. got'[c].time >= asked[c]
  <2>1. got[c] \in Records /\ asked[c] \in Nat /\ asked[c] <= rec.time
    BY <1>0 DEF TypeInv, CountInv
  <2>2. CASE ReadTime(c)
    <3>1. got'[c].time = rec.time
      BY <1>0, <2>1, <2>2 DEF TypeInv, Records
    <3> QED
      BY <1>0, <2>1, <3>1 DEF TypeInv, Records
  <2>3. CASE ~ReadTime(c)
    <3>1. cpc[c] \in {"time", "ids", "load1", "load5"} /\ got'[c].time = got[c].time
      BY <1>0, <2>1, <2>3 DEF TypeInv, Records
    <3> QED
      BY <1>0, <1>1, <3>1 DEF SharedInv
  <2> QED
    BY <2>2, <2>3
<1>5. SharedInv'
  BY <1>0, <1>1, <1>4 DEF SharedInv, Shared
<1>6. LagBounded'
  BY <1>0, <1>1, <1>4 DEF LagBounded, Received, Shared
<1> QED
  BY <1>2, <1>3, <1>5, <1>6 DEF AgeInv

(* A client that has received nothing is none of LagBounded's concern.     *)
LEMMA LagOthers ==
  ASSUME FullInv, NEW c \in Clients, UNCHANGED channel, lost' \in Nat, lost <= lost',
         cpc'[c] \notin Timed,
         \A d \in Clients \ {c} : cpc'[d] = cpc[d] /\ asked'[d] = asked[d] /\ got'[d] = got[d]
  PROVE  SharedInv' /\ LagBounded'
<1>0. TypeInv /\ CountInv /\ SharedInv /\ LagBounded
  BY DEF FullInv, IInv, AgeInv
<1>1. SharedInv'
  BY <1>0 DEF SharedInv, Shared
<1>2. ASSUME NEW d \in Clients \ {c}, Received(d)', channel = "msgq"
      PROVE  got'[d].time + Cardinality(Clients \ {d}) + lost' > asked'[d]
  <2>1. got[d].time + Cardinality(Clients \ {d}) + lost > asked[d]
    BY <1>0, <1>2 DEF LagBounded, Received, Shared
  <2>2. Cardinality(Clients \ {d}) \in Nat
    BY SystemInfoAssumption, FS_RemoveElement, FS_CardinalityType
  <2>3. got[d].time \in Nat /\ asked[d] \in Nat /\ lost \in Nat
    BY <1>0 DEF TypeInv, CountInv, Records
  <2> QED
    BY <2>1, <2>2, <2>3
<1>3. LagBounded'
  <2>1. ASSUME NEW d \in Clients, Received(d)'
        PROVE  /\ d # c /\ Received(d)
               /\ got'[d] = got[d] /\ asked'[d] = asked[d]
    BY <2>1 DEF Received
  <2> QED
    <3>1. channel \in {"shm", "mmap", "msgq", "socket"}
      BY <1>0, SystemInfoAssumption DEF TypeInv
    <3>2. CASE channel = "msgq"
      BY <1>2, <2>1, <3>2 DEF LagBounded, Shared
    <3>3. CASE channel # "msgq"
      BY <1>0, <2>1, <3>1, <3>3 DEF LagBounded, Shared
    <3> QED
      BY <3>2, <3>3
<1> QED
  BY <1>1, <1>3

(* A client that is run asks now.                                          *)
LEMMA BeginAge ==
  ASSUME FullInv, NEW c \in Clients, NEW p \in {"attached", "crashed", "waiting", "garbage"},
         Begin(c, p), UNCHANGED <<channel, server, replies>>, queries' \in Nat
  PROVE  /\ CountInv' /\ SharedInv' /\ LagBounded'
         /\ p # "waiting" => WaitingClients' = WaitingClients /\ Waiting' = Waiting
         /\ p = "waiting" => /\ WaitingClients' = WaitingClients \cup {c}
                             /\ Waiting' = Waiting + 1 /\ c \notin WaitingClients
<1> USE DEF Begin, server
<1>0. TypeInv /\ CountInv
  BY DEF FullInv, IInv, AgeInv
<1>1. CountInv'
  <2>1. rec.time \in Nat
    BY <1>0 DEF TypeInv, Records
  <2> QED
    BY <1>0, <2>1 DEF CountInv
<1>2. SharedInv' /\ LagBounded'
  <2>1. /\ cpc'[c] \notin Timed /\ lost \in Nat
        /\ \A d \in Clients \ {c} : cpc'[d] = cpc[d] /\ asked'[d] = asked[d]
    BY <1>0 DEF TypeInv, CountInv
  <2> QED
    BY <2>1, LagOthers
<1>3. c \notin WaitingClients
  BY DEF WaitingClients
<1>4. p # "waiting" => WaitingClients' = WaitingClients
  <2>1. cpc' = [cpc EXCEPT ![c] = p] /\ cpc \in [Clients -> Places]
    BY <1>0 DEF TypeInv
  <2> QED
    BY <1>3, <2>1 DEF WaitingClients
<1>5. /\ p # "waiting" => Waiting' = Waiting
      /\ p = "waiting" => Waiting' = Waiting + 1 /\ WaitingClients' = WaitingClients \cup {c}
  BY <1>0, WaitingStep DEF TypeInv
<1> QED
  BY <1>1, <1>2, <1>3, <1>4, <1>5

(* A query has been sent that was not taken: whoever sent it may wait.     *)
LEMMA SendAge ==
  ASSUME FullInv, NEW c \in Clients, SendQuery(c)
  PROVE  AgeInv'
<1> USE DEF SendQuery
<1>0. /\ TypeInv /\ CountInv /\ Accounted /\ OrderInv /\ Waiting \in Nat
      /\ queries \in Nat /\ lost \in Nat /\ rec.time \in Nat /\ asked \in [Clients -> Nat]
  BY WaitingBounds DEF FullInv, IInv, AgeInv, CountInv, TypeInv, Records
<1>1. /\ CountInv' /\ SharedInv' /\ LagBounded'
      /\ WaitingClients' = WaitingClients \cup {c} /\ Waiting' = Waiting + 1
      /\ queries' = queries + 1
  BY <1>0, BeginAge
<1>2. SocketInv'
  BY SocketClient DEF Begin, server, socket
<1>3. /\ UNCHANGED <<channel, spc, rec, replies, lost>> /\ asked'[c] = rec.time
      /\ \A d \in Clients \ {c} : asked'[d] = asked[d]
      /\ Taken' = Taken /\ Taken \in Nat /\ InHand' = InHand /\ InHand \in Nat
      /\ Len(replies) \in Nat
  BY <1>0 DEF Begin, server, Taken, InHand, First, TypeInv
<1>4. Accounted'
  <2>1. Owed' = Owed + 1 /\ Owed \in Nat
    BY <1>0, <1>1, <1>3 DEF Owed
  <2> QED
    BY <1>0, <1>1, <1>3, <2>1 DEF Accounted, Down
<1>5. OrderInv'
  <2> HIDE DEF SendQuery
  <2>1. channel = "msgq" /\ c \notin WaitingClients /\ WaitingClients \subseteq Clients
    BY DEF SendQuery, Begin, WaitingClients
  <2>2. ASSUME NEW i \in DOMAIN replies
        PROVE  /\ replies[i].time + Waiting' + lost >= rec.time + i + queries' + Taken
               /\ replies[i].time + Waiting' + lost > rec.time + i
    <3>1. replies[i].time + Waiting + lost >= rec.time + i + queries + Taken
      BY <1>0, <2>1 DEF OrderInv
    <3>2. i \in Nat /\ replies[i].time \in Nat
      BY <1>0, QueuedReply
    <3>3. Waiting \in Nat /\ queries \in Nat /\ lost \in Nat /\ rec.time \in Nat /\ Taken \in Nat
      BY <1>0, <1>3
    <3>4. Waiting' = Waiting + 1 /\ queries' = queries + 1
      BY <1>1
    <3> QED
      BY <3>1, <3>2, <3>3, <3>4
  <2>3. ASSUME NEW d \in WaitingClients
        PROVE  /\ ~Down => rec.time + queries' + Taken > asked[d]
               /\ \A i \in DOMAIN replies : replies[i].time + Waiting' + lost > asked[d] + i
    <3>1. /\ ~Down => rec.time + queries + Taken > asked[d]
          /\ \A i \in DOMAIN replies : replies[i].time + Waiting + lost > asked[d] + i
      BY <1>0, <2>1 DEF OrderInv
    <3>2. /\ Waiting \in Nat /\ queries \in Nat /\ lost \in Nat /\ rec.time \in Nat
          /\ Taken \in Nat /\ asked[d] \in Nat
          /\ \A i \in DOMAIN replies : i \in Nat /\ replies[i].time \in Nat
      BY <1>0, <1>3, <2>1, QueuedReply
    <3>3. Waiting' = Waiting + 1 /\ queries' = queries + 1
      BY <1>1
    <3> QED
      BY <3>1, <3>2, <3>3
  <2>4. rec.time + queries' + Taken > rec.time
    BY <1>0, <1>1, <1>3
  <2>5. ASSUME NEW d \in WaitingClients'
        PROVE  /\ ~Down => rec.time + queries' + Taken > asked'[d]
               /\ \A i \in DOMAIN replies : replies[i].time + Waiting' + lost > asked'[d] + i
    <3>1. CASE d = c
      BY <1>3, <2>2, <2>4, <3>1
    <3>2. CASE d # c
      BY <1>1, <1>3, <2>1, <2>3, <3>2
    <3> QED
      BY <3>1, <3>2
  <2> QED
    BY <1>3, <2>2, <2>5 DEF OrderInv, Down
<1> QED
  BY <1>1, <1>2, <1>4, <1>5 DEF AgeInv

(* The client maps the shared record.                                      *)
LEMMA AttachAge ==
  ASSUME FullInv, NEW c \in Clients, Attach(c)
  PROVE  AgeInv'
<1> USE DEF Attach, queue
<1>0. CountInv /\ channel' = channel /\ Shared
  BY DEF FullInv, AgeInv
<1>1. CountInv' /\ SharedInv' /\ LagBounded'
  BY <1>0, BeginAge DEF CountInv
<1>2. SocketInv'
  BY SocketClient DEF Begin, server, socket
<1>3. Accounted' /\ OrderInv'
  BY <1>0 DEF Accounted, OrderInv, Shared
<1> QED
  BY <1>1, <1>2, <1>3 DEF AgeInv

(* The client joins the backlog, where it is not yet.                      *)
LEMMA ConnectAge ==
  ASSUME FullInv, NEW c \in Clients, Connect(c)
  PROVE  AgeInv'
<1> USE DEF Connect, queue
<1>0. TypeInv /\ CountInv /\ SocketInv
  BY DEF FullInv, IInv, AgeInv
<1>1. CountInv' /\ SharedInv' /\ LagBounded'
  BY <1>0, BeginAge DEF CountInv
<1>2. Accounted' /\ OrderInv'
  BY DEF Accounted, OrderInv
<1>3. SocketInv'
  <2> DEFINE n == Len(backlog)
  <2>1. /\ n \in Nat /\ DOMAIN backlog = 1 .. n /\ DOMAIN backlog' = 1 .. n + 1
        /\ \A i \in 1 .. n : backlog'[i] = backlog[i]
        /\ backlog'[n + 1] = c
        /\ backlog' \in Seq(Clients \cup {NoClient})
    BY <1>0 DEF SocketInv
  <2>2. /\ cpc[c] = "idle" /\ cpc'[c] = "waiting" /\ UNCHANGED <<channel, spc, rec, peer>>
        /\ \A d \in Clients \ {c} : cpc'[d] = cpc[d] /\ asked'[d] = asked[d]
    BY <1>0 DEF Begin, server, TypeInv, CountInv
  <2>3. /\ c # peer /\ \A i \in 1 .. n : backlog[i] # c
        /\ \A i \in 1 .. n : backlog[i] \in Clients \cup {NoClient}
        /\ c # NoClient
    BY <1>0, <2>1, <2>2, SystemInfoAssumption DEF SocketInv
  <2>4. peer # NoClient => cpc'[peer] = "waiting" /\ asked'[peer] = asked[peer]
    BY <1>0, <2>2, <2>3 DEF SocketInv
  <2>5. ASSUME NEW i \in 1 .. n + 1, backlog'[i] # NoClient
        PROVE  /\ cpc'[backlog'[i]] = "waiting" /\ backlog'[i] # peer
               /\ \A j \in 1 .. n + 1 : backlog'[j] = backlog'[i] => j = i
    <3>1. \A j \in 1 .. n + 1 : j \in 1 .. n \/ j = n + 1
      BY <2>1
    <3>2. \A j \in 1 .. n : backlog[j] # NoClient =>
            /\ cpc[backlog[j]] = "waiting" /\ backlog[j] # peer
            /\ \A m \in 1 .. n : backlog[m] = backlog[j] => m = j
      BY <1>0, <2>1 DEF SocketInv
    <3> QED
      BY <2>1, <2>2, <2>3, <2>5, <3>1, <3>2
  <2>6. Answering /\ peer # NoClient => asked'[peer] < rec.time
    BY <1>0, <2>4 DEF SocketInv
  <2> QED
    BY <1>0, <2>1, <2>2, <2>4, <2>5, <2>6 DEF SocketInv
<1> QED
  BY <1>1, <1>2, <1>3 DEF AgeInv

(* There is no server any more, and what was read is anything.             *)
LEMMA NoServerAge ==
  ASSUME FullInv, NEW c \in Clients, ConnectRefused(c) \/ ConnectionReset(c)
  PROVE  AgeInv'
<1> USE DEF ConnectRefused, ConnectionReset, queue
<1>0. TypeInv /\ CountInv /\ SocketInv
  BY DEF FullInv, IInv, AgeInv
<1>1. CountInv' /\ SharedInv' /\ LagBounded'
  <2>1. CASE ConnectRefused(c)
    BY <1>0, <2>1, BeginAge DEF CountInv
  <2>2. CASE ConnectionReset(c)
    <3>1. /\ cpc'[c] = "garbage" /\ lost \in Nat
          /\ \A d \in Clients \ {c} : cpc'[d] = cpc[d]
      BY <1>0, <2>2 DEF TypeInv, CountInv
    <3>2. SharedInv' /\ LagBounded'
      BY <2>2, <3>1, LagOthers
    <3>3. CountInv'
      BY <1>0, <2>2 DEF CountInv, server
    <3> QED
      BY <3>2, <3>3
  <2> QED
    BY <2>1, <2>2
<1>2. Accounted' /\ OrderInv'
  BY DEF Accounted, OrderInv
<1>3. SocketInv'
  BY <1>0 DEF SocketInv, Down, server, socket
<1> QED
  BY <1>1, <1>2, <1>3 DEF AgeInv

(* The client ends.                                                        *)
LEMMA FinishAge ==
  ASSUME FullInv, NEW c \in Clients, Finish(c)
  PROVE  AgeInv'
<1> USE DEF Finish, server, queue
<1>0. TypeInv /\ CountInv /\ Accounted /\ OrderInv
  BY DEF FullInv, IInv, AgeInv
<1>1. /\ cpc[c] # "waiting" /\ cpc'[c] = "idle" /\ lost \in Nat
      /\ \A d \in Clients \ {c} : cpc'[d] = cpc[d] /\ asked'[d] = asked[d] /\ got'[d] = got[d]
      /\ UNCHANGED <<channel, spc, rec, queries, replies, lost, backlog, peer>>
  BY <1>0 DEF TypeInv, CountInv, socket
<1>2. SharedInv' /\ LagBounded'
  BY <1>1, LagOthers
<1>3. SocketInv'
  BY <1>1, SocketClient
<1>4. CountInv'
  <2>1. rec.time \in Nat
    BY <1>0 DEF TypeInv, Records
  <2> QED
    BY <1>0, <1>1, <2>1 DEF CountInv
<1>5. Waiting' = Waiting /\ WaitingClients' = WaitingClients /\ c \notin WaitingClients
  <2>1. WaitingClients' = WaitingClients /\ c \notin WaitingClients
    BY <1>1 DEF WaitingClients
  <2> QED
    BY <2>1 DEF Waiting
<1>6. Accounted'
  BY <1>0, <1>1, <1>5 DEF Accounted, Owed, InHand, First, Down
<1>7. OrderInv'
  <2>1. \A d \in WaitingClients : asked'[d] = asked[d]
    BY <1>1, <1>5 DEF WaitingClients
  <2> QED
    BY <1>0, <1>1, <1>5, <2>1 DEF OrderInv, Taken, Down
<1> QED
  BY <1>2, <1>3, <1>4, <1>6, <1>7 DEF AgeInv

(* Whatever is owed on top of them, it is owed to as many.                 *)
LEMMA SumKept ==
  ASSUME Waiting \in Nat, Waiting' \in Nat, lost \in Nat, lost' \in Nat,
         Waiting' + lost' = Waiting + lost
  PROVE  \A m \in Nat : m + Waiting' + lost' = m + Waiting + lost
<1>1. ASSUME NEW m \in Nat PROVE m + Waiting' + lost' = m + Waiting + lost
  <2>1. \A a, b \in Nat : m + a + b = m + (a + b)
    BY <1>1
  <2>2. m + Waiting' + lost' = m + (Waiting' + lost')
    BY <2>1, Zenon
  <2>3. m + Waiting + lost = m + (Waiting + lost)
    BY <2>1, Zenon
  <2> QED
    BY <2>2, <2>3, Zenon
<1> QED
  BY <1>1

(* A client is killed while it waits: its query or reply is for somebody   *)
(* else, its connection goes nowhere.                                      *)
LEMMA KillClientAge ==
  ASSUME FullInv, NEW c \in Clients, KillClient(c)
  PROVE  AgeInv'
<1> USE DEF KillClient, server, queue
<1>0. /\ TypeInv /\ CountInv /\ Accounted /\ OrderInv /\ SocketInv
      /\ Waiting \in Nat /\ lost \in Nat
  BY WaitingBounds DEF FullInv, IInv, AgeInv, CountInv
<1>1. /\ cpc[c] = "waiting" /\ cpc'[c] = "idle" /\ lost' = lost + 1 /\ asked'[c] = 0
      /\ \A d \in Clients \ {c} : cpc'[d] = cpc[d] /\ asked'[d] = asked[d]
      /\ UNCHANGED <<channel, spc, rec, queries, replies, got>>
  BY <1>0 DEF TypeInv, CountInv
<1>2. SharedInv' /\ LagBounded'
  BY <1>0, <1>1, LagOthers
<1>3. CountInv'
  <2>1. rec.time \in Nat
    BY <1>0 DEF TypeInv, Records
  <2> QED
    BY <1>0, <1>1, <2>1 DEF CountInv
<1>4. /\ WaitingClients' = WaitingClients \ {c} /\ Waiting' + lost' = Waiting + lost
      /\ Waiting' \in Nat
  <2>1. WaitingClients' = WaitingClients \ {c} /\ Waiting' = Waiting - 1
    <3>1. cpc' = [cpc EXCEPT ![c] = "idle"] /\ cpc \in [Clients -> Places]
      BY <1>0 DEF TypeInv
    <3> HIDE DEF KillClient, server, queue
    <3>2. cpc[c] = "waiting" /\ "idle" # "waiting"
      BY <1>1
    <3> QED
      BY <3>1, <3>2, WaitingStep
  <2>2. c \in WaitingClients /\ IsFiniteSet(WaitingClients)
    BY <1>1, SystemInfoAssumption, FS_Subset DEF WaitingClients
  <2>3. Waiting # 0
    BY <2>2, FS_EmptySet DEF Waiting
  <2> QED
    BY <1>0, <1>1, <2>1, <2>3
<1>5. Accounted'
  BY <1>0, <1>1, <1>4 DEF Accounted, Owed, InHand, First, Down
<1>6. OrderInv'
  <2>1. \A m \in Nat : m + Waiting' + lost' = m + Waiting + lost
    <3>1. Waiting' + lost' = Waiting + lost /\ Waiting' \in Nat
      BY <1>4
    <3>2. Waiting \in Nat /\ lost \in Nat
      BY <1>0
    <3>3. lost' \in Nat
      BY <1>0, <1>1
    <3> QED
      BY <3>1, <3>2, <3>3, SumKept
  <2>2. \A i \in DOMAIN replies : replies[i].time \in Nat
    BY <1>0, QueuedReply
  <2>3. \A d \in WaitingClients' : d \in WaitingClients /\ asked'[d] = asked[d]
    BY <1>1, <1>4 DEF WaitingClients
  <2>4. Taken' = Taken /\ (Down' <=> Down) /\ UNCHANGED <<channel, rec, queries, replies>>
    BY <1>1 DEF Taken, Down
  <2> HIDE DEF KillClient, server, queue
  <2> QED
    BY <1>0, <2>1, <2>2, <2>3, <2>4 DEF OrderInv
<1>7. SocketInv'
  <2> DEFINE n == Len(backlog)
  <2>1. /\ n \in Nat /\ DOMAIN backlog = 1 .. n /\ DOMAIN backlog' = 1 .. n
        /\ \A i \in 1 .. n : /\ backlog[i] \in Clients \cup {NoClient}
                             /\ backlog'[i] = IF backlog[i] = c THEN NoClient ELSE backlog[i]
        /\ backlog' \in Seq(Clients \cup {NoClient})
        /\ peer' = IF peer = c THEN NoClient ELSE peer
        /\ peer \in Clients \cup {NoClient}
    BY <1>0 DEF SocketInv
  <2>2. channel # "socket" => backlog' = <<>> /\ peer' = NoClient
    BY <1>0, <2>1 DEF SocketInv
  <2>3. ASSUME ~Down, peer' # NoClient PROVE cpc'[peer'] = "waiting"
    BY <1>0, <1>1, <2>1, <2>3 DEF SocketInv
  <2>4. ASSUME ~Down, NEW i \in 1 .. n, backlog'[i] # NoClient
        PROVE  /\ cpc'[backlog'[i]] = "waiting" /\ backlog'[i] # peer'
               /\ \A j \in 1 .. n : backlog'[j] = backlog'[i] => j = i
    <3>1. /\ backlog[i] # c /\ backlog'[i] = backlog[i] /\ backlog[i] \in Clients
          /\ backlog[i] # NoClient
      BY <2>1, <2>4
    <3>2. /\ cpc[backlog[i]] = "waiting" /\ backlog[i] # peer
          /\ \A j \in 1 .. n : backlog[j] = backlog[i] => j = i
      BY <1>0, <2>1, <2>4, <3>1 DEF SocketInv
    <3>3. \A j \in 1 .. n : backlog'[j] = backlog[i] => backlog[j] = backlog[i]
      BY <2>1, <3>1
    <3> QED
      BY <1>1, <2>1, <3>1, <3>2, <3>3
  <2>5. Answering /\ peer' # NoClient => asked'[peer'] < rec.time
    BY <1>0, <1>1, <2>1 DEF SocketInv
  <2> QED
    BY <1>1, <2>1, <2>2, <2>3, <2>4, <2>5 DEF SocketInv, Down
<1> QED
  BY <1>2, <1>3, <1>5, <1>6, <1>7 DEF AgeInv

-----------------------------------------------------------------------------
(* Every step keeps the account and the order of queries and replies.      *)
LEMMA AgeStep == FullInv /\ [Next]_vars => AgeInv'
<1> SUFFICES ASSUME FullInv, [Next]_vars PROVE AgeInv'
  OBVIOUS
<1>1. CASE Server
  BY <1>1, StoreAge, TakeAge, ReplyAge, PlaceAge, AcceptAge, AnswerAge DEF Server
<1>2. CASE Interrupt \/ Kill
  BY <1>2, PlaceAge
<1>3. ASSUME NEW c \in Clients, Client(c) PROVE AgeInv'
  BY <1>3, ReceiveAge, CopyAge, SendAge, AttachAge, ConnectAge, NoServerAge, FinishAge,
     KillClientAge DEF Client, Proceed
<1>4. CASE UNCHANGED vars
  <2>1. /\ UNCHANGED <<channel, spc, rec, queries, replies, backlog, peer>>
        /\ UNCHANGED <<cpc, got, asked, lost>>
    BY <1>4 DEF vars, server, queue, socket, clients
  <2>2. SharedInv' /\ LagBounded' /\ Waiting' = Waiting /\ WaitingClients' = WaitingClients
    BY <2>1, AgeKept
  <2> QED
    BY <2>1, <2>2 DEF FullInv, AgeInv, CountInv, Accounted, OrderInv, SocketInv, Owed, InHand,
                      First, Taken, Down
<1> QED
  BY <1>1, <1>2, <1>3, <1>4 DEF Next

(* The inductive invariant with the account of the replies and their age   *)
(* holds in every reachable state.                                         *)
THEOREM AgeInvariance == Spec => []FullInv
<1>1. Init => FullInv
  BY InitInv, AgeInit DEF FullInv
<1>2. FullInv /\ [Next]_vars => FullInv'
  BY NextInv, AgeStep DEF FullInv
<1> QED
  BY <1>1, <1>2, PTL DEF Spec

(* Over the message queue there is exactly one query or reply for every    *)
(* client that waits or was killed while it waited, but for the one a      *)
(* server that ends takes along (part1/server.c lines 117-128).            *)
THEOREM AccountCorrect == Spec => []RepliesAccounted
<1>1. FullInv => RepliesAccounted
  BY DEF FullInv, AgeInv, Accounted, RepliesAccounted, Waiting, WaitingClients, Owed, InHand
<1> QED
  BY <1>1, AgeInvariance, PTL

(* What a client receives over the socket was read after it connected, out *)
(* of shared memory not before it attached, and over the queue as many     *)
(* refreshes earlier at most as other clients wait and clients were killed.*)
THEOREM AgeCorrect == Spec => []LagBounded
  BY AgeInvariance, PTL DEF FullInv, AgeInv
=============================================================================
