--------------------------- MODULE OfftaskService ---------------------------
(***************************************************************************)
(* The offline-task service, src/pe_tilecompute/                           *)
(* offtask_cppspark_0mqservice/offtask_cppspark_0mqservice/main.cpp.       *)
(*                                                                         *)
(* Task17 (outside the repository) pushes orders over a ZeroMQ socket.     *)
(* The main thread receives them and appends them to a bounded list under  *)
(* a mutex; one worker thread takes them from the front, reports "running" *)
(* to a collector, runs a Spark job or the gots worker with system(), and  *)
(* reports the outcome.  Every report travels over a context and a socket  *)
(* of its own, which are never closed.                                     *)
(*                                                                         *)
(* Orders are numbered in the order in which Task17 pushes them, from 1;   *)
(* the number 0 stands for the default OrderMsg, no order at all.          *)
(***************************************************************************)
EXTENDS Integers, Sequences, FiniteSets

CONSTANTS
  NumOrders,   \* how many orders Task17 pushes
  Ofid,        \* the id an order carries; 0 is what a missing key parses to
  Mode,        \* the kind of job an order asks for
  QueueCap,    \* the bound on the list (1000 in the code)
  JobCodes,    \* what system() may return
  MaxSockets,  \* contexts the process can open before ZeroMQ runs out
  Lossy,       \* TRUE when zmq_send may fail with its 2 s time-out
  MaxCrashes,  \* how often the process dies (a bound, for TLC)
  NoCode       \* stands for: no job of the order at hand has returned

Orders  == 1..NumOrders
NoOrder == 0

ASSUME ServiceAssumption ==
  /\ NumOrders \in Nat
  /\ Ofid \in [Orders -> Int]
  /\ Mode \in [Orders -> Int]
  /\ QueueCap \in Nat \ {0}
  /\ JobCodes \subseteq Int
  /\ NoCode \notin JobCodes
  /\ MaxSockets \in Nat
  /\ Lossy \in BOOLEAN
  /\ MaxCrashes \in Nat

\* The modes for which the worker builds a command; 3, 5 and all others have none.
JobModes == {0, 1, 2, 4, 6}

\* OfftaskWorkerResult.status: 1 in the first report, the constructor's 0 in the last.
Running == 1
Default == 0

Reports == [order : Orders, state : Int, status : {Running, Default}]
StartReport(n)    == [order |-> n, state |-> 0, status |-> Running]
FinalReport_Slip(n, c) == [order |-> n, state |-> c, status |-> Running]
FinalReport(n, c) == [order |-> n, state |-> c, status |-> Default]

VARIABLES
  sent,      \* orders 1..sent have been pushed by Task17
  got,       \* orders 1..got have left the receiving socket
  rpc,       \* control point of the receiving thread
  recvMsg,   \* its local OrderMsg
  list,      \* global_orderMsgList
  mutex,     \* holder of g_list_mutex
  wpc,       \* control point of the worker thread
  msg,       \* its local OrderMsg
  jobCode,   \* what system() returned to it
  sockets,   \* contexts opened since the process started
  flight,    \* reports handed to ZeroMQ, each on its own socket
  inbox,     \* what the collector has received about each order
  crashes,   \* how often the process has died
  fate       \* history: how the service got rid of each order

recvVars   == <<got, rpc, recvMsg>>
workerVars == <<wpc, msg, jobCode>>
reportVars == <<sockets, flight>>
vars == <<sent, recvVars, list, mutex, workerVars, reportVars, inbox, crashes, fate>>

Fates == {"open", "dropped", "ignored", "unhandled", "finished", "lost"}

Init ==
  /\ sent = 0
  /\ got = 0
  /\ rpc = "recv"
  /\ recvMsg = NoOrder
  /\ list = << >>
  /\ mutex = "none"
  /\ wpc = "top"
  /\ msg = NoOrder
  /\ jobCode = NoCode
  /\ sockets = 0
  /\ flight = {}
  /\ inbox = [n \in Orders |-> << >>]
  /\ crashes = 0
  /\ fate = [n \in Orders |-> "open"]

\* Guards and effects shared by several actions, each with the slip (named
\* ..._Slip) that a run uses to show that its property can fail.
MutexFree_Slip == TRUE
MutexFree == mutex = "none"

HasRoom == Len(list) < QueueCap

Enqueued_Slip == <<recvMsg>> \o list
Enqueued == Append(list, recvMsg)

Popped_Slip == list
Popped == Tail(list)

\* msg.ofid, with the default constructor's 0 when there was no order to take.
MsgOfid == IF msg = NoOrder THEN 0 ELSE Ofid[msg]

-----------------------------------------------------------------------------
(* Task17, and the receiving loop of main(). *)

Submit ==
  /\ sent < NumOrders
  /\ sent' = sent + 1
  /\ UNCHANGED <<recvVars, list, mutex, workerVars, reportVars, inbox, crashes, fate>>

\* zmq_recv and fromJsonString: the order is now only in the thread's buffer.
\* (The slip does not wait for a message, as ZMQ_DONTWAIT would.)
Receive_Slip ==
  /\ rpc = "recv"
  /\ got' = got + 1
  /\ recvMsg' = got + 1
  /\ rpc' = "parsed"
  /\ UNCHANGED <<sent, list, mutex, workerVars, reportVars, inbox, crashes, fate>>
Receive ==
  /\ rpc = "recv"
  /\ got < sent
  /\ got' = got + 1
  /\ recvMsg' = got + 1
  /\ rpc' = "parsed"
  /\ UNCHANGED <<sent, list, mutex, workerVars, reportVars, inbox, crashes, fate>>

ReceiverLock ==
  /\ rpc = "parsed"
  /\ MutexFree
  /\ mutex' = "receiver"
  /\ rpc' = "locked"
  /\ UNCHANGED <<sent, got, recvMsg, list, workerVars, reportVars, inbox, crashes, fate>>

ReceiverUnlock_Slip ==
  /\ rpc' = "recv"
  /\ recvMsg' = NoOrder
  /\ UNCHANGED <<sent, got, mutex, workerVars, reportVars, inbox, crashes>>
ReceiverUnlock ==
  /\ mutex' = "none"
  /\ rpc' = "recv"
  /\ recvMsg' = NoOrder
  /\ UNCHANGED <<sent, got, workerVars, reportVars, inbox, crashes>>

PushBack ==
  /\ rpc = "locked"
  /\ HasRoom
  /\ list' = Enqueued
  /\ UNCHANGED fate
  /\ ReceiverUnlock

\* A full list: a warning in the log, the order is forgotten, Task17 is not told.
DropOrder ==
  /\ rpc = "locked"
  /\ ~HasRoom
  /\ fate' = [fate EXCEPT ![recvMsg] = "dropped"]
  /\ UNCHANGED list
  /\ ReceiverUnlock

-----------------------------------------------------------------------------
(* processOrderThreadFunction. *)

WorkerLock ==
  /\ wpc = "top"
  /\ MutexFree
  /\ mutex' = "worker"
  /\ msg' = NoOrder
  /\ wpc' = "locked"
  /\ UNCHANGED <<sent, recvVars, list, jobCode, reportVars, inbox, crashes, fate>>

CopyFront ==
  /\ wpc = "locked"
  /\ list # << >>
  /\ msg' = Head(list)
  /\ wpc' = "copied"
  /\ UNCHANGED <<sent, recvVars, list, mutex, jobCode, reportVars, inbox, crashes, fate>>

PopFront ==
  /\ wpc = "copied"
  /\ list' = Popped
  /\ mutex' = "none"
  /\ wpc' = "check"
  /\ UNCHANGED <<sent, recvVars, msg, jobCode, reportVars, inbox, crashes, fate>>

ListEmpty ==
  /\ wpc = "locked"
  /\ list = << >>
  /\ mutex' = "none"
  /\ wpc' = "check"
  /\ UNCHANGED <<sent, recvVars, list, msg, jobCode, reportVars, inbox, crashes, fate>>

\* msg.ofid == 0: either there was nothing to take, or what was taken carries
\* the id 0 and is thrown away.  The thread sleeps a second and starts over.
Sleep ==
  /\ wpc = "check"
  /\ MsgOfid = 0
  /\ fate' = IF msg = NoOrder THEN fate ELSE [fate EXCEPT ![msg] = "ignored"]
  /\ msg' = NoOrder
  /\ wpc' = "top"
  /\ UNCHANGED <<sent, recvVars, list, mutex, jobCode, reportVars, inbox, crashes>>

\* sendResultMsgBackToTask17: a new context and a new PUSH socket for each
\* report, results of the calls only logged, nothing closed.  The report is
\* queued in the socket, or it is gone without the caller knowing.
SendResult(r) ==
  \/ /\ sockets < MaxSockets
     /\ sockets' = sockets + 1
     /\ flight' = flight \cup {r}
  \/ /\ Lossy \/ sockets = MaxSockets
     /\ sockets' = IF sockets < MaxSockets THEN sockets + 1 ELSE sockets
     /\ UNCHANGED flight

ReportRunning ==
  /\ wpc = "check"
  /\ MsgOfid # 0
  /\ SendResult(StartReport(msg))
  /\ wpc' = "dispatch"
  /\ UNCHANGED <<sent, recvVars, list, mutex, msg, jobCode, inbox, crashes, fate>>

\* system(): the command line depends on the mode, what the job is not modelled.
RunJob ==
  /\ wpc = "dispatch"
  /\ Mode[msg] \in JobModes
  /\ wpc' = "running"
  /\ UNCHANGED <<sent, recvVars, list, mutex, msg, jobCode, reportVars, inbox, crashes, fate>>

\* An empty sparkcmd (3, 5), or a mode neither branch knows: only a log line.
NoCommand ==
  /\ wpc = "dispatch"
  /\ Mode[msg] \notin JobModes
  /\ fate' = [fate EXCEPT ![msg] = "unhandled"]
  /\ msg' = NoOrder
  /\ wpc' = "top"
  /\ UNCHANGED <<sent, recvVars, list, mutex, jobCode, reportVars, inbox, crashes>>

JobEnds ==
  /\ wpc = "running"
  /\ jobCode' \in JobCodes
  /\ wpc' = "report"
  /\ UNCHANGED <<sent, recvVars, list, mutex, msg, reportVars, inbox, crashes, fate>>

ReportOutcome ==
  /\ wpc = "report"
  /\ SendResult(FinalReport(msg, jobCode))
  /\ fate' = [fate EXCEPT ![msg] = "finished"]
  /\ msg' = NoOrder
  /\ jobCode' = NoCode
  /\ wpc' = "top"
  /\ UNCHANGED <<sent, recvVars, list, mutex, inbox, crashes>>

-----------------------------------------------------------------------------
(* The collector, and the death and restart of the process. *)

\* Sockets of different contexts are independent: any report may come next.
Deliver ==
  \E r \in flight :
    /\ inbox' = [inbox EXCEPT ![r.order] = Append(@, r)]
    /\ flight' = flight \ {r}
    /\ UNCHANGED <<sent, recvVars, list, mutex, workerVars, sockets, crashes, fate>>

\* Everything in memory goes, with the orders ZeroMQ had already moved into the
\* process (those up to g) and the reports that had not left it yet.
Crash ==
  /\ rpc # "down"
  /\ crashes < MaxCrashes
  /\ crashes' = crashes + 1
  /\ \E g \in got..sent :
       /\ got' = g
       /\ fate' = [n \in Orders |->
                     IF n <= g /\ fate[n] = "open" THEN "lost" ELSE fate[n]]
  /\ \E kept \in SUBSET flight : flight' = kept
  /\ rpc' = "down"
  /\ recvMsg' = NoOrder
  /\ list' = << >>
  /\ mutex' = "none"
  /\ wpc' = "down"
  /\ msg' = NoOrder
  /\ jobCode' = NoCode
  /\ sockets' = 0
  /\ UNCHANGED <<sent, inbox>>

Restart ==
  /\ rpc = "down"
  /\ rpc' = "recv"
  /\ wpc' = "top"
  /\ UNCHANGED <<sent, got, recvMsg, list, mutex, msg, jobCode, reportVars, inbox, crashes, fate>>

-----------------------------------------------------------------------------

Receiver == Receive \/ ReceiverLock \/ PushBack \/ DropOrder
Worker   == \/ WorkerLock \/ CopyFront \/ PopFront \/ ListEmpty \/ Sleep
            \/ ReportRunning \/ RunJob \/ NoCommand \/ JobEnds \/ ReportOutcome

Next == Submit \/ Receiver \/ Worker \/ Deliver \/ Crash \/ Restart

Spec == Init /\ [][Next]_vars

\* The scheduler runs both threads; a free mutex is handed to a thread that
\* keeps asking for it; the job returns; ZeroMQ delivers what it has queued.
Fairness ==
  /\ WF_vars(Receive) /\ SF_vars(ReceiverLock) /\ WF_vars(PushBack \/ DropOrder)
  /\ SF_vars(WorkerLock)
  /\ WF_vars(CopyFront \/ PopFront \/ ListEmpty \/ Sleep \/ ReportRunning
               \/ RunJob \/ NoCommand \/ JobEnds \/ ReportOutcome)
  /\ WF_vars(Deliver)

FairSpec == Spec /\ Fairness

-----------------------------------------------------------------------------
(* What the service must keep. *)

Queued == {list[i] : i \in 1..Len(list)}

\* The order the worker has taken off the list: while it is only copied from the
\* front it still counts as queued.
InHand == IF wpc = "copied" THEN {} ELSE {msg} \ {NoOrder}

Collected(n) == {inbox[n][i] : i \in 1..Len(inbox[n])}
Emitted == flight \cup UNION {Collected(n) : n \in Orders}

\* Every variable stays in its domain: the threads are at known control points,
\* and whatever they hold, queue or report is an order Task17 has pushed.
TypeOK ==
  /\ sent \in 0..NumOrders
  /\ got \in 0..sent
  /\ rpc \in {"recv", "parsed", "locked", "down"}
  /\ recvMsg \in Orders \cup {NoOrder}
  /\ list \in Seq(Orders)
  /\ mutex \in {"none", "receiver", "worker"}
  /\ wpc \in {"top", "locked", "copied", "check", "dispatch", "running", "report", "down"}
  /\ msg \in Orders \cup {NoOrder}
  /\ jobCode \in JobCodes \cup {NoCode}
  /\ sockets \in 0..MaxSockets
  /\ flight \in SUBSET Reports
  /\ inbox \in [Orders -> Seq(Reports)]
  /\ crashes \in 0..MaxCrashes
  /\ fate \in [Orders -> Fates]

\* The two threads are never both inside the section of the list: std::list is
\* not safe to push to while another thread pops (main.cpp:133-142, 318-327).
ExclusiveList == ~(rpc = "locked" /\ wpc \in {"locked", "copied"})

\* The list never outgrows its bound (main.cpp:320).
ListBounded == Len(list) <= QueueCap

\* No order gets lost or doubled inside the process: one that has left the
\* socket and has not met its fate is in exactly one place, the receiver's
\* message, one position of the list, or the worker's message; and an order
\* that has met its fate is in none of them.
OrdersConserved ==
  /\ \A n \in Orders :
       (n <= got /\ fate[n] = "open") <=> n \in {recvMsg} \cup Queued \cup InHand
  /\ recvMsg \notin Queued \cup InHand
  /\ Queued \cap InHand = {}
  /\ \A i, j \in 1..Len(list) : i # j => list[i] # list[j]

\* Orders are worked on one at a time in the order Task17 pushed them: when one
\* is in the worker's hand, every earlier one has met its fate.
WorkedInOrder ==
  \A n \in InHand : \A k \in 1..(n - 1) : fate[k] # "open"

\* An order is reported running at most once and its outcome is reported at most
\* once, over the whole life of the service, restarts included; an outcome is
\* only reported for an order whose job has come back.
ReportedOnce ==
  /\ \A r1, r2 \in flight :
       r1.order = r2.order /\ r1.status = r2.status => r1 = r2
  /\ \A r \in flight : \A i \in 1..Len(inbox[r.order]) :
       inbox[r.order][i].status # r.status
  /\ \A n \in Orders : \A i, j \in 1..Len(inbox[n]) :
       i # j => inbox[n][i].status # inbox[n][j].status
  /\ \A r \in flight : r.status = Default => fate[r.order] = "finished"
  /\ \A n \in Orders : \A i \in 1..Len(inbox[n]) :
       inbox[n][i].order = n /\ (inbox[n][i].status = Default => fate[n] = "finished")

\* "send result back to task17" (main.cpp:99): once the worker is done with a
\* job, the outcome is on its way or has arrived.
FinishedIsReported ==
  \A n \in Orders :
    fate[n] = "finished" => \E r \in Emitted : r.order = n /\ r.status = Default

\* Nothing stays in the service for ever: an order pushed by Task17 is finished,
\* or dropped, ignored or unhandled (lost, if the process died).
EveryOrderSettled == \A n \in Orders : (sent >= n) ~> (fate[n] # "open")

\* An order with an id and a mode the worker knows is dropped by a full list, or
\* its outcome reaches the collector.
OutcomeArrives ==
  \A n \in {k \in Orders : Ofid[k] # 0 /\ Mode[k] \in JobModes} :
    (sent >= n) ~> \/ fate[n] = "dropped"
                   \/ \E r \in Collected(n) : r.status = Default

\* What is left to do for the orders that are pushed and yet to be pushed, in steps:
\* twelve for each that has not left the socket, fewer for one that has; one for each
\* report on its way.  A worker that finds the list empty has nothing left.
LeftAtReceiver ==
  CASE rpc = "parsed" -> 11
    [] rpc = "locked" -> 10
    [] OTHER          -> 0
LeftAtWorker ==
  CASE wpc = "copied"                   -> -1
    [] wpc = "check" /\ msg # NoOrder   -> 7
    [] wpc = "dispatch"                 -> 5
    [] wpc = "running"                  -> 4
    [] wpc = "report"                   -> 3
    [] OTHER                            -> 0
WorkLeft ==
  12 * (NumOrders - got) + LeftAtReceiver + 9 * Len(list) + LeftAtWorker + Cardinality(flight)

\* Every step taken for an order or a report leaves less to do, and no other step leaves
\* more, whatever the threads do to each other and however often the process dies: no
\* order is gone through twice, and only a worker with an empty list goes in circles.
\* With nothing left every order has met its fate.
Working ==
  \/ Receiver \/ CopyFront \/ PopFront \/ ReportRunning \/ RunJob \/ NoCommand
  \/ JobEnds \/ ReportOutcome \/ Deliver
  \/ msg # NoOrder /\ Sleep
WorkShrinks ==
  [][WorkLeft' <= WorkLeft /\ (Working => WorkLeft' < WorkLeft)]_vars
DoneIsSettled ==
  /\ WorkLeft \in Nat
  /\ WorkLeft = 0 => flight = {} /\ \A n \in Orders : fate[n] # "open"

-----------------------------------------------------------------------------
(* The strengthening of these properties that every step preserves. *)

\* How the control points of the threads go with the mutex and the local data.
ControlInv ==
  /\ mutex = "receiver" <=> rpc = "locked"
  /\ mutex = "worker" <=> wpc \in {"locked", "copied"}
  /\ rpc = "down" <=> wpc = "down"
  /\ recvMsg # NoOrder <=> rpc \in {"parsed", "locked"}
  /\ wpc \in {"top", "locked", "down"} => msg = NoOrder
  /\ wpc = "copied" => list # << >> /\ msg = Head(list)
  /\ wpc \in {"dispatch", "running", "report"} => MsgOfid # 0
  /\ wpc \in {"running", "report"} => Mode[msg] \in JobModes
  /\ wpc = "report" => jobCode \in JobCodes

\* The places an order goes through hold increasing numbers: the worker's hand,
\* the list from front to back, the receiver's message, the socket.
InReceiver == recvMsg # NoOrder => recvMsg = got /\ fate[recvMsg] = "open"
InList ==
  \A i \in 1..Len(list) :
    /\ list[i] <= got
    /\ recvMsg # NoOrder => list[i] < recvMsg
    /\ fate[list[i]] = "open"
InTurn == \A i, j \in 1..Len(list) : i < j => list[i] < list[j]
AtWorker ==
  \A n \in InHand :
    /\ n <= got
    /\ fate[n] = "open"
    /\ recvMsg # NoOrder => n < recvMsg
    /\ \A i \in 1..Len(list) : n < list[i]
NoneMissing ==
  \A n \in Orders :
    /\ n > got => fate[n] = "open"
    /\ n <= got /\ fate[n] = "open" => n \in {recvMsg} \cup Queued \cup InHand
PlaceInv == InReceiver /\ InList /\ InTurn /\ AtWorker /\ NoneMissing

\* A report of an order that is still open is the one that says it is running,
\* and only about the order at the worker.
ReportInv ==
  /\ ReportedOnce
  /\ \A r \in flight : fate[r.order] = "open" =>
       msg = r.order /\ wpc \in {"dispatch", "running", "report"}
  /\ \A n \in Orders : inbox[n] # << >> /\ fate[n] = "open" =>
       msg = n /\ wpc \in {"dispatch", "running", "report"}

IInv == TypeOK /\ ControlInv /\ ListBounded /\ PlaceInv /\ ReportInv

\* Nothing gets lost on the way to the collector: sends do not time out, the process
\* does not die, and there are two contexts for each order.
NothingLost == ~Lossy /\ MaxCrashes = 0 /\ 2 * NumOrders <= MaxSockets

\* Then the orders before n have used two contexts each at most, for every n that
\* may still need its own, and the worker's order is at its first or its second.
SocketInv ==
  /\ sockets <= 2 * got
  /\ recvMsg # NoOrder => sockets <= 2 * (recvMsg - 1)
  /\ \A i \in 1..Len(list) : sockets <= 2 * (list[i] - 1)
  /\ wpc = "check" /\ msg # NoOrder => sockets <= 2 * (msg - 1)
  /\ wpc \in {"dispatch", "running", "report"} => sockets <= 2 * msg - 1

-----------------------------------------------------------------------------
(* The service as an implementation of the ledger of orders. *)

Stage(n) ==
  IF fate[n] # "open" THEN fate[n]
  ELSE IF n > sent THEN "unsent"
  ELSE IF n = msg /\ wpc \in {"dispatch", "running", "report"} THEN "running"
  ELSE "waiting"

StageMap == [n \in Orders |-> Stage(n)]

Ledger == INSTANCE OrderLedger
  WITH Void  <- {n \in Orders : Ofid[n] = 0},
       NoJob <- {n \in Orders : Mode[n] \notin JobModes},
       stage <- StageMap

\* Every behaviour of the two threads, the socket and the crashes is one of the
\* ledger: orders are taken strictly in turn, each is run at most once.
ImplementsLedger == Ledger!Spec
=============================================================================
