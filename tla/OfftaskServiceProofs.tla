------------------------ MODULE OfftaskServiceProofs ------------------------
(***************************************************************************)
(* Proofs about OfftaskService, for every number of orders, every bound on *)
(* the list and on the sockets, and every number of crashes.  IInv is      *)
(* preserved by each action; the safety properties follow from it.  That   *)
(* outcomes are reported needs a service from which nothing is lost.       *)
(***************************************************************************)
EXTENDS OfftaskService, SequenceTheorems, FiniteSetTheorems, TLAPS

\* What the first element and the rest of a list are.
LEMMA FrontAndRest ==
  ASSUME NEW S, NEW s \in Seq(S), s # << >>
  PROVE  /\ Len(s) \in Nat \ {0}
         /\ Head(s) = s[1] /\ Head(s) \in S
         /\ Tail(s) \in Seq(S) /\ Len(Tail(s)) = Len(s) - 1
         /\ \A i \in 1..Len(Tail(s)) : i + 1 \in 1..Len(s) /\ Tail(s)[i] = s[i + 1]
BY HeadTailProperties, EmptySeq, ElementOfSeq, LenProperties

\* A report is handed over or it is not, and a context may have been opened.
LEMMA SendStep ==
  ASSUME TypeOK, NEW r \in Reports, SendResult(r)
  PROVE  /\ sockets' \in 0..MaxSockets
         /\ flight' = flight \cup {r} \/ flight' = flight
         /\ flight' \in SUBSET Reports
<1> USE ServiceAssumption DEF TypeOK
<1>1. CASE sockets < MaxSockets /\ sockets' = sockets + 1
  BY <1>1 DEF SendResult
<1>2. CASE sockets = MaxSockets /\ sockets' = sockets
  BY <1>2 DEF SendResult
<1>3. QED
  BY <1>1, <1>2 DEF SendResult

\* Each action keeps every variable in its domain.
LEMMA TypeStep == IInv /\ [Next]_vars => TypeOK'
<1> SUFFICES ASSUME IInv, [Next]_vars PROVE TypeOK'
  OBVIOUS
<1> USE ServiceAssumption DEF IInv, TypeOK, ControlInv, Orders, NoOrder, Fates
<1>1. CASE Submit
  BY <1>1 DEF Submit, recvVars, workerVars, reportVars
<1>2. CASE Receive
  BY <1>2 DEF Receive, workerVars, reportVars
<1>3. CASE ReceiverLock
  BY <1>3 DEF ReceiverLock, workerVars, reportVars
<1>4. CASE PushBack
  BY <1>4 DEF PushBack, ReceiverUnlock, Enqueued, workerVars, reportVars
<1>5. CASE DropOrder
  BY <1>5 DEF DropOrder, ReceiverUnlock, workerVars, reportVars
<1>6. CASE WorkerLock
  BY <1>6 DEF WorkerLock, recvVars, reportVars
<1>7. CASE CopyFront
  <2>1. Head(list) \in Orders
    BY <1>7, FrontAndRest DEF CopyFront
  <2>2. QED
    BY <1>7, <2>1 DEF CopyFront, recvVars, reportVars
<1>8. CASE PopFront
  <2>1. Tail(list) \in Seq(Orders)
    BY <1>8, FrontAndRest DEF PopFront
  <2>2. QED
    BY <1>8, <2>1 DEF PopFront, Popped, recvVars, reportVars
<1>9. CASE ListEmpty
  BY <1>9 DEF ListEmpty, recvVars, reportVars
<1>10. CASE Sleep
  BY <1>10 DEF Sleep, recvVars, reportVars
<1>11. CASE ReportRunning
  <2>1. msg \in Orders
    BY <1>11 DEF ReportRunning, MsgOfid
  <2>2. StartReport(msg) \in Reports
    BY <2>1 DEF StartReport, Reports, Running
  <2>3. QED
    BY <1>11, <2>2, SendStep DEF ReportRunning, recvVars
<1>12. CASE RunJob
  BY <1>12 DEF RunJob, recvVars, reportVars
<1>13. CASE NoCommand
  BY <1>13 DEF NoCommand, recvVars, reportVars
<1>14. CASE JobEnds
  BY <1>14 DEF JobEnds, recvVars, reportVars
<1>15. CASE ReportOutcome
  <2>1. msg \in Orders
    BY <1>15 DEF ReportOutcome, MsgOfid
  <2>2. FinalReport(msg, jobCode) \in Reports
    BY <1>15, <2>1 DEF ReportOutcome, FinalReport, Reports, Default
  <2>3. QED
    BY <1>15, <2>2, SendStep DEF ReportOutcome, recvVars
<1>16. CASE Deliver
  <2>1. PICK r \in flight :
          /\ inbox' = [inbox EXCEPT ![r.order] = Append(@, r)]
          /\ flight' = flight \ {r}
          /\ UNCHANGED <<sent, recvVars, list, mutex, workerVars, sockets, crashes, fate>>
    BY <1>16 DEF Deliver
  <2>2. r \in Reports /\ r.order \in Orders
    BY DEF Reports
  <2>3. inbox' \in [Orders -> Seq(Reports)]
    BY <2>1, <2>2
  <2>4. QED
    BY <2>1, <2>3 DEF recvVars, workerVars
<1>17. CASE Crash
  <2>1. PICK g \in got..sent :
          /\ got' = g
          /\ fate' = [n \in Orders |->
                        IF n <= g /\ fate[n] = "open" THEN "lost" ELSE fate[n]]
    BY <1>17 DEF Crash
  <2>2. got' \in 0..sent /\ fate' \in [Orders -> Fates]
    BY <2>1
  <2>3. QED
    BY <1>17, <2>2 DEF Crash
<1>18. CASE Restart
  BY <1>18 DEF Restart, reportVars
<1>19. CASE UNCHANGED vars
  BY <1>19 DEF vars, recvVars, workerVars, reportVars
<1>20. QED
  BY <1>1, <1>2, <1>3, <1>4, <1>5, <1>6, <1>7, <1>8, <1>9, <1>10, <1>11, <1>12, <1>13,
     <1>14, <1>15, <1>16, <1>17, <1>18, <1>19 DEF Next, Receiver, Worker

\* Each action keeps the control points, the mutex and the local data together,
\* and the list within its bound.
LEMMA ControlStep == IInv /\ [Next]_vars => ControlInv' /\ ListBounded'
<1> SUFFICES ASSUME IInv, [Next]_vars PROVE ControlInv' /\ ListBounded'
  OBVIOUS
<1> USE ServiceAssumption
    DEF IInv, TypeOK, ControlInv, ListBounded, Orders, NoOrder, MsgOfid
<1>1. CASE Submit
  BY <1>1 DEF Submit, recvVars, workerVars
<1>2. CASE Receive
  BY <1>2 DEF Receive, workerVars
<1>3. CASE ReceiverLock
  BY <1>3 DEF ReceiverLock, MutexFree, workerVars
<1>4. CASE PushBack
  BY <1>4 DEF PushBack, ReceiverUnlock, Enqueued, HasRoom, workerVars
<1>5. CASE DropOrder
  BY <1>5 DEF DropOrder, ReceiverUnlock, workerVars
<1>6. CASE WorkerLock
  BY <1>6 DEF WorkerLock, MutexFree, recvVars
<1>7. CASE CopyFront
  BY <1>7 DEF CopyFront, recvVars
<1>8. CASE PopFront
  BY <1>8 DEF PopFront, Popped, recvVars
<1>9. CASE ListEmpty
  BY <1>9 DEF ListEmpty, recvVars
<1>10. CASE Sleep
  BY <1>10 DEF Sleep, recvVars
<1>11. CASE ReportRunning
  BY <1>11 DEF ReportRunning, recvVars
<1>12. CASE RunJob
  BY <1>12 DEF RunJob, recvVars
<1>13. CASE NoCommand
  BY <1>13 DEF NoCommand, recvVars
<1>14. CASE JobEnds
  BY <1>14 DEF JobEnds, recvVars
<1>15. CASE ReportOutcome
  BY <1>15 DEF ReportOutcome, recvVars
<1>16. CASE Deliver
  BY <1>16 DEF Deliver, recvVars, workerVars
<1>17. CASE Crash
  BY <1>17 DEF Crash
<1>18. CASE Restart
  BY <1>18 DEF Restart
<1>19. CASE UNCHANGED vars
  BY <1>19 DEF vars, recvVars, workerVars
<1>20. QED
  BY <1>1, <1>2, <1>3, <1>4, <1>5, <1>6, <1>7, <1>8, <1>9, <1>10, <1>11, <1>12, <1>13,
     <1>14, <1>15, <1>16, <1>17, <1>18, <1>19 DEF Next, Receiver, Worker

\* What PlaceInv and the types say, in the form the next lemma uses it.
LEMMA PlaceFacts ==
  ASSUME IInv
  PROVE  /\ got \in Nat /\ sent \in Nat /\ got <= sent /\ sent <= NumOrders
         /\ recvMsg \in Nat /\ msg \in Nat
         /\ list \in Seq(Orders) /\ Len(list) \in Nat
         /\ \A i \in 1..Len(list) : list[i] \in Orders /\ list[i] \in Nat
         /\ \A n \in InHand : n \in Orders /\ n \in Nat
         /\ \A n \in Orders : n \in Nat /\ n # NoOrder
         /\ fate \in [Orders -> Fates]
<1> USE ServiceAssumption DEF IInv, TypeOK
<1>1. \A n \in Orders : n \in Nat /\ n # NoOrder
  BY DEF Orders, NoOrder
<1>2. got \in Nat /\ sent \in Nat /\ got <= sent /\ sent <= NumOrders
  OBVIOUS
<1>3. recvMsg \in Nat /\ msg \in Nat
  BY <1>1 DEF NoOrder
<1>4. list \in Seq(Orders) /\ Len(list) \in Nat
  OBVIOUS
<1>5. \A i \in 1..Len(list) : list[i] \in Orders /\ list[i] \in Nat
  BY <1>1, <1>4, ElementOfSeq
<1>6. \A n \in InHand : n \in Orders /\ n \in Nat
  BY <1>1 DEF InHand
<1>7. QED
  BY <1>1, <1>2, <1>3, <1>4, <1>5, <1>6

\* Closing the order n at the end of its way leaves the places of the others.
LEMMA CloseStep ==
  ASSUME IInv, NEW n \in Orders, NEW f \in Fates \ {"open"},
         fate' = [fate EXCEPT ![n] = f],
         got' = got, list' = list,
         \/ n = recvMsg /\ recvMsg' = NoOrder /\ InHand' = InHand
         \/ InHand = {n} /\ InHand' = {} /\ recvMsg' = recvMsg
  PROVE  PlaceInv'
<1> USE PlaceFacts DEF IInv, PlaceInv
<1>1. n <= got /\ n # NoOrder
  BY DEF InReceiver, AtWorker
<1>2. \A i \in 1..Len(list) : list[i] # n
  BY <1>1 DEF InList, AtWorker
<1>3. recvMsg' # NoOrder => recvMsg # n
  BY <1>1 DEF AtWorker
<1>4. \A k \in InHand' : k \in InHand /\ k # n
  BY <1>1 DEF AtWorker
<1>5. InReceiver'
  BY <1>3 DEF InReceiver
<1>6. InList'
  BY <1>2 DEF InList
<1>7. InTurn'
  BY DEF InTurn
<1>8. AtWorker'
  BY <1>4 DEF AtWorker
<1>9. NoneMissing'
  BY <1>1 DEF NoneMissing, Queued
<1>10. QED
  BY <1>5, <1>6, <1>7, <1>8, <1>9

\* Each action keeps the places an order goes through in increasing order, and
\* every open order that has left the socket in one of them.
LEMMA PlaceStep == IInv /\ [Next]_vars => PlaceInv'
<1> SUFFICES ASSUME IInv, [Next]_vars PROVE PlaceInv'
  OBVIOUS
<1> USE PlaceFacts
<1>0. /\ TypeOK /\ ControlInv /\ PlaceInv
      /\ InReceiver /\ InList /\ InTurn /\ AtWorker /\ NoneMissing
  BY DEF IInv, PlaceInv
<1>u. ASSUME UNCHANGED <<got, recvMsg, list, fate, InHand>>
      PROVE  PlaceInv'
  BY <1>0, <1>u DEF PlaceInv, InReceiver, InList, InTurn, AtWorker, NoneMissing, Queued
<1>1. CASE Submit
  BY <1>1, <1>u DEF Submit, recvVars, workerVars, InHand
<1>2. CASE Receive
  <2>1. /\ got' = got + 1 /\ recvMsg' = got + 1
        /\ UNCHANGED <<list, fate, InHand>>
    BY <1>2 DEF Receive, workerVars, InHand
  <2>2. got + 1 \in Orders /\ fate[got + 1] = "open" /\ recvMsg = NoOrder
    <3>1. got + 1 \in Orders
      BY <1>2, ServiceAssumption DEF Receive, Orders
    <3>2. QED
      BY <1>0, <1>2, <3>1 DEF Receive, NoneMissing, ControlInv
  <2>3. InReceiver'
    BY <2>1, <2>2 DEF InReceiver
  <2>4. InList' /\ InTurn'
    BY <1>0, <2>1 DEF InList, InTurn
  <2>5. AtWorker'
    BY <1>0, <2>1 DEF AtWorker
  <2>6. NoneMissing'
    BY <1>0, <2>1, <2>2 DEF NoneMissing, Queued
  <2>7. QED
    BY <2>3, <2>4, <2>5, <2>6 DEF PlaceInv
<1>3. CASE ReceiverLock
  BY <1>3, <1>u DEF ReceiverLock, workerVars, InHand
<1>4. CASE PushBack
  <2>1. /\ list' = Append(list, recvMsg) /\ recvMsg' = NoOrder
        /\ UNCHANGED <<got, fate, InHand>>
    <3>1. wpc # "copied" \/ wpc' = wpc
      BY <1>4 DEF PushBack, ReceiverUnlock, workerVars
    <3>2. QED
      BY <1>4, <3>1 DEF PushBack, ReceiverUnlock, Enqueued, workerVars, InHand
  <2>2. recvMsg \in Orders /\ recvMsg # NoOrder
    BY <1>0, <1>4 DEF PushBack, ControlInv, TypeOK
  <2>3. /\ Len(list') = Len(list) + 1
        /\ \A i \in 1..Len(list) : list'[i] = list[i]
        /\ list'[Len(list) + 1] = recvMsg
    BY <2>1, <2>2
  <2>4. InReceiver'
    BY <2>1 DEF InReceiver
  <2>5. InList'
    BY <1>0, <2>1, <2>2, <2>3 DEF InList, InReceiver
  <2>6. InTurn'
    BY <1>0, <2>1, <2>2, <2>3 DEF InTurn, InList
  <2>7. AtWorker'
    BY <1>0, <2>1, <2>2, <2>3 DEF AtWorker
  <2>8. NoneMissing'
    <3>1. Queued' = Queued \cup {recvMsg}
      BY <2>3, SMTT(20) DEF Queued
    <3>2. QED
      BY <1>0, <2>1, <3>1 DEF NoneMissing
  <2>9. QED
    BY <2>4, <2>5, <2>6, <2>7, <2>8 DEF PlaceInv
<1>5. CASE DropOrder
  <2>1. recvMsg \in Orders
    BY <1>0, <1>5 DEF DropOrder, ControlInv, TypeOK
  <2>2. QED
    BY <1>5, <2>1, CloseStep
    DEF DropOrder, ReceiverUnlock, workerVars, InHand, Fates
<1>6. CASE WorkerLock
  BY <1>0, <1>6, <1>u DEF WorkerLock, recvVars, InHand, ControlInv
<1>7. CASE CopyFront
  BY <1>0, <1>7, <1>u DEF CopyFront, recvVars, InHand, ControlInv
<1>8. CASE PopFront
  <2>1. /\ list' = Tail(list) /\ UNCHANGED <<got, recvMsg, fate>>
        /\ InHand' = {msg} /\ msg = list[1] /\ InHand = {} /\ list # << >>
    <3>1. list # << >> /\ msg = Head(list)
      BY <1>0, <1>8 DEF PopFront, ControlInv
    <3>2. msg = list[1] /\ msg \in Orders
      BY <3>1, FrontAndRest
    <3>3. QED
      BY <1>8, <3>1, <3>2 DEF PopFront, Popped, recvVars, InHand
  <2>2. /\ 1 \in 1..Len(list) /\ Len(list') = Len(list) - 1
        /\ \A i \in 1..Len(list') : i + 1 \in 1..Len(list) /\ list'[i] = list[i + 1]
    BY <2>1, FrontAndRest
  <2>3. InReceiver'
    BY <1>0, <2>1 DEF InReceiver
  <2>4. InList'
    BY <1>0, <2>1, <2>2 DEF InList
  <2>5. InTurn'
    BY <1>0, <2>1, <2>2 DEF InTurn
  <2>6. AtWorker'
    BY <1>0, <2>1, <2>2 DEF AtWorker, InList, InTurn
  <2>7. NoneMissing'
    <3>1. Queued \subseteq Queued' \cup {msg}
      <4>1. SUFFICES ASSUME NEW i \in 1..Len(list), i # 1
                     PROVE  list[i] \in Queued'
        BY <2>1 DEF Queued
      <4>2. Len(list') \in Nat /\ i \in Nat
        BY <2>2
      <4>3. PICK j \in 1..Len(list') : j + 1 = i
        <5>1. i - 1 \in 1..Len(list') /\ (i - 1) + 1 = i
          BY <2>2, <4>1, <4>2
        <5>2. QED
          BY <5>1
      <4>4. QED
        BY <2>2, <4>3 DEF Queued
    <3>2. QED
      BY <1>0, <2>1, <3>1 DEF NoneMissing
  <2>8. QED
    BY <2>3, <2>4, <2>5, <2>6, <2>7 DEF PlaceInv
<1>9. CASE ListEmpty
  BY <1>9, <1>0, <1>u DEF ListEmpty, recvVars, InHand
<1>10. CASE Sleep
  <2>1. CASE msg = NoOrder
    BY <1>10, <1>u, <2>1 DEF Sleep, recvVars, InHand
  <2>2. CASE msg # NoOrder
    BY <1>0, <1>10, <2>2, CloseStep DEF Sleep, recvVars, InHand, Fates, TypeOK
  <2>3. QED
    BY <2>1, <2>2
<1>11. CASE ReportRunning
  BY <1>11, <1>u DEF ReportRunning, recvVars, InHand
<1>12. CASE RunJob
  BY <1>12, <1>u DEF RunJob, recvVars, InHand
<1>13. CASE NoCommand
  BY <1>0, <1>13, CloseStep
  DEF NoCommand, recvVars, InHand, Fates, TypeOK, ControlInv, MsgOfid
<1>14. CASE JobEnds
  BY <1>14, <1>u DEF JobEnds, recvVars, InHand
<1>15. CASE ReportOutcome
  BY <1>0, <1>15, CloseStep
  DEF ReportOutcome, recvVars, InHand, Fates, TypeOK, ControlInv, MsgOfid
<1>16. CASE Deliver
  BY <1>16, <1>u DEF Deliver, recvVars, workerVars, InHand
<1>17. CASE Crash
  <2>1. PICK g \in got..sent :
          /\ got' = g
          /\ fate' = [n \in Orders |->
                        IF n <= g /\ fate[n] = "open" THEN "lost" ELSE fate[n]]
    BY <1>17 DEF Crash
  <2>2. recvMsg' = NoOrder /\ list' = << >> /\ InHand' = {}
    BY <1>17 DEF Crash, InHand
  <2>3. InReceiver' /\ InList' /\ InTurn' /\ AtWorker'
    BY <2>2 DEF InReceiver, InList, InTurn, AtWorker
  <2>4. NoneMissing'
    BY <1>0, <2>1 DEF NoneMissing
  <2>5. QED
    BY <2>3, <2>4 DEF PlaceInv
<1>18. CASE Restart
  BY <1>0, <1>18, <1>u DEF Restart, InHand, ControlInv
<1>19. CASE UNCHANGED vars
  BY <1>19, <1>u DEF vars, recvVars, workerVars, InHand
<1>20. QED
  BY <1>1, <1>2, <1>3, <1>4, <1>5, <1>6, <1>7, <1>8, <1>9, <1>10, <1>11, <1>12, <1>13,
     <1>14, <1>15, <1>16, <1>17, <1>18, <1>19 DEF Next, Receiver, Worker

\* Each action keeps the reports about an order apart and truthful.
LEMMA ReportStep == IInv /\ [Next]_vars => ReportInv'
<1> SUFFICES ASSUME IInv, [Next]_vars PROVE ReportInv'
  OBVIOUS
<1>0. /\ TypeOK /\ ControlInv /\ ReportInv
      /\ \A r \in flight : r \in Reports /\ r.order \in Orders
      /\ \A n \in InHand : n \in Orders /\ fate[n] = "open"
      /\ flight' \in SUBSET Reports /\ inbox' \in [Orders -> Seq(Reports)]
      /\ fate \in [Orders -> Fates]
  BY TypeStep DEF IInv, TypeOK, Reports, PlaceInv, AtWorker, InHand
<1>u. ASSUME UNCHANGED <<flight, inbox, fate, msg>>,
             wpc \in {"dispatch", "running", "report"}
               => wpc' \in {"dispatch", "running", "report"}
      PROVE  ReportInv'
  BY <1>0, <1>u DEF ReportInv, ReportedOnce
<1>c. ASSUME NEW n \in Orders, NEW f \in Fates \ {"open"}, fate[n] = "open",
             fate' = [fate EXCEPT ![n] = f], UNCHANGED <<flight, inbox>>,
             \/ wpc \in {"dispatch", "running", "report"} => n = msg
             \/ UNCHANGED <<msg, wpc>>
      PROVE  ReportInv'
  BY <1>0, <1>c DEF ReportInv, ReportedOnce
<1>1. CASE Submit
  BY <1>1, <1>u DEF Submit, workerVars, reportVars
<1>2. CASE Receive
  BY <1>2, <1>u DEF Receive, workerVars, reportVars
<1>3. CASE ReceiverLock
  BY <1>3, <1>u DEF ReceiverLock, workerVars, reportVars
<1>4. CASE PushBack
  BY <1>4, <1>u DEF PushBack, ReceiverUnlock, workerVars, reportVars
<1>5. CASE DropOrder
  <2>1. recvMsg \in Orders /\ fate[recvMsg] = "open"
    BY <1>0, <1>5 DEF DropOrder, ControlInv, TypeOK, IInv, PlaceInv, InReceiver
  <2>2. QED
    BY <1>5, <1>c, <2>1 DEF DropOrder, ReceiverUnlock, workerVars, reportVars, Fates
<1>6. CASE WorkerLock
  BY <1>0, <1>6, <1>u DEF WorkerLock, reportVars, ControlInv
<1>7. CASE CopyFront
  <2>1. \A n \in Orders : ~(msg = n /\ wpc \in {"dispatch", "running", "report"})
    BY <1>7 DEF CopyFront
  <2>2. UNCHANGED <<flight, inbox, fate>>
    BY <1>7 DEF CopyFront, reportVars
  <2>3. QED
    BY <1>0, <2>1, <2>2 DEF ReportInv, ReportedOnce
<1>8. CASE PopFront
  BY <1>8, <1>u DEF PopFront, reportVars
<1>9. CASE ListEmpty
  BY <1>9, <1>u DEF ListEmpty, reportVars
<1>10. CASE Sleep
  <2>1. CASE msg = NoOrder
    BY <1>10, <1>u, <2>1 DEF Sleep, reportVars
  <2>2. CASE msg # NoOrder
    <3>1. msg \in Orders /\ fate[msg] = "open"
      BY <1>0, <1>10, <2>2 DEF Sleep, InHand
    <3>2. QED
      BY <1>10, <1>c, <2>2, <3>1 DEF Sleep, reportVars, Fates
  <2>3. QED
    BY <2>1, <2>2
<1>11. CASE ReportRunning
  <2>1. msg \in Orders /\ fate[msg] = "open" /\ wpc' = "dispatch"
        /\ UNCHANGED <<msg, inbox, fate>>
    BY <1>0, <1>11 DEF ReportRunning, InHand, MsgOfid
  <2>2. /\ \A r \in flight : fate[r.order] # "open" /\ r.order # msg
        /\ \A n \in Orders : inbox[n] # << >> => fate[n] # "open"
        /\ inbox[msg] = << >>
    BY <1>0, <1>11, <2>1 DEF ReportRunning, ReportInv
  <2>3. flight' = flight \cup {StartReport(msg)} \/ flight' = flight
    BY <1>11 DEF ReportRunning, SendResult
  <2>4. StartReport(msg).order = msg /\ StartReport(msg).status = Running /\ Running # Default
    BY DEF StartReport, Running, Default
  <2>5. \A r \in flight' : r \in flight \/ (r.order = msg /\ r.status # Default
                                             /\ r = StartReport(msg))
    BY <2>3, <2>4
  <2>6. ReportedOnce'
    BY <1>0, <2>1, <2>2, <2>5 DEF ReportInv, ReportedOnce
  <2>7. QED
    BY <1>0, <2>1, <2>2, <2>5, <2>6 DEF ReportInv
<1>12. CASE RunJob
  BY <1>12, <1>u DEF RunJob, reportVars
<1>13. CASE NoCommand
  <2>1. msg \in Orders /\ fate[msg] = "open"
    BY <1>0, <1>13 DEF NoCommand, InHand, ControlInv, MsgOfid
  <2>2. QED
    BY <1>13, <1>c, <2>1 DEF NoCommand, reportVars, Fates
<1>14. CASE JobEnds
  BY <1>14, <1>u DEF JobEnds, reportVars
<1>15. CASE ReportOutcome
  <2>1. msg \in Orders /\ fate[msg] = "open" /\ wpc = "report" /\ UNCHANGED inbox
        /\ fate' = [fate EXCEPT ![msg] = "finished"]
    BY <1>0, <1>15 DEF ReportOutcome, InHand, ControlInv, MsgOfid
  <2>2. flight' = flight \cup {FinalReport(msg, jobCode)} \/ flight' = flight
    BY <1>15 DEF ReportOutcome, SendResult
  <2>3. FinalReport(msg, jobCode).order = msg /\ FinalReport(msg, jobCode).status = Default
    BY DEF FinalReport
  <2>4. /\ \A r \in flight : r.order = msg => r.status # Default
        /\ \A i \in 1..Len(inbox[msg]) : inbox[msg][i].status # Default
    BY <1>0, <2>1 DEF ReportInv, ReportedOnce
  <2>5. \A r \in flight' : r \in flight \/ (r.order = msg /\ r.status = Default
                                             /\ r = FinalReport(msg, jobCode))
    BY <2>2, <2>3
  <2>6. ReportedOnce'
    <3> USE DEF ReportInv, ReportedOnce
    <3>1. \A r1, r2 \in flight' :
            r1.order = r2.order /\ r1.status = r2.status => r1 = r2
      BY <1>0, <2>4, <2>5
    <3>2. \A r \in flight' : \A i \in 1..Len(inbox'[r.order]) :
            inbox'[r.order][i].status # r.status
      <4>1. \A r \in flight : \A i \in 1..Len(inbox[r.order]) :
              inbox[r.order][i].status # r.status
        BY <1>0
      <4>2. QED
        BY <2>1, <2>4, <2>5, <4>1
    <3>3. \A r \in flight' : r.status = Default => fate'[r.order] = "finished"
      BY <1>0, <2>1, <2>5
    <3>4. \A n \in Orders : \A i \in 1..Len(inbox'[n]) :
            inbox'[n][i].order = n /\ (inbox'[n][i].status = Default => fate'[n] = "finished")
      BY <1>0, <2>1
    <3>5. QED
      BY <1>0, <2>1, <3>1, <3>2, <3>3, <3>4
  <2>7. QED
    BY <1>0, <2>1, <2>5, <2>6 DEF ReportInv
<1>16. CASE Deliver
  <2>1. PICK r \in flight :
          /\ inbox' = [inbox EXCEPT ![r.order] = Append(@, r)]
          /\ flight' = flight \ {r}
          /\ UNCHANGED <<msg, wpc, fate>>
    BY <1>16 DEF Deliver, workerVars
  <2>2. r \in Reports /\ r.order \in Orders
    BY <1>0
  <2>3. /\ inbox[r.order] \in Seq(Reports) /\ Len(inbox[r.order]) \in Nat
        /\ inbox'[r.order] = Append(inbox[r.order], r)
        /\ \A n \in Orders : n # r.order => inbox'[n] = inbox[n]
    BY <1>0, <2>1, <2>2 DEF TypeOK
  <2>4. /\ Len(inbox'[r.order]) = Len(inbox[r.order]) + 1
        /\ \A i \in 1..Len(inbox[r.order]) : inbox'[r.order][i] = inbox[r.order][i]
        /\ inbox'[r.order][Len(inbox[r.order]) + 1] = r
    BY <2>2, <2>3
  <2>5. ReportedOnce'
    BY <1>0, <2>1, <2>2, <2>3, <2>4 DEF ReportInv, ReportedOnce
  <2>6. QED
    BY <1>0, <2>1, <2>2, <2>3, <2>5 DEF ReportInv
<1>17. CASE Crash
  <2>1. PICK g \in got..sent :
          /\ got' = g
          /\ fate' = [n \in Orders |->
                        IF n <= g /\ fate[n] = "open" THEN "lost" ELSE fate[n]]
    BY <1>17 DEF Crash
  <2>2. flight' \in SUBSET flight /\ UNCHANGED inbox
    BY <1>17 DEF Crash
  <2>3. \A n \in Orders : n \in InHand => n <= g /\ g \in Nat
    BY <2>1, PlaceFacts DEF IInv, PlaceInv, AtWorker
  <2>4. \A n \in Orders : fate[n] = "open" /\ msg = n
                          /\ wpc \in {"dispatch", "running", "report"} => fate'[n] # "open"
    BY <2>1, <2>3, PlaceFacts DEF InHand
  <2>5. \A n \in Orders : /\ fate[n] = "finished" => fate'[n] = "finished"
                          /\ fate'[n] = "open" => fate[n] = "open"
    BY <2>1
  <2>6. ReportedOnce'
    BY <1>0, <2>2, <2>5 DEF ReportInv, ReportedOnce
  <2>7. QED
    BY <1>0, <2>2, <2>4, <2>5, <2>6 DEF ReportInv
<1>18. CASE Restart
  BY <1>0, <1>18, <1>u DEF Restart, reportVars, ControlInv
<1>19. CASE UNCHANGED vars
  BY <1>19, <1>u DEF vars, workerVars, reportVars
<1>20. QED
  BY <1>1, <1>2, <1>3, <1>4, <1>5, <1>6, <1>7, <1>8, <1>9, <1>10, <1>11, <1>12, <1>13,
     <1>14, <1>15, <1>16, <1>17, <1>18, <1>19 DEF Next, Receiver, Worker

LEMMA InitIInv == Init => IInv
<1> SUFFICES ASSUME Init PROVE IInv
  OBVIOUS
<1> USE ServiceAssumption DEF Init, Orders, NoOrder
<1>1. TypeOK
  BY DEF TypeOK, Fates, Reports
<1>2. ControlInv /\ ListBounded
  BY DEF ControlInv, ListBounded
<1>3. PlaceInv
  BY DEF PlaceInv, InReceiver, InList, InTurn, AtWorker, NoneMissing, InHand
<1>4. ReportInv
  BY DEF ReportInv, ReportedOnce
<1>5. QED
  BY <1>1, <1>2, <1>3, <1>4 DEF IInv

\* The inductive invariant of the service.
THEOREM ServiceInvariant == Spec => []IInv
<1>1. IInv /\ [Next]_vars => IInv'
  BY TypeStep, ControlStep, PlaceStep, ReportStep DEF IInv
<1>2. QED
  BY InitIInv, <1>1, PTL DEF Spec

\* Every variable stays in its domain.
THEOREM TypeCorrect == Spec => []TypeOK
<1>1. IInv => TypeOK
  BY DEF IInv
<1>2. QED
  BY ServiceInvariant, <1>1, PTL

\* The receiver and the worker are never both inside the list.
THEOREM ListIsExclusive == Spec => []ExclusiveList
<1>1. IInv => ExclusiveList
  BY DEF IInv, ControlInv, ExclusiveList
<1>2. QED
  BY ServiceInvariant, <1>1, PTL

\* The list never holds more than QueueCap orders.
THEOREM ListIsBounded == Spec => []ListBounded
<1>1. IInv => ListBounded
  BY DEF IInv
<1>2. QED
  BY ServiceInvariant, <1>1, PTL

\* The orders that have left the socket and are still open are each in one place.
LEMMA ConservedWhenInv == IInv => OrdersConserved
<1> SUFFICES ASSUME IInv PROVE OrdersConserved
  OBVIOUS
<1> USE PlaceFacts DEF IInv, PlaceInv
<1>1. ASSUME NEW n \in Orders, n <= got, fate[n] = "open"
      PROVE  n \in {recvMsg} \cup Queued \cup InHand
  BY <1>1 DEF NoneMissing
<1>2. ASSUME NEW n \in Orders, n \in {recvMsg} \cup Queued \cup InHand
      PROVE  n <= got /\ fate[n] = "open"
  <2>1. CASE n = recvMsg
    BY <2>1 DEF InReceiver
  <2>2. CASE n \in Queued
    BY <2>2 DEF Queued, InList
  <2>3. CASE n \in InHand
    BY <2>3 DEF AtWorker
  <2>4. QED
    BY <1>2, <2>1, <2>2, <2>3
<1>3. recvMsg \notin Queued
  BY DEF Queued, InList
<1>4. recvMsg \notin InHand
  BY DEF AtWorker
<1>5. Queued \cap InHand = {}
  BY DEF Queued, AtWorker
<1>6. \A i, j \in 1..Len(list) : i # j => list[i] # list[j]
  BY DEF InTurn
<1>7. QED
  BY <1>1, <1>2, <1>3, <1>4, <1>5, <1>6 DEF OrdersConserved

\* No order is lost or doubled between the socket and its fate.
THEOREM OrdersAreConserved == Spec => []OrdersConserved
BY ServiceInvariant, ConservedWhenInv, PTL

LEMMA InOrderWhenInv == IInv => WorkedInOrder
<1> SUFFICES ASSUME IInv, NEW n \in InHand, NEW k \in 1..(n - 1), fate[k] = "open"
             PROVE  FALSE
  BY DEF WorkedInOrder
<1> USE PlaceFacts DEF IInv, PlaceInv
<1>1. n <= got /\ n \in Orders
  BY DEF AtWorker
<1>2. k \in Orders /\ k <= got /\ k < n
  BY <1>1, ServiceAssumption DEF Orders
<1>3. k \in {recvMsg} \cup Queued \cup InHand
  BY <1>2 DEF NoneMissing
<1>4. k # recvMsg
  BY <1>2 DEF AtWorker
<1>5. k \notin Queued
  BY <1>2 DEF AtWorker, Queued
<1>6. k \notin InHand
  BY <1>2 DEF InHand
<1>7. QED
  BY <1>3, <1>4, <1>5, <1>6

\* The worker takes the orders strictly in the order in which they were pushed.
THEOREM OrdersAreWorkedInOrder == Spec => []WorkedInOrder
BY ServiceInvariant, InOrderWhenInv, PTL

\* No order is reported running twice, or finished twice or too early.
THEOREM EachIsReportedOnce == Spec => []ReportedOnce
<1>1. IInv => ReportedOnce
  BY DEF IInv, ReportInv
<1>2. QED
  BY ServiceInvariant, <1>1, PTL

-----------------------------------------------------------------------------
(* Where nothing is lost on the way, no outcome goes missing. *)

\* A report by the worker finds a context, and is on its way.
LEMMA ReportLeaves ==
  ASSUME NothingLost, IInv, SocketInv, NEW r, SendResult(r),
         msg # NoOrder, msg \in InHand,
         \/ wpc = "check"
         \/ wpc \in {"dispatch", "running", "report"}
  PROVE  sockets' = sockets + 1 /\ flight' = flight \cup {r}
<1>1. /\ msg \in Orders /\ msg \in Nat /\ msg <= NumOrders
      /\ sockets \in Nat /\ MaxSockets \in Nat /\ NumOrders \in Nat
  BY PlaceFacts, ServiceAssumption DEF IInv, TypeOK, Orders
<1>2. sockets <= 2 * msg - 1
  BY <1>1 DEF SocketInv
<1>3. sockets < MaxSockets
  BY <1>1, <1>2 DEF NothingLost
<1>4. QED
  BY <1>1, <1>3 DEF SendResult, NothingLost

\* Each order opens its two contexts in its turn.
LEMMA SocketStep ==
  ASSUME NothingLost, IInv, SocketInv, [Next]_vars
  PROVE  SocketInv'
<1> USE PlaceFacts
<1>0. /\ TypeOK /\ ControlInv /\ PlaceInv
      /\ InReceiver /\ InList /\ InTurn /\ AtWorker
      /\ sockets \in Nat /\ MaxCrashes \in Nat
  BY ServiceAssumption DEF IInv, PlaceInv, TypeOK
<1>1. CASE Submit
  BY <1>1 DEF Submit, recvVars, workerVars, reportVars, SocketInv
<1>2. CASE Receive
  <2>1. /\ got' = got + 1 /\ recvMsg' = got + 1
        /\ UNCHANGED <<list, msg, wpc, sockets>>
    BY <1>2 DEF Receive, workerVars, reportVars
  <2>2. QED
    BY <1>0, <2>1 DEF SocketInv
<1>3. CASE ReceiverLock
  BY <1>3 DEF ReceiverLock, workerVars, reportVars, SocketInv
<1>4. CASE PushBack
  <2>1. /\ list' = Append(list, recvMsg) /\ recvMsg' = NoOrder /\ recvMsg # NoOrder
        /\ UNCHANGED <<got, msg, wpc, sockets>>
    BY <1>0, <1>4 DEF PushBack, ReceiverUnlock, Enqueued, ControlInv, workerVars, reportVars
  <2>2. recvMsg \in Orders
    BY <1>0, <2>1 DEF TypeOK
  <2>3. \A i \in 1..Len(list') : sockets <= 2 * (list'[i] - 1)
    <3>1. /\ Len(list') = Len(list) + 1
          /\ \A i \in 1..Len(list) : list'[i] = list[i]
          /\ list'[Len(list) + 1] = recvMsg
      BY <2>1, <2>2, AppendProperties
    <3>2. QED
      BY <2>1, <3>1 DEF SocketInv
  <2>4. QED
    BY <2>1, <2>3 DEF SocketInv
<1>5. CASE DropOrder
  <2>1. /\ recvMsg' = NoOrder
        /\ UNCHANGED <<got, list, msg, wpc, sockets>>
    BY <1>5 DEF DropOrder, ReceiverUnlock, workerVars, reportVars
  <2>2. QED
    BY <2>1 DEF SocketInv
<1>6. CASE WorkerLock
  BY <1>6 DEF WorkerLock, recvVars, reportVars, SocketInv
<1>7. CASE CopyFront
  BY <1>7 DEF CopyFront, recvVars, reportVars, SocketInv
<1>8. CASE PopFront
  <2>1. /\ list # << >> /\ msg = Head(list) /\ list' = Tail(list)
        /\ wpc' = "check"
        /\ UNCHANGED <<got, recvMsg, msg, sockets>>
    BY <1>0, <1>8 DEF PopFront, Popped, ControlInv, recvVars, reportVars
  <2>2. /\ msg = list[1] /\ 1 \in 1..Len(list)
        /\ \A i \in 1..Len(list') : i + 1 \in 1..Len(list) /\ list'[i] = list[i + 1]
    BY <2>1, FrontAndRest
  <2>3. QED
    BY <2>1, <2>2 DEF SocketInv
<1>9. CASE ListEmpty
  <2>1. wpc' = "check" /\ msg = NoOrder
        /\ UNCHANGED <<got, recvMsg, list, msg, sockets>>
    BY <1>0, <1>9 DEF ListEmpty, ControlInv, recvVars, reportVars
  <2>2. QED
    BY <2>1 DEF SocketInv
<1>10. CASE Sleep
  BY <1>10 DEF Sleep, recvVars, reportVars, SocketInv
<1>11. CASE ReportRunning
  <2>1. /\ wpc = "check" /\ wpc' = "dispatch" /\ SendResult(StartReport(msg))
        /\ msg # NoOrder /\ msg \in InHand
        /\ UNCHANGED <<got, recvMsg, list, msg>>
    BY <1>11 DEF ReportRunning, MsgOfid, InHand, recvVars
  <2>2. sockets' = sockets + 1 /\ sockets <= 2 * (msg - 1)
    BY <2>1, ReportLeaves DEF SocketInv
  <2>3. QED
    BY <1>0, <2>1, <2>2, SMTT(20) DEF SocketInv, AtWorker
<1>12. CASE RunJob
  BY <1>12 DEF RunJob, recvVars, reportVars, SocketInv
<1>13. CASE NoCommand
  BY <1>13 DEF NoCommand, recvVars, reportVars, SocketInv
<1>14. CASE JobEnds
  BY <1>14 DEF JobEnds, recvVars, reportVars, SocketInv
<1>15. CASE ReportOutcome
  <2>1. /\ wpc = "report" /\ wpc' = "top" /\ SendResult(FinalReport(msg, jobCode))
        /\ msg # NoOrder /\ msg \in InHand
        /\ UNCHANGED <<got, recvMsg, list>>
    BY <1>0, <1>15 DEF ReportOutcome, ControlInv, MsgOfid, InHand, recvVars
  <2>2. sockets' = sockets + 1 /\ sockets <= 2 * msg - 1
    BY <2>1, ReportLeaves DEF SocketInv
  <2>3. QED
    BY <1>0, <2>1, <2>2, SMTT(20) DEF SocketInv, AtWorker
<1>16. CASE Deliver
  BY <1>16 DEF Deliver, recvVars, workerVars, SocketInv
<1>17. CASE Crash
  BY <1>0, <1>17 DEF Crash, NothingLost, TypeOK
<1>18. CASE Restart
  BY <1>18 DEF Restart, reportVars, SocketInv
<1>19. CASE UNCHANGED vars
  BY <1>19 DEF vars, recvVars, workerVars, reportVars, SocketInv
<1>20. QED
  BY <1>1, <1>2, <1>3, <1>4, <1>5, <1>6, <1>7, <1>8, <1>9, <1>10, <1>11, <1>12, <1>13,
     <1>14, <1>15, <1>16, <1>17, <1>18, <1>19 DEF Next, Receiver, Worker

\* An outcome that is on its way stays on its way, or arrives.
LEMMA EmittedGrows ==
  ASSUME IInv, NothingLost, [Next]_vars
  PROVE  \/ Emitted \subseteq Emitted'
         \/ ReportOutcome /\ ~(flight \subseteq flight')
         \/ ReportRunning /\ ~(flight \subseteq flight')
<1>t. TypeOK /\ ControlInv /\ MaxCrashes \in Nat
  BY ServiceAssumption DEF IInv
<1>1. CASE Deliver
  <2>1. PICK r \in flight : /\ inbox' = [inbox EXCEPT ![r.order] = Append(@, r)]
                           /\ flight' = flight \ {r}
    BY <1>1 DEF Deliver
  <2>2. r \in Reports /\ r.order \in Orders /\ inbox \in [Orders -> Seq(Reports)]
    BY <1>t DEF TypeOK, Reports
  <2>3. \A n \in Orders : Collected(n) \subseteq Collected(n)'
    <3> SUFFICES ASSUME NEW n \in Orders PROVE Collected(n) \subseteq Collected(n)'
      OBVIOUS
    <3>1. CASE n = r.order
      <4>1. inbox'[n] = Append(inbox[n], r) /\ inbox[n] \in Seq(Reports)
        BY <2>1, <2>2, <3>1
      <4>2. /\ Len(inbox'[n]) = Len(inbox[n]) + 1 /\ Len(inbox[n]) \in Nat
            /\ \A i \in 1..Len(inbox[n]) : inbox'[n][i] = inbox[n][i]
        BY <2>2, <4>1, AppendProperties, LenProperties
      <4>3. QED
        BY <4>2 DEF Collected
    <3>2. CASE n # r.order
      BY <2>1, <2>2, <3>2 DEF Collected
    <3>3. QED
      BY <3>1, <3>2
  <2>4. r \in Collected(r.order)'
    <3>1. inbox'[r.order] = Append(inbox[r.order], r) /\ inbox[r.order] \in Seq(Reports)
      BY <2>1, <2>2
    <3>2. /\ Len(inbox'[r.order]) = Len(inbox[r.order]) + 1 /\ Len(inbox[r.order]) \in Nat
          /\ inbox'[r.order][Len(inbox[r.order]) + 1] = r
      BY <2>2, <3>1, AppendProperties, LenProperties
    <3>3. QED
      BY <3>2 DEF Collected
  <2>5. QED
    BY <2>1, <2>2, <2>3, <2>4 DEF Emitted
<1>2. CASE Crash
  BY <1>t, <1>2 DEF Crash, NothingLost, TypeOK
<1>3. ASSUME UNCHANGED inbox, flight \subseteq flight'
      PROVE  Emitted \subseteq Emitted'
  BY <1>3 DEF Emitted, Collected
<1>4. CASE ReportRunning \/ ReportOutcome
  BY <1>3, <1>4 DEF ReportRunning, ReportOutcome
<1>5. CASE UNCHANGED <<inbox, flight>>
  BY <1>3, <1>5
<1>6. QED
  BY <1>1, <1>2, <1>4, <1>5
  DEF Next, Receiver, Worker, Submit, Receive, ReceiverLock, PushBack, DropOrder, ReceiverUnlock,
      WorkerLock, CopyFront, PopFront, ListEmpty, Sleep, RunJob, NoCommand, JobEnds, Restart,
      reportVars, vars

\* An order becomes finished by the step that reports its outcome.
LEMMA FinishedStep ==
  ASSUME NothingLost, IInv, SocketInv, FinishedIsReported, [Next]_vars
  PROVE  FinishedIsReported'
<1>t. TypeOK /\ ControlInv
  BY DEF IInv
<1>1. CASE ReportOutcome
  <2>1. /\ wpc = "report" /\ SendResult(FinalReport(msg, jobCode))
        /\ msg # NoOrder /\ msg \in InHand
        /\ fate' = [fate EXCEPT ![msg] = "finished"]
    BY <1>t, <1>1 DEF ReportOutcome, ControlInv, MsgOfid, InHand
  <2>2. flight' = flight \cup {FinalReport(msg, jobCode)}
    BY <2>1, ReportLeaves
  <2>3. Emitted \subseteq Emitted' /\ FinalReport(msg, jobCode) \in Emitted'
    BY <2>2, EmittedGrows DEF Emitted, ReportRunning, ReportOutcome
  <2>4. \A n \in Orders : n # msg => fate'[n] = fate[n]
    BY <1>t, <2>1 DEF TypeOK
  <2>5. FinalReport(msg, jobCode).order = msg /\ FinalReport(msg, jobCode).status = Default
    BY DEF FinalReport
  <2>6. QED
    BY <2>3, <2>4, <2>5 DEF FinishedIsReported
<1>2. CASE ReportRunning
  <2>1. /\ wpc = "check" /\ SendResult(StartReport(msg))
        /\ msg # NoOrder /\ msg \in InHand /\ fate' = fate
    BY <1>2 DEF ReportRunning, MsgOfid, InHand
  <2>2. flight \subseteq flight'
    BY <2>1, ReportLeaves
  <2>3. Emitted \subseteq Emitted'
    BY <2>2, <1>2, EmittedGrows DEF ReportRunning, ReportOutcome
  <2>4. QED
    BY <2>1, <2>3 DEF FinishedIsReported
<1>3. CASE ~ReportOutcome /\ ~ReportRunning
  <2>1. Emitted \subseteq Emitted'
    BY <1>3, EmittedGrows
  <2>2. \A n \in Orders : fate'[n] = "finished" => fate[n] = "finished"
    BY <1>t, <1>3, ServiceAssumption
    DEF Next, Receiver, Worker, Submit, Receive, ReceiverLock, PushBack, DropOrder,
        ReceiverUnlock, WorkerLock, CopyFront, PopFront, ListEmpty, Sleep, RunJob, NoCommand,
        JobEnds, Deliver, Crash, Restart, vars, TypeOK
  <2>3. QED
    BY <2>1, <2>2 DEF FinishedIsReported
<1>4. QED
  BY <1>1, <1>2, <1>3

\* Unless sends time out, contexts run out or the process dies, the outcome of every
\* job that has come back is on its way to the collector or there (main.cpp:99).
THEOREM FinishedAreReported == NothingLost => (Spec => []FinishedIsReported)
<1> SUFFICES ASSUME NothingLost PROVE Spec => []FinishedIsReported
  OBVIOUS
<1>1. Init => SocketInv /\ FinishedIsReported
  BY ServiceAssumption DEF Init, SocketInv, FinishedIsReported, NoOrder
<1>2. IInv /\ SocketInv /\ FinishedIsReported /\ [Next]_vars
        => SocketInv' /\ FinishedIsReported'
  BY SocketStep, FinishedStep
<1>3. QED
  BY ServiceInvariant, <1>1, <1>2, PTL DEF Spec

-----------------------------------------------------------------------------
(* OfftaskService implements OrderLedger. *)

LEMMA StageFacts ==
  ASSUME IInv
  PROVE  /\ StageMap \in [Orders -> Ledger!Stages]
         /\ \A n \in Orders : StageMap[n] = Stage(n)
         /\ \A n \in Orders : n > sent => Stage(n) = "unsent"
         /\ \A n \in Orders : n <= sent /\ fate[n] = "open" /\ n # msg => Stage(n) = "waiting"
         /\ \A n \in Orders : fate[n] # "open" =>
              Stage(n) = fate[n] /\ Stage(n) \notin {"unsent", "waiting", "running"}
         /\ msg \in Orders /\ fate[msg] = "open" /\ wpc # "copied" => msg <= sent
<1> USE PlaceFacts DEF IInv, PlaceInv
<1>1. \A n \in Orders : n > sent => fate[n] = "open"
  BY DEF NoneMissing
<1>2. msg \in Orders /\ wpc # "copied" => msg <= sent
  BY DEF AtWorker, InHand, Orders, NoOrder
<1>3. \A n \in Orders : fate[n] \in Fates
  OBVIOUS
<1>4. QED
  BY <1>1, <1>2, <1>3 DEF Stage, StageMap, Fates, Ledger!Stages

\* A step that disturbs neither what is sent, nor a fate, nor the dispatching of
\* the order at the worker is invisible in the ledger.
LEMMA StutterStep ==
  ASSUME UNCHANGED <<sent, fate>>,
         \/ UNCHANGED msg /\ (wpc \in {"dispatch", "running", "report"}
                               <=> wpc' \in {"dispatch", "running", "report"})
         \/ {wpc, wpc'} \cap {"dispatch", "running", "report"} = {}
  PROVE  StageMap' = StageMap
BY DEF StageMap, Stage

\* A step that gives the order n a fate moves n, and n only, in the ledger.
LEMMA MoveStep ==
  ASSUME IInv, NEW n \in Orders, NEW f \in Fates \ {"open"},
         UNCHANGED sent, fate' = [fate EXCEPT ![n] = f],
         \/ wpc \in {"dispatch", "running", "report"} => n = msg
         \/ UNCHANGED <<msg, wpc>>,
         wpc' \in {"dispatch", "running", "report"} => UNCHANGED <<msg, wpc>>
  PROVE  StageMap' = [StageMap EXCEPT ![n] = f]
<1>1. fate \in [Orders -> Fates]
  BY DEF IInv, TypeOK
<1>2. fate'[n] = f /\ \A k \in Orders : k # n => fate'[k] = fate[k]
  BY <1>1
<1>3. Stage(n)' = f
  BY <1>2 DEF Stage
<1>4. \A k \in Orders : k # n => Stage(k)' = Stage(k)
  BY <1>2 DEF Stage
<1>5. QED
  BY <1>3, <1>4 DEF StageMap

\* When an order is in the worker's hand, it is its turn in the ledger.
LEMMA TurnInHand ==
  ASSUME IInv, NEW n \in InHand
  PROVE  n \in Orders /\ fate[n] = "open" /\ n = msg /\ wpc # "copied" /\ Ledger!Turn(n)
<1>1. n \in Orders /\ fate[n] = "open"
  BY PlaceFacts DEF IInv, PlaceInv, AtWorker
<1>2. n = msg /\ wpc # "copied"
  BY DEF InHand
<1>3. ASSUME NEW k \in 1..(n - 1)
      PROVE  StageMap[k] \notin {"unsent", "waiting", "running"}
  <2>1. k \in Orders
    BY <1>1, ServiceAssumption DEF Orders
  <2>2. fate[k] # "open"
    BY InOrderWhenInv DEF WorkedInOrder
  <2>3. QED
    BY <2>1, <2>2, StageFacts
<1>4. QED
  BY <1>1, <1>2, <1>3 DEF Ledger!Turn

\* Every step of the service is a step of the ledger, or leaves it as it is.
LEMMA LedgerStep == IInv /\ [Next]_vars => [Ledger!Next]_StageMap
<1> SUFFICES ASSUME IInv, [Next]_vars PROVE [Ledger!Next]_StageMap
  OBVIOUS
<1> USE StageFacts
<1>0. TypeOK /\ ControlInv
  BY DEF IInv
<1>m. ASSUME NEW n \in Orders, Ledger!Submit(n) \/ Ledger!Refuse(n) \/ Ledger!Ignore(n)
                               \/ Ledger!Start(n) \/ Ledger!GiveUp(n) \/ Ledger!Finish(n)
      PROVE  Ledger!Next
  BY <1>m DEF Ledger!Next, Ledger!Orders, Orders
<1>1. CASE Submit
  <2>1. PICK n \in Orders : n = sent + 1
    BY <1>0, <1>1, ServiceAssumption DEF Submit, TypeOK, Orders
  <2>2. n \in Nat /\ sent \in Nat /\ sent' = n /\ UNCHANGED <<msg, wpc, fate>>
    BY <1>1, <2>1, PlaceFacts DEF Submit, workerVars
  <2>3. wpc # "copied" => n # msg
    BY <2>1, PlaceFacts DEF IInv, PlaceInv, AtWorker, InHand, NoOrder
  <2>4. fate[n] = "open"
    BY <2>1, PlaceFacts DEF IInv, PlaceInv, NoneMissing
  <2>5. Stage(n) = "unsent"
    BY <2>1, <2>2, <2>4 DEF Stage
  <2>6. Stage(n)' = "waiting"
    BY <2>2, <2>3, <2>4 DEF Stage
  <2>7. ASSUME NEW k \in Orders, k # n PROVE Stage(k)' = Stage(k)
    <3>1. k \in Nat
      BY PlaceFacts
    <3>2. k > sent' <=> k > sent
      BY <2>1, <2>2, <2>7, <3>1
    <3>3. QED
      BY <2>2, <3>2 DEF Stage
  <2>8. StageMap' = [StageMap EXCEPT ![n] = "waiting"]
    BY <2>6, <2>7 DEF StageMap
  <2>9. ASSUME NEW k \in 1..(n - 1) PROVE StageMap[k] # "unsent"
    <3>1. k \in Orders /\ ~(k > sent)
      BY <2>1, <2>2, ServiceAssumption DEF Orders
    <3>2. QED
      BY <3>1, <1>0 DEF Stage, StageMap, TypeOK, Fates
  <2>10. Ledger!Submit(n)
    BY <2>5, <2>8, <2>9 DEF Ledger!Submit, Ledger!Move
  <2>11. QED
    BY <1>m, <2>10
<1>2. CASE Receive
  BY <1>2, StutterStep DEF Receive, workerVars
<1>3. CASE ReceiverLock
  BY <1>3, StutterStep DEF ReceiverLock, workerVars
<1>4. CASE PushBack
  BY <1>4, StutterStep DEF PushBack, ReceiverUnlock, workerVars
<1>5. CASE DropOrder
  <2>1. /\ recvMsg \in Orders /\ fate[recvMsg] = "open" /\ recvMsg <= sent
        /\ recvMsg \notin InHand
    BY <1>0, <1>5, PlaceFacts
    DEF DropOrder, ControlInv, IInv, PlaceInv, InReceiver, AtWorker, TypeOK
  <2>2. Stage(recvMsg) = "waiting"
    BY <2>1, PlaceFacts DEF Stage, InHand, NoOrder
  <2>3. StageMap' = [StageMap EXCEPT ![recvMsg] = "dropped"]
    BY <1>5, <2>1, MoveStep DEF DropOrder, ReceiverUnlock, workerVars, Fates
  <2>4. Ledger!Refuse(recvMsg)
    BY <2>1, <2>2, <2>3 DEF Ledger!Refuse, Ledger!Move
  <2>5. QED
    BY <1>m, <2>1, <2>4
<1>6. CASE WorkerLock
  BY <1>6, StutterStep DEF WorkerLock
<1>7. CASE CopyFront
  BY <1>7, StutterStep DEF CopyFront
<1>8. CASE PopFront
  BY <1>8, StutterStep DEF PopFront
<1>9. CASE ListEmpty
  BY <1>9, StutterStep DEF ListEmpty
<1>10. CASE Sleep
  <2>1. CASE msg = NoOrder
    BY <1>10, <2>1, StutterStep DEF Sleep
  <2>2. CASE msg # NoOrder
    <3>1. msg \in InHand /\ Ofid[msg] = 0
      BY <1>10, <2>2 DEF Sleep, InHand, MsgOfid
    <3>2. msg \in Orders /\ fate[msg] = "open" /\ Ledger!Turn(msg)
      BY <3>1, TurnInHand
    <3>3. Stage(msg) = "waiting"
      BY <1>10, <3>2, PlaceFacts DEF Sleep, Stage
    <3>4. StageMap' = [StageMap EXCEPT ![msg] = "ignored"]
      BY <1>10, <2>2, <3>2, MoveStep DEF Sleep, Fates
    <3>5. Ledger!Ignore(msg)
      BY <3>1, <3>2, <3>3, <3>4 DEF Ledger!Ignore, Ledger!Move
    <3>6. QED
      BY <1>m, <3>2, <3>5
  <2>3. QED
    BY <2>1, <2>2
<1>11. CASE ReportRunning
  <2>1. msg \in InHand /\ Ofid[msg] # 0
    BY <1>11 DEF ReportRunning, InHand, MsgOfid
  <2>2. msg \in Orders /\ fate[msg] = "open" /\ Ledger!Turn(msg) /\ msg <= sent
    BY <2>1, TurnInHand
  <2>3. Stage(msg) = "waiting"
    BY <1>11, <2>2, PlaceFacts DEF ReportRunning, Stage
  <2>4. UNCHANGED <<sent, fate, msg>> /\ wpc' = "dispatch"
    BY <1>11 DEF ReportRunning
  <2>5. Stage(msg)' = "running"
    BY <2>2, <2>4, PlaceFacts DEF Stage
  <2>6. \A k \in Orders : k # msg => Stage(k)' = Stage(k)
    BY <2>4 DEF Stage
  <2>7. StageMap' = [StageMap EXCEPT ![msg] = "running"]
    BY <2>4, <2>5, <2>6 DEF StageMap
  <2>8. Ledger!Start(msg)
    BY <2>1, <2>2, <2>3, <2>7 DEF Ledger!Start, Ledger!Move
  <2>9. QED
    BY <1>m, <2>2, <2>8
<1>12. CASE RunJob
  BY <1>12, StutterStep DEF RunJob
<1>13. CASE NoCommand
  <2>1. msg \in InHand
    BY <1>0, <1>13 DEF NoCommand, InHand, MsgOfid, ControlInv
  <2>2. msg \in Orders /\ fate[msg] = "open" /\ msg <= sent
    BY <2>1, TurnInHand
  <2>3. Stage(msg) = "running"
    BY <1>13, <2>2, PlaceFacts DEF NoCommand, Stage
  <2>4. StageMap' = [StageMap EXCEPT ![msg] = "unhandled"]
    BY <1>13, <2>2, MoveStep DEF NoCommand, Fates
  <2>5. Ledger!GiveUp(msg)
    BY <1>13, <2>2, <2>3, <2>4 DEF NoCommand, Ledger!GiveUp, Ledger!Move
  <2>6. QED
    BY <1>m, <2>2, <2>5
<1>14. CASE JobEnds
  BY <1>14, StutterStep DEF JobEnds
<1>15. CASE ReportOutcome
  <2>1. msg \in InHand /\ Mode[msg] \in JobModes
    BY <1>0, <1>15 DEF ReportOutcome, InHand, MsgOfid, ControlInv
  <2>2. msg \in Orders /\ fate[msg] = "open" /\ msg <= sent
    BY <2>1, TurnInHand
  <2>3. Stage(msg) = "running"
    BY <1>15, <2>2, PlaceFacts DEF ReportOutcome, Stage
  <2>4. StageMap' = [StageMap EXCEPT ![msg] = "finished"]
    BY <1>15, <2>2, MoveStep DEF ReportOutcome, Fates
  <2>5. Ledger!Finish(msg)
    BY <2>1, <2>2, <2>3, <2>4 DEF Ledger!Finish, Ledger!Move
  <2>6. QED
    BY <1>m, <2>2, <2>5
<1>16. CASE Deliver
  BY <1>16, StutterStep DEF Deliver, workerVars
<1>17. CASE Crash
  <2>1. PICK g \in got..sent :
          fate' = [n \in Orders |->
                     IF n <= g /\ fate[n] = "open" THEN "lost" ELSE fate[n]]
    BY <1>17 DEF Crash
  <2>2. g \in Nat /\ got <= g /\ g <= sent /\ g \in 0..NumOrders
    BY <2>1, PlaceFacts, ServiceAssumption
  <2>3. sent' = sent /\ wpc' = "down"
    BY <1>17 DEF Crash
  <2>4. ASSUME NEW n \in Orders
        PROVE  Stage(n)' = IF Stage(n) = "running" \/ (n <= g /\ Stage(n) = "waiting")
                           THEN "lost" ELSE Stage(n)
    <3>1. CASE fate[n] # "open"
      BY <2>1, <3>1 DEF Stage
    <3>2. CASE fate[n] = "open" /\ n > sent
      BY <2>1, <2>2, <2>3, <3>2, PlaceFacts DEF Stage
    <3>3. CASE fate[n] = "open" /\ n <= sent /\ n <= g
      BY <2>1, <2>3, <3>3, PlaceFacts DEF Stage
    <3>4. CASE fate[n] = "open" /\ n <= sent /\ n > g
      <4>1. n \notin InHand
        BY <2>2, <3>4, PlaceFacts DEF IInv, PlaceInv, AtWorker
      <4>2. Stage(n) = "waiting"
        BY <3>4, <4>1, PlaceFacts DEF Stage, InHand
      <4>3. Stage(n)' = "waiting"
        BY <2>1, <2>2, <2>3, <3>4, PlaceFacts DEF Stage
      <4>4. QED
        BY <2>2, <3>4, <4>2, <4>3, PlaceFacts
    <3>5. QED
      BY <3>1, <3>2, <3>3, <3>4, PlaceFacts
  <2>5. Ledger!Die(g)
    BY <2>4 DEF Ledger!Die, Ledger!Orders, Orders, StageMap
  <2>6. QED
    BY <2>2, <2>5 DEF Ledger!Next
<1>18. CASE Restart
  BY <1>0, <1>18, StutterStep DEF Restart, ControlInv
<1>19. CASE UNCHANGED vars
  BY <1>19, StutterStep DEF vars, workerVars
<1>20. QED
  BY <1>1, <1>2, <1>3, <1>4, <1>5, <1>6, <1>7, <1>8, <1>9, <1>10, <1>11, <1>12, <1>13,
     <1>14, <1>15, <1>16, <1>17, <1>18, <1>19 DEF Next, Receiver, Worker

\* The two threads, the socket and the crashes implement the ledger.
THEOREM ServiceImplementsLedger == Spec => ImplementsLedger
<1>1. Init => Ledger!Init
  BY ServiceAssumption DEF Init, Ledger!Init, Ledger!Orders, Orders, StageMap, Stage
<1>2. QED
  BY <1>1, LedgerStep, ServiceInvariant, PTL DEF Spec, ImplementsLedger, Ledger!Spec

-----------------------------------------------------------------------------
(* What is left to do.                                                     *)

FlightFinite == IsFiniteSet(flight)

\* The reports on their way: one more at most for each that is sent, one less for each
\* that arrives, none more when the process dies.
LEMMA FlightStep ==
  ASSUME IInv, FlightFinite
  PROVE  /\ Cardinality(flight) \in Nat
         /\ \A r : SendResult(r) => /\ IsFiniteSet(flight')
                                    /\ Cardinality(flight') \in Nat
                                    /\ Cardinality(flight') <= Cardinality(flight) + 1
         /\ Deliver => /\ IsFiniteSet(flight')
                       /\ Cardinality(flight') = Cardinality(flight) - 1
         /\ flight' \in SUBSET flight => /\ IsFiniteSet(flight')
                                         /\ Cardinality(flight') \in Nat
                                         /\ Cardinality(flight') <= Cardinality(flight)
<1>1. Cardinality(flight) \in Nat
  BY FS_CardinalityType DEF FlightFinite
<1>2. ASSUME NEW r, SendResult(r)
      PROVE  /\ IsFiniteSet(flight') /\ Cardinality(flight') \in Nat
             /\ Cardinality(flight') <= Cardinality(flight) + 1
  <2>1. flight' = flight \cup {r} \/ flight' = flight
    BY <1>2 DEF SendResult
  <2>2. IsFiniteSet(flight \cup {r})
        /\ (Cardinality(flight \cup {r}) = Cardinality(flight)
              \/ Cardinality(flight \cup {r}) = Cardinality(flight) + 1)
    BY FS_AddElement DEF FlightFinite
  <2>3. CASE flight' = flight \cup {r}
    BY <1>1, <2>2, <2>3
  <2>4. CASE flight' = flight
    BY <1>1, <2>4 DEF FlightFinite
  <2> QED
    BY <2>1, <2>3, <2>4
<1>3. ASSUME Deliver
      PROVE  IsFiniteSet(flight') /\ Cardinality(flight') = Cardinality(flight) - 1
  <2>1. PICK r \in flight : flight' = flight \ {r}
    BY <1>3 DEF Deliver
  <2> QED
    BY <2>1, FS_RemoveElement DEF FlightFinite
<1>4. ASSUME flight' \in SUBSET flight
      PROVE  /\ IsFiniteSet(flight') /\ Cardinality(flight') \in Nat
             /\ Cardinality(flight') <= Cardinality(flight)
  BY <1>4, FS_Subset, FS_CardinalityType DEF FlightFinite
<1> QED
  BY <1>1, <1>2, <1>3, <1>4

\* Each step of a thread for an order or a report, and each other step.
LEMMA WorkStep ==
  ASSUME IInv, FlightFinite, [Next]_vars
  PROVE  /\ FlightFinite'
         /\ WorkLeft' <= WorkLeft
         /\ Working => WorkLeft' < WorkLeft
<1> DEFINE Less == WorkLeft' < WorkLeft /\ WorkLeft' <= WorkLeft
<1>0. /\ NumOrders \in Nat /\ sent \in 0..NumOrders /\ got \in 0..sent
      /\ Len(list) \in Nat /\ list \in Seq(Orders)
      /\ Cardinality(flight) \in Nat
      /\ LeftAtReceiver \in 0..11 /\ LeftAtWorker \in -1..7
      /\ LeftAtWorker = -1 => Len(list) > 0
      /\ WorkLeft \in Int
  <2>1. wpc = "copied" => Len(list) > 0
    BY FrontAndRest DEF IInv, TypeOK, ControlInv
  <2>2. /\ NumOrders \in Nat /\ sent \in 0..NumOrders /\ got \in 0..sent
        /\ Len(list) \in Nat /\ list \in Seq(Orders) /\ Cardinality(flight) \in Nat
    BY ServiceAssumption, FlightStep, LenProperties DEF IInv, TypeOK
  <2>3. LeftAtReceiver \in 0..11 /\ LeftAtWorker \in -1..7
        /\ (LeftAtWorker = -1 => wpc = "copied")
    BY DEF LeftAtReceiver, LeftAtWorker
  <2> QED
    BY <2>1, <2>2, <2>3 DEF WorkLeft
<1>1. ASSUME Receive PROVE FlightFinite' /\ Less
  <2>1. /\ got' = got + 1 /\ got < sent /\ LeftAtReceiver = 0 /\ LeftAtReceiver' = 11
        /\ UNCHANGED <<list, LeftAtWorker, flight>>
    BY <1>1 DEF Receive, workerVars, reportVars, LeftAtReceiver, LeftAtWorker
  <2>2. WorkLeft' < WorkLeft /\ WorkLeft' <= WorkLeft
    BY <1>0, <2>1 DEF WorkLeft
  <2> QED
    BY <1>0, <2>1, <2>2 DEF FlightFinite
<1>2. ASSUME ReceiverLock PROVE FlightFinite' /\ Less
  <2>1. /\ LeftAtReceiver = 11 /\ LeftAtReceiver' = 10
        /\ UNCHANGED <<got, list, LeftAtWorker, flight>>
    BY <1>2 DEF ReceiverLock, workerVars, reportVars, LeftAtReceiver, LeftAtWorker
  <2>2. WorkLeft' < WorkLeft /\ WorkLeft' <= WorkLeft
    BY <1>0, <2>1 DEF WorkLeft
  <2> QED
    BY <1>0, <2>1, <2>2 DEF FlightFinite
<1>3. ASSUME PushBack \/ DropOrder PROVE FlightFinite' /\ Less
  <2>1. /\ LeftAtReceiver = 10 /\ LeftAtReceiver' = 0
        /\ UNCHANGED <<got, LeftAtWorker, flight>>
        /\ list' = list \/ list' = Append(list, recvMsg)
    BY <1>3 DEF PushBack, DropOrder, ReceiverUnlock, Enqueued, workerVars, reportVars,
       LeftAtReceiver, LeftAtWorker
  <2>2. Len(list') = Len(list) \/ Len(list') = Len(list) + 1
    BY <1>0, <2>1, LenProperties
  <2>3. WorkLeft' < WorkLeft /\ WorkLeft' <= WorkLeft
    BY <1>0, <2>1, <2>2 DEF WorkLeft
  <2> QED
    BY <1>0, <2>1, <2>3 DEF FlightFinite
<1>4. ASSUME CopyFront PROVE FlightFinite' /\ Less
  <2>1. /\ LeftAtWorker = 0 /\ LeftAtWorker' = -1
        /\ UNCHANGED <<got, list, LeftAtReceiver, flight>>
    BY <1>4 DEF CopyFront, recvVars, reportVars, LeftAtReceiver, LeftAtWorker
  <2>2. WorkLeft' < WorkLeft /\ WorkLeft' <= WorkLeft
    BY <1>0, <2>1 DEF WorkLeft
  <2> QED
    BY <1>0, <2>1, <2>2 DEF FlightFinite
<1>5. ASSUME PopFront PROVE FlightFinite' /\ Less
  <2>1. /\ LeftAtWorker = -1 /\ LeftAtWorker' \in 0..7 /\ list' = Tail(list) /\ list # << >>
        /\ UNCHANGED <<got, LeftAtReceiver, flight>>
    BY <1>5 DEF PopFront, Popped, recvVars, reportVars, LeftAtReceiver, LeftAtWorker, IInv,
       ControlInv
  <2>2. Len(list') = Len(list) - 1
    BY <1>0, <2>1, FrontAndRest
  <2>3. WorkLeft' < WorkLeft /\ WorkLeft' <= WorkLeft
    BY <1>0, <2>1, <2>2 DEF WorkLeft
  <2> QED
    BY <1>0, <2>1, <2>3 DEF FlightFinite
<1>6. ASSUME Sleep
      PROVE  FlightFinite' /\ WorkLeft' <= WorkLeft /\ (msg # NoOrder => Less)
  <2>1. /\ LeftAtWorker = IF msg # NoOrder THEN 7 ELSE 0
        /\ LeftAtWorker' = 0
        /\ UNCHANGED <<got, list, LeftAtReceiver, flight>>
    BY <1>6 DEF Sleep, recvVars, reportVars, LeftAtReceiver, LeftAtWorker
  <2>2. WorkLeft' <= WorkLeft /\ (msg # NoOrder => Less)
    BY <1>0, <2>1 DEF WorkLeft
  <2> QED
    BY <1>0, <2>1, <2>2 DEF FlightFinite
<1>7. ASSUME ReportRunning PROVE FlightFinite' /\ Less
  <2>1. msg # NoOrder
    BY <1>7 DEF ReportRunning, MsgOfid
  <2>2. /\ LeftAtWorker = 7 /\ LeftAtWorker' = 5 /\ UNCHANGED <<got, list, LeftAtReceiver>>
        /\ SendResult(StartReport(msg))
    BY <1>7, <2>1 DEF ReportRunning, recvVars, LeftAtReceiver, LeftAtWorker
  <2>3. /\ FlightFinite' /\ Cardinality(flight)' \in Nat
        /\ Cardinality(flight)' <= Cardinality(flight) + 1
    BY <2>2, FlightStep DEF FlightFinite
  <2>4. WorkLeft' < WorkLeft /\ WorkLeft' <= WorkLeft
    BY <1>0, <2>2, <2>3 DEF WorkLeft
  <2> QED
    BY <1>0, <2>3, <2>4
<1>8. ASSUME RunJob \/ NoCommand \/ JobEnds PROVE FlightFinite' /\ Less
  <2>1. /\ LeftAtWorker' < LeftAtWorker /\ LeftAtWorker' \in 0..7
        /\ UNCHANGED <<got, list, LeftAtReceiver, flight>>
    BY <1>8 DEF RunJob, NoCommand, JobEnds, recvVars, reportVars, LeftAtReceiver, LeftAtWorker
  <2>2. WorkLeft' < WorkLeft /\ WorkLeft' <= WorkLeft
    BY <1>0, <2>1 DEF WorkLeft
  <2> QED
    BY <1>0, <2>1, <2>2 DEF FlightFinite
<1>9. ASSUME ReportOutcome PROVE FlightFinite' /\ Less
  <2>1. /\ LeftAtWorker = 3 /\ LeftAtWorker' = 0 /\ UNCHANGED <<got, list, LeftAtReceiver>>
        /\ SendResult(FinalReport(msg, jobCode))
    BY <1>9 DEF ReportOutcome, recvVars, LeftAtReceiver, LeftAtWorker
  <2>2. /\ FlightFinite' /\ Cardinality(flight)' \in Nat
        /\ Cardinality(flight)' <= Cardinality(flight) + 1
    BY <2>1, FlightStep DEF FlightFinite
  <2>3. WorkLeft' < WorkLeft /\ WorkLeft' <= WorkLeft
    BY <1>0, <2>1, <2>2 DEF WorkLeft
  <2> QED
    BY <1>0, <2>2, <2>3
<1>10. ASSUME Deliver PROVE FlightFinite' /\ Less
  <2>1. UNCHANGED <<got, list, LeftAtReceiver, LeftAtWorker>>
    BY <1>10 DEF Deliver, recvVars, workerVars, LeftAtReceiver, LeftAtWorker
  <2>2. FlightFinite' /\ Cardinality(flight)' = Cardinality(flight) - 1
    BY <1>10, FlightStep DEF FlightFinite
  <2>3. WorkLeft' < WorkLeft /\ WorkLeft' <= WorkLeft
    BY <1>0, <2>1, <2>2 DEF WorkLeft
  <2> QED
    BY <1>0, <2>2, <2>3
<1>11. ASSUME Crash PROVE FlightFinite' /\ WorkLeft' <= WorkLeft
  <2>1. /\ got' \in got..sent /\ LeftAtReceiver' = 0 /\ LeftAtWorker' = 0 /\ list' = << >>
        /\ flight' \in SUBSET flight
    BY <1>11 DEF Crash, LeftAtReceiver, LeftAtWorker
  <2>2. /\ FlightFinite' /\ Cardinality(flight)' \in Nat
        /\ Cardinality(flight)' <= Cardinality(flight)
    BY <2>1, FlightStep DEF FlightFinite
  <2>3. Len(list)' = 0
    BY <2>1
  <2>4. WorkLeft' <= WorkLeft
    BY <1>0, <2>1, <2>2, <2>3 DEF WorkLeft
  <2> QED
    BY <2>2, <2>4
<1>12. ASSUME Submit \/ WorkerLock \/ ListEmpty \/ Restart \/ UNCHANGED vars
       PROVE  FlightFinite' /\ WorkLeft' <= WorkLeft
  <2>1. /\ UNCHANGED <<got, list, LeftAtReceiver, flight>>
        /\ LeftAtWorker' = LeftAtWorker
    BY <1>12 DEF Submit, WorkerLock, ListEmpty, Restart, vars, recvVars, workerVars, reportVars,
       LeftAtReceiver, LeftAtWorker, IInv, ControlInv
  <2>2. WorkLeft' = WorkLeft
    BY <2>1 DEF WorkLeft
  <2> QED
    BY <1>0, <2>1, <2>2 DEF FlightFinite
<1> QED
  <2>1. Working => FlightFinite' /\ Less
    BY <1>1, <1>2, <1>3, <1>4, <1>5, <1>6, <1>7, <1>8, <1>9, <1>10, Zenon
       DEF Receiver, Working
  <2>2. \/ Working
        \/ FlightFinite' /\ WorkLeft' <= WorkLeft
    BY <1>6, <1>11, <1>12, Zenon DEF Next, Receiver, Worker, Working
  <2> QED
    BY <2>1, <2>2

\* With nothing left to do, no report is on its way and no order is open: one that has
\* left the socket would be with a thread or in the list.
LEMMA DoneWhenInv == IInv /\ FlightFinite => DoneIsSettled
<1> SUFFICES ASSUME IInv, FlightFinite PROVE DoneIsSettled
  OBVIOUS
<1>1. /\ NumOrders \in Nat /\ got \in 0..NumOrders /\ Len(list) \in Nat
      /\ Cardinality(flight) \in Nat
      /\ LeftAtReceiver \in 0..11 /\ LeftAtWorker \in -1..7
      /\ LeftAtWorker = -1 => Len(list) > 0
  <2>1. wpc = "copied" => Len(list) > 0
    BY FrontAndRest DEF IInv, TypeOK, ControlInv
  <2>2. /\ NumOrders \in Nat /\ sent \in 0..NumOrders /\ got \in 0..sent
        /\ Len(list) \in Nat /\ Cardinality(flight) \in Nat
    BY ServiceAssumption, FlightStep, LenProperties DEF IInv, TypeOK
  <2>3. LeftAtReceiver \in 0..11 /\ LeftAtWorker \in -1..7
        /\ (LeftAtWorker = -1 => wpc = "copied")
    BY DEF LeftAtReceiver, LeftAtWorker
  <2> QED
    BY <2>1, <2>2, <2>3
<1>2. WorkLeft \in Nat
  BY <1>1 DEF WorkLeft
<1>3. ASSUME WorkLeft = 0
      PROVE  flight = {} /\ \A n \in Orders : fate[n] # "open"
  <2>1. /\ got = NumOrders /\ LeftAtReceiver = 0 /\ LeftAtWorker = 0 /\ Len(list) = 0
        /\ Cardinality(flight) = 0
    BY <1>1, <1>3 DEF WorkLeft
  <2>2. flight = {}
    BY <2>1, FS_EmptySet DEF FlightFinite
  <2>3. recvMsg = NoOrder /\ Queued = {}
    BY <2>1 DEF LeftAtReceiver, IInv, TypeOK, ControlInv, Queued
  <2>4. InHand = {}
    BY <2>1 DEF LeftAtWorker, IInv, TypeOK, ControlInv, InHand
  <2>5. ASSUME NEW n \in Orders, fate[n] = "open" PROVE FALSE
    <3>1. n <= got /\ n \in Nat \ {0}
      BY <2>1, ServiceAssumption DEF Orders
    <3>2. n \in {recvMsg} \cup Queued \cup InHand
      BY <2>5, <3>1 DEF IInv, PlaceInv, NoneMissing
    <3> QED
      BY <2>3, <2>4, <3>1, <3>2 DEF NoOrder
  <2> QED
    BY <2>2, <2>5
<1> QED
  BY <1>2, <1>3 DEF DoneIsSettled

\* What is in flight is finite along with the invariant, so the work can be counted.
LEMMA WorkInvariant == Spec => [](IInv /\ FlightFinite)
<1>1. Init => IInv /\ FlightFinite
  BY InitIInv, FS_EmptySet DEF Init, FlightFinite
<1>2. IInv /\ FlightFinite /\ [Next]_vars => FlightFinite'
  BY WorkStep
<1> QED
  BY <1>1, <1>2, ServiceInvariant, PTL DEF Spec

\* An order costs the service twelve steps at most: each step for an order or a report
\* leaves less to do, none leaves more, whatever the interleaving, also over the death of
\* the process.
THEOREM WorkGetsLess == Spec => WorkShrinks
<1>1. IInv /\ FlightFinite /\ [Next]_vars =>
        [WorkLeft' <= WorkLeft /\ (Working => WorkLeft' < WorkLeft)]_vars
  BY WorkStep
<1> QED
  BY <1>1, WorkInvariant, PTL DEF Spec, WorkShrinks

\* When there is nothing left to do every order has met its fate, and every report that
\* was handed over has arrived or died with the process.
THEOREM WorkDoneIsSettled == Spec => []DoneIsSettled
BY DoneWhenInv, WorkInvariant, PTL
=============================================================================
