---------------------------- MODULE OrderLedger ----------------------------
(***************************************************************************)
(* What the offline-task service promises about orders, without threads,   *)
(* lists, locks or sockets: each order goes through its stages once, the   *)
(* orders are taken strictly in turn, and at most one is being worked on.  *)
(* OfftaskService implements this specification.                           *)
(***************************************************************************)
EXTENDS Integers

CONSTANTS
  NumOrders,  \* orders are 1..NumOrders, in the order they are pushed
  Void,       \* orders without an id: they are taken and forgotten
  NoJob       \* orders of a mode no command exists for

VARIABLE stage

Orders == 1..NumOrders
Stages == {"unsent", "waiting", "running", "dropped", "ignored", "unhandled",
           "finished", "lost"}

Init == stage = [n \in Orders |-> "unsent"]

Move(n, from, to) ==
  /\ stage[n] = from
  /\ stage' = [stage EXCEPT ![n] = to]

\* It is the turn of n: nothing pushed before it waits or is being worked on.
Turn(n) == \A k \in 1..(n - 1) : stage[k] \notin {"unsent", "waiting", "running"}

Submit(n)  == (\A k \in 1..(n - 1) : stage[k] # "unsent") /\ Move(n, "unsent", "waiting")
Refuse(n)  == Move(n, "waiting", "dropped")
Ignore(n)  == n \in Void /\ Turn(n) /\ Move(n, "waiting", "ignored")
Start(n)   == n \notin Void /\ Turn(n) /\ Move(n, "waiting", "running")
GiveUp(n)  == n \in NoJob /\ Move(n, "running", "unhandled")
Finish(n)  == n \notin NoJob /\ Move(n, "running", "finished")

\* The process dies: what it worked on is lost, with the orders it had received.
Die(g) ==
  stage' = [n \in Orders |->
              IF stage[n] = "running" \/ (n <= g /\ stage[n] = "waiting")
              THEN "lost" ELSE stage[n]]

Next ==
  \/ \E n \in Orders : \/ Submit(n) \/ Refuse(n) \/ Ignore(n)
                       \/ Start(n) \/ GiveUp(n) \/ Finish(n)
  \/ \E g \in 0..NumOrders : Die(g)

Spec == Init /\ [][Next]_stage
=============================================================================
