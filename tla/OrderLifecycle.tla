--------------------------- MODULE OrderLifecycle ---------------------------
(***************************************************************************)
(* What a container order promises to whoever reads its document, in       *)
(* either order-lifecycle mode: the state only moves forward along the     *)
(* haul, completed is final, and so is a cancel, with one exception.  A    *)
(* cancel by the overdue sweep is advisory (the order is "shed"), and a    *)
(* haul that really happened brings the order back.                        *)
(***************************************************************************)
EXTENDS Integers

CONSTANT Orders

VARIABLES book,   \* book[o]: the state of order o's document
          shed    \* the orders whose cancel is advisory

vars == <<book, shed>>

(* The states of OrderStateMachine in the order a haul visits them.        *)
Path == <<"created", "unassigned", "assigned", "pickup_in_progress",
          "in_transit", "dropoff_in_progress", "completed">>
Rank(s) == CHOOSE i \in 1..7 : Path[i] = s
Open == {Path[i] : i \in 1..6}
States == Open \cup {"completed", "cancelled"}

(* The moves of one order's document.                                      *)
Forward(o) == /\ book[o] \in Open
              /\ book'[o] \in Open \cup {"completed"}
              /\ Rank(book[o]) <= Rank(book'[o])
Cancel(o) == book[o] \in Open /\ book'[o] = "cancelled"
Revive(o) == o \in shed /\ book'[o] \in {Path[i] : i \in 3..7}

(* One bulk write may move several orders.  Only an order that was open    *)
(* can become shed, and a shed order is a cancelled one.                   *)
Write == /\ book' \in [Orders -> States]
         /\ \A o \in Orders : book'[o] = book[o] \/ Forward(o) \/ Cancel(o) \/ Revive(o)
         /\ shed' \subseteq {o \in Orders : book'[o] = "cancelled"}
         /\ \A o \in shed' \ shed : book[o] # "cancelled"

Init == book = [o \in Orders |-> "created"] /\ shed = {}
Next == Write
Spec == Init /\ [][Next]_vars
=============================================================================
