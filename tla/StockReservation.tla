-------------------------- MODULE StockReservation --------------------------
(***************************************************************************)
(* What ordering promises of the stock, one atomic step per promise: an    *)
(* order reserves everything it asks for in one warehouse or nothing, out  *)
(* of what is on hand and not reserved by others; a reservation ends by    *)
(* being given up or by being shipped; no order is served twice.           *)
(***************************************************************************)
EXTENDS Integers, FiniteSets

CONSTANTS Orders, Warehouses, Goods, Demand, Opening, NoWarehouse

VARIABLES
  onHand,    \* quantity of each goods in each warehouse
  state,     \* "new", "held", "shipped" or "closed"
  heldIn     \* the warehouse that holds the order's goods

vars == <<onHand, state, heldIn>>

Rows == Warehouses \X Goods

Units(o, g) == {o} \X (1 .. Demand[o][g])

Reserved(h, g) ==
  Cardinality(UNION {Units(o, g) : o \in {p \in Orders : state[p] = "held" /\ heldIn[p] = h}})

Init ==
  /\ onHand = Opening
  /\ state = [o \in Orders |-> "new"]
  /\ heldIn = [o \in Orders |-> NoWarehouse]

Reserve(o, h) ==
  /\ state[o] = "new"
  /\ \A g \in Goods : Reserved(h, g) + Demand[o][g] <= onHand[h, g]
  /\ state' = [state EXCEPT ![o] = "held"]
  /\ heldIn' = [heldIn EXCEPT ![o] = h]
  /\ UNCHANGED onHand

GiveUp(o) ==
  /\ state[o] \in {"new", "held"}
  /\ state' = [state EXCEPT ![o] = "closed"]
  /\ heldIn' = [heldIn EXCEPT ![o] = NoWarehouse]
  /\ UNCHANGED onHand

Ship(o) ==
  /\ state[o] = "held"
  /\ onHand' = [r \in Rows |->
                  IF r[1] = heldIn[o] THEN onHand[r] - Demand[o][r[2]] ELSE onHand[r]]
  /\ state' = [state EXCEPT ![o] = "shipped"]
  /\ heldIn' = [heldIn EXCEPT ![o] = NoWarehouse]

Next ==
  \E o \in Orders : (\E h \in Warehouses : Reserve(o, h)) \/ GiveUp(o) \/ Ship(o)

Spec == Init /\ [][Next]_vars

=============================================================================
