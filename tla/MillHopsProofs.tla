--------------------------- MODULE MillHopsProofs ----------------------------
(***************************************************************************)
(* Theorems about MillHops for any number of mills and lines, every owner  *)
(* of a line, every quantity and every bound.                              *)
(*                                                                         *)
(* The proof has three layers: what a handler makes of a hop (Mill), what  *)
(* a pass, a settlement and a heal make of the buyer's order (Passed,      *)
(* Synced), and from these what a step of the system does (Moves).         *)
(***************************************************************************)
EXTENDS MillHops, TLAPS

-----------------------------------------------------------------------------
(* What ending a ticket, sending goods and settling leave is a ticket.      *)

LEMMA EndType ==
    ASSUME NEW o \in Ticket
    PROVE  /\ DeclineStatus(o) \in Ticket
           /\ DeclineOpenLines(o) \in Ticket
           /\ CancelWrite(o) \in Ticket
           /\ DeliverLines(o) \in Ticket
           /\ DeliverStatus(o) \in Ticket
  BY DEF DeclineStatus, DeclineOpenLines, CancelWrite, DeliverLines, DeliverStatus,
         SetLines, OpenWindow, Ticket, OrderStatus, LineStatus

LEMMA DispatchWritesType ==
    ASSUME NEW o \in Ticket, NEW s \in Ticket, NEW parcel \in [Lines -> Nat]
    PROVE  /\ DispatchShipment(o, parcel) \in Ticket
           /\ DispatchLines(o, s, parcel) \in Ticket
           /\ DispatchStatus(o, s, parcel) \in Ticket
<1>1. DispatchShipment(o, parcel) \in Ticket
  <2>1. ASSUME NEW l \in Lines PROVE o.shipped[l] + parcel[l] \in Nat
    <3>1. o.shipped[l] \in Nat
      BY DEF Ticket
    <3> QED BY <3>1
  <2> QED BY <2>1 DEF DispatchShipment, Ticket
<1>2. DispatchLines(o, s, parcel) \in Ticket
  BY DEF DispatchLines, Ticket, LineStatus
<1>3. DispatchStatus(o, s, parcel) \in Ticket
  BY DEF DispatchStatus, OpenWindow, Ticket, OrderStatus
<1> QED BY <1>1, <1>2, <1>3

LEMMA SettleWritesType ==
    ASSUME NEW o \in Ticket, NEW s \in Ticket, NEW final \in [Lines -> Nat]
    PROVE  /\ SettleLines(o, s, final) \in Ticket
           /\ SettleStatus(o) \in Ticket
<1>1. SettleLines(o, s, final) \in Ticket
  BY DEF SettleLines, Ticket, LineStatus
<1>2. SettleStatus(o) \in Ticket
  BY DEF SettleStatus, OpenWindow, Ticket, OrderStatus
<1> QED BY <1>1, <1>2

LEMMA RollUpStatus ==
    ASSUME NEW v
    PROVE  /\ RollUp(v) \in Fulfilling
           /\ SupplyRollUp(v) \in Fulfilling \cup {"declined"}
  BY DEF RollUp, SupplyRollUp, Fulfilling

LEMMA StatusType ==
    ASSUME NEW o \in Ticket, NEW v
    PROVE  /\ SetSupplyStatus(o, v) \in Ticket
           /\ SetQuantityStatus(o, v) \in Ticket
           /\ EditShipmentStatus(o, v) \in Ticket
<1>1. ASSUME NEW st \in OrderStatus PROVE StatusWrite(o, st) \in Ticket
  <2> DEFINE over == st \in {"dispatched", "declined"}
  <2>1. over \in BOOLEAN
    OBVIOUS
  <2>2. StatusWrite(o, st) = [o EXCEPT !.status = st, !.closed = over]
    BY DEF StatusWrite
  <2> HIDE DEF over
  <2> QED BY <2>1, <2>2 DEF Ticket
<1>2. Fulfilling \cup {"declined"} \subseteq OrderStatus
  BY DEF Fulfilling, OrderStatus
<1> QED BY <1>1, <1>2, RollUpStatus
        DEF SetSupplyStatus, SetQuantityStatus, EditShipmentStatus, OrderStatus

-----------------------------------------------------------------------------
(* Hops.                                                                   *)

\* The ticket of a hop: it has rows for its own lines only, and until it is settled each
\* of them asks for something.
Mill(h, m) ==
    /\ m \in Ticket
    /\ \A l \in Lines : Owner[l] # h => m.lineStatus[l] = "none"
    /\ \A l \in Lots(h) : /\ m.requestedQuantity[l] > 0
                          /\ m.status # "settled" => m.quantity[l] > 0

\* n has the rows, the requested quantities and the LRs of m.
SameRows(m, n) == /\ n.requestedQuantity = m.requestedQuantity
                  /\ n.shipped = m.shipped

LEMMA PositiveQuantity ==
    ASSUME NEW S, NEW q \in [S -> Quantities], NEW l \in S
    PROVE  q[l] \in Nat /\ q[l] > 0
<1>1. q[l] \in Nat \ {0}
  BY QuantitiesAssumption
<1> QED BY <1>1

LEMMA LoadTypes ==
    ASSUME NEW h \in Hops, NEW p \in LoadsOf(h, MaxShipped)
    PROVE  /\ p \in [Lines -> Nat]
           /\ \A l \in Lines : Owner[l] # h => p[l] = 0
<1>1. PICK x \in [Lots(h) -> 0..MaxShipped] :
         p = [l \in Lines |-> IF Owner[l] = h THEN x[l] ELSE 0]
  BY DEF LoadsOf
<1>2. ASSUME NEW l \in Lines PROVE p[l] \in Nat
  <2>1. CASE Owner[l] = h
    <3>1. x[l] \in 0..MaxShipped
      BY <2>1 DEF Lots
    <3> QED BY <1>1, <2>1, <3>1, BoundsAssumption
  <2>2. CASE Owner[l] # h
    BY <1>1, <2>2
  <2> QED BY <2>1, <2>2
<1> QED BY <1>1, <1>2

\* Rows of other hops are not touched by what a handler writes on the lines it sees.
LEMMA OwnRows ==
    ASSUME NEW h \in Hops, NEW m, Mill(h, m)
    PROVE  /\ OpenLines(m) \subseteq Lots(h) /\ InPlay(m) \subseteq Lots(h)
           /\ Items(m) \subseteq Lots(h) /\ Shippable(m) \subseteq Lots(h)
           /\ GivenUp(m) \subseteq Lots(h)
  BY DEF Mill, OpenLines, InPlay, Items, Shippable, GivenUp, Lots

LEMMA ConfirmMill ==
    ASSUME NEW h \in Hops, NEW m, Mill(h, m), CanConfirm(m)
    PROVE  Mill(h, ConfirmTx(m, m)) /\ ConfirmTx(m, m).status # "settled"
           /\ SameRows(m, ConfirmTx(m, m))
<1> DEFINE n == ConfirmTx(m, m)
<1>1. m \in Ticket /\ OpenLines(m) \in SUBSET Lines
  BY DEF Mill, OpenLines
<1>2. n \in Ticket
  BY <1>1 DEF ConfirmTx, LockTx, Ticket, SetLines, Stamp, LineStatus, OrderStatus
<1>3. /\ n.status = "confirmed" /\ n.quantity = m.quantity
      /\ n.requestedQuantity = m.requestedQuantity /\ n.shipped = m.shipped
      /\ n.lineStatus = [l \in Lines |-> IF l \in OpenLines(m) THEN "confirmed" ELSE m.lineStatus[l]]
  BY <1>1 DEF ConfirmTx, LockTx, SetLines, Ticket
<1>4. m.status # "settled"
  BY DEF CanConfirm
<1> QED BY <1>2, <1>3, <1>4 DEF Mill, OpenLines, Lots, SameRows

LEMMA DecideMill ==
    ASSUME NEW h \in Hops, NEW m, Mill(h, m), NEW yes \in SUBSET Lots(h),
           NEW no \in SUBSET Lots(h), NEW q \in [yes -> Quantities], CanDecide(m, yes, no)
    PROVE  LET v == DecideLineWrites(m, m, yes, no, q, {})
               n == DecideRollUp(v, m, v, yes)
           IN Mill(h, n) /\ n.status # "settled" /\ SameRows(m, n)
<1> DEFINE v == DecideLineWrites(m, m, yes, no, q, {})
           n == DecideRollUp(v, m, v, yes)
<1>1. m \in Ticket /\ m.status = "requested"
  BY DEF Mill, CanDecide
<1>2. \A l \in yes : q[l] \in Nat /\ q[l] > 0
  BY PositiveQuantity
<1>3. v \in Ticket
  BY <1>1, <1>2 DEF DecideLineWrites, Ticket, LineStatus
<1>4. /\ v.status = m.status /\ v.requestedQuantity = m.requestedQuantity
      /\ v.shipped = m.shipped
      /\ v.quantity = [l \in Lines |-> IF l \in yes THEN q[l] ELSE m.quantity[l]]
      /\ v.lineStatus = [l \in Lines |-> IF l \in yes THEN "confirmed"
                                         ELSE IF l \in no THEN "declined" ELSE m.lineStatus[l]]
  BY <1>1 DEF DecideLineWrites, Ticket
<1> HIDE DEF v
<1>5. n \in Ticket
  BY <1>1, <1>3 DEF DecideRollUp, Ticket, OrderStatus
<1>6. /\ n.status \in {"declined", "confirmed", v.status}
      /\ n.requestedQuantity = v.requestedQuantity /\ n.shipped = v.shipped
      /\ n.quantity = v.quantity /\ n.lineStatus = v.lineStatus
  BY <1>3 DEF DecideRollUp, Ticket
<1> HIDE DEF n
<1>7. n.status # "settled"
  BY <1>1, <1>4, <1>6
<1>8. ASSUME NEW l \in Lines, Owner[l] # h PROVE n.lineStatus[l] = "none"
  BY <1>4, <1>6, <1>8 DEF Mill, Lots
<1>9. ASSUME NEW l \in Lots(h) PROVE n.requestedQuantity[l] > 0 /\ n.quantity[l] > 0
  BY <1>1, <1>2, <1>4, <1>6 DEF Mill, Lots
<1> QED BY <1>4, <1>5, <1>6, <1>7, <1>8, <1>9 DEF Mill, SameRows, n, v

\* The status that a line handler leaves on its order.
LEMMA StatusMill ==
    ASSUME NEW h \in Hops, NEW m, Mill(h, m), m.status # "settled", NEW n,
           n \in {SetSupplyStatus(m, m), SetQuantityStatus(m, m), EditShipmentStatus(m, m)}
    PROVE  /\ Mill(h, n) /\ n.status # "settled" /\ SameRows(m, n)
           /\ n.lineStatus = m.lineStatus /\ n.quantity = m.quantity
<1>1. m \in Ticket /\ n \in Ticket
  BY StatusType DEF Mill
<1>2. PICK st : n = StatusWrite(m, st) /\ st \in Fulfilling \cup {"declined"}
  BY RollUpStatus DEF SetSupplyStatus, SetQuantityStatus, EditShipmentStatus, Fulfilling
<1>3. /\ n.status = st /\ n.lineStatus = m.lineStatus /\ n.quantity = m.quantity
      /\ n.requestedQuantity = m.requestedQuantity /\ n.shipped = m.shipped
  BY <1>1, <1>2 DEF StatusWrite, Ticket
<1> QED BY <1>1, <1>2, <1>3 DEF Mill, SameRows, Fulfilling

LEMMA SupplyMill ==
    ASSUME NEW h \in Hops, NEW m, Mill(h, m), NEW cant \in SUBSET Lots(h),
           NEW back \in SUBSET Lots(h), CanSetSupply(m, cant, back)
    PROVE  LET v == SetSupplyLines(m, m, cant, back)
               n == SetSupplyStatus(v, v)
           IN Mill(h, n) /\ n.status # "settled" /\ SameRows(m, n)
<1> DEFINE v == SetSupplyLines(m, m, cant, back)
<1>1. m \in Ticket /\ m.status # "settled"
  BY DEF Mill, CanSetSupply, Fulfilling
<1>2. cant \in SUBSET Lines /\ back \in SUBSET Lines
  BY DEF Lots
<1>3. v \in Ticket
  BY <1>1, <1>2 DEF SetSupplyLines, RestoredQuantity, Ticket, LineStatus
<1>4. /\ v.status = m.status /\ v.requestedQuantity = m.requestedQuantity /\ v.shipped = m.shipped
      /\ v.lineStatus = [l \in Lines |-> IF l \in CantChange(m, cant) THEN "declined"
                                         ELSE IF l \in BackChange(m, back) THEN "confirmed"
                                         ELSE m.lineStatus[l]]
      /\ v.quantity = [l \in Lines |->
             IF l \in CantChange(m, cant) /\ m.shipped[l] > 0 THEN m.shipped[l]
             ELSE IF l \in BackChange(m, back) THEN RestoredQuantity(m, l)
             ELSE m.quantity[l]]
  BY <1>1 DEF SetSupplyLines, Ticket
<1>5. ASSUME NEW l \in Lots(h)
      PROVE  m.quantity[l] > 0 /\ m.requestedQuantity[l] > 0 /\ RestoredQuantity(m, l) > 0
  <2>1. m.quantity[l] > 0 /\ m.requestedQuantity[l] > 0
    BY <1>1 DEF Mill
  <2>2. m.confirmedQuantity[l] \in Nat
    BY <1>1 DEF Ticket, Lots
  <2> QED BY <2>1, <2>2 DEF RestoredQuantity
<1>6. CantChange(m, cant) \subseteq Lots(h) /\ BackChange(m, back) \subseteq Lots(h)
  BY DEF CantChange, BackChange
<1> HIDE DEF v
<1>7. ASSUME NEW l \in Lines, Owner[l] # h PROVE v.lineStatus[l] = "none"
  BY <1>4, <1>6, <1>7 DEF Mill, Lots
<1>8. ASSUME NEW l \in Lots(h) PROVE v.requestedQuantity[l] > 0 /\ v.quantity[l] > 0
  BY <1>4, <1>5 DEF Lots
<1>9. Mill(h, v)
  BY <1>3, <1>7, <1>8 DEF Mill
<1>10. v.status # "settled"
  BY <1>1, <1>4
<1> DEFINE n == SetSupplyStatus(v, v)
<1>11. Mill(h, n) /\ n.status # "settled" /\ SameRows(v, n)
  BY <1>9, <1>10, StatusMill
<1> HIDE DEF n
<1>12. SameRows(m, n)
  BY <1>4, <1>11 DEF SameRows
<1> QED BY <1>11, <1>12 DEF v, n

LEMMA QuantityMill ==
    ASSUME NEW h \in Hops, NEW m, Mill(h, m), NEW lines \in SUBSET Lots(h),
           NEW q \in [lines -> Quantities], CanSetQuantity(m, lines, q)
    PROVE  LET v == SetQuantityLines(m, m, lines, q)
               n == SetQuantityStatus(v, v)
           IN Mill(h, n) /\ n.status # "settled" /\ SameRows(m, n)
<1> DEFINE v == SetQuantityLines(m, m, lines, q)
           changed == {l \in lines : q[l] # m.quantity[l]}
<1>1. m \in Ticket /\ m.status # "settled"
  BY DEF Mill, CanSetQuantity, Fulfilling
<1>2. \A l \in lines : q[l] \in Nat /\ q[l] > 0
  BY PositiveQuantity
<1>3. v \in Ticket
  BY <1>1, <1>2 DEF SetQuantityLines, Ticket, LineStatus
<1>4. /\ v.status = m.status /\ v.requestedQuantity = m.requestedQuantity /\ v.shipped = m.shipped
      /\ v.quantity = [l \in Lines |-> IF l \in changed THEN q[l] ELSE m.quantity[l]]
      /\ v.lineStatus = [l \in Lines |-> IF l \notin changed THEN m.lineStatus[l]
                                         ELSE IF m.shipped[l] >= q[l] THEN "dispatched"
                                         ELSE "confirmed"]
  BY <1>1 DEF SetQuantityLines, Ticket
<1> HIDE DEF v
<1>5. changed \subseteq Lots(h) /\ changed \subseteq lines
  OBVIOUS
<1> HIDE DEF changed
<1>6. ASSUME NEW l \in Lines, Owner[l] # h PROVE v.lineStatus[l] = "none"
  BY <1>4, <1>5, <1>6 DEF Mill, Lots
<1>7. ASSUME NEW l \in Lots(h) PROVE v.requestedQuantity[l] > 0 /\ v.quantity[l] > 0
  <2>1. l \in Lines /\ m.requestedQuantity[l] > 0 /\ m.quantity[l] > 0
    BY <1>1 DEF Mill, Lots
  <2> QED BY <1>2, <1>4, <1>5, <2>1
<1>8. Mill(h, v)
  BY <1>3, <1>6, <1>7 DEF Mill
<1>9. v.status # "settled"
  BY <1>1, <1>4
<1> DEFINE n == SetQuantityStatus(v, v)
<1>10. Mill(h, n) /\ n.status # "settled" /\ SameRows(v, n)
  BY <1>8, <1>9, StatusMill
<1> HIDE DEF n
<1>11. SameRows(m, n)
  BY <1>4, <1>10 DEF SameRows
<1> QED BY <1>10, <1>11 DEF v, n

LEMMA DispatchMill ==
    ASSUME NEW h \in Hops, NEW m, Mill(h, m), NEW parcel \in LoadsOf(h, MaxShipped),
           CanDispatch(m, parcel)
    PROVE  LET n == DispatchStatus(DispatchLines(DispatchShipment(m, parcel), m, parcel), m, parcel)
           IN /\ Mill(h, n) /\ n.status # "settled"
              /\ n.shipped = [l \in Lines |-> m.shipped[l] + parcel[l]]
<1> DEFINE u == DispatchShipment(m, parcel)
           v == DispatchLines(u, m, parcel)
           n == DispatchStatus(v, m, parcel)
<1>1. m \in Ticket /\ m.status # "settled" /\ parcel \in [Lines -> Nat]
  BY LoadTypes DEF Mill, CanDispatch
<1>2. u \in Ticket
  BY <1>1, DispatchWritesType
<1>3. /\ u.status = m.status /\ u.requestedQuantity = m.requestedQuantity
      /\ u.quantity = m.quantity /\ u.lineStatus = m.lineStatus
      /\ u.shipped = [l \in Lines |-> m.shipped[l] + parcel[l]]
  BY <1>1 DEF DispatchShipment, Ticket
<1> HIDE DEF u
<1>4. v \in Ticket
  BY <1>1, <1>2, DispatchWritesType
<1>5. /\ v.status = u.status /\ v.requestedQuantity = u.requestedQuantity
      /\ v.quantity = u.quantity /\ v.shipped = u.shipped
      /\ \A l \in Lines : u.lineStatus[l] = "none" => v.lineStatus[l] = "none"
  BY <1>2 DEF DispatchLines, Ticket
<1> HIDE DEF v
<1>6. n \in Ticket
  BY <1>1, <1>4, DispatchWritesType
<1>7. /\ n.status \in {"dispatched", "part_shipped"} /\ n.requestedQuantity = v.requestedQuantity
      /\ n.quantity = v.quantity /\ n.shipped = v.shipped /\ n.lineStatus = v.lineStatus
  BY <1>4 DEF DispatchStatus, Ticket
<1> HIDE DEF n
<1>8. Mill(h, n)
  BY <1>1, <1>3, <1>5, <1>6, <1>7 DEF Mill
<1> QED BY <1>3, <1>5, <1>7, <1>8 DEF n, v, u

LEMMA EditMill ==
    ASSUME NEW h \in Hops, NEW m, Mill(h, m), NEW was \in LoadsOf(h, MaxShipped),
           NEW now \in LoadsOf(h, MaxShipped), CanEditShipment(m, was, now)
    PROVE  LET v == EditShipmentRow(m, was, now)
               w == EditShipmentLines(v, v)
               n == EditShipmentStatus(w, w)
           IN Mill(h, n) /\ n.status # "settled"
<1> DEFINE v == EditShipmentRow(m, was, now)
           w == EditShipmentLines(v, v)
           n == EditShipmentStatus(w, w)
<1>1. /\ m \in Ticket /\ m.status # "settled"
      /\ was \in [Lines -> Nat] /\ now \in [Lines -> Nat]
  BY LoadTypes DEF Mill, CanEditShipment, Fulfilling
<1>2. v \in Ticket
  <2>1. ASSUME NEW l \in Lines PROVE (m.shipped[l] - was[l]) + now[l] \in Nat
    <3>1. m.shipped[l] \in Nat /\ was[l] \in Nat /\ now[l] \in Nat
      BY <1>1 DEF Ticket
    <3>2. was[l] <= m.shipped[l]
      BY DEF CanEditShipment
    <3> QED BY <3>1, <3>2
  <2> QED BY <1>1, <2>1 DEF EditShipmentRow, Ticket
<1>3. /\ v.status = m.status /\ v.requestedQuantity = m.requestedQuantity
      /\ v.quantity = m.quantity /\ v.lineStatus = m.lineStatus
  BY <1>1 DEF EditShipmentRow, Ticket
<1> HIDE DEF v
<1>4. w \in Ticket
  BY <1>2 DEF EditShipmentLines, Ticket, LineStatus
<1>5. /\ w.status = v.status /\ w.requestedQuantity = v.requestedQuantity
      /\ w.quantity = v.quantity
      /\ \A l \in Lines : v.lineStatus[l] = "none" => w.lineStatus[l] = "none"
  BY <1>2 DEF EditShipmentLines, InPlay, Ticket
<1> HIDE DEF w
<1>6. Mill(h, w) /\ w.status # "settled"
  BY <1>1, <1>3, <1>4, <1>5 DEF Mill
<1> QED BY <1>6, StatusMill DEF w, v

LEMMA SettleMill ==
    ASSUME NEW h \in Hops, NEW m, Mill(h, m), NEW final \in LoadsOf(h, MaxShipped)
    PROVE  LET n == SettleStatus(SettleLines(m, m, final))
           IN Mill(h, n) /\ n.status = "settled" /\ SameRows(m, n)
<1> DEFINE v == SettleLines(m, m, final)
           n == SettleStatus(v)
<1>1. m \in Ticket /\ final \in [Lines -> Nat]
  BY LoadTypes DEF Mill
<1>2. v \in Ticket
  BY <1>1, SettleWritesType
<1>3. /\ v.requestedQuantity = m.requestedQuantity /\ v.shipped = m.shipped
      /\ \A l \in Lines : m.lineStatus[l] = "none" => v.lineStatus[l] = "none"
  BY <1>1 DEF SettleLines, Shippable, Items, Ticket
<1> HIDE DEF v
<1>4. n \in Ticket
  BY <1>1, <1>2, SettleWritesType
<1>5. /\ n.status = "settled" /\ n.requestedQuantity = v.requestedQuantity
      /\ n.shipped = v.shipped /\ n.lineStatus = v.lineStatus
  BY <1>2 DEF SettleStatus, Ticket
<1> HIDE DEF n
<1>6. Mill(h, n)
  BY <1>3, <1>4, <1>5 DEF Mill
<1> QED BY <1>3, <1>5, <1>6 DEF n, v, SameRows

\* The ends that pass nothing: no line comes into play by them.
LEMMA EndMill ==
    ASSUME NEW h \in Hops, NEW m, Mill(h, m),
           NEW n,
           \/ CanDecline(m) /\ n = DeclineOpenLines(DeclineStatus(m))
           \/ CanCancel(m) /\ n = CancelWrite(m)
           \/ CanDeliver(m) /\ n = DeliverStatus(DeliverLines(m))
    PROVE  /\ Mill(h, n) /\ n.status # "settled" /\ m.status # "settled" /\ SameRows(m, n)
           /\ n.status \in {"declined", "cancelled"} \/ CanDeliver(m)
           /\ n.quantity = m.quantity
           /\ \A l \in InPlay(n) : n.lineStatus[l] = m.lineStatus[l] /\ l \in InPlay(m)
           /\ \A l \in Lines : n.lineStatus[l] \in {m.lineStatus[l], "declined"} \/ CanDeliver(m)
<1>0. m \in Ticket /\ m.status # "settled"
  BY DEF Mill, CanDecline, CanCancel, CanDeliver
<1>1. CASE CanDecline(m) /\ n = DeclineOpenLines(DeclineStatus(m))
  <2> DEFINE v == DeclineStatus(m)
  <2>1. v \in Ticket
    BY <1>0, EndType
  <2>2. /\ v.status = "declined" /\ v.requestedQuantity = m.requestedQuantity
        /\ v.shipped = m.shipped /\ v.quantity = m.quantity /\ v.lineStatus = m.lineStatus
    BY <1>0 DEF DeclineStatus, Ticket
  <2> HIDE DEF v
  <2>3. n \in Ticket
    BY <1>1, <2>1, EndType DEF v
  <2>4. n = DeclineOpenLines(v)
    BY <1>1 DEF v
  <2>5. /\ n.status = "declined" /\ n.requestedQuantity = v.requestedQuantity
        /\ n.shipped = v.shipped /\ n.quantity = v.quantity
        /\ n.lineStatus = SetLines(v, OpenLines(v), "declined")
    BY <2>1, <2>2, <2>4 DEF DeclineOpenLines, Ticket
  <2>6. \A l \in Lines : \/ n.lineStatus[l] = m.lineStatus[l]
                         \/ n.lineStatus[l] = "declined" /\ m.lineStatus[l] = "open"
    BY <2>2, <2>5 DEF SetLines, OpenLines
  <2> QED BY <1>0, <2>2, <2>3, <2>5, <2>6 DEF Mill, InPlay, SameRows, Lots
<1>2. CASE CanCancel(m) /\ n = CancelWrite(m)
  <2>1. n \in Ticket
    BY <1>0, <1>2, EndType
  <2>2. /\ n.status = "cancelled" /\ n.requestedQuantity = m.requestedQuantity
        /\ n.shipped = m.shipped /\ n.quantity = m.quantity /\ n.lineStatus = m.lineStatus
    BY <1>0, <1>2 DEF CancelWrite, Ticket
  <2> QED BY <1>0, <2>1, <2>2 DEF Mill, InPlay, SameRows
<1>3. CASE CanDeliver(m) /\ n = DeliverStatus(DeliverLines(m))
  <2> DEFINE v == DeliverLines(m)
  <2>1. v \in Ticket
    BY <1>0, EndType
  <2>2. /\ v.status = m.status /\ v.requestedQuantity = m.requestedQuantity
        /\ v.shipped = m.shipped /\ v.quantity = m.quantity
        /\ v.lineStatus = SetLines(m, InPlay(m), "delivered")
    BY <1>0 DEF DeliverLines, Ticket
  <2> HIDE DEF v
  <2>3. n \in Ticket
    BY <1>3, <2>1, EndType DEF v
  <2>4. n = DeliverStatus(v)
    BY <1>3 DEF v
  <2>5. /\ n.status = "delivered" /\ n.requestedQuantity = v.requestedQuantity
        /\ n.shipped = v.shipped /\ n.quantity = v.quantity /\ n.lineStatus = v.lineStatus
    BY <2>1, <2>4 DEF DeliverStatus, Ticket
  <2>6. \A l \in Lines : n.lineStatus[l] = IF l \in InPlay(m) THEN "delivered" ELSE m.lineStatus[l]
    BY <2>2, <2>5 DEF SetLines
  <2> QED BY <1>0, <1>3, <2>2, <2>3, <2>5, <2>6 DEF Mill, InPlay, SameRows, Lots
<1> QED BY <1>1, <1>2, <1>3

\* Send: the trader's quantities of a hop's own lines.
LEMMA PatchedMill ==
    ASSUME NEW h \in Hops, NEW m, Mill(h, m), NEW lots \in SUBSET Lines,
           NEW q \in [lots -> Quantities]
    PROVE  LET n == Patched(m, lots \cap Lots(h), q)
           IN /\ Mill(h, n) /\ n.status = m.status /\ n.lineStatus = m.lineStatus
              /\ n.shipped = m.shipped
<1> DEFINE mine == lots \cap Lots(h)
           n == Patched(m, mine, q)
<1>1. m \in Ticket
  BY DEF Mill
<1>2. \A l \in mine : q[l] \in Nat /\ q[l] > 0
  BY PositiveQuantity
<1>3. mine \subseteq Lots(h) /\ mine \subseteq Lines
  OBVIOUS
<1> HIDE DEF mine
<1>4. n \in Ticket
  BY <1>1, <1>2, <1>3 DEF Patched, Ticket
<1>5. /\ n.status = m.status /\ n.lineStatus = m.lineStatus /\ n.shipped = m.shipped
      /\ n.quantity = [l \in Lines |-> IF l \in mine THEN q[l] ELSE m.quantity[l]]
      /\ n.requestedQuantity = [l \in Lines |-> IF l \in mine THEN q[l] ELSE m.requestedQuantity[l]]
  BY <1>1 DEF Patched, Ticket
<1> HIDE DEF n
<1>6. ASSUME NEW l \in Lots(h)
      PROVE  /\ n.requestedQuantity[l] > 0
             /\ n.status # "settled" => n.quantity[l] > 0
  BY <1>2, <1>5 DEF Mill, Lots
<1>7. Mill(h, n)
  BY <1>4, <1>5, <1>6 DEF Mill
<1> QED BY <1>5, <1>7 DEF n, mine

-----------------------------------------------------------------------------
(* What a pass makes of the buyer's order.                                 *)

\* Lines of other owners than S are as they were.
Elsewhere(p, n, S) ==
    \A l \in Lines : Owner[l] \notin S =>
        /\ n.lineStatus[l] = p.lineStatus[l]
        /\ n.shipped[l] = p.shipped[l]
        /\ n.quantity[l] = p.quantity[l]

SnapshotKept(p, n) == \A l \in Lines : p.confirmedQuantity[l] # 0
                                       => n.confirmedQuantity[l] = p.confirmedQuantity[l]

Closes(p) == p.status \in Over \cup {"dispatched"} => p.closed

\* n is what a hop h that stands at m has made of p by passing.
Passed(h, p, m, n) ==
    /\ n \in Ticket
    /\ Elsewhere(p, n, {h})
    /\ SnapshotKept(p, n)
    /\ \A l \in InPlay(m) : n.quantity[l] = m.quantity[l] /\ n.lineStatus[l] = m.lineStatus[l]
    /\ Closes(p) => Closes(n)
    /\ n.status = "settled" => p.status = "settled"

LEMMA LinesPass ==
    ASSUME NEW h \in Hops, NEW p \in Ticket, NEW m, Mill(h, m)
    PROVE  /\ Passed(h, p, m, PassLines(p, m))
           /\ PassLines(p, m) \in Ticket
           /\ PassLines(p, m).shipped = p.shipped
<1> DEFINE v == LinesPassed(p, m)
           n == PassLines(p, m)
<1>1. m \in Ticket /\ GivenUp(m) \subseteq Lots(h) /\ InPlay(m) \subseteq Lots(h)
  BY OwnRows DEF Mill
<1>2. /\ v.status = p.status /\ v.closed = p.closed /\ v.shipped = p.shipped
      /\ v.lineStatus = [l \in Lines |-> IF l \in GivenUp(m) \cup Firm(m)
                                         THEN m.lineStatus[l] ELSE p.lineStatus[l]]
      /\ v.quantity = [l \in Lines |-> IF l \in Firm(m) THEN m.quantity[l] ELSE p.quantity[l]]
      /\ v.confirmedQuantity = [l \in Lines |-> SnapshotAfter(p, m, l)]
  BY DEF LinesPassed, Ticket
<1>3. ASSUME NEW l \in Lines
      PROVE  /\ SnapshotAfter(p, m, l) \in Nat
             /\ p.confirmedQuantity[l] # 0 => SnapshotAfter(p, m, l) = p.confirmedQuantity[l]
  <2>1. m.confirmedQuantity[l] \in Nat /\ m.quantity[l] \in Nat /\ p.confirmedQuantity[l] \in Nat
    BY <1>1 DEF Ticket
  <2> QED BY <2>1 DEF SnapshotAfter
<1>4. v \in Ticket
  BY <1>1, <1>3 DEF LinesPassed, Ticket
<1> HIDE DEF v
<1>5. n \in {v, [v EXCEPT !.status = "confirmed"]}
      /\ (n # v => v.status = "requested")
  BY DEF PassLines, v
<1> HIDE DEF n
<1>6. /\ n \in Ticket /\ n.closed = v.closed /\ n.shipped = v.shipped
      /\ n.lineStatus = v.lineStatus /\ n.quantity = v.quantity
      /\ n.confirmedQuantity = v.confirmedQuantity
      /\ n.status \in {v.status, "confirmed"}
  BY <1>4, <1>5 DEF Ticket, OrderStatus
<1>7. Elsewhere(p, n, {h})
  BY <1>1, <1>2, <1>6 DEF Elsewhere, Lots, Firm
<1>8. SnapshotKept(p, n)
  BY <1>2, <1>3, <1>6 DEF SnapshotKept
<1>9. \A l \in InPlay(m) : n.quantity[l] = m.quantity[l] /\ n.lineStatus[l] = m.lineStatus[l]
  BY <1>2, <1>6 DEF Firm, InPlay
<1>10. Closes(p) => Closes(n)
  BY <1>2, <1>6 DEF Closes, Over
<1> QED BY <1>2, <1>6, <1>7, <1>8, <1>9, <1>10 DEF Passed, n

\* A later write on the order that leaves the lines alone.
LEMMA PassFurther ==
    ASSUME NEW h \in Hops, NEW p \in Ticket, NEW m, NEW v, Passed(h, p, m, v),
           NEW n \in Ticket, n.lineStatus = v.lineStatus, n.quantity = v.quantity,
           n.confirmedQuantity = v.confirmedQuantity,
           \A l \in Lines : Owner[l] # h => n.shipped[l] = v.shipped[l],
           \/ n.status = v.status /\ n.closed = v.closed
           \/ n.status \in {"confirmed", "part_shipped"}
           \/ n.status = "dispatched" /\ n.closed
    PROVE  Passed(h, p, m, n)
<1>1. Elsewhere(p, n, {h}) /\ SnapshotKept(p, n)
  BY DEF Passed, Elsewhere, SnapshotKept
<1>2. Closes(p) => Closes(n)
  BY DEF Passed, Closes, Over
<1> QED BY <1>1, <1>2 DEF Passed

LEMMA DispatchPass ==
    ASSUME NEW h \in Hops, NEW p \in Ticket, NEW m, Mill(h, m), NEW parcel \in LoadsOf(h, MaxShipped)
    PROVE  /\ Passed(h, p, m, PassDispatch(p, m, parcel))
           /\ \A l \in Lines : PassDispatch(p, m, parcel).shipped[l] = p.shipped[l] + parcel[l]
<1> DEFINE u == PassLines(p, m)
           v == DispatchShipment(u, parcel)
           n == PassDispatch(p, m, parcel)
<1>1. Passed(h, p, m, u) /\ u.shipped = p.shipped /\ u \in Ticket
  BY LinesPass
<1>2. parcel \in [Lines -> Nat] /\ \A l \in Lines : Owner[l] # h => parcel[l] = 0
  BY LoadTypes
<1>3. n = IF ~Short(v) THEN PassedOut(v)
          ELSE IF AnyShipped(v) THEN [v EXCEPT !.status = "part_shipped"] ELSE v
  BY DEF PassDispatch
<1> HIDE DEF u
<1>4. v \in Ticket
  BY <1>1, <1>2, DispatchWritesType
<1>5. /\ v.status = u.status /\ v.closed = u.closed /\ v.lineStatus = u.lineStatus
      /\ v.quantity = u.quantity /\ v.confirmedQuantity = u.confirmedQuantity
      /\ v.shipped = [l \in Lines |-> p.shipped[l] + parcel[l]]
  BY <1>1 DEF DispatchShipment, Ticket
<1>6. \A l \in Lines : Owner[l] # h => v.shipped[l] = u.shipped[l]
  <2> SUFFICES ASSUME NEW l \in Lines, Owner[l] # h PROVE v.shipped[l] = u.shipped[l]
    OBVIOUS
  <2>1. p.shipped[l] \in Nat
    BY DEF Ticket
  <2> QED BY <1>1, <1>2, <1>5, <2>1
<1> HIDE DEF v, n
<1>7. /\ n \in Ticket /\ n.lineStatus = v.lineStatus /\ n.quantity = v.quantity
      /\ n.confirmedQuantity = v.confirmedQuantity /\ n.shipped = v.shipped
      /\ \/ n.status = v.status /\ n.closed = v.closed
         \/ n.status = "part_shipped"
         \/ n.status = "dispatched" /\ n.closed
  <2>1. CASE n = PassedOut(v)
    BY <1>4, <2>1 DEF PassedOut, OpenWindow, Ticket, OrderStatus
  <2>2. CASE n = [v EXCEPT !.status = "part_shipped"]
    BY <1>4, <2>2 DEF Ticket, OrderStatus
  <2> QED BY <1>3, <1>4, <2>1, <2>2
<1>8. Passed(h, p, m, n)
  BY <1>1, <1>5, <1>6, <1>7, PassFurther
<1> QED BY <1>5, <1>7, <1>8 DEF n

LEMMA EditPass ==
    ASSUME NEW h \in Hops, NEW p \in Ticket, NEW m, Mill(h, m)
    PROVE  /\ Passed(h, p, m, PassEdit(p, m, h))
           /\ \A l \in Lots(h) : PassEdit(p, m, h).shipped[l] = m.shipped[l]
<1> DEFINE u == PassLines(p, m)
           v == Rebuild(u, m, h)
           n == PassEdit(p, m, h)
<1>1. Passed(h, p, m, u) /\ u.shipped = p.shipped /\ u \in Ticket
  BY LinesPass
<1>2. n \in {v, PassedOut(v),
             [v EXCEPT !.status = "part_shipped", !.closed = FALSE, !.returnWindow = "none"],
             [v EXCEPT !.status = "confirmed", !.closed = FALSE, !.returnWindow = "none"]}
  BY DEF PassEdit
<1> HIDE DEF u
<1>3. v \in Ticket
  BY <1>1 DEF Rebuild, Mill, Ticket
<1>4. /\ v.status = u.status /\ v.closed = u.closed /\ v.lineStatus = u.lineStatus
      /\ v.quantity = u.quantity /\ v.confirmedQuantity = u.confirmedQuantity
      /\ v.shipped = [l \in Lines |-> IF l \in Lots(h) THEN m.shipped[l] ELSE u.shipped[l]]
  BY <1>1 DEF Rebuild, Ticket
<1> HIDE DEF v, n
<1>5. /\ n \in Ticket /\ n.lineStatus = v.lineStatus /\ n.quantity = v.quantity
      /\ n.confirmedQuantity = v.confirmedQuantity /\ n.shipped = v.shipped
      /\ \/ n.status = v.status /\ n.closed = v.closed
         \/ n.status \in {"confirmed", "part_shipped"}
         \/ n.status = "dispatched" /\ n.closed
  <2>1. CASE n = PassedOut(v)
    BY <1>3, <2>1 DEF PassedOut, OpenWindow, Ticket, OrderStatus
  <2>2. CASE n = [v EXCEPT !.status = "part_shipped", !.closed = FALSE, !.returnWindow = "none"]
    BY <1>3, <2>2 DEF Ticket, OrderStatus
  <2>3. CASE n = [v EXCEPT !.status = "confirmed", !.closed = FALSE, !.returnWindow = "none"]
    BY <1>3, <2>3 DEF Ticket, OrderStatus
  <2> QED BY <1>2, <1>3, <2>1, <2>2, <2>3
<1>6. Passed(h, p, m, n)
  BY <1>1, <1>4, <1>5, PassFurther DEF Lots
<1> QED BY <1>4, <1>5, <1>6 DEF n, Lots

-----------------------------------------------------------------------------
(* What a settlement or a heal makes of the buyer's order.                 *)

\* The line of a finished hop as its owner ended it.
Ended(hs, n, l) == /\ n.quantity[l] = hs[Owner[l]].quantity[l]
                   /\ n.lineStatus[l] = IF n.quantity[l] = 0 THEN "declined" ELSE "dispatched"

\* n is p brought in line with the hops hs, of which sent were asked.
Synced(p, hs, sent, n) ==
    /\ n \in Ticket
    /\ Elsewhere(p, n, sent)
    /\ SnapshotKept(p, n)
    /\ \A l \in Lines : n.shipped[l] <= p.shipped[l]
    /\ \A l \in Lines : \/ n.lineStatus[l] = p.lineStatus[l] /\ n.quantity[l] = p.quantity[l]
                        \/ hs[Owner[l]].status \in Finished /\ Ended(hs, n, l)
    /\ Closes(p) => Closes(n)
    /\ p.status \in Over => n = p
    /\ n.status = "settled" /\ p.status # "settled" =>
          NothingPending(n) /\ \A h \in sent : hs[h].status \in SubsetComplete

LEMMA NothingToSync ==
    ASSUME NEW p \in Ticket, NEW hs, NEW sent
    PROVE  Synced(p, hs, sent, p)
<1>1. \A l \in Lines : p.shipped[l] <= p.shipped[l]
  <2> TAKE l \in Lines
  <2>1. p.shipped[l] \in Nat
    BY DEF Ticket
  <2> QED BY <2>1
<1> QED BY <1>1 DEF Synced, Elsewhere, SnapshotKept

LEMMA Syncing ==
    ASSUME NEW p \in Ticket, NEW hs \in [Hops -> Ticket], NEW sent \in SUBSET Hops
    PROVE  LET n == SyncFromHops(p, hs, sent)
           IN /\ Synced(p, hs, sent, n)
              /\ p.status \notin Over \cup {"dispatched"} =>
                    \A l \in Lines : Owner[l] \in sent /\ hs[Owner[l]].status \in Finished =>
                       /\ n.quantity[l] = hs[Owner[l]].quantity[l]
                       /\ n.shipped[l] <= n.quantity[l]
<1> DEFINE done == {h \in sent : hs[h].status \in Finished}
           lots == {l \in Lines : Owner[l] \in done}
           final == [l \in Lines |-> hs[Owner[l]].quantity[l]]
           v == TakeFinal(p, hs, done)
           n == SyncFromHops(p, hs, sent)
<1>1. CASE p.status \in Over \cup {"dispatched"}
  <2>1. n = p
    BY <1>1 DEF SyncFromHops
  <2> QED BY <1>1, <2>1, NothingToSync
<1>2. CASE p.status \notin Over \cup {"dispatched"}
  <2>1. \A l \in Lines : p.shipped[l] \in Nat /\ final[l] \in Nat
    <3> TAKE l \in Lines
    <3>1. hs[Owner[l]] \in Ticket
      BY OwnerAssumption
    <3> QED BY <3>1 DEF Ticket
  <2>2. v = [p EXCEPT !.quantity = [l \in Lines |-> IF l \in lots THEN final[l] ELSE p.quantity[l]],
                      !.lineStatus = [l \in Lines |-> IF l \notin lots THEN p.lineStatus[l]
                                                      ELSE IF final[l] = 0 THEN "declined"
                                                      ELSE "dispatched"],
                      !.shipped = [l \in Lines |-> IF l \in lots /\ final[l] < p.shipped[l]
                                                   THEN final[l] ELSE p.shipped[l]]]
    BY DEF TakeFinal
  <2>3. n = IF SubsetsComplete(hs, sent) /\ NothingPending(v) THEN SettleStatus(v)
            ELSE IF AnyShipped(v) /\ Short(v) /\ v.status \in {"confirmed", "part_shipped"}
            THEN [v EXCEPT !.status = "part_shipped"] ELSE v
    BY <1>2 DEF SyncFromHops
  <2>4. lots \subseteq Lines /\ \A l \in lots : Owner[l] \in sent /\ hs[Owner[l]].status \in Finished
    OBVIOUS
  <2>5. \A l \in Lines : Owner[l] \in sent /\ hs[Owner[l]].status \in Finished => l \in lots
    OBVIOUS
  <2>6. \A l \in Lines : final[l] = hs[Owner[l]].quantity[l]
    OBVIOUS
  <2> HIDE DEF done, lots, final, v, n
  <2>7. v \in Ticket
    BY <2>1, <2>2 DEF Ticket, LineStatus
  <2>8. /\ v.status = p.status /\ v.closed = p.closed /\ v.confirmedQuantity = p.confirmedQuantity
        /\ v.quantity = [l \in Lines |-> IF l \in lots THEN final[l] ELSE p.quantity[l]]
        /\ v.lineStatus = [l \in Lines |-> IF l \notin lots THEN p.lineStatus[l]
                                           ELSE IF final[l] = 0 THEN "declined" ELSE "dispatched"]
        /\ v.shipped = [l \in Lines |-> IF l \in lots /\ final[l] < p.shipped[l]
                                        THEN final[l] ELSE p.shipped[l]]
    BY <2>2 DEF Ticket
  <2>9. /\ n \in Ticket
        /\ n.lineStatus = v.lineStatus /\ n.quantity = v.quantity /\ n.shipped = v.shipped
        /\ n.confirmedQuantity = v.confirmedQuantity
        /\ \/ n.status = v.status /\ n.closed = v.closed
           \/ n.status = "part_shipped"
           \/ n.status = "settled" /\ n.closed /\ SubsetsComplete(hs, sent) /\ NothingPending(v)
    <3>1. CASE n = SettleStatus(v) /\ SubsetsComplete(hs, sent) /\ NothingPending(v)
      BY <2>7, <3>1 DEF SettleStatus, OpenWindow, Ticket, OrderStatus
    <3>2. CASE n = [v EXCEPT !.status = "part_shipped"]
      BY <2>7, <3>2 DEF Ticket, OrderStatus
    <3>3. CASE n = v
      BY <2>7, <3>3
    <3> QED BY <2>3, <3>1, <3>2, <3>3
  <2>10. Elsewhere(p, n, sent)
    BY <2>4, <2>8, <2>9 DEF Elsewhere
  <2>11. SnapshotKept(p, n)
    BY <2>8, <2>9 DEF SnapshotKept
  <2>12. ASSUME NEW l \in Lines
         PROVE  n.shipped[l] <= p.shipped[l] /\ (l \in lots => n.shipped[l] <= n.quantity[l])
    <3>1. p.shipped[l] \in Nat /\ final[l] \in Nat
      BY <2>1
    <3> QED BY <2>8, <2>9, <3>1
  <2>13. ASSUME NEW l \in Lines
         PROVE  \/ n.lineStatus[l] = p.lineStatus[l] /\ n.quantity[l] = p.quantity[l]
                \/ hs[Owner[l]].status \in Finished /\ Ended(hs, n, l)
    BY <2>4, <2>6, <2>8, <2>9 DEF Ended
  <2>14. Closes(p) => Closes(n)
    BY <1>2, <2>8, <2>9 DEF Closes, Over
  <2>15. n.status = "settled" => NothingPending(n) /\ \A h \in sent : hs[h].status \in SubsetComplete
    <3>1. NothingPending(v) => NothingPending(n)
      BY <2>9 DEF NothingPending, Shippable, Items, Covered
    <3>2. v.status # "settled"
      BY <1>2, <2>8 DEF Over
    <3> QED BY <2>9, <3>1, <3>2 DEF SubsetsComplete
  <2>16. Synced(p, hs, sent, n)
    BY <1>2, <2>9, <2>10, <2>11, <2>12, <2>13, <2>14, <2>15 DEF Synced
  <2> QED BY <2>5, <2>6, <2>8, <2>9, <2>12, <2>16 DEF n
<1> QED BY <1>1, <1>2

LEMMA Healing ==
    ASSUME NEW p \in Ticket, NEW hs \in [Hops -> Ticket], NEW sent \in SUBSET Hops
    PROVE  Synced(p, hs, sent, Heal(p, hs, sent))
  BY Syncing, NothingToSync DEF Heal

-----------------------------------------------------------------------------
(* The invariant.                                                          *)

\* Hop h, as it stands at m, was not sent to its mill: neither the hop nor the buyer's
\* order p has anything of it.
Silent(h, p, m) ==
    /\ m.status \in {"requested", "declined", "cancelled"}
    /\ \A l \in Lots(h) : /\ m.lineStatus[l] \in {"open", "declined"}
                          /\ p.lineStatus[l] \in {"open", "declined"}
                          /\ p.shipped[l] = 0

\* Hop h was sent and never held: the buyer's order follows it.
Follows(h, p, m) ==
    /\ \A l \in Lots(h) : p.shipped[l] <= m.shipped[l]
    /\ m.status # "settled" =>
          \A l \in InPlay(m) : /\ p.quantity[l] = m.quantity[l]
                               /\ p.lineStatus[l] \in {m.lineStatus[l], "dispatched", "delivered"}

NobodyLeft(p, sent) ==
    p.status = "settled" => \A h \in Hops \ sent : \A l \in Lots(h) : p.lineStatus[l] = "declined"

Fits(p, hs, sent, ever) ==
    /\ p \in Ticket
    /\ hs \in [Hops -> Ticket]
    /\ \A h \in Hops : Mill(h, hs[h])
    /\ \A h \in Hops \ sent : Silent(h, p, hs[h])
    /\ \A h \in sent \ ever : Follows(h, p, hs[h])
    /\ NobodyLeft(p, sent)
    /\ Closes(p)

IInv == TypeOK /\ Fits(parent, hop, released, everHeld)

LEMMA InvProperties ==
    ASSUME IInv
    PROVE  /\ WaitingMillIsSilent /\ NeverMoreThanLeft /\ AgreedIsPassed
           /\ SettledLeavesNobodyWaiting /\ FinishedIsClosed
  BY DEF IInv, TypeOK, Fits, Silent, Follows, NobodyLeft, Closes, WaitingMillIsSilent,
         NeverMoreThanLeft, AgreedIsPassed, SettledLeavesNobodyWaiting, FinishedIsClosed, Unheld

\* A hop is written and the buyer's order is not.
LEMMA HopFits ==
    ASSUME NEW p, NEW hs, NEW sent \in SUBSET Hops, NEW ever, Fits(p, hs, sent, ever),
           NEW h \in Hops, NEW m, Mill(h, m),
           h \notin sent => Silent(h, p, m),
           h \in sent \ ever => Follows(h, p, m)
    PROVE  Fits(p, [hs EXCEPT ![h] = m], sent, ever)
<1> DEFINE new == [hs EXCEPT ![h] = m]
<1>1. hs \in [Hops -> Ticket] /\ m \in Ticket
  BY DEF Fits, Mill
<1>2. /\ new \in [Hops -> Ticket] /\ new[h] = m
      /\ \A g \in Hops : g # h => new[g] = hs[g]
  BY <1>1
<1> HIDE DEF new
<1>3. \A g \in Hops : Mill(g, new[g])
  BY <1>2 DEF Fits
<1>4. \A g \in Hops \ sent : Silent(g, p, new[g])
  BY <1>2 DEF Fits
<1>5. \A g \in sent \ ever : Follows(g, p, new[g])
  BY <1>2 DEF Fits
<1>6. Fits(p, new, sent, ever)
  BY <1>2, <1>3, <1>4, <1>5 DEF Fits
<1> QED BY <1>6 DEF new

\* A hop is written and passes.
LEMMA PassFits ==
    ASSUME NEW p, NEW hs, NEW sent \in SUBSET Hops, NEW ever, Fits(p, hs, sent, ever),
           NEW h \in sent, NEW m, Mill(h, m), NEW n, Passed(h, p, m, n),
           h \notin ever => \A l \in Lots(h) : n.shipped[l] <= m.shipped[l]
    PROVE  Fits(n, [hs EXCEPT ![h] = m], sent, ever)
<1> DEFINE new == [hs EXCEPT ![h] = m]
<1>1. hs \in [Hops -> Ticket] /\ m \in Ticket
  BY DEF Fits, Mill
<1>2. /\ new \in [Hops -> Ticket] /\ new[h] = m
      /\ \A g \in Hops : g # h => new[g] = hs[g]
  BY <1>1
<1> HIDE DEF new
<1>3. \A g \in Hops : Mill(g, new[g])
  BY <1>2 DEF Fits
<1>4. ASSUME NEW g \in Hops, g # h, NEW l \in Lots(g)
      PROVE  /\ n.lineStatus[l] = p.lineStatus[l] /\ n.shipped[l] = p.shipped[l]
             /\ n.quantity[l] = p.quantity[l]
  BY <1>4 DEF Passed, Elsewhere, Lots
<1>5. \A g \in Hops \ sent : Silent(g, n, new[g])
  BY <1>2, <1>4 DEF Fits, Silent
<1>6. ASSUME NEW g \in sent \ ever PROVE Follows(g, n, new[g])
  <2>1. CASE g = h
    BY <1>2, <1>6, <2>1 DEF Follows, Passed
  <2>2. CASE g # h
    <3>1. Follows(g, p, hs[g]) /\ InPlay(hs[g]) \subseteq Lots(g)
      BY OwnRows DEF Fits
    <3> QED BY <1>2, <1>4, <2>2, <3>1 DEF Follows
  <2> QED BY <2>1, <2>2
<1>7. NobodyLeft(n, sent)
  BY <1>4 DEF Fits, NobodyLeft, Passed
<1>8. n \in Ticket /\ Closes(n)
  BY DEF Fits, Passed
<1>9. Fits(n, new, sent, ever)
  BY <1>2, <1>3, <1>5, <1>6, <1>7, <1>8 DEF Fits
<1> QED BY <1>9 DEF new

\* The buyer's order is brought in line with the hops.
LEMMA SyncFits ==
    ASSUME NEW p, NEW hs, NEW sent \in SUBSET Hops, NEW ever, Fits(p, hs, sent, ever),
           NEW n, Synced(p, hs, sent, n)
    PROVE  Fits(n, hs, sent, ever)
<1>1. \A h \in Hops \ sent : \A l \in Lots(h) :
         n.lineStatus[l] = p.lineStatus[l] /\ n.shipped[l] = p.shipped[l]
  BY DEF Synced, Elsewhere, Lots
<1>2. \A h \in Hops \ sent : Silent(h, n, hs[h])
  BY <1>1 DEF Fits, Silent
<1>3. ASSUME NEW h \in sent \ ever PROVE Follows(h, n, hs[h])
  <2>1. Mill(h, hs[h]) /\ Follows(h, p, hs[h]) /\ InPlay(hs[h]) \subseteq Lots(h)
    BY OwnRows DEF Fits
  <2>2. ASSUME NEW l \in Lots(h) PROVE n.shipped[l] <= hs[h].shipped[l]
    <3>1. n.shipped[l] \in Nat /\ p.shipped[l] \in Nat /\ hs[h].shipped[l] \in Nat
      BY <2>1 DEF Mill, Fits, Synced, Ticket, Lots
    <3>2. n.shipped[l] <= p.shipped[l] /\ p.shipped[l] <= hs[h].shipped[l]
      BY <2>1 DEF Follows, Synced, Lots
    <3> QED BY <3>1, <3>2
  <2>3. ASSUME hs[h].status # "settled", NEW l \in InPlay(hs[h])
        PROVE  /\ n.quantity[l] = hs[h].quantity[l]
               /\ n.lineStatus[l] \in {hs[h].lineStatus[l], "dispatched", "delivered"}
    <3>1. l \in Lines /\ Owner[l] = h
      BY <2>1 DEF Lots
    <3>2. CASE n.lineStatus[l] = p.lineStatus[l] /\ n.quantity[l] = p.quantity[l]
      BY <2>1, <2>3, <3>2 DEF Follows
    <3>3. CASE Ended(hs, n, l)
      <4>1. hs[h].quantity[l] > 0 /\ hs[h].quantity[l] \in Nat
        BY <2>1, <2>3, <3>1 DEF Mill, Lots, Ticket
      <4> QED BY <3>1, <3>3, <4>1 DEF Ended
    <3> QED BY <3>1, <3>2, <3>3 DEF Synced
  <2> QED BY <2>2, <2>3 DEF Follows
<1>4. NobodyLeft(n, sent)
  <2>1. CASE p.status = "settled"
    BY <2>1 DEF Fits, Synced, Over
  <2>2. CASE p.status # "settled" /\ n.status = "settled"
    <3>1. NothingPending(n)
      BY <2>2 DEF Synced
    <3>2. ASSUME NEW h \in Hops \ sent, NEW l \in Lots(h) PROVE n.lineStatus[l] = "declined"
      BY <1>2, <3>1 DEF Silent, NothingPending, Shippable, Items, Lots
    <3> QED BY <3>2 DEF NobodyLeft
  <2> QED BY <2>1, <2>2 DEF NobodyLeft
<1>5. n \in Ticket /\ Closes(n)
  BY DEF Fits, Synced
<1> QED BY <1>2, <1>3, <1>4, <1>5 DEF Fits

LEMMA InitInv == Init => IInv
<1> SUFFICES ASSUME Init PROVE IInv
  OBVIOUS
<1>1. PICK q \in [Lines -> Quantities] :
         /\ parent = NewTicket(Lines, q, {}, FALSE)
         /\ hop = [h \in Hops |-> NewTicket(Lots(h), q, {}, FALSE)]
  BY DEF Init
<1>2. released = OwnHops /\ held = {} /\ everHeld = {}
  BY DEF Init
<1>3. ASSUME NEW S \in SUBSET Lines
      PROVE  LET t == NewTicket(S, q, {}, FALSE)
             IN /\ t \in Ticket /\ t.status = "requested"
                /\ t.lineStatus = [l \in Lines |-> IF l \in S THEN "open" ELSE "none"]
                /\ \A l \in S : t.quantity[l] > 0 /\ t.requestedQuantity[l] > 0
                /\ \A l \in Lines : t.shipped[l] = 0
  <2>1. NewTicket(S, q, {}, FALSE) \in Ticket
    BY QuantitiesAssumption DEF NewTicket, Ticket, OrderStatus, LineStatus
  <2>2. \A l \in Lines : q[l] > 0
    BY PositiveQuantity
  <2> QED BY <2>1, <2>2 DEF NewTicket
<1>4. /\ parent \in Ticket /\ parent.status = "requested"
      /\ parent.lineStatus = [l \in Lines |-> "open"]
      /\ \A l \in Lines : parent.shipped[l] = 0
  BY <1>1, <1>3
<1>5. ASSUME NEW h \in Hops
      PROVE  /\ hop[h] \in Ticket /\ hop[h].status = "requested"
             /\ hop[h].lineStatus = [l \in Lines |-> IF l \in Lots(h) THEN "open" ELSE "none"]
             /\ \A l \in Lots(h) : hop[h].quantity[l] > 0 /\ hop[h].requestedQuantity[l] > 0
             /\ \A l \in Lines : hop[h].shipped[l] = 0
  <2> DEFINE S == Lots(h)
  <2>1. hop[h] = NewTicket(S, q, {}, FALSE)
    BY <1>1
  <2>2. S \in SUBSET Lines
    BY DEF Lots
  <2> HIDE DEF S
  <2>3. LET t == NewTicket(S, q, {}, FALSE)
        IN /\ t \in Ticket /\ t.status = "requested"
           /\ t.lineStatus = [l \in Lines |-> IF l \in S THEN "open" ELSE "none"]
           /\ \A l \in S : t.quantity[l] > 0 /\ t.requestedQuantity[l] > 0
           /\ \A l \in Lines : t.shipped[l] = 0
    BY <1>3, <2>2
  <2> QED BY <2>1, <2>3 DEF S
<1>6. hop \in [Hops -> Ticket]
  BY <1>1, <1>5
<1>7. \A h \in Hops : Mill(h, hop[h])
  BY <1>5 DEF Mill, Lots
<1>8. \A h \in Hops : Silent(h, parent, hop[h])
  BY <1>4, <1>5 DEF Silent, Lots
<1>9. ASSUME NEW h \in Hops PROVE Follows(h, parent, hop[h])
  <2>1. InPlay(hop[h]) = {}
    BY <1>5 DEF InPlay
  <2>2. \A l \in Lots(h) : parent.shipped[l] = 0 /\ hop[h].shipped[l] = 0
    BY <1>4, <1>5 DEF Lots
  <2> QED BY <2>1, <2>2 DEF Follows
<1>10. NobodyLeft(parent, released) /\ Closes(parent)
  BY <1>4 DEF NobodyLeft, Closes, Over
<1>11. Fits(parent, hop, released, everHeld)
  BY <1>2, <1>4, <1>6, <1>7, <1>8, <1>9, <1>10, OwnHopsAssumption DEF Fits
<1>12. TypeOK
  BY <1>2, <1>4, <1>6, OwnHopsAssumption DEF TypeOK
<1> QED BY <1>11, <1>12 DEF IInv

-----------------------------------------------------------------------------
(* What a step does.                                                       *)

\* Hop h is written as m.
Works(h, m) == /\ Mill(h, m)
               /\ hop' = [hop EXCEPT ![h] = m]
               /\ UNCHANGED <<released, held, everHeld>>

\* and passes,
Passing(h, m) ==
    /\ h \in released /\ h \notin held
    /\ m.status # "settled"
    /\ Passed(h, parent, m, parent')
    /\ h \notin everHeld => \A l \in Lots(h) : parent'.shipped[l] <= m.shipped[l]

\* or passes nothing,
Keeping(h, m) ==
    /\ parent' = parent
    /\ m.status # "settled"
    /\ h \notin released => Silent(h, parent, m)
    /\ h \in released \ everHeld => Follows(h, parent, m)

\* or settles.
Settling(h, m) ==
    /\ h \in released
    /\ m.status = "settled"
    /\ m.shipped = hop[h].shipped
    /\ parent' = SyncFromHops(parent, hop', released)

\* The desk, or a read: p is what it writes before the heal.
Deskwork(p) ==
    /\ released' \in SUBSET Hops /\ everHeld' \in SUBSET Hops
    /\ held' \in SUBSET (released' \cap everHeld')
    /\ \A h \in Hops : hop'[h] # hop[h] => h \notin released /\ hop'[h].status # "settled"
    /\ p.status = "settled" => parent.status = "settled"
    /\ SnapshotKept(parent, p)
    /\ Fits(p, hop', released', everHeld')
    /\ parent' = Heal(p, hop', released')

\* The buyer's order is ended.
Ending ==
    /\ UNCHANGED <<hop, released, held, everHeld>>
    /\ parent'.status # "settled"
    /\ SnapshotKept(parent, parent')
    /\ Fits(parent', hop', released', everHeld')

\* A handler that is followed by a pass, if the hop passes.
LEMMA PassOrKeep ==
    ASSUME IInv, NEW h \in released, NEW m, m.status # "settled", NEW p,
           Passed(h, parent, m, p),
           h \notin everHeld => \A l \in Lots(h) : p.shipped[l] <= m.shipped[l],
           parent' = IF Passes(h) THEN p ELSE parent
    PROVE  Passing(h, m) \/ Keeping(h, m)
<1>1. CASE Passes(h)
  BY <1>1 DEF Passes, Passing
<1>2. CASE ~Passes(h)
  <2>1. h \in everHeld
    BY <1>2 DEF Passes, IInv, TypeOK
  <2> QED BY <1>2, <2>1 DEF Keeping
<1> QED BY <1>1, <1>2

\* The same of the handlers that pass the lines and leave the LRs alone.
LEMMA LinesKind ==
    ASSUME IInv, NEW h \in Hops, h \in released, NEW m, Mill(h, m), m.status # "settled",
           m.shipped = hop[h].shipped, LinesStep(h, m)
    PROVE  Works(h, m) /\ (Passing(h, m) \/ Keeping(h, m))
<1>1. parent \in Ticket /\ (h \notin everHeld => Follows(h, parent, hop[h]))
  BY DEF IInv, Fits
<1>2. Passed(h, parent, m, PassLines(parent, m)) /\ PassLines(parent, m).shipped = parent.shipped
  BY <1>1, LinesPass
<1>3. h \notin everHeld => \A l \in Lots(h) : PassLines(parent, m).shipped[l] <= m.shipped[l]
  BY <1>1, <1>2 DEF Follows
<1>4. parent' = IF Passes(h) THEN PassLines(parent, m) ELSE parent
  BY DEF LinesStep, HopStep
<1>5. Passing(h, m) \/ Keeping(h, m)
  BY <1>2, <1>3, <1>4, PassOrKeep
<1> QED BY <1>5 DEF Works, LinesStep, HopStep

LEMMA HopNow ==
    ASSUME IInv, NEW h \in Hops
    PROVE  /\ Mill(h, hop[h]) /\ hop[h] \in Ticket
           /\ parent \in Ticket /\ hop \in [Hops -> Ticket]
           /\ released \in SUBSET Hops /\ everHeld \in SUBSET Hops
           /\ h \notin released => Silent(h, parent, hop[h])
           /\ h \in released \ everHeld => Follows(h, parent, hop[h])
  BY DEF IInv, TypeOK, Fits, Mill

LEMMA LinesWork ==
    ASSUME IInv, NEW h \in Hops,
           Confirm(h) \/ DecideLines(h) \/ SetLineSupply(h) \/ SetLineQuantity(h)
    PROVE  \E m \in Ticket : Works(h, m) /\ (Passing(h, m) \/ Keeping(h, m))
<1>0. Mill(h, hop[h])
  BY HopNow
<1>a. ASSUME NEW m, Mill(h, m), m.status # "settled", SameRows(hop[h], m), LinesStep(h, m),
             h \in released
      PROVE  \E t \in Ticket : Works(h, t) /\ (Passing(h, t) \/ Keeping(h, t))
  <2>1. Works(h, m) /\ (Passing(h, m) \/ Keeping(h, m))
    BY <1>a, LinesKind DEF SameRows
  <2>2. m \in Ticket
    BY <1>a DEF Mill
  <2> QED BY <2>1, <2>2
<1>1. CASE Confirm(h)
  <2>1. /\ h \in released /\ CanConfirm(hop[h])
        /\ LinesStep(h, ConfirmTx(hop[h], hop[h]))
    BY <1>1 DEF Confirm, MillSees
  <2> QED BY <1>0, <1>a, <2>1, ConfirmMill
<1>2. CASE DecideLines(h)
  <2>a. PICK yes, no \in SUBSET Lots(h) : \E q \in [yes -> Quantities] :
           /\ CanDecide(hop[h], yes, no)
           /\ LET v == DecideLineWrites(hop[h], hop[h], yes, no, q, {})
              IN LinesStep(h, DecideRollUp(v, hop[h], v, yes))
    BY <1>2 DEF DecideLines
  <2>1. PICK q \in [yes -> Quantities] :
           /\ CanDecide(hop[h], yes, no)
           /\ LinesStep(h, DecideRollUp(DecideLineWrites(hop[h], hop[h], yes, no, q, {}), hop[h],
                                        DecideLineWrites(hop[h], hop[h], yes, no, q, {}), yes))
    BY <2>a
  <2>2. h \in released
    BY <1>2 DEF DecideLines, MillSees
  <2> QED BY <1>0, <1>a, <2>1, <2>2, DecideMill
<1>3. CASE SetLineSupply(h)
  <2>1. PICK cant, back \in SUBSET Lots(h) :
           /\ CanSetSupply(hop[h], cant, back)
           /\ LinesStep(h, SetSupplyStatus(SetSupplyLines(hop[h], hop[h], cant, back),
                                           SetSupplyLines(hop[h], hop[h], cant, back)))
    BY <1>3 DEF SetLineSupply
  <2>2. h \in released
    BY <1>3 DEF SetLineSupply, MillSees
  <2> QED BY <1>0, <1>a, <2>1, <2>2, SupplyMill
<1>4. CASE SetLineQuantity(h)
  <2>a. PICK lines \in SUBSET Lots(h) : \E q \in [lines -> Quantities] :
           /\ CanSetQuantity(hop[h], lines, q)
           /\ LET v == SetQuantityLines(hop[h], hop[h], lines, q)
              IN LinesStep(h, SetQuantityStatus(v, v))
    BY <1>4 DEF SetLineQuantity
  <2>1. PICK q \in [lines -> Quantities] :
           /\ CanSetQuantity(hop[h], lines, q)
           /\ LinesStep(h, SetQuantityStatus(SetQuantityLines(hop[h], hop[h], lines, q),
                                             SetQuantityLines(hop[h], hop[h], lines, q)))
    BY <2>a
  <2>2. h \in released
    BY <1>4 DEF SetLineQuantity, MillSees
  <2> QED BY <1>0, <1>a, <2>1, <2>2, QuantityMill
<1> QED BY <1>1, <1>2, <1>3, <1>4

LEMMA DispatchWork ==
    ASSUME IInv, NEW h \in Hops, Dispatch(h)
    PROVE  \E m \in Ticket : Works(h, m) /\ (Passing(h, m) \/ Keeping(h, m))
<1>1. PICK parcel \in LoadsOf(h, MaxShipped) :
         /\ CanDispatch(hop[h], parcel)
         /\ LET m == DispatchStatus(DispatchLines(DispatchShipment(hop[h], parcel),
                                                  hop[h], parcel), hop[h], parcel)
            IN HopStep(h, m, IF Passes(h) THEN PassDispatch(parent, m, parcel) ELSE parent)
  BY DEF Dispatch
<1> DEFINE m == DispatchStatus(DispatchLines(DispatchShipment(hop[h], parcel),
                                             hop[h], parcel), hop[h], parcel)
           p == PassDispatch(parent, m, parcel)
<1>2. /\ h \in released /\ Mill(h, hop[h]) /\ hop[h] \in Ticket /\ parent \in Ticket
      /\ h \notin everHeld => Follows(h, parent, hop[h])
  BY HopNow DEF Dispatch, MillSees
<1>3. /\ Mill(h, m) /\ m.status # "settled"
      /\ m.shipped = [l \in Lines |-> hop[h].shipped[l] + parcel[l]]
  BY <1>1, <1>2, DispatchMill
<1> HIDE DEF m
<1>4. /\ Passed(h, parent, m, p)
      /\ \A l \in Lines : p.shipped[l] = parent.shipped[l] + parcel[l]
  <2>1. Mill(h, m) /\ parent \in Ticket
    BY <1>2, <1>3
  <2> QED BY <2>1, DispatchPass
<1>5. HopStep(h, m, IF Passes(h) THEN p ELSE parent)
  BY <1>1 DEF m
<1> HIDE DEF p
<1>6. ASSUME h \notin everHeld, NEW l \in Lots(h) PROVE p.shipped[l] <= m.shipped[l]
  <2>1. l \in Lines /\ parent.shipped[l] <= hop[h].shipped[l]
    BY <1>2, <1>6 DEF Follows, Lots
  <2>2. parent.shipped[l] \in Nat /\ hop[h].shipped[l] \in Nat /\ parcel[l] \in Nat
    BY <1>2, <2>1, LoadTypes DEF Ticket
  <2> QED BY <1>3, <1>4, <2>1, <2>2
<1>7. Passing(h, m) \/ Keeping(h, m)
  BY <1>2, <1>3, <1>4, <1>5, <1>6, PassOrKeep DEF HopStep
<1>8. Works(h, m) /\ m \in Ticket
  BY <1>3, <1>5 DEF Works, HopStep, Mill
<1> QED BY <1>7, <1>8

LEMMA EditWork ==
    ASSUME IInv, NEW h \in Hops, EditShipment(h)
    PROVE  \E m \in Ticket : Works(h, m) /\ (Passing(h, m) \/ Keeping(h, m))
<1>1. PICK was, now \in LoadsOf(h, MaxShipped) :
         /\ CanEditShipment(hop[h], was, now)
         /\ LET v == EditShipmentRow(hop[h], was, now)
                w == EditShipmentLines(v, v)
                m == EditShipmentStatus(w, w)
            IN HopStep(h, m, IF Passes(h) THEN PassEdit(parent, m, h) ELSE parent)
  BY DEF EditShipment
<1> DEFINE v == EditShipmentRow(hop[h], was, now)
           w == EditShipmentLines(v, v)
           m == EditShipmentStatus(w, w)
           p == PassEdit(parent, m, h)
<1>2. /\ h \in released /\ Mill(h, hop[h]) /\ parent \in Ticket
  BY HopNow DEF EditShipment, MillSees
<1>3. Mill(h, m) /\ m.status # "settled"
  BY <1>1, <1>2, EditMill
<1>4. Passed(h, parent, m, p) /\ \A l \in Lots(h) : p.shipped[l] = m.shipped[l]
  BY <1>2, <1>3, EditPass
<1>5. HopStep(h, m, IF Passes(h) THEN p ELSE parent)
  BY <1>1
<1> HIDE DEF m, p
<1>6. ASSUME NEW l \in Lots(h) PROVE p.shipped[l] <= m.shipped[l]
  <2>1. m.shipped[l] \in Nat
    BY <1>3 DEF Mill, Ticket, Lots
  <2> QED BY <1>4, <2>1
<1>7. Passing(h, m) \/ Keeping(h, m)
  BY <1>2, <1>3, <1>4, <1>5, <1>6, PassOrKeep DEF HopStep
<1>8. Works(h, m) /\ m \in Ticket
  BY <1>3, <1>5 DEF Works, HopStep, Mill
<1> QED BY <1>7, <1>8

LEMMA SettleWork ==
    ASSUME IInv, NEW h \in Hops, Settle(h)
    PROVE  \E m \in Ticket : Works(h, m) /\ Settling(h, m)
<1>1. PICK final \in LoadsOf(h, MaxShipped) :
         LET m == SettleStatus(SettleLines(hop[h], hop[h], final))
         IN HopStep(h, m, IF h \in released
                          THEN SyncFromHops(parent, [hop EXCEPT ![h] = m], released)
                          ELSE parent)
  BY DEF Settle
<1> DEFINE m == SettleStatus(SettleLines(hop[h], hop[h], final))
<1>2. h \in released /\ Mill(h, hop[h])
  BY HopNow DEF Settle, MillSees
<1>3. Mill(h, m) /\ m.status = "settled" /\ SameRows(hop[h], m)
  BY <1>2, SettleMill
<1>4. HopStep(h, m, SyncFromHops(parent, [hop EXCEPT ![h] = m], released))
  BY <1>1, <1>2
<1> HIDE DEF m
<1>5. Works(h, m) /\ m \in Ticket
  BY <1>3, <1>4 DEF Works, HopStep, Mill
<1>6. Settling(h, m)
  BY <1>2, <1>3, <1>4 DEF Settling, HopStep, SameRows
<1> QED BY <1>5, <1>6

LEMMA EndWork ==
    ASSUME IInv, NEW h \in Hops, Decline(h) \/ Cancel(h) \/ Deliver(h)
    PROVE  \E m \in Ticket : Works(h, m) /\ Keeping(h, m)
<1>0. /\ Mill(h, hop[h]) /\ hop[h] \in Ticket
      /\ h \notin released => Silent(h, parent, hop[h])
      /\ h \in released \ everHeld => Follows(h, parent, hop[h])
  BY HopNow
<1>1. PICK m : /\ HopStep(h, m, parent)
               /\ \/ CanDecline(hop[h]) /\ m = DeclineOpenLines(DeclineStatus(hop[h]))
                  \/ CanCancel(hop[h]) /\ m = CancelWrite(hop[h])
                  \/ CanDeliver(hop[h]) /\ m = DeliverStatus(DeliverLines(hop[h]))
  BY DEF Decline, Cancel, Deliver
<1>2. /\ Mill(h, m) /\ m.status # "settled" /\ hop[h].status # "settled" /\ SameRows(hop[h], m)
      /\ m.status \in {"declined", "cancelled"} \/ CanDeliver(hop[h])
      /\ m.quantity = hop[h].quantity
      /\ \A l \in InPlay(m) : m.lineStatus[l] = hop[h].lineStatus[l] /\ l \in InPlay(hop[h])
      /\ \A l \in Lines : m.lineStatus[l] \in {hop[h].lineStatus[l], "declined"} \/ CanDeliver(hop[h])
  BY <1>0, <1>1, EndMill
<1>3. ASSUME h \notin released PROVE Silent(h, parent, m)
  <2>1. ~CanDeliver(hop[h])
    BY <1>0, <1>3 DEF CanDeliver, Silent
  <2> QED BY <1>0, <1>2, <1>3, <2>1 DEF Silent, Lots
<1>4. ASSUME h \in released \ everHeld PROVE Follows(h, parent, m)
  <2>1. Follows(h, parent, hop[h])
    BY <1>0, <1>4
  <2> QED BY <1>2, <2>1 DEF Follows, SameRows
<1>5. Works(h, m) /\ m \in Ticket
  BY <1>1, <1>2 DEF Works, HopStep, Mill
<1>6. Keeping(h, m)
  BY <1>1, <1>2, <1>3, <1>4 DEF Keeping, HopStep
<1> QED BY <1>5, <1>6

LEMMA ReadKind == ASSUME IInv, Read PROVE Deskwork(parent)
  BY DEF IInv, TypeOK, Fits, Read, ParentStep, Deskwork, SnapshotKept

LEMMA HoldKind ==
    ASSUME IInv, NEW h \in Hops, Hold(h) \/ Resume(h)
    PROVE  Deskwork(parent)
<1>1. /\ hop' = hop /\ released' = released /\ parent' = Heal(parent, hop', released')
      /\ everHeld' \in SUBSET Hops /\ everHeld \subseteq everHeld'
      /\ held' \in SUBSET (released' \cap everHeld')
  BY DEF IInv, TypeOK, Hold, Resume
<1>2. Fits(parent, hop', released', everHeld')
  BY <1>1 DEF IInv, Fits
<1> QED BY <1>1, <1>2 DEF IInv, TypeOK, Deskwork, SnapshotKept

LEMMA SendKind == ASSUME IInv, Send PROVE Deskwork(parent)
<1>1. PICK S \in SUBSET Hops, lots \in SUBSET Lines :
         /\ Chosen(S)
         /\ \E q \in [lots -> Quantities] :
              hop' = [h \in Hops |-> IF h \in S THEN Patched(hop[h], lots \cap Lots(h), q)
                                                ELSE hop[h]]
         /\ released' = released \cup S
         /\ parent' = Heal(parent, hop', released')
         /\ UNCHANGED <<held, everHeld>>
  BY DEF Send
<1>2. PICK q \in [lots -> Quantities] :
         hop' = [h \in Hops |-> IF h \in S THEN Patched(hop[h], lots \cap Lots(h), q)
                                           ELSE hop[h]]
  BY <1>1
<1>3. ASSUME NEW h \in S
      PROVE  /\ h \notin released /\ hop[h].status = "requested"
             /\ Mill(h, hop[h]) /\ Silent(h, parent, hop[h])
  BY <1>1, HopNow DEF Chosen, Waiting
<1>4. ASSUME NEW h \in S
      PROVE  /\ Mill(h, hop'[h]) /\ hop'[h].status = "requested"
             /\ hop'[h].lineStatus = hop[h].lineStatus /\ hop'[h].shipped = hop[h].shipped
  <2>1. hop'[h] = Patched(hop[h], lots \cap Lots(h), q)
    BY <1>2
  <2>2. h \in Hops /\ Mill(h, hop[h]) /\ hop[h].status = "requested"
    BY <1>3
  <2> QED BY <2>1, <2>2, PatchedMill
<1>5. \A h \in Hops \ S : hop'[h] = hop[h]
  BY <1>2
<1>6. hop' \in [Hops -> Ticket] /\ \A h \in Hops : Mill(h, hop'[h])
  <2>1. \A h \in Hops : Mill(h, hop'[h])
    BY <1>4, <1>5, HopNow
  <2> QED BY <1>2, <2>1 DEF Mill
<1>7. ASSUME NEW h \in released' \ everHeld' PROVE Follows(h, parent, hop'[h])
  <2>1. CASE h \in S
    <3>1. InPlay(hop'[h]) = {}
      <4>1. hop'[h].lineStatus = hop[h].lineStatus /\ Silent(h, parent, hop[h]) /\ Mill(h, hop[h])
        BY <1>3, <1>4, <2>1
      <4> QED BY <4>1 DEF InPlay, Silent, Mill, Lots
    <3>2. \A l \in Lots(h) : parent.shipped[l] <= hop'[h].shipped[l]
      <4> SUFFICES ASSUME NEW l \in Lots(h) PROVE parent.shipped[l] <= hop'[h].shipped[l]
        OBVIOUS
      <4>1. parent.shipped[l] = 0
        BY <1>3, <2>1 DEF Silent
      <4>2. hop'[h].shipped[l] \in Nat
        BY <1>4, <2>1 DEF Mill, Ticket, Lots
      <4> QED BY <4>1, <4>2
    <3> QED BY <3>1, <3>2 DEF Follows
  <2>2. CASE h \notin S
    <3>1. h \in released \ everHeld /\ h \in Hops
      BY <1>1, <2>2 DEF IInv, TypeOK
    <3> QED BY <1>5, <2>2, <3>1, HopNow
  <2> QED BY <2>1, <2>2
<1>8. \A h \in Hops \ released' : Silent(h, parent, hop'[h])
  BY <1>1, <1>5, HopNow
<1>9. NobodyLeft(parent, released') /\ Closes(parent) /\ parent \in Ticket
  BY <1>1 DEF IInv, Fits, NobodyLeft
<1>10. Fits(parent, hop', released', everHeld')
  BY <1>6, <1>7, <1>8, <1>9 DEF Fits
<1>11. \A h \in Hops : hop'[h] # hop[h] => h \notin released /\ hop'[h].status # "settled"
  BY <1>3, <1>4, <1>5
<1>12. /\ released' \in SUBSET Hops /\ everHeld' \in SUBSET Hops
       /\ held' \in SUBSET (released' \cap everHeld')
  BY <1>1 DEF IInv, TypeOK
<1> QED BY <1>1, <1>10, <1>11, <1>12 DEF Deskwork, SnapshotKept

LEMMA MillDeclineKind == ASSUME IInv, MillDecline PROVE \E p \in Ticket : Deskwork(p)
<1>1. PICK S \in SUBSET Hops :
         /\ Chosen(S)
         /\ hop' = [h \in Hops |-> IF h \in S THEN DeclineOpenLines(DeclineStatus(hop[h]))
                                              ELSE hop[h]]
         /\ LET lots == {l \in OpenLines(parent) : Owner[l] \in S}
                v == [parent EXCEPT !.lineStatus = SetLines(parent, lots, "declined")]
            IN parent' = Heal(IF OpenLines(v) = {} THEN DeclineStatus(v) ELSE v, hop', released)
         /\ UNCHANGED <<released, held, everHeld>>
  BY DEF MillDecline
<1> DEFINE lots == {l \in OpenLines(parent) : Owner[l] \in S}
           v == [parent EXCEPT !.lineStatus = SetLines(parent, lots, "declined")]
           p == IF OpenLines(v) = {} THEN DeclineStatus(v) ELSE v
<1>2. parent' = Heal(p, hop', released)
  BY <1>1
<1>3. ASSUME NEW h \in S
      PROVE  /\ h \in Hops /\ h \notin released /\ hop[h].status = "requested"
             /\ Mill(h, hop[h]) /\ Silent(h, parent, hop[h])
  BY <1>1, HopNow DEF Chosen, Waiting
<1>4. ASSUME NEW h \in S
      PROVE  /\ Mill(h, hop'[h]) /\ hop'[h].status \in {"declined", "cancelled"}
             /\ \A l \in Lines : hop'[h].lineStatus[l] \in {hop[h].lineStatus[l], "declined"}
  <2>1. hop'[h] = DeclineOpenLines(DeclineStatus(hop[h]))
    BY <1>1
  <2>2. CanDecline(hop[h]) /\ ~CanDeliver(hop[h])
    BY <1>3 DEF CanDecline, CanDeliver
  <2>3. h \in Hops /\ Mill(h, hop[h])
    BY <1>3
  <2> QED BY <2>1, <2>2, <2>3, EndMill
<1>5. \A h \in Hops \ S : hop'[h] = hop[h]
  BY <1>1
<1>6. /\ parent \in Ticket /\ released \in SUBSET Hops /\ everHeld \in SUBSET Hops
      /\ NobodyLeft(parent, released) /\ Closes(parent)
  BY DEF IInv, TypeOK, Fits
<1>7. lots \subseteq Lines /\ \A l \in lots : Owner[l] \in S /\ parent.lineStatus[l] = "open"
  BY DEF OpenLines
<1> HIDE DEF lots
<1>8. /\ v \in Ticket /\ v.status = parent.status /\ v.closed = parent.closed
      /\ v.quantity = parent.quantity /\ v.shipped = parent.shipped
      /\ v.confirmedQuantity = parent.confirmedQuantity
      /\ v.lineStatus = [l \in Lines |-> IF l \in lots THEN "declined" ELSE parent.lineStatus[l]]
  BY <1>6 DEF SetLines, Ticket, LineStatus
<1> HIDE DEF v
<1>9. /\ p \in Ticket
      /\ \/ p.status = v.status /\ p.closed = v.closed
         \/ p.status = "declined" /\ p.closed
      /\ p.quantity = v.quantity /\ p.shipped = v.shipped /\ p.lineStatus = v.lineStatus
      /\ p.confirmedQuantity = v.confirmedQuantity
  BY <1>8 DEF DeclineStatus, Ticket, OrderStatus
<1> HIDE DEF p
<1>10. ASSUME NEW l \in Lines
       PROVE  /\ p.quantity[l] = parent.quantity[l] /\ p.shipped[l] = parent.shipped[l]
              /\ p.confirmedQuantity[l] = parent.confirmedQuantity[l]
              /\ \/ p.lineStatus[l] = parent.lineStatus[l]
                 \/ p.lineStatus[l] = "declined" /\ Owner[l] \in S
  BY <1>7, <1>8, <1>9
<1>11. hop' \in [Hops -> Ticket] /\ \A h \in Hops : Mill(h, hop'[h])
  <2>1. \A h \in Hops : Mill(h, hop'[h])
    BY <1>4, <1>5, HopNow
  <2> QED BY <1>1, <2>1 DEF Mill
<1>12. ASSUME NEW h \in Hops \ released PROVE Silent(h, p, hop'[h])
  <2>1. Silent(h, parent, hop[h])
    BY HopNow
  <2>2. CASE h \in S
    BY <1>4, <1>10, <2>1, <2>2 DEF Silent, Lots
  <2>3. CASE h \notin S
    BY <1>5, <1>10, <2>1, <2>3 DEF Silent, Lots
  <2> QED BY <2>2, <2>3
<1>13. ASSUME NEW h \in released \ everHeld PROVE Follows(h, p, hop'[h])
  <2>1. Follows(h, parent, hop[h]) /\ h \notin S /\ h \in Hops /\ InPlay(hop[h]) \subseteq Lots(h)
    BY <1>3, <1>6, HopNow, OwnRows
  <2>2. \A l \in Lots(h) : /\ p.quantity[l] = parent.quantity[l] /\ p.shipped[l] = parent.shipped[l]
                           /\ p.lineStatus[l] = parent.lineStatus[l]
    BY <1>10, <2>1 DEF Lots
  <2> QED BY <1>5, <2>1, <2>2 DEF Follows
<1>14. NobodyLeft(p, released)
  <2> SUFFICES ASSUME p.status = "settled", NEW h \in Hops \ released, NEW l \in Lots(h)
               PROVE  p.lineStatus[l] = "declined"
    BY DEF NobodyLeft
  <2>1. parent.status = "settled"
    BY <1>8, <1>9
  <2>2. parent.lineStatus[l] = "declined" /\ l \in Lines
    BY <1>6, <2>1 DEF NobodyLeft, Lots
  <2> QED BY <1>10, <2>2
<1>15. Closes(p)
  BY <1>6, <1>8, <1>9 DEF Closes
<1>16. Fits(p, hop', released', everHeld')
  BY <1>1, <1>9, <1>11, <1>12, <1>13, <1>14, <1>15 DEF Fits
<1>17. \A h \in Hops : hop'[h] # hop[h] => h \notin released /\ hop'[h].status # "settled"
  BY <1>3, <1>4, <1>5
<1>18. /\ released' \in SUBSET Hops /\ everHeld' \in SUBSET Hops
       /\ held' \in SUBSET (released' \cap everHeld')
  BY <1>1 DEF IInv, TypeOK
<1>19. SnapshotKept(parent, p) /\ (p.status = "settled" => parent.status = "settled")
  BY <1>8, <1>9, <1>10 DEF SnapshotKept
<1>20. Deskwork(p)
  BY <1>1, <1>2, <1>16, <1>17, <1>18, <1>19 DEF Deskwork
<1> QED BY <1>9, <1>20

LEMMA EndKind == ASSUME IInv, ParentCancel \/ ParentDecline \/ ParentDeliver PROVE Ending
<1>1. /\ parent \in Ticket /\ hop' = hop /\ released' = released /\ held' = held
      /\ everHeld' = everHeld /\ released \in SUBSET Hops
      /\ Fits(parent, hop, released, everHeld)
  BY DEF IInv, TypeOK, Fits, ParentCancel, ParentDecline, ParentDeliver, ParentStep
<1>2. /\ parent' \in Ticket /\ parent'.status \in {"cancelled", "declined", "delivered"}
      /\ parent'.closed
      /\ parent'.quantity = parent.quantity /\ parent'.shipped = parent.shipped
      /\ parent'.confirmedQuantity = parent.confirmedQuantity
      /\ \A l \in Lines :
            \/ parent'.lineStatus[l] = parent.lineStatus[l]
            \/ parent.lineStatus[l] = "open" /\ parent'.lineStatus[l] = "declined"
            \/ l \in InPlay(parent) /\ parent'.lineStatus[l] = "delivered"
  <2>1. CASE ParentCancel
    <3>1. parent' = CancelWrite(parent)
      BY <2>1 DEF ParentCancel, ParentStep
    <3> QED BY <1>1, <3>1 DEF CancelWrite, Ticket, OrderStatus
  <2>2. CASE ParentDecline
    <3>1. parent' = DeclineOpenLines(DeclineStatus(parent))
      BY <2>2 DEF ParentDecline, ParentStep
    <3> DEFINE v == DeclineStatus(parent)
    <3>2. /\ v \in Ticket /\ v.status = "declined" /\ v.closed
          /\ v.quantity = parent.quantity /\ v.shipped = parent.shipped
          /\ v.confirmedQuantity = parent.confirmedQuantity /\ v.lineStatus = parent.lineStatus
      BY <1>1 DEF DeclineStatus, Ticket, OrderStatus
    <3>3. parent' = DeclineOpenLines(v)
      BY <3>1
    <3> HIDE DEF v
    <3>4. parent' \in Ticket
      BY <3>2, <3>3, EndType
    <3>5. /\ parent'.status = v.status /\ parent'.closed = v.closed
          /\ parent'.quantity = v.quantity /\ parent'.shipped = v.shipped
          /\ parent'.confirmedQuantity = v.confirmedQuantity
          /\ parent'.lineStatus = SetLines(v, OpenLines(v), "declined")
      BY <3>2, <3>3 DEF DeclineOpenLines, Ticket
    <3> QED BY <3>2, <3>4, <3>5 DEF SetLines, OpenLines
  <2>3. CASE ParentDeliver
    <3>1. parent' = DeliverStatus(DeliverLines(parent)) /\ parent.status = "dispatched"
      BY <2>3 DEF ParentDeliver, ParentStep, CanDeliver
    <3> DEFINE v == DeliverLines(parent)
    <3>2. /\ v \in Ticket /\ v.closed = parent.closed
          /\ v.quantity = parent.quantity /\ v.shipped = parent.shipped
          /\ v.confirmedQuantity = parent.confirmedQuantity
          /\ v.lineStatus = SetLines(parent, InPlay(parent), "delivered")
      BY <1>1, EndType DEF DeliverLines, Ticket
    <3>3. parent' = DeliverStatus(v)
      BY <3>1
    <3> HIDE DEF v
    <3>4. parent' \in Ticket
      BY <3>2, <3>3, EndType
    <3>5. /\ parent'.status = "delivered" /\ parent'.closed = v.closed
          /\ parent'.quantity = v.quantity /\ parent'.shipped = v.shipped
          /\ parent'.confirmedQuantity = v.confirmedQuantity /\ parent'.lineStatus = v.lineStatus
      BY <3>2, <3>3 DEF DeliverStatus, Ticket
    <3>6. parent.closed
      BY <1>1, <3>1 DEF Fits, Closes
    <3> QED BY <3>2, <3>4, <3>5, <3>6 DEF SetLines
  <2> QED BY <2>1, <2>2, <2>3
<1>3. ASSUME NEW h \in Hops \ released PROVE Silent(h, parent', hop[h])
  <2>1. Silent(h, parent, hop[h])
    BY <1>1 DEF Fits
  <2> QED BY <1>2, <2>1 DEF Silent, InPlay, Lots
<1>4. ASSUME NEW h \in released \ everHeld PROVE Follows(h, parent', hop[h])
  <2>1. Follows(h, parent, hop[h])
    BY <1>1 DEF Fits
  <2>2. \A l \in InPlay(hop[h]) : l \in Lines /\ hop[h].lineStatus[l] \in {"confirmed", "dispatched"}
    BY DEF InPlay
  <2> QED BY <1>2, <2>1, <2>2 DEF Follows
<1>5. NobodyLeft(parent', released) /\ Closes(parent')
  BY <1>2 DEF NobodyLeft, Closes
<1>6. Fits(parent', hop, released, everHeld)
  BY <1>1, <1>2, <1>3, <1>4, <1>5 DEF Fits
<1>7. SnapshotKept(parent, parent') /\ parent'.status # "settled"
  BY <1>2 DEF SnapshotKept
<1> QED BY <1>1, <1>6, <1>7 DEF Ending

\* Every step is one of these.
LEMMA Steps ==
    ASSUME IInv, [Next]_vars
    PROVE  \/ UNCHANGED vars
           \/ \E h \in Hops, m \in Ticket :
                 Works(h, m) /\ (Passing(h, m) \/ Keeping(h, m) \/ Settling(h, m))
           \/ \E p \in Ticket : Deskwork(p)
           \/ Ending
<1>0. parent \in Ticket
  BY DEF IInv, TypeOK
<1>1. CASE Desk
  BY <1>0, <1>1, SendKind, MillDeclineKind, HoldKind DEF Desk
<1>2. ASSUME NEW h \in Hops, Work(h)
      PROVE  \E m \in Ticket : Works(h, m) /\ (Passing(h, m) \/ Keeping(h, m) \/ Settling(h, m))
  BY <1>2, LinesWork, DispatchWork, EditWork, SettleWork, EndWork DEF Work
<1>3. CASE ParentCancel \/ ParentDecline \/ ParentDeliver
  BY <1>3, EndKind
<1>4. CASE Read
  BY <1>0, <1>4, ReadKind
<1> QED BY <1>1, <1>2, <1>3, <1>4 DEF Next

-----------------------------------------------------------------------------
(* The theorems.                                                           *)

LEMMA HealSynced ==
    ASSUME NEW p \in Ticket, Deskwork(p)
    PROVE  Synced(p, hop', released', parent')
<1>1. hop' \in [Hops -> Ticket] /\ released' \in SUBSET Hops
  BY DEF Deskwork, Fits
<1> QED BY <1>1, Healing DEF Deskwork

LEMMA SettleSynced ==
    ASSUME IInv, NEW h \in Hops, NEW m \in Ticket, Works(h, m), Settling(h, m)
    PROVE  /\ Fits(parent, hop', released, everHeld)
           /\ Synced(parent, hop', released, parent')
           /\ parent.status \notin Over \cup {"dispatched"} =>
                 \A l \in Lots(h) : /\ parent'.quantity[l] = m.quantity[l]
                                    /\ parent'.shipped[l] <= m.quantity[l]
<1>1. /\ parent \in Ticket /\ hop \in [Hops -> Ticket] /\ released \in SUBSET Hops
      /\ Fits(parent, hop, released, everHeld)
  BY DEF IInv, TypeOK
<1>2. Follows(h, parent, hop[h]) => Follows(h, parent, m)
  BY DEF Follows, Settling
<1>3. h \in released \ everHeld => Follows(h, parent, m)
  BY <1>2, HopNow
<1>4. /\ hop' = [hop EXCEPT ![h] = m] /\ Mill(h, m) /\ h \in released
      /\ parent' = SyncFromHops(parent, hop', released) /\ m.status = "settled"
  BY DEF Works, Settling
<1>5. Fits(parent, hop', released, everHeld)
  BY <1>1, <1>3, <1>4, HopFits
<1>6. hop' \in [Hops -> Ticket] /\ hop'[h] = m
  BY <1>1, <1>4
<1>7. /\ Synced(parent, hop', released, parent')
      /\ parent.status \notin Over \cup {"dispatched"} =>
            \A l \in Lines : Owner[l] \in released /\ hop'[Owner[l]].status \in Finished =>
               /\ parent'.quantity[l] = hop'[Owner[l]].quantity[l]
               /\ parent'.shipped[l] <= parent'.quantity[l]
  <2>1. parent' = SyncFromHops(parent, hop', released)
    BY <1>4
  <2>2. parent \in Ticket /\ released \in SUBSET Hops /\ hop' \in [Hops -> Ticket]
    BY <1>1, <1>6
  <2> QED BY <2>1, <2>2, Syncing
<1> QED BY <1>4, <1>5, <1>6, <1>7 DEF Lots, Finished

LEMMA NextInv == IInv /\ [Next]_vars => IInv'
<1> SUFFICES ASSUME IInv, [Next]_vars PROVE IInv'
  OBVIOUS
<1>1. CASE UNCHANGED vars
  BY <1>1 DEF vars, IInv, TypeOK, Fits, Silent, Follows, NobodyLeft, Closes
<1>2. ASSUME released' \in SUBSET Hops, everHeld' \in SUBSET Hops,
             held' \in SUBSET (released' \cap everHeld'),
             Fits(parent', hop', released', everHeld')
      PROVE  IInv'
  <2>1. parent' \in Ticket /\ hop' \in [Hops -> Ticket]
    BY <1>2 DEF Fits
  <2> QED BY <1>2, <2>1 DEF IInv, TypeOK
<1>3. ASSUME NEW h \in Hops, NEW m \in Ticket, Works(h, m),
             Passing(h, m) \/ Keeping(h, m) \/ Settling(h, m)
      PROVE  IInv'
  <2>0. /\ Fits(parent, hop, released, everHeld) /\ parent \in Ticket
        /\ released \in SUBSET Hops /\ everHeld \in SUBSET Hops
        /\ held \in SUBSET (released \cap everHeld)
    BY DEF IInv, TypeOK
  <2>1. /\ Mill(h, m) /\ hop' = [hop EXCEPT ![h] = m]
        /\ released' = released /\ held' = held /\ everHeld' = everHeld
    BY <1>3 DEF Works
  <2>2. CASE Passing(h, m)
    <3>1. /\ h \in released /\ Passed(h, parent, m, parent')
          /\ h \notin everHeld => \A l \in Lots(h) : parent'.shipped[l] <= m.shipped[l]
      BY <2>2 DEF Passing
    <3>2. Fits(parent', hop', released, everHeld)
      BY <2>0, <2>1, <3>1, PassFits
    <3> QED BY <1>2, <2>0, <2>1, <3>2
  <2>3. CASE Keeping(h, m)
    <3>1. /\ parent' = parent
          /\ h \notin released => Silent(h, parent, m)
          /\ h \in released \ everHeld => Follows(h, parent, m)
      BY <2>3 DEF Keeping
    <3>2. Fits(parent, hop', released, everHeld)
      BY <2>0, <2>1, <3>1, HopFits
    <3> QED BY <1>2, <2>0, <2>1, <3>1, <3>2
  <2>4. CASE Settling(h, m)
    <3>1. Fits(parent, hop', released, everHeld) /\ Synced(parent, hop', released, parent')
      BY <1>3, <2>4, SettleSynced
    <3>2. Fits(parent', hop', released, everHeld)
      BY <2>0, <3>1, SyncFits
    <3> QED BY <1>2, <2>0, <2>1, <3>2
  <2> QED BY <1>3, <2>2, <2>3, <2>4
<1>4. ASSUME NEW p \in Ticket, Deskwork(p) PROVE IInv'
  <2>1. /\ Fits(p, hop', released', everHeld') /\ released' \in SUBSET Hops
        /\ everHeld' \in SUBSET Hops /\ held' \in SUBSET (released' \cap everHeld')
    BY <1>4 DEF Deskwork
  <2>2. Synced(p, hop', released', parent')
    BY <1>4, HealSynced
  <2>3. Fits(parent', hop', released', everHeld')
    BY <2>1, <2>2, SyncFits
  <2> QED BY <1>2, <2>1, <2>3
<1>5. CASE Ending
  BY <1>2, <1>5 DEF Ending, IInv, TypeOK
<1> QED BY <1>1, <1>3, <1>4, <1>5, Steps

LEMMA InvAlways == Spec => []IInv
  BY InitInv, NextInv, PTL DEF Spec

\* A mill that was not sent its hop has done nothing the buyer can see, with any number
\* of mills, lines and orders of desk requests, passes and heals.
THEOREM WaitingMillIsSilentTheorem == Spec => []WaitingMillIsSilent
  BY InvAlways, InvProperties, PTL

\* However parcels, corrected LRs, settlements and heals follow each other, the buyer's
\* order never counts more of a line as sent than left the mill.
THEOREM NeverMoreThanLeftTheorem == Spec => []NeverMoreThanLeft
  BY InvAlways, InvProperties, PTL

\* What a mill has agreed to and not settled is on the buyer's order at the mill's quantity,
\* as far along as on the hop or further.
THEOREM AgreedIsPassedTheorem == Spec => []AgreedIsPassed
  BY InvAlways, InvProperties, PTL

\* No line of a settled order is with a mill that was never asked.
THEOREM SettledLeavesNobodyWaitingTheorem == Spec => []SettledLeavesNobodyWaiting
  BY InvAlways, InvProperties, PTL

\* A buyer's order that reads complete or over carries closedAt, and hops and history
\* variables keep their types.
THEOREM FinishedIsClosedTheorem == Spec => [](TypeOK /\ FinishedIsClosed)
<1>1. IInv => TypeOK /\ FinishedIsClosed
  BY InvProperties DEF IInv
<1> QED BY <1>1, InvAlways, PTL

LEMMA HeldStep ==
    ASSUME IInv, [Next]_vars, NEW g \in held, hop'[g] # hop[g], hop'[g].status # "settled"
    PROVE  parent' = parent
<1>1. g \in released /\ g \in Hops /\ hop \in [Hops -> Ticket]
  BY DEF IInv, TypeOK
<1>2. ASSUME NEW h \in Hops, NEW m \in Ticket, Works(h, m),
             Passing(h, m) \/ Keeping(h, m) \/ Settling(h, m)
      PROVE  parent' = parent
  <2>1. h = g /\ hop'[g] = m
    BY <1>1, <1>2 DEF Works
  <2> QED BY <1>2, <2>1 DEF Passing, Keeping, Settling
<1>3. ASSUME NEW p \in Ticket, Deskwork(p) PROVE FALSE
  BY <1>1, <1>3 DEF Deskwork
<1>4. CASE Ending
  BY <1>4 DEF Ending
<1>5. CASE UNCHANGED vars
  BY <1>5 DEF vars
<1> QED BY <1>2, <1>3, <1>4, <1>5, Steps

\* Until the trader resumes a held hop, nothing the mill does there but settling it
\* reaches the buyer's order.
THEOREM HeldHopIsQuietTheorem == Spec => HeldHopIsQuiet
<1>1. IInv /\ [Next]_vars =>
         [\A h \in held : hop'[h] # hop[h] /\ hop'[h].status # "settled" => parent' = parent]_vars
  BY HeldStep
<1> QED BY <1>1, InvAlways, PTL DEF Spec, HeldHopIsQuiet

LEMMA SnapshotStep == ASSUME IInv, [Next]_vars PROVE SnapshotKept(parent, parent')
<1>1. ASSUME NEW h \in Hops, NEW m \in Ticket, Works(h, m),
             Passing(h, m) \/ Keeping(h, m) \/ Settling(h, m)
      PROVE  SnapshotKept(parent, parent')
  <2>1. CASE Passing(h, m)
    BY <2>1 DEF Passing, Passed
  <2>2. CASE Keeping(h, m)
    BY <2>2 DEF Keeping, SnapshotKept
  <2>3. CASE Settling(h, m)
    <3>1. Synced(parent, hop', released, parent')
      BY <1>1, <2>3, SettleSynced
    <3> QED BY <3>1 DEF Synced
  <2> QED BY <1>1, <2>1, <2>2, <2>3
<1>2. ASSUME NEW p \in Ticket, Deskwork(p) PROVE SnapshotKept(parent, parent')
  <2>1. SnapshotKept(parent, p)
    BY <1>2 DEF Deskwork
  <2>2. SnapshotKept(p, parent')
    BY <1>2, HealSynced DEF Synced
  <2> QED BY <2>1, <2>2 DEF SnapshotKept
<1>3. CASE Ending
  BY <1>3 DEF Ending
<1>4. CASE UNCHANGED vars
  BY <1>4 DEF vars, SnapshotKept
<1> QED BY <1>1, <1>2, <1>3, <1>4, Steps

\* The quantity first confirmed to the buyer is never rewritten, by any pass, settlement
\* or heal.
THEOREM SnapshotIsKeptTheorem == Spec => SnapshotIsKept
<1>1. IInv /\ [Next]_vars =>
         [\A l \in Lines : parent.confirmedQuantity[l] # 0
                           => parent'.confirmedQuantity[l] = parent.confirmedQuantity[l]]_vars
  BY SnapshotStep DEF SnapshotKept
<1> QED BY <1>1, InvAlways, PTL DEF Spec, SnapshotIsKept

LEMMA SettledStep ==
    ASSUME IInv, [Next]_vars, parent'.status = "settled", parent.status # "settled"
    PROVE  /\ \A h \in released' : hop'[h].status \in SubsetComplete
           /\ OpenLines(parent') = {}
           /\ ~Short(parent')
<1>1. ASSUME NEW p, p.status # "settled", Synced(p, hop', released', parent')
      PROVE  /\ \A h \in released' : hop'[h].status \in SubsetComplete
             /\ NothingPending(parent')
  BY <1>1 DEF Synced
<1>2. ASSUME NEW h \in Hops, NEW m \in Ticket, Works(h, m),
             Passing(h, m) \/ Keeping(h, m) \/ Settling(h, m)
      PROVE  /\ \A g \in released' : hop'[g].status \in SubsetComplete
             /\ NothingPending(parent')
  <2>1. Settling(h, m)
    BY <1>2 DEF Passing, Passed, Keeping
  <2>2. Synced(parent, hop', released, parent') /\ released' = released
    BY <1>2, <2>1, SettleSynced DEF Works
  <2> QED BY <1>1, <2>2
<1>3. ASSUME NEW p \in Ticket, Deskwork(p)
      PROVE  /\ \A g \in released' : hop'[g].status \in SubsetComplete
             /\ NothingPending(parent')
  <2>1. p.status # "settled"
    BY <1>3 DEF Deskwork
  <2> QED BY <1>1, <1>3, <2>1, HealSynced
<1>4. ~Ending /\ ~UNCHANGED vars
  BY DEF Ending, vars
<1>5. /\ \A g \in released' : hop'[g].status \in SubsetComplete
      /\ NothingPending(parent')
  BY <1>2, <1>3, <1>4, Steps
<1>6. OpenLines(parent') = {} /\ ~Short(parent')
  BY <1>5 DEF NothingPending, OpenLines, Short, Shippable, Items
<1> QED BY <1>5, <1>6

\* Whatever settles the buyer's order, every mill that was asked is done by then and the
\* order is out in full.
THEOREM SettlesOnlyWhenAllDoneTheorem == Spec => SettlesOnlyWhenAllDone
<1>1. IInv /\ [Next]_vars =>
         [parent'.status = "settled" /\ parent.status # "settled" =>
             /\ \A h \in released' : hop'[h].status \in SubsetComplete
             /\ OpenLines(parent') = {}
             /\ ~Short(parent')]_vars
  BY SettledStep
<1> QED BY <1>1, InvAlways, PTL DEF Spec, SettlesOnlyWhenAllDone

LEMMA ReachesStep ==
    ASSUME IInv, [Next]_vars, NEW g \in Hops, NEW l \in Lots(g),
           hop'[g].status = "settled", hop[g].status # "settled",
           parent.status \notin Over \cup {"dispatched"}
    PROVE  /\ parent'.quantity[l] = hop'[g].quantity[l]
           /\ parent'.shipped[l] <= hop'[g].quantity[l]
<1>1. ASSUME NEW h \in Hops, NEW m \in Ticket, Works(h, m),
             Passing(h, m) \/ Keeping(h, m) \/ Settling(h, m)
      PROVE  /\ parent'.quantity[l] = hop'[g].quantity[l]
             /\ parent'.shipped[l] <= hop'[g].quantity[l]
  <2>1. h = g /\ hop'[g] = m
    BY <1>1, HopNow DEF Works
  <2>2. Settling(h, m)
    BY <1>1, <2>1 DEF Passing, Keeping
  <2> QED BY <1>1, <2>1, <2>2, SettleSynced
<1>2. ASSUME NEW p \in Ticket, Deskwork(p) PROVE FALSE
  BY <1>2 DEF Deskwork
<1>3. ~Ending /\ ~UNCHANGED vars
  BY DEF Ending, vars
<1> QED BY <1>1, <1>2, <1>3, Steps

\* A mill's settlement reaches a buyer's order that is still in work at once, held or not,
\* with the final quantities and no more on its LRs than those.
THEOREM SettlementReachesBuyerTheorem == Spec => SettlementReachesBuyer
<1>1. IInv /\ [Next]_vars =>
         [\A h \in Hops : \A l \in Lots(h) :
            /\ hop'[h].status = "settled" /\ hop[h].status # "settled"
            /\ parent.status \notin Over \cup {"dispatched"}
            => /\ parent'.quantity[l] = hop'[h].quantity[l]
               /\ parent'.shipped[l] <= hop'[h].quantity[l]]_vars
  BY ReachesStep
<1> QED BY <1>1, InvAlways, PTL DEF Spec, SettlementReachesBuyer
=============================================================================
