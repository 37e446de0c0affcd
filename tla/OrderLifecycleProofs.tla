------------------------ MODULE OrderLifecycleProofs ------------------------
(***************************************************************************)
(* Theorems about OrderLifecycle for every set of lines, every set of      *)
(* quantities and every bound: what holds of a ticket, and what a step of  *)
(* it may never do.                                                        *)
(***************************************************************************)
EXTENDS OrderLifecycle, TLAPS

-----------------------------------------------------------------------------
(* Every write of every operation takes a ticket to a ticket.              *)

LEMMA NewTicketType ==
    ASSUME NEW placed \in SUBSET Lines, NEW q \in [Lines -> Quantities],
           NEW priced \in SUBSET Lines, NEW ask \in BOOLEAN
    PROVE  NewTicket(placed, q, priced, ask) \in Ticket
  BY QuantitiesAssumption DEF NewTicket, Ticket, OrderStatus, LineStatus

LEMMA AmendType ==
    ASSUME NEW o \in Ticket, NEW s \in Ticket, NEW kept \in SUBSET Lines,
           NEW added \in SUBSET Lines, NEW q \in [Lines -> Quantities],
           NEW priced \in SUBSET Lines
    PROVE  AmendWrite(o, s, kept, added, q, priced) \in Ticket
  BY QuantitiesAssumption DEF AmendWrite, Ticket, LineStatus

LEMMA LockType ==
    ASSUME NEW o \in Ticket, NEW s \in Ticket, NEW S \in SUBSET Lines
    PROVE  LockTx(o, s, S) \in Ticket
  BY DEF LockTx, Ticket, SetLines, Stamp, LineStatus, OrderStatus

LEMMA QuoteType ==
    ASSUME NEW o \in Ticket, NEW s \in Ticket, NEW offered \in SUBSET Lines,
           NEW q \in [Lines -> Quantities]
    PROVE  /\ QuoteTx(o, s, offered, q) \in Ticket
           /\ QuoteSent(o) \in Ticket
           /\ SellerSpoke(o) \in Ticket
  BY QuantitiesAssumption DEF QuoteTx, QuoteSent, SellerSpoke, Ticket, LineStatus

LEMMA DecideType ==
    ASSUME NEW o \in Ticket, NEW s \in Ticket, NEW v \in Ticket,
           NEW yes \in SUBSET Lines, NEW no \in SUBSET Lines,
           NEW q \in [Lines -> Quantities], NEW priced \in SUBSET Lines
    PROVE  /\ DecideLineWrites(o, s, yes, no, q, priced) \in Ticket
           /\ DecideRollUp(o, s, v, yes) \in Ticket
<1>1. DecideLineWrites(o, s, yes, no, q, priced) \in Ticket
  BY QuantitiesAssumption DEF DecideLineWrites, Ticket, LineStatus
<1>2. DecideRollUp(o, s, v, yes) \in Ticket
  BY DEF DecideRollUp, Ticket, OrderStatus
<1> QED BY <1>1, <1>2

LEMMA EndType ==
    ASSUME NEW o \in Ticket
    PROVE  /\ DeclineStatus(o) \in Ticket
           /\ DeclineOpenLines(o) \in Ticket
           /\ CancelWrite(o) \in Ticket
           /\ DeliverLines(o) \in Ticket
           /\ DeliverStatus(o) \in Ticket
  BY DEF DeclineStatus, DeclineOpenLines, CancelWrite, DeliverLines, DeliverStatus,
         SetLines, OpenWindow, Ticket, OrderStatus, LineStatus

LEMMA SupplyType ==
    ASSUME NEW o \in Ticket, NEW s \in Ticket,
           NEW cant \in SUBSET Lines, NEW back \in SUBSET Lines
    PROVE  SetSupplyLines(o, s, cant, back) \in Ticket
  BY DEF SetSupplyLines, RestoredQuantity, Ticket, LineStatus

LEMMA RollUpStatus ==
    ASSUME NEW v
    PROVE  /\ RollUp(v) \in Fulfilling
           /\ SupplyRollUp(v) \in Fulfilling \cup {"declined"}
  BY DEF RollUp, SupplyRollUp, Fulfilling

LEMMA StatusType ==
    ASSUME NEW o \in Ticket, NEW v
    PROVE  /\ SetSupplyStatus(o, v) \in Ticket
           /\ SetQuantityStatus(o, v) \in Ticket
           /\ EditShipmentStatus(o, v) \in Ticket
<1>1. ASSUME NEW st \in OrderStatus PROVE StatusWrite(o, st) \in Ticket
  <2> DEFINE over == st \in {"dispatched", "declined"}
  <2>1. over \in BOOLEAN
    OBVIOUS
  <2>2. StatusWrite(o, st) = [o EXCEPT !.status = st, !.closed = over]
    BY DEF StatusWrite
  <2> HIDE DEF over
  <2> QED BY <2>1, <2>2 DEF Ticket
<1>2. Fulfilling \cup {"declined"} \subseteq OrderStatus
  BY DEF Fulfilling, OrderStatus
<1> QED BY <1>1, <1>2, RollUpStatus
        DEF SetSupplyStatus, SetQuantityStatus, EditShipmentStatus, OrderStatus

LEMMA QuantityType ==
    ASSUME NEW o \in Ticket, NEW s \in Ticket, NEW lines \in SUBSET Lines,
           NEW q \in [Lines -> Quantities]
    PROVE  SetQuantityLines(o, s, lines, q) \in Ticket
  BY QuantitiesAssumption DEF SetQuantityLines, Ticket, LineStatus

LEMMA DispatchWritesType ==
    ASSUME NEW o \in Ticket, NEW s \in Ticket, NEW parcel \in [Lines -> Nat]
    PROVE  /\ DispatchShipment(o, parcel) \in Ticket
           /\ DispatchLines(o, s, parcel) \in Ticket
           /\ DispatchStatus(o, s, parcel) \in Ticket
<1>1. DispatchShipment(o, parcel) \in Ticket
  <2>1. ASSUME NEW l \in Lines PROVE o.shipped[l] + parcel[l] \in Nat
    <3>1. o.shipped[l] \in Nat
      BY DEF Ticket
    <3> QED BY <3>1
  <2> QED BY <2>1 DEF DispatchShipment, Ticket
<1>2. DispatchLines(o, s, parcel) \in Ticket
  BY DEF DispatchLines, Ticket, LineStatus
<1>3. DispatchStatus(o, s, parcel) \in Ticket
  BY DEF DispatchStatus, OpenWindow, Ticket, OrderStatus
<1> QED BY <1>1, <1>2, <1>3

LEMMA SettleWritesType ==
    ASSUME NEW o \in Ticket, NEW s \in Ticket, NEW final \in [Lines -> Nat]
    PROVE  /\ SettleLines(o, s, final) \in Ticket
           /\ SettleStatus(o) \in Ticket
<1>1. SettleLines(o, s, final) \in Ticket
  BY DEF SettleLines, Ticket, LineStatus
<1>2. SettleStatus(o) \in Ticket
  BY DEF SettleStatus, OpenWindow, Ticket, OrderStatus
<1> QED BY <1>1, <1>2

-----------------------------------------------------------------------------
(* The amounts of this module's actions are bounded.                       *)

LEMMA DispatchType ==
    ASSUME NEW o \in Ticket, NEW s \in Ticket, NEW parcel \in [Lines -> Amounts]
    PROVE  /\ DispatchShipment(o, parcel) \in Ticket
           /\ DispatchLines(o, s, parcel) \in Ticket
           /\ DispatchStatus(o, s, parcel) \in Ticket
<1>1. Amounts \subseteq Nat
  BY QuantitiesAssumption DEF Amounts
<1>2. parcel \in [Lines -> Nat]
  BY <1>1
<1> QED BY <1>2, DispatchWritesType

LEMMA EditShipmentType ==
    ASSUME NEW o \in Ticket, NEW v \in Ticket, NEW was \in [Lines -> 0..MaxShipped],
           NEW now \in [Lines -> 0..MaxShipped]
    PROVE  /\ CanEditShipment(o, was, now) => EditShipmentRow(o, was, now) \in Ticket
           /\ EditShipmentLines(o, v) \in Ticket
<1>1. CanEditShipment(o, was, now) => EditShipmentRow(o, was, now) \in Ticket
  <2> SUFFICES ASSUME CanEditShipment(o, was, now)
               PROVE  EditShipmentRow(o, was, now) \in Ticket
    OBVIOUS
  <2>1. ASSUME NEW l \in Lines PROVE (o.shipped[l] - was[l]) + now[l] \in Nat
    <3>1. was[l] \in Nat /\ now[l] \in Nat
      BY BoundsAssumption
    <3>2. o.shipped[l] \in Nat
      BY DEF Ticket
    <3>3. was[l] <= o.shipped[l]
      BY DEF CanEditShipment
    <3> QED BY <3>1, <3>2, <3>3
  <2> QED BY <2>1 DEF EditShipmentRow, Ticket
<1>2. EditShipmentLines(o, v) \in Ticket
  BY DEF EditShipmentLines, Ticket, LineStatus
<1> QED BY <1>1, <1>2

LEMMA SettleType ==
    ASSUME NEW o \in Ticket, NEW s \in Ticket, NEW final \in [Lines -> 0..MaxShipped]
    PROVE  /\ SettleLines(o, s, final) \in Ticket
           /\ SettleStatus(o) \in Ticket
<1>1. final \in [Lines -> Nat]
  BY BoundsAssumption
<1> QED BY <1>1, SettleWritesType

-----------------------------------------------------------------------------
(* Type correctness.                                                       *)

LEMMA InitType == Init => TypeOK
<1> SUFFICES ASSUME Init PROVE TypeOK
  OBVIOUS
<1>1. PICK placed \in Some(Lines), q \in [Lines -> Quantities], ask \in BOOLEAN :
         \E priced \in SUBSET placed : order = NewTicket(placed, q, priced, ask)
  BY DEF Init
<1>2. placed \in SUBSET Lines
  BY DEF Some
<1>3. PICK priced \in SUBSET placed : order = NewTicket(placed, q, priced, ask)
  BY <1>1
<1>4. order \in Ticket
  BY <1>2, <1>3, NewTicketType
<1> QED BY <1>4 DEF Init, TypeOK

LEMMA NextType == TypeOK /\ [Next]_vars => TypeOK'
<1> SUFFICES ASSUME TypeOK, [Next]_vars PROVE TypeOK'
  OBVIOUS
<1> USE DEF TypeOK
<1>a. ASSUME NEW o \in Ticket, Becomes(o) PROVE TypeOK'
  BY <1>a DEF Becomes
<1>b. ASSUME NEW o \in Ticket, Schedules(o) PROVE TypeOK'
  BY <1>b DEF Schedules
<1>1. CASE Amend
  <2>1. PICK kept \in SUBSET Items(order), added \in SUBSET (Lines \ Items(order)),
             q \in [Lines -> Quantities] :
               \E priced \in SUBSET (kept \cup added) :
                  Becomes(AmendWrite(order, order, kept, added, q, priced))
    BY <1>1 DEF Amend
  <2>2. kept \in SUBSET Lines /\ added \in SUBSET Lines
    BY DEF Items
  <2>3. PICK priced \in SUBSET (kept \cup added) :
               Becomes(AmendWrite(order, order, kept, added, q, priced))
    BY <2>1
  <2> QED BY <2>2, <2>3, <1>a, AmendType
<1>2. CASE Quote
  <2>1. PICK offered \in Some(Lines), q \in [Lines -> Quantities] :
               Becomes(QuoteSent(QuoteTx(order, order, offered, q)))
    BY <1>2 DEF Quote
  <2>2. offered \in SUBSET Lines
    BY DEF Some
  <2> QED BY <2>1, <2>2, <1>a, QuoteType
<1>3. CASE Confirm
  <2>1. ConfirmTx(order, order) \in Ticket
    BY LockType DEF ConfirmTx, OpenLines
  <2>2. SellerSpoke(ConfirmTx(order, order)) \in Ticket
    BY <2>1 DEF SellerSpoke, Ticket
  <2> QED BY <1>3, <2>2, <1>a DEF Confirm
<1>4. CASE AcceptQuote
  <2>1. AcceptQuoteTx(order, order) \in Ticket
    BY LockType DEF AcceptQuoteTx, RatedOpen, OpenLines
  <2> QED BY <1>4, <2>1, <1>a DEF AcceptQuote
<1>5. CASE DecideLines
  <2>1. PICK yes \in SUBSET Lines, no \in SUBSET Lines, q \in [Lines -> Quantities] :
               \E priced \in SUBSET yes :
                 LET v == DecideLineWrites(order, order, yes, no, q, priced)
                 IN Becomes(SellerSpoke(DecideRollUp(v, order, v, yes)))
    BY <1>5 DEF DecideLines
  <2>2. PICK priced \in SUBSET yes :
                 LET v == DecideLineWrites(order, order, yes, no, q, priced)
                 IN Becomes(SellerSpoke(DecideRollUp(v, order, v, yes)))
    BY <2>1
  <2> DEFINE v == DecideLineWrites(order, order, yes, no, q, priced)
  <2>3. v \in Ticket
    BY DecideType
  <2>4. DecideRollUp(v, order, v, yes) \in Ticket
    BY <2>3, DecideType
  <2>5. SellerSpoke(DecideRollUp(v, order, v, yes)) \in Ticket
    BY <2>4 DEF SellerSpoke, Ticket
  <2> QED BY <2>2, <2>5, <1>a
<1>6. CASE Decline
  <2>1. DeclineOpenLines(DeclineStatus(order)) \in Ticket
    BY EndType
  <2>2. SellerSpoke(DeclineOpenLines(DeclineStatus(order))) \in Ticket
    BY <2>1 DEF SellerSpoke, Ticket
  <2> QED BY <1>6, <2>2, <1>a DEF Decline
<1>7. CASE Cancel
  BY <1>7, <1>a, EndType DEF Cancel
<1>8. CASE SetLineSupply
  <2>1. PICK cant \in SUBSET Lines, back \in SUBSET Lines :
               LET v == SetSupplyLines(order, order, cant, back)
               IN Becomes(SetSupplyStatus(v, v))
    BY <1>8 DEF SetLineSupply
  <2> QED BY <2>1, <1>a, SupplyType, StatusType
<1>9. CASE SetLineQuantity
  <2>1. PICK lines \in Some(Lines), q \in [Lines -> Quantities] :
               LET v == SetQuantityLines(order, order, lines, q)
               IN Becomes(SetQuantityStatus(v, v))
    BY <1>9 DEF SetLineQuantity
  <2>2. lines \in SUBSET Lines
    BY DEF Some
  <2> QED BY <2>1, <2>2, <1>a, QuantityType, StatusType
<1>10. CASE Dispatch
  <2>1. PICK parcel \in [Lines -> Amounts] :
               LET v == DispatchStatus(DispatchLines(DispatchShipment(order, parcel),
                                                     order, parcel), order, parcel)
               IN Becomes(v) \/ Schedules(v)
    BY <1>10 DEF Dispatch
  <2>2. DispatchShipment(order, parcel) \in Ticket
    BY DispatchType
  <2>3. DispatchLines(DispatchShipment(order, parcel), order, parcel) \in Ticket
    BY <2>2, DispatchType
  <2>4. DispatchStatus(DispatchLines(DispatchShipment(order, parcel), order, parcel),
                       order, parcel) \in Ticket
    BY <2>3, DispatchType
  <2> QED BY <2>1, <2>4, <1>a, <1>b
<1>11. CASE EditShipment
  <2>1. PICK was \in [Lines -> 0..MaxShipped], now \in [Lines -> 0..MaxShipped] :
               /\ CanEditShipment(order, was, now)
               /\ LET v == EditShipmentRow(order, was, now)
                      w == EditShipmentLines(v, v)
                  IN Becomes(EditShipmentStatus(w, w))
    BY <1>11 DEF EditShipment
  <2>2. EditShipmentRow(order, was, now) \in Ticket
    BY <2>1, EditShipmentType
  <2>3. EditShipmentLines(EditShipmentRow(order, was, now),
                          EditShipmentRow(order, was, now)) \in Ticket
    BY <2>2, EditShipmentType
  <2> QED BY <2>1, <2>3, <1>a, StatusType
<1>12. CASE Settle
  <2>1. PICK final \in [Lines -> 0..MaxShipped] :
               Schedules(SettleStatus(SettleLines(order, order, final)))
    BY <1>12 DEF Settle
  <2> QED BY <2>1, <1>b, SettleType
<1>13. CASE Deliver
  BY <1>13, <1>b, EndType DEF Deliver
<1>14. CASE TimePasses
  <2>1. [order EXCEPT !.returnWindow = "lapsed"] \in Ticket
    BY DEF Ticket
  <2> QED BY <1>14, <2>1 DEF TimePasses
<1>15. CASE ExpireWindow
  <2>1. [order EXCEPT !.closed = TRUE] \in Ticket
    BY DEF Ticket
  <2>2. due' \in Nat /\ waiting' \in Nat
    BY <1>15 DEF ExpireWindow
  <2>3. order' \in Ticket /\ notified' \in BOOLEAN
    BY <1>15, <2>1 DEF ExpireWindow
  <2> QED BY <2>2, <2>3
<1>16. CASE UNCHANGED vars
  BY <1>16 DEF vars
<1> QED BY <1>1, <1>2, <1>3, <1>4, <1>5, <1>6, <1>7, <1>8, <1>9, <1>10, <1>11,
           <1>12, <1>13, <1>14, <1>15, <1>16 DEF Next, BuyerStep, SellerStep

\* The ticket, its counters and its flags keep their types.
THEOREM TypeCorrect == Spec => []TypeOK
  BY InitType, NextType, PTL DEF Spec

-----------------------------------------------------------------------------
(* The inductive invariant.  Every conjunct is about the ticket alone, so   *)
(* that each operation is one lemma: from a good ticket to a good ticket.   *)

LockInv(o) == o.status \in Locked => OpenLines(o) = {}

QuoteInv(o) == o.quoted => /\ o.sellerMoved
                           /\ o.status = "requested" => OpenLines(o) \subseteq o.rated

ClosedInv(o) == o.closed <=> o.status \in {"dispatched", "delivered", "settled",
                                           "declined", "cancelled"}

\* Before the lock nothing has left and every live line asks for something.
RequestedInv(o) ==
    o.status = "requested" =>
       \A l \in Lines : /\ o.shipped[l] = 0
                        /\ o.lineStatus[l] \in {"open", "confirmed"} => o.quantity[l] > 0

LineInv(o) == \A l \in Lines :
    /\ o.lineStatus[l] \in {"dispatched", "delivered"} => Covered(o, l)
    /\ o.lineStatus[l] = "delivered" => o.status = "delivered"
    /\ o.lineStatus[l] = "none" => o.shipped[l] = 0

ShortInv(o) ==
    /\ o.status \in {"confirmed", "part_shipped"} =>
          \E l \in Lines : o.lineStatus[l] = "confirmed" /\ ~Covered(o, l)
    /\ o.status \in {"dispatched", "delivered", "settled"} =>
          \A l \in Shippable(o) : Covered(o, l)

SomeInv(o) == /\ o.status = "part_shipped" => AnyShipped(o)
              /\ o.status = "confirmed" => ~AnyShipped(o)
              /\ o.status = "declined" => \A l \in Lines : o.shipped[l] = 0

Good(o) == /\ LockInv(o) /\ QuoteInv(o) /\ ClosedInv(o) /\ RequestedInv(o)
           /\ LineInv(o) /\ ShortInv(o) /\ SomeInv(o)

LEMMA AmountPositive ==
    ASSUME NEW q \in [Lines -> Quantities]
    PROVE  \A l \in Lines : q[l] \in Nat /\ q[l] > 0
<1> TAKE l \in Lines
<1>1. q[l] \in Quantities
  OBVIOUS
<1>2. q[l] \in Nat \ {0}
  BY <1>1, QuantitiesAssumption
<1> QED BY <1>2

\* What Good looks at, apart from the quotation.
SameForGood(o, n) == /\ n.status = o.status /\ n.lineStatus = o.lineStatus
                     /\ n.shipped = o.shipped /\ n.quantity = o.quantity
                     /\ n.closed = o.closed

LEMMA FrameGood ==
    ASSUME NEW o, NEW n, Good(o), SameForGood(o, n), QuoteInv(n)
    PROVE  Good(n)
<1>1. /\ OpenLines(n) = OpenLines(o) /\ Shippable(n) = Shippable(o)
      /\ AnyShipped(n) = AnyShipped(o) /\ \A l \in Lines : Covered(n, l) = Covered(o, l)
  BY DEF SameForGood, OpenLines, Shippable, Items, AnyShipped, Covered
<1>2. LockInv(n) /\ ClosedInv(n) /\ RequestedInv(n)
  BY <1>1 DEF Good, SameForGood, LockInv, ClosedInv, RequestedInv
<1>3. LineInv(n)
  BY <1>1 DEF Good, SameForGood, LineInv
<1>4. ShortInv(n)
  BY <1>1 DEF Good, SameForGood, ShortInv, Shippable, Items
<1>5. SomeInv(n)
  BY <1>1 DEF Good, SameForGood, SomeInv
<1> QED BY <1>2, <1>3, <1>4, <1>5 DEF Good

LEMMA NewTicketGood ==
    ASSUME NEW placed \in SUBSET Lines, NEW q \in [Lines -> Quantities],
           NEW priced \in SUBSET Lines, NEW ask \in BOOLEAN
    PROVE  Good(NewTicket(placed, q, priced, ask))
<1> DEFINE n == NewTicket(placed, q, priced, ask)
<1>1. \A l \in Lines : q[l] > 0
  BY AmountPositive
<1>2. /\ n.status = "requested" /\ n.quoted = FALSE /\ n.closed = FALSE
      /\ \A l \in Lines : /\ n.shipped[l] = 0
                          /\ n.lineStatus[l] = IF l \in placed THEN "open" ELSE "none"
                          /\ n.quantity[l] = IF l \in placed THEN q[l] ELSE 0
  BY DEF NewTicket
<1> HIDE DEF n
<1>3. LockInv(n) /\ QuoteInv(n) /\ ClosedInv(n) /\ ShortInv(n) /\ SomeInv(n)
  BY <1>2 DEF LockInv, QuoteInv, ClosedInv, ShortInv, SomeInv, Locked
<1>4. RequestedInv(n) /\ LineInv(n)
  BY <1>1, <1>2 DEF RequestedInv, LineInv
<1> QED BY <1>3, <1>4 DEF Good, n

LEMMA AmendGood ==
    ASSUME NEW o \in Ticket, Good(o), CanAmend(o), NEW kept \in SUBSET Items(o),
           NEW added \in SUBSET (Lines \ Items(o)), NEW q \in [Lines -> Quantities],
           NEW priced \in SUBSET Lines
    PROVE  Good(AmendWrite(o, o, kept, added, q, priced))
<1> DEFINE n == AmendWrite(o, o, kept, added, q, priced)
<1>1. \A l \in Lines : q[l] > 0
  BY AmountPositive
<1>2. /\ n.status = "requested" /\ n.quoted = o.quoted /\ n.sellerMoved = o.sellerMoved
      /\ n.closed = o.closed
  BY DEF AmendWrite, CanAmend, Ticket
<1>3. \A l \in Lines : /\ n.lineStatus[l] \in {"open", "none"}
                       /\ n.lineStatus[l] = "open" => n.quantity[l] = q[l]
  BY DEF AmendWrite, CanAmend, Ticket, Items, OpenLines
<1>4. o.quoted = FALSE /\ o.closed = FALSE
  BY DEF Good, QuoteInv, ClosedInv, CanAmend, Ticket
<1>5. \A l \in Lines : n.shipped[l] = 0
  <2>1. \A l \in Lines : o.shipped[l] = 0
    BY DEF Good, RequestedInv, CanAmend
  <2> QED BY <2>1 DEF AmendWrite, Ticket
<1> HIDE DEF n
<1>6. LockInv(n) /\ QuoteInv(n) /\ ClosedInv(n) /\ ShortInv(n) /\ SomeInv(n)
  BY <1>2, <1>4 DEF LockInv, QuoteInv, ClosedInv, ShortInv, SomeInv, Locked
<1>7. RequestedInv(n) /\ LineInv(n)
  BY <1>1, <1>3, <1>5 DEF RequestedInv, LineInv
<1> QED BY <1>6, <1>7 DEF Good, n

\* confirm and acceptQuote: every open line is confirmed, and there is one.
LEMMA LockGood ==
    ASSUME NEW o \in Ticket, Good(o), o.status = "requested",
           OpenLines(o) # {}
    PROVE  Good(LockTx(o, o, OpenLines(o)))
<1> DEFINE n == LockTx(o, o, OpenLines(o))
<1>1. /\ n.status = "confirmed" /\ n.closed = o.closed /\ n.quoted = o.quoted
      /\ n.sellerMoved = o.sellerMoved /\ n.shipped = o.shipped
      /\ n.quantity = o.quantity
  BY DEF LockTx, Ticket
<1>2. \A l \in Lines : n.lineStatus[l] = IF o.lineStatus[l] = "open" THEN "confirmed"
                                         ELSE o.lineStatus[l]
  BY DEF LockTx, SetLines, Ticket, OpenLines
<1>3. \A l \in Lines : n.shipped[l] = 0
  BY <1>1 DEF Good, RequestedInv
<1>4. PICK l \in Lines : o.lineStatus[l] = "open"
  BY DEF OpenLines
<1>5. n.lineStatus[l] = "confirmed" /\ n.quantity[l] > 0 /\ n.shipped[l] = 0
  BY <1>1, <1>2, <1>3, <1>4 DEF Good, RequestedInv
<1>6. o.closed = FALSE
  BY DEF Good, ClosedInv, Ticket
<1>7. n.quantity[l] \in Nat
  BY <1>1 DEF Ticket
<1> HIDE DEF n
<1>8. ShortInv(n)
  BY <1>1, <1>5, <1>7 DEF ShortInv, Covered
<1>9. LockInv(n)
  BY <1>2 DEF LockInv, OpenLines
<1>10. QuoteInv(n)
  BY <1>1 DEF QuoteInv, Good
<1>11. ClosedInv(n) /\ RequestedInv(n)
  BY <1>1, <1>6 DEF ClosedInv, RequestedInv
<1>12. SomeInv(n)
  BY <1>1, <1>3 DEF SomeInv, AnyShipped, Shippable, Items
<1>13. LineInv(n)
  BY <1>1, <1>2, <1>3 DEF Good, LineInv, Covered
<1> QED BY <1>8, <1>9, <1>10, <1>11, <1>12, <1>13 DEF Good, n

\* A quote rates what it opens and declines the rest, so what is open is rated.
LEMMA QuoteGood ==
    ASSUME NEW o \in Ticket, Good(o), NEW offered \in SUBSET Lines,
           NEW q \in [Lines -> Quantities], CanQuote(o, offered)
    PROVE  Good(QuoteSent(QuoteTx(o, o, offered, q)))
<1> DEFINE n == QuoteSent(QuoteTx(o, o, offered, q))
<1>1. \A l \in Lines : q[l] > 0
  BY AmountPositive
<1>2. /\ n.status = "requested" /\ n.closed = o.closed /\ n.sellerMoved = TRUE
      /\ n.shipped = o.shipped /\ n.rated = o.rated \cup offered
  BY DEF QuoteSent, QuoteTx, CanQuote, Ticket
<1>3. \A l \in Lines :
         n.lineStatus[l] = IF l \in offered THEN "open"
                           ELSE IF o.lineStatus[l] = "open" THEN "declined"
                           ELSE o.lineStatus[l]
  BY DEF QuoteSent, QuoteTx, OpenLines, Ticket
<1>4. \A l \in Lines : n.quantity[l] = IF l \in offered THEN q[l] ELSE o.quantity[l]
  BY DEF QuoteSent, QuoteTx, Ticket
<1>5. o.closed = FALSE
  BY DEF Good, ClosedInv, CanQuote, Ticket
<1>6. \A l \in Lines : n.shipped[l] = 0
  BY <1>2 DEF Good, RequestedInv, CanQuote
<1> HIDE DEF n
<1>7. LockInv(n) /\ ClosedInv(n) /\ ShortInv(n) /\ SomeInv(n)
  BY <1>2, <1>5 DEF LockInv, ClosedInv, ShortInv, SomeInv, Locked
<1>8. QuoteInv(n)
  BY <1>2, <1>3 DEF QuoteInv, OpenLines
<1>9. RequestedInv(n)
  BY <1>1, <1>3, <1>4, <1>6 DEF RequestedInv, Good, CanQuote
<1>10. LineInv(n)
  <2> SUFFICES ASSUME NEW l \in Lines
               PROVE  /\ n.lineStatus[l] \in {"dispatched", "delivered"} => Covered(n, l)
                      /\ n.lineStatus[l] # "delivered"
    BY <1>6 DEF LineInv
  <2>1. n.lineStatus[l] \in {"dispatched", "delivered"}
           => n.lineStatus[l] = o.lineStatus[l] /\ n.quantity[l] = o.quantity[l]
    BY <1>3, <1>4
  <2>2. /\ o.lineStatus[l] \in {"dispatched", "delivered"} => Covered(o, l)
        /\ o.lineStatus[l] # "delivered"
    BY DEF Good, LineInv, CanQuote
  <2> QED BY <2>1, <2>2, <1>2 DEF Covered
<1> QED BY <1>7, <1>8, <1>9, <1>10 DEF Good, n

\* The order follows its lines: all declined, all decided, or still requested.
LEMMA DecideGood ==
    ASSUME NEW o \in Ticket, Good(o), NEW yes \in SUBSET Lines, NEW no \in SUBSET Lines,
           NEW q \in [Lines -> Quantities], NEW priced \in SUBSET Lines,
           CanDecide(o, yes, no)
    PROVE  LET v == DecideLineWrites(o, o, yes, no, q, priced)
           IN Good(SellerSpoke(DecideRollUp(v, o, v, yes)))
<1> DEFINE v == DecideLineWrites(o, o, yes, no, q, priced)
           n == SellerSpoke(DecideRollUp(v, o, v, yes))
<1>1. \A l \in Lines : q[l] \in Nat /\ q[l] > 0
  BY AmountPositive
<1>2. /\ v.status = "requested" /\ v.closed = o.closed /\ v.quoted = o.quoted
      /\ v.sellerMoved = o.sellerMoved /\ v.shipped = o.shipped
      /\ v.rated = o.rated \cup priced
  BY DEF DecideLineWrites, CanDecide, Ticket
<1>3. \A l \in Lines : v.lineStatus[l] = IF l \in yes THEN "confirmed"
                                         ELSE IF l \in no THEN "declined"
                                         ELSE o.lineStatus[l]
  BY DEF DecideLineWrites, Ticket
<1>4. \A l \in Lines : v.quantity[l] = IF l \in yes THEN q[l] ELSE o.quantity[l]
  BY DEF DecideLineWrites, Ticket
<1>5. v \in Ticket
  BY DecideType
<1>6. o.closed = FALSE
  BY DEF Good, ClosedInv, CanDecide, Ticket
<1>7. \A l \in Lines : v.shipped[l] = 0
  BY <1>2 DEF Good, RequestedInv, CanDecide
<1> HIDE DEF v
<1>8. /\ n.lineStatus = v.lineStatus /\ n.quantity = v.quantity
      /\ n.shipped = v.shipped /\ n.rated = v.rated /\ n.quoted = v.quoted
      /\ n.sellerMoved = TRUE
  BY <1>5 DEF SellerSpoke, DecideRollUp, Ticket
<1>9. \/ /\ n.status = "declined" /\ n.closed = TRUE
      \/ /\ n.status = "confirmed" /\ n.closed = v.closed /\ OpenLines(v) = {}
         /\ \E l \in Lines : v.lineStatus[l] = "confirmed"
      \/ n.status = "requested" /\ n.closed = v.closed
  BY <1>2, <1>5 DEF SellerSpoke, DecideRollUp, Ticket
<1>10. \A l \in Lines : v.lineStatus[l] \in {"open", "confirmed"} => v.quantity[l] > 0
  BY <1>1, <1>3, <1>4 DEF Good, RequestedInv, CanDecide
<1> HIDE DEF n
<1>11. LockInv(n)
  BY <1>8, <1>9 DEF LockInv, Locked, OpenLines
<1>12. QuoteInv(n)
  <2>1. OpenLines(n) \subseteq OpenLines(o)
    BY <1>3, <1>8 DEF OpenLines, CanDecide
  <2> QED BY <2>1, <1>2, <1>8 DEF QuoteInv, Good, CanDecide
<1>13. ClosedInv(n)
  BY <1>2, <1>6, <1>9 DEF ClosedInv
<1>14. RequestedInv(n)
  BY <1>7, <1>8, <1>10 DEF RequestedInv
<1>15. ShortInv(n)
  <2>1. CASE n.status = "confirmed"
    <3>1. PICK l \in Lines : v.lineStatus[l] = "confirmed"
      BY <2>1, <1>9
    <3>2. v.quantity[l] > 0 /\ v.quantity[l] \in Nat /\ v.shipped[l] = 0
      BY <3>1, <1>5, <1>7, <1>10 DEF Ticket
    <3> QED BY <2>1, <3>1, <3>2, <1>8 DEF ShortInv, Covered
  <2> QED BY <2>1, <1>9 DEF ShortInv
<1>16. SomeInv(n)
  BY <1>7, <1>8, <1>9 DEF SomeInv, AnyShipped, Shippable, Items
<1>17. LineInv(n)
  <2> SUFFICES ASSUME NEW l \in Lines
               PROVE  /\ n.lineStatus[l] \in {"dispatched", "delivered"} => Covered(n, l)
                      /\ n.lineStatus[l] # "delivered"
    BY <1>7, <1>8 DEF LineInv
  <2>1. n.lineStatus[l] \in {"dispatched", "delivered"}
           => n.lineStatus[l] = o.lineStatus[l] /\ n.quantity[l] = o.quantity[l]
    BY <1>3, <1>4, <1>8
  <2>2. /\ o.lineStatus[l] \in {"dispatched", "delivered"} => Covered(o, l)
        /\ o.lineStatus[l] # "delivered"
    BY DEF Good, LineInv, CanDecide
  <2> QED BY <2>1, <2>2, <1>2, <1>8 DEF Covered
<1> QED BY <1>11, <1>12, <1>13, <1>14, <1>15, <1>16, <1>17 DEF Good, n, v

LEMMA DeclineGood ==
    ASSUME NEW o \in Ticket, Good(o), CanDecline(o)
    PROVE  Good(SellerSpoke(DeclineOpenLines(DeclineStatus(o))))
<1> DEFINE n == SellerSpoke(DeclineOpenLines(DeclineStatus(o)))
<1>1. /\ n.status = "declined" /\ n.closed = TRUE /\ n.sellerMoved = TRUE
      /\ n.shipped = o.shipped /\ n.quantity = o.quantity
  BY DEF SellerSpoke, DeclineOpenLines, DeclineStatus, Ticket
<1>2. \A l \in Lines : n.lineStatus[l] = IF o.lineStatus[l] = "open" THEN "declined"
                                         ELSE o.lineStatus[l]
  BY DEF SellerSpoke, DeclineOpenLines, DeclineStatus, SetLines, OpenLines, Ticket
<1>3. \A l \in Lines : n.shipped[l] = 0
  BY <1>1 DEF Good, RequestedInv, CanDecline
<1> HIDE DEF n
<1>4. LockInv(n) /\ QuoteInv(n) /\ ClosedInv(n) /\ RequestedInv(n) /\ ShortInv(n)
  BY <1>1 DEF LockInv, QuoteInv, ClosedInv, RequestedInv, ShortInv, Locked
<1>5. SomeInv(n)
  BY <1>1, <1>3 DEF SomeInv
<1>6. LineInv(n)
  BY <1>1, <1>2, <1>3 DEF LineInv, Good, Covered, CanDecline
<1> QED BY <1>4, <1>5, <1>6 DEF Good, n

LEMMA CancelGood ==
    ASSUME NEW o \in Ticket, Good(o), CanCancel(o)
    PROVE  Good(CancelWrite(o))
<1> DEFINE n == CancelWrite(o)
<1>1. /\ n.status = "cancelled" /\ n.closed = TRUE /\ n.sellerMoved = o.sellerMoved
      /\ n.quoted = o.quoted /\ n.lineStatus = o.lineStatus
      /\ n.shipped = o.shipped /\ n.quantity = o.quantity
  BY DEF CancelWrite, Ticket
<1> HIDE DEF n
<1>2. LockInv(n) /\ ClosedInv(n) /\ RequestedInv(n) /\ ShortInv(n) /\ SomeInv(n)
  BY <1>1 DEF LockInv, ClosedInv, RequestedInv, ShortInv, SomeInv, Locked
<1>3. QuoteInv(n)
  BY <1>1 DEF QuoteInv, Good
<1>4. LineInv(n)
  BY <1>1 DEF LineInv, Good, Covered, CanCancel
<1> QED BY <1>2, <1>3, <1>4 DEF Good, n

\* The write of the order row that setLineSupply, setLineQuantity and editShipment
\* share: the status is the roll-up of the lines as they now stand.
LEMMA RollUpGood ==
    ASSUME NEW o \in Ticket, OpenLines(o) = {}, QuoteInv(o), LineInv(o),
           \A l \in Lines : o.lineStatus[l] # "delivered"
    PROVE  Good(StatusWrite(o, RollUp(o)))
<1> DEFINE st == RollUp(o)
           n == StatusWrite(o, st)
<1>1. /\ n.status = st /\ n.quoted = o.quoted /\ n.sellerMoved = o.sellerMoved
      /\ n.lineStatus = o.lineStatus /\ n.quantity = o.quantity /\ n.shipped = o.shipped
      /\ n.closed = (st \in {"dispatched", "declined"})
  BY DEF StatusWrite, Ticket
<1>2. \/ st = "dispatched" /\ AllOut(o)
      \/ st = "part_shipped" /\ ~AllOut(o) /\ AnyShipped(o)
      \/ st = "confirmed" /\ ~AllOut(o) /\ ~AnyShipped(o)
  BY DEF RollUp
<1>3. ~AllOut(o) => \E l \in Lines : o.lineStatus[l] = "confirmed" /\ ~Covered(o, l)
  BY DEF AllOut, LineOut, Shippable, Items, OpenLines, Ticket, LineStatus
<1>4. AllOut(o) => \A l \in Shippable(o) : Covered(o, l)
  BY DEF AllOut, LineOut, Shippable, Items, LineInv
<1>5. /\ OpenLines(n) = OpenLines(o) /\ Shippable(n) = Shippable(o)
      /\ AnyShipped(n) = AnyShipped(o) /\ \A l \in Lines : Covered(n, l) = Covered(o, l)
  BY <1>1 DEF OpenLines, Shippable, Items, AnyShipped, Covered
<1> HIDE DEF n, st
<1>6. LockInv(n)
  BY <1>5 DEF LockInv
<1>7. QuoteInv(n)
  BY <1>1, <1>2 DEF QuoteInv
<1>8. ClosedInv(n) /\ RequestedInv(n)
  BY <1>1, <1>2 DEF ClosedInv, RequestedInv
<1>9. ShortInv(n)
  BY <1>1, <1>2, <1>3, <1>4, <1>5 DEF ShortInv, Shippable, Items
<1>10. SomeInv(n)
  BY <1>1, <1>2, <1>5 DEF SomeInv
<1>11. LineInv(n)
  BY <1>1, <1>5 DEF LineInv
<1> QED BY <1>6, <1>7, <1>8, <1>9, <1>10, <1>11 DEF Good, n, st

LEMMA SupplyGood ==
    ASSUME NEW o \in Ticket, Good(o), NEW cant \in SUBSET Lines,
           NEW back \in SUBSET Lines, CanSetSupply(o, cant, back)
    PROVE  LET v == SetSupplyLines(o, o, cant, back) IN Good(SetSupplyStatus(v, v))
<1> DEFINE v == SetSupplyLines(o, o, cant, back)
<1>1. v \in Ticket
  BY SupplyType
<1>2. /\ v.status = o.status /\ v.quoted = o.quoted /\ v.sellerMoved = o.sellerMoved
      /\ v.shipped = o.shipped
  BY DEF SetSupplyLines, Ticket
<1>3. \A l \in Lines :
         \/ v.lineStatus[l] = "declined" /\ o.lineStatus[l] # "none"
         \/ v.lineStatus[l] = "confirmed" /\ o.lineStatus[l] # "none"
         \/ v.lineStatus[l] = o.lineStatus[l] /\ v.quantity[l] = o.quantity[l]
  BY DEF SetSupplyLines, CantChange, BackChange, CanSetSupply, Items, Ticket
<1> HIDE DEF v
<1>4. o.status \in Fulfilling
  BY DEF CanSetSupply
<1>5. OpenLines(v) = {}
  BY <1>3, <1>4 DEF OpenLines, Good, LockInv, Locked, Fulfilling
<1>6. QuoteInv(v)
  BY <1>2, <1>4 DEF QuoteInv, Good, Fulfilling
<1>7. \A l \in Lines : v.lineStatus[l] # "delivered"
  BY <1>3, <1>4 DEF Good, LineInv, Fulfilling
<1>8. LineInv(v)
  <2> SUFFICES ASSUME NEW l \in Lines
               PROVE  /\ v.lineStatus[l] = "dispatched" => Covered(v, l)
                      /\ v.lineStatus[l] = "none" => v.shipped[l] = 0
    BY <1>7 DEF LineInv
  <2>1. /\ o.lineStatus[l] = "dispatched" => Covered(o, l)
        /\ o.lineStatus[l] = "none" => o.shipped[l] = 0
    BY DEF Good, LineInv
  <2> QED BY <2>1, <1>2, <1>3 DEF Covered
<1>9. CASE Shippable(v) # {}
  <2>1. SetSupplyStatus(v, v) = StatusWrite(v, RollUp(v))
    BY <1>9 DEF SetSupplyStatus, SupplyRollUp
  <2>2. Good(StatusWrite(v, RollUp(v)))
    BY <1>1, <1>5, <1>6, <1>7, <1>8, RollUpGood
  <2> QED BY <2>1, <2>2 DEF v
<1>10. CASE Shippable(v) = {}
  <2> DEFINE out == \E l \in Items(v) : v.shipped[l] > 0
             n == SetSupplyStatus(v, v)
  <2>1. n.status = IF out THEN "dispatched" ELSE "declined"
    BY <1>1, <1>10 DEF SetSupplyStatus, SupplyRollUp, StatusWrite, Ticket
  <2>2. n.closed = TRUE
    BY <1>1, <1>10 DEF SetSupplyStatus, SupplyRollUp, StatusWrite, Ticket
  <2>3. /\ n.quoted = v.quoted /\ n.sellerMoved = v.sellerMoved
        /\ n.lineStatus = v.lineStatus /\ n.quantity = v.quantity /\ n.shipped = v.shipped
    BY <1>1 DEF SetSupplyStatus, StatusWrite, Ticket
  <2>4. ~out => \A l \in Lines : v.shipped[l] = 0
    <3> SUFFICES ASSUME ~out, NEW l \in Lines PROVE v.shipped[l] = 0
      OBVIOUS
    <3>1. v.lineStatus[l] = "none" => v.shipped[l] = 0
      BY <1>8 DEF LineInv
    <3>2. v.lineStatus[l] # "none" => ~(v.shipped[l] > 0)
      BY DEF Items
    <3>3. v.shipped[l] \in Nat
      BY <1>1 DEF Ticket
    <3> QED BY <3>1, <3>2, <3>3
  <2> HIDE DEF n
  <2>5. LockInv(n) /\ ClosedInv(n) /\ RequestedInv(n)
    BY <2>1, <2>2, <2>3, <1>5 DEF LockInv, ClosedInv, RequestedInv, OpenLines
  <2>6. QuoteInv(n)
    BY <2>1, <2>3, <1>6 DEF QuoteInv
  <2>7. ShortInv(n)
    BY <2>1, <2>3, <1>10 DEF ShortInv, Shippable, Items
  <2>8. SomeInv(n)
    BY <2>1, <2>3, <2>4 DEF SomeInv
  <2>9. LineInv(n)
    <3>1. \A l \in Lines : Covered(n, l) = Covered(v, l)
      BY <2>3 DEF Covered
    <3> QED BY <3>1, <2>3, <1>7, <1>8 DEF LineInv
  <2> QED BY <2>5, <2>6, <2>7, <2>8, <2>9 DEF Good, n, v
<1> QED BY <1>9, <1>10

LEMMA QuantityGood ==
    ASSUME NEW o \in Ticket, Good(o), NEW lines \in SUBSET Lines,
           NEW q \in [Lines -> Quantities], CanSetQuantity(o, lines, q)
    PROVE  LET v == SetQuantityLines(o, o, lines, q) IN Good(SetQuantityStatus(v, v))
<1> DEFINE v == SetQuantityLines(o, o, lines, q)
<1>1. v \in Ticket
  BY QuantityType
<1>2. /\ v.status = o.status /\ v.quoted = o.quoted /\ v.sellerMoved = o.sellerMoved
      /\ v.shipped = o.shipped
  BY DEF SetQuantityLines, Ticket
<1>3. \A l \in Lines :
         \/ v.lineStatus[l] = "dispatched" /\ Covered(v, l)
         \/ v.lineStatus[l] = "confirmed"
         \/ v.lineStatus[l] = o.lineStatus[l] /\ v.quantity[l] = o.quantity[l]
  BY DEF SetQuantityLines, Covered, Ticket
<1>4. PICK l0 \in lines : q[l0] # o.quantity[l0]
  BY DEF CanSetQuantity
<1>5. v.lineStatus[l0] \in {"dispatched", "confirmed"}
  BY <1>4 DEF SetQuantityLines, Ticket
<1> HIDE DEF v
<1>6. o.status \in Fulfilling
  BY DEF CanSetQuantity
<1>7. OpenLines(v) = {}
  BY <1>3, <1>6 DEF OpenLines, Good, LockInv, Locked, Fulfilling
<1>8. QuoteInv(v)
  BY <1>2, <1>6 DEF QuoteInv, Good, Fulfilling
<1>9. \A l \in Lines : v.lineStatus[l] # "delivered"
  BY <1>3, <1>6 DEF Good, LineInv, Fulfilling
<1>10. LineInv(v)
  <2> SUFFICES ASSUME NEW l \in Lines
               PROVE  /\ v.lineStatus[l] = "dispatched" => Covered(v, l)
                      /\ v.lineStatus[l] = "none" => v.shipped[l] = 0
    BY <1>9 DEF LineInv
  <2>1. /\ o.lineStatus[l] = "dispatched" => Covered(o, l)
        /\ o.lineStatus[l] = "none" => o.shipped[l] = 0
    BY DEF Good, LineInv
  <2> QED BY <2>1, <1>2, <1>3 DEF Covered
<1>11. Shippable(v) # {}
  BY <1>5 DEF Shippable, Items
<1> QED BY <1>1, <1>7, <1>8, <1>9, <1>10, <1>11, RollUpGood DEF SetQuantityStatus, v

LEMMA EditShipmentGood ==
    ASSUME NEW o \in Ticket, Good(o), NEW was \in [Lines -> 0..MaxShipped],
           NEW now \in [Lines -> 0..MaxShipped], CanEditShipment(o, was, now)
    PROVE  LET v == EditShipmentRow(o, was, now)
               w == EditShipmentLines(v, v)
           IN Good(EditShipmentStatus(w, w))
<1> DEFINE v == EditShipmentRow(o, was, now)
           w == EditShipmentLines(v, v)
<1>1. v \in Ticket /\ w \in Ticket
  <2>1. v \in Ticket
    BY EditShipmentType
  <2> HIDE DEF v
  <2> QED BY <2>1, EditShipmentType
<1>2. /\ v.status = o.status /\ v.quoted = o.quoted /\ v.sellerMoved = o.sellerMoved
      /\ v.lineStatus = o.lineStatus /\ v.quantity = o.quantity
      /\ \A l \in Lines : v.shipped[l] = (o.shipped[l] - was[l]) + now[l]
  BY DEF EditShipmentRow, Ticket
<1> HIDE DEF v
<1>3. /\ w.status = v.status /\ w.quoted = v.quoted /\ w.sellerMoved = v.sellerMoved
      /\ w.quantity = v.quantity /\ w.shipped = v.shipped
  BY <1>1 DEF EditShipmentLines, Ticket
<1>4. \A l \in Lines :
         \/ w.lineStatus[l] = "dispatched" /\ Covered(v, l)
         \/ w.lineStatus[l] = "confirmed"
         \/ w.lineStatus[l] = v.lineStatus[l] /\ v.lineStatus[l] # "dispatched"
  BY <1>1 DEF EditShipmentLines, InPlay, Ticket
<1> HIDE DEF w
<1>5. o.status \in Fulfilling
  BY DEF CanEditShipment
<1>6. OpenLines(w) = {}
  BY <1>2, <1>4, <1>5 DEF OpenLines, Good, LockInv, Locked, Fulfilling
<1>7. QuoteInv(w)
  BY <1>2, <1>3, <1>5 DEF QuoteInv, Good, Fulfilling
<1>8. \A l \in Lines : w.lineStatus[l] # "delivered"
  BY <1>2, <1>4, <1>5 DEF Good, LineInv, Fulfilling
<1>9. LineInv(w)
  <2> SUFFICES ASSUME NEW l \in Lines
               PROVE  /\ w.lineStatus[l] = "dispatched" => Covered(w, l)
                      /\ w.lineStatus[l] = "none" => w.shipped[l] = 0
    BY <1>8 DEF LineInv
  <2>1. w.lineStatus[l] = "none" => o.lineStatus[l] = "none"
    BY <1>2, <1>4
  <2>2. o.lineStatus[l] = "none" => o.shipped[l] = 0 /\ was[l] = 0 /\ now[l] = 0
    <3>1. o.lineStatus[l] = "none" => o.shipped[l] = 0
      BY DEF Good, LineInv
    <3>2. was[l] <= o.shipped[l] /\ (now[l] > 0 => l \in Items(o))
      BY DEF CanEditShipment
    <3>3. was[l] \in Nat /\ now[l] \in Nat
      BY BoundsAssumption
    <3> QED BY <3>1, <3>2, <3>3 DEF Items
  <2>3. Covered(w, l) = Covered(v, l)
    BY <1>3 DEF Covered
  <2> QED BY <2>1, <2>2, <2>3, <1>2, <1>3, <1>4
<1> QED BY <1>1, <1>6, <1>7, <1>8, <1>9, RollUpGood DEF EditShipmentStatus, v, w

LEMMA DispatchGood ==
    ASSUME NEW o \in Ticket, Good(o), NEW parcel \in [Lines -> Amounts],
           CanDispatch(o, parcel)
    PROVE  Good(DispatchStatus(DispatchLines(DispatchShipment(o, parcel), o, parcel),
                               o, parcel))
<1> DEFINE v == DispatchLines(DispatchShipment(o, parcel), o, parcel)
           n == DispatchStatus(v, o, parcel)
<1>1. v \in Ticket
  BY DispatchType
<1>2. /\ v.status = o.status /\ v.quoted = o.quoted /\ v.sellerMoved = o.sellerMoved
      /\ v.quantity = o.quantity /\ v.closed = o.closed
      /\ \A l \in Lines : v.shipped[l] = o.shipped[l] + parcel[l]
  BY DEF DispatchLines, DispatchShipment, Ticket
<1>3. \A l \in Lines :
         v.lineStatus[l] = IF l \in InPlay(o) /\ Covered(v, l) THEN "dispatched"
                           ELSE o.lineStatus[l]
  BY DEF DispatchLines, DispatchShipment, FullyShipped, AfterParcel, InPlay, Covered,
         Ticket
<1>4. DispatchComplete(o, parcel) =
         (AllOut(v) /\ \A l \in Lines : v.lineStatus[l] # "confirmed")
  BY DEF DispatchComplete, AfterParcel
<1> HIDE DEF v
<1>5. o.status \in {"confirmed", "part_shipped"}
  BY DEF CanDispatch
<1>6. \A l \in Lines : o.shipped[l] \in Nat /\ parcel[l] \in Nat /\ o.quantity[l] \in Nat
  <2>1. Amounts \subseteq Nat
    BY QuantitiesAssumption DEF Amounts
  <2> QED BY <2>1 DEF Ticket
<1>7. \A l \in Lines : Covered(o, l) => Covered(v, l)
  BY <1>2, <1>6 DEF Covered
<1>8. \A l \in Lines : v.lineStatus[l] # "open" /\ v.lineStatus[l] # "delivered"
  BY <1>3, <1>5 DEF Good, LockInv, Locked, OpenLines, LineInv
<1>9. LineInv(v)
  <2> SUFFICES ASSUME NEW l \in Lines
               PROVE  /\ v.lineStatus[l] = "dispatched" => Covered(v, l)
                      /\ v.lineStatus[l] = "none" => v.shipped[l] = 0
    BY <1>8 DEF LineInv
  <2>1. /\ o.lineStatus[l] = "dispatched" => Covered(o, l)
        /\ o.lineStatus[l] = "none" => o.shipped[l] = 0
    BY DEF Good, LineInv
  <2>2. o.lineStatus[l] = "none" => ~(parcel[l] > 0)
    BY DEF CanDispatch, InPlay
  <2> QED BY <2>1, <2>2, <1>2, <1>3, <1>6, <1>7
<1>10. /\ n.lineStatus = v.lineStatus /\ n.quantity = v.quantity /\ n.shipped = v.shipped
       /\ n.quoted = v.quoted /\ n.sellerMoved = v.sellerMoved
  BY <1>1 DEF DispatchStatus, Ticket
<1>11. \/ /\ DispatchComplete(o, parcel) /\ n.status = "dispatched" /\ n.closed = TRUE
       \/ /\ ~DispatchComplete(o, parcel) /\ n.status = "part_shipped"
          /\ n.closed = v.closed
  BY <1>1 DEF DispatchStatus, Ticket
<1>12. v.closed = FALSE
  BY <1>2, <1>5 DEF Good, ClosedInv, Ticket
<1> HIDE DEF n
<1>13. LockInv(n) /\ QuoteInv(n)
  BY <1>2, <1>8, <1>10, <1>11 DEF LockInv, OpenLines, QuoteInv, Good
<1>14. ClosedInv(n) /\ RequestedInv(n)
  BY <1>11, <1>12 DEF ClosedInv, RequestedInv
<1>15. /\ Shippable(n) = Shippable(v) /\ AnyShipped(n) = AnyShipped(v)
       /\ \A l \in Lines : Covered(n, l) = Covered(v, l)
  BY <1>10 DEF Shippable, Items, AnyShipped, Covered
<1>16. ShortInv(n)
  <2>1. CASE DispatchComplete(o, parcel)
    <3>1. \A l \in Shippable(v) : Covered(v, l)
      BY <2>1, <1>4, <1>9 DEF AllOut, LineOut, LineInv, Shippable, Items
    <3> QED BY <2>1, <3>1, <1>11, <1>15 DEF ShortInv, Shippable, Items
  <2>2. CASE ~DispatchComplete(o, parcel)
    <3>1. \E l \in Lines : v.lineStatus[l] = "confirmed" /\ ~Covered(v, l)
      <4>1. CASE ~AllOut(v)
        BY <4>1, <1>1, <1>8 DEF AllOut, LineOut, Shippable, Items, Ticket, LineStatus
      <4>2. CASE \E l \in Lines : v.lineStatus[l] = "confirmed"
        BY <4>2, <1>3 DEF InPlay
      <4> QED BY <4>1, <4>2, <2>2, <1>4
    <3> QED BY <2>2, <3>1, <1>10, <1>11, <1>15 DEF ShortInv
  <2> QED BY <2>1, <2>2
<1>17. SomeInv(n)
  <2>1. PICK l \in Lines : parcel[l] > 0
    BY DEF CanDispatch
  <2>2. l \in InPlay(o)
    BY <2>1 DEF CanDispatch
  <2>3. l \in Shippable(v)
    BY <2>2, <1>3 DEF InPlay, Shippable, Items
  <2>4. v.shipped[l] > 0
    BY <2>1, <1>2, <1>6
  <2> QED BY <2>3, <2>4, <1>11, <1>15 DEF SomeInv, AnyShipped
<1>18. LineInv(n)
  BY <1>8, <1>9, <1>10, <1>15 DEF LineInv
<1> QED BY <1>13, <1>14, <1>16, <1>17, <1>18 DEF Good, n, v

LEMMA SettleGood ==
    ASSUME NEW o \in Ticket, Good(o), NEW final \in [Lines -> 0..MaxShipped],
           CanSettle(o, final)
    PROVE  Good(SettleStatus(SettleLines(o, o, final)))
<1> DEFINE n == SettleStatus(SettleLines(o, o, final))
<1>1. /\ n.status = "settled" /\ n.closed = TRUE /\ n.quoted = o.quoted
      /\ n.sellerMoved = o.sellerMoved /\ n.shipped = o.shipped
  BY DEF SettleStatus, SettleLines, Ticket
<1>2. \A l \in Lines :
         n.lineStatus[l] = IF l \notin Shippable(o) THEN o.lineStatus[l]
                           ELSE IF final[l] = 0 THEN "declined" ELSE "dispatched"
  BY DEF SettleStatus, SettleLines, Ticket
<1>3. \A l \in Shippable(o) : n.quantity[l] = final[l]
  BY DEF SettleStatus, SettleLines, Shippable, Items, Ticket
<1> HIDE DEF n
<1>4. \A l \in Shippable(o) : Covered(n, l)
  <2> SUFFICES ASSUME NEW l \in Shippable(o) PROVE n.shipped[l] >= n.quantity[l]
    BY DEF Covered
  <2>1. l \in Lines /\ final[l] <= o.shipped[l]
    BY DEF CanSettle, Shippable, Items
  <2>2. final[l] \in Nat /\ o.shipped[l] \in Nat
    BY <2>1, BoundsAssumption DEF Ticket
  <2> QED BY <2>1, <2>2, <1>1, <1>3
<1>5. \A l \in Lines : n.lineStatus[l] = "dispatched" => l \in Shippable(o)
  BY <1>2 DEF Shippable, Items
<1>6. \A l \in Lines : n.lineStatus[l] \notin {"open", "delivered"}
  BY <1>2 DEF Shippable, Items
<1>7. LockInv(n)
  BY <1>6 DEF LockInv, OpenLines
<1>8. QuoteInv(n)
  BY <1>1 DEF QuoteInv, Good
<1>9. ClosedInv(n) /\ RequestedInv(n) /\ SomeInv(n)
  BY <1>1 DEF ClosedInv, RequestedInv, SomeInv
<1>10. ShortInv(n)
  BY <1>1, <1>2, <1>4 DEF ShortInv, Shippable, Items
<1>11. LineInv(n)
  <2>1. \A l \in Lines : n.lineStatus[l] = "none" => n.shipped[l] = 0
    BY <1>1, <1>2 DEF Good, LineInv
  <2> QED BY <2>1, <1>4, <1>5, <1>6 DEF LineInv
<1> QED BY <1>7, <1>8, <1>9, <1>10, <1>11 DEF Good, n

LEMMA DeliverGood ==
    ASSUME NEW o \in Ticket, Good(o), CanDeliver(o)
    PROVE  Good(DeliverStatus(DeliverLines(o)))
<1> DEFINE n == DeliverStatus(DeliverLines(o))
<1>1. /\ n.status = "delivered" /\ n.closed = o.closed /\ n.quoted = o.quoted
      /\ n.sellerMoved = o.sellerMoved /\ n.shipped = o.shipped
      /\ n.quantity = o.quantity
  BY DEF DeliverStatus, DeliverLines, Ticket
<1>2. \A l \in Lines : n.lineStatus[l] = IF l \in InPlay(o) THEN "delivered"
                                         ELSE o.lineStatus[l]
  BY DEF DeliverStatus, DeliverLines, SetLines, Ticket
<1>3. o.closed = TRUE
  BY DEF Good, ClosedInv, CanDeliver, Ticket
<1> HIDE DEF n
<1>4. \A l \in Lines : Covered(n, l) = Covered(o, l)
  BY <1>1 DEF Covered
<1>5. Shippable(n) = Shippable(o)
  BY <1>2 DEF Shippable, Items, InPlay
<1>6. LockInv(n)
  BY <1>2 DEF LockInv, OpenLines, Good, Locked, CanDeliver
<1>7. QuoteInv(n)
  BY <1>1 DEF QuoteInv, Good
<1>8. ClosedInv(n) /\ RequestedInv(n) /\ SomeInv(n)
  BY <1>1, <1>3 DEF ClosedInv, RequestedInv, SomeInv
<1>9. ShortInv(n)
  <2>1. \A l \in Shippable(o) : Covered(o, l)
    BY DEF ShortInv, Good, CanDeliver
  <2> QED BY <2>1, <1>1, <1>4, <1>5 DEF ShortInv, Shippable, Items
<1>10. LineInv(n)
  <2>1. \A l \in Lines : n.lineStatus[l] \in {"dispatched", "delivered"}
                          => Covered(n, l)
    BY <1>2, <1>4 DEF Good, ShortInv, LineInv, CanDeliver, InPlay, Shippable, Items
  <2>2. \A l \in Lines : n.lineStatus[l] = "none" => n.shipped[l] = 0
    BY <1>1, <1>2 DEF Good, LineInv
  <2> QED BY <2>1, <2>2, <1>1 DEF LineInv
<1> QED BY <1>6, <1>7, <1>8, <1>9, <1>10 DEF Good, n

\* The thread message the seller's buttons leave behind.
LEMMA SpokeGood ==
    ASSUME NEW o \in Ticket, Good(o)
    PROVE  Good(SellerSpoke(o))
<1> DEFINE n == SellerSpoke(o)
<1>1. /\ n.status = o.status /\ n.lineStatus = o.lineStatus /\ n.shipped = o.shipped
      /\ n.quantity = o.quantity /\ n.rated = o.rated /\ n.closed = o.closed
      /\ n.quoted = o.quoted /\ n.sellerMoved = TRUE
  BY DEF SellerSpoke, Ticket
<1> HIDE DEF n
<1>2. SameForGood(o, n)
  BY <1>1 DEF SameForGood
<1>3. QuoteInv(n)
  BY <1>1 DEF Good, QuoteInv, OpenLines
<1> QED BY <1>2, <1>3, FrameGood DEF n

LEMMA LapseGood ==
    ASSUME NEW o \in Ticket, Good(o)
    PROVE  Good([o EXCEPT !.returnWindow = "lapsed"])
<1> DEFINE n == [o EXCEPT !.returnWindow = "lapsed"]
<1>1. /\ n.status = o.status /\ n.lineStatus = o.lineStatus /\ n.shipped = o.shipped
      /\ n.quantity = o.quantity /\ n.rated = o.rated /\ n.closed = o.closed
      /\ n.quoted = o.quoted /\ n.sellerMoved = o.sellerMoved
  BY DEF Ticket
<1> HIDE DEF n
<1>2. SameForGood(o, n)
  BY <1>1 DEF SameForGood
<1>3. QuoteInv(n)
  BY <1>1 DEF Good, QuoteInv, OpenLines
<1> QED BY <1>2, <1>3, FrameGood DEF n

LEMMA InitGood == Init => Good(order)
<1> SUFFICES ASSUME Init PROVE Good(order)
  OBVIOUS
<1>1. PICK placed \in Some(Lines), q \in [Lines -> Quantities], ask \in BOOLEAN :
         \E priced \in SUBSET placed : order = NewTicket(placed, q, priced, ask)
  BY DEF Init
<1>2. placed \in SUBSET Lines
  BY DEF Some
<1>3. PICK priced \in SUBSET placed : order = NewTicket(placed, q, priced, ask)
  BY <1>1
<1> QED BY <1>2, <1>3, NewTicketGood

LEMMA NextGood == TypeOK /\ Good(order) /\ [Next]_vars => Good(order')
<1> SUFFICES ASSUME TypeOK, Good(order), [Next]_vars PROVE Good(order')
  OBVIOUS
<1> order \in Ticket
  BY DEF TypeOK
<1>1. CASE Amend
  <2>1. PICK kept \in SUBSET Items(order), added \in SUBSET (Lines \ Items(order)),
             q \in [Lines -> Quantities] :
               \E priced \in SUBSET (kept \cup added) :
                  order' = AmendWrite(order, order, kept, added, q, priced)
    BY <1>1 DEF Amend, Becomes
  <2>2. PICK priced \in SUBSET (kept \cup added) :
               order' = AmendWrite(order, order, kept, added, q, priced)
    BY <2>1
  <2>3. CanAmend(order)
    BY <1>1 DEF Amend
  <2>4. priced \in SUBSET Lines
    BY DEF Items
  <2> QED BY <2>2, <2>3, <2>4, AmendGood
<1>2. CASE AcceptQuote
  <2>1. RatedOpen(order) = OpenLines(order)
    BY <1>2 DEF AcceptQuote, CanAcceptQuote, RatedOpen, Good, QuoteInv
  <2>2. /\ OpenLines(order) # {} /\ order.status = "requested"
        /\ order' = LockTx(order, order, OpenLines(order))
    BY <1>2, <2>1 DEF AcceptQuote, CanAcceptQuote, AcceptQuoteTx, Becomes
  <2> QED BY <2>2, LockGood
<1>3. CASE Cancel
  BY <1>3, CancelGood DEF Cancel, Becomes
<1>4. CASE Deliver
  BY <1>4, DeliverGood DEF Deliver, Schedules
<1>5. CASE Quote
  <2>1. PICK offered \in Some(Lines), q \in [Lines -> Quantities] :
               /\ CanQuote(order, offered)
               /\ order' = QuoteSent(QuoteTx(order, order, offered, q))
    BY <1>5 DEF Quote, Becomes
  <2>2. offered \in SUBSET Lines
    BY DEF Some
  <2> QED BY <2>1, <2>2, QuoteGood
<1>6. CASE Confirm
  <2> DEFINE n == LockTx(order, order, OpenLines(order))
  <2>1. Good(n) /\ n \in Ticket
    <3>1. OpenLines(order) \in SUBSET Lines
      BY DEF OpenLines
    <3> QED BY <1>6, <3>1, LockGood, LockType DEF Confirm, CanConfirm
  <2>2. order' = SellerSpoke(n)
    BY <1>6 DEF Confirm, ConfirmTx, Becomes
  <2> HIDE DEF n
  <2> QED BY <2>1, <2>2, SpokeGood
<1>7. CASE DecideLines
  <2>1. PICK yes \in SUBSET Lines, no \in SUBSET Lines, q \in [Lines -> Quantities] :
               /\ CanDecide(order, yes, no)
               /\ \E priced \in SUBSET yes :
                    LET v == DecideLineWrites(order, order, yes, no, q, priced)
                    IN order' = SellerSpoke(DecideRollUp(v, order, v, yes))
    BY <1>7 DEF DecideLines, Becomes
  <2>2. PICK priced \in SUBSET yes :
               LET v == DecideLineWrites(order, order, yes, no, q, priced)
               IN order' = SellerSpoke(DecideRollUp(v, order, v, yes))
    BY <2>1
  <2> QED BY <2>1, <2>2, DecideGood
<1>8. CASE Decline
  BY <1>8, DeclineGood DEF Decline, Becomes
<1>9. CASE SetLineSupply
  BY <1>9, SupplyGood DEF SetLineSupply, Becomes
<1>10. CASE SetLineQuantity
  <2>1. PICK lines \in Some(Lines), q \in [Lines -> Quantities] :
               /\ CanSetQuantity(order, lines, q)
               /\ LET v == SetQuantityLines(order, order, lines, q)
                  IN order' = SetQuantityStatus(v, v)
    BY <1>10 DEF SetLineQuantity, Becomes
  <2>2. lines \in SUBSET Lines
    BY DEF Some
  <2> QED BY <2>1, <2>2, QuantityGood
<1>11. CASE Dispatch
  <2>1. PICK parcel \in [Lines -> Amounts] :
               /\ CanDispatch(order, parcel)
               /\ order' = DispatchStatus(DispatchLines(DispatchShipment(order, parcel),
                                                        order, parcel), order, parcel)
    BY <1>11 DEF Dispatch, Becomes, Schedules
  <2> QED BY <2>1, DispatchGood
<1>12. CASE EditShipment
  <2>1. PICK was \in [Lines -> 0..MaxShipped], now \in [Lines -> 0..MaxShipped] :
               /\ CanEditShipment(order, was, now)
               /\ LET v == EditShipmentRow(order, was, now)
                      w == EditShipmentLines(v, v)
                  IN order' = EditShipmentStatus(w, w)
    BY <1>12 DEF EditShipment, Becomes
  <2> QED BY <2>1, EditShipmentGood
<1>13. CASE Settle
  <2>1. PICK final \in [Lines -> 0..MaxShipped] :
               /\ CanSettle(order, final)
               /\ order' = SettleStatus(SettleLines(order, order, final))
    BY <1>13 DEF Settle, Schedules
  <2> QED BY <2>1, SettleGood
<1>14. CASE TimePasses
  BY <1>14, LapseGood DEF TimePasses
<1>15. CASE ExpireWindow
  <2>1. CASE order.status = "delivered" /\ order.closed = FALSE
    BY <2>1 DEF Good, ClosedInv
  <2>2. CASE ~(order.status = "delivered" /\ order.closed = FALSE)
    BY <2>2, <1>15 DEF ExpireWindow, Ticket
  <2> QED BY <2>1, <2>2
<1>16. CASE UNCHANGED vars
  BY <1>16 DEF vars
<1> QED BY <1>1, <1>2, <1>3, <1>4, <1>5, <1>6, <1>7, <1>8, <1>9, <1>10, <1>11,
           <1>12, <1>13, <1>14, <1>15, <1>16 DEF Next, BuyerStep, SellerStep

\* Every reachable ticket is good.
THEOREM AlwaysGood == Spec => [](TypeOK /\ Good(order))
<1>1. Init => TypeOK /\ Good(order)
  BY InitType, InitGood
<1>2. TypeOK /\ Good(order) /\ [Next]_vars => (TypeOK /\ Good(order))'
  BY NextType, NextGood
<1> QED BY <1>1, <1>2, PTL DEF Spec

-----------------------------------------------------------------------------
(* What follows from it.                                                   *)

\* Whichever of confirm, acceptQuote and decideLines locks an order, no line of it
\* is left undecided.
THEOREM LockDecidesEveryLine == Spec => []NoOpenLineAfterLock
<1>1. Good(order) => NoOpenLineAfterLock
  BY DEF Good, LockInv, NoOpenLineAfterLock
<1> QED BY <1>1, AlwaysGood, PTL

\* closedAt and the status agree through every completion and reopening.
THEOREM ClosedFollowsStatus == Spec => []ClosedExactlyWhenOver
<1>1. Good(order) => ClosedExactlyWhenOver
  BY DEF Good, ClosedInv, ClosedExactlyWhenOver
<1> QED BY <1>1, AlwaysGood, PTL

\* The order status never says more, or less, than its lines and LRs do.
THEOREM StatusFollowsLines == Spec => []RollUpMatchesLines
<1>1. Good(order) => RollUpMatchesLines
  BY DEF Good, ShortInv, RollUpMatchesLines
<1> QED BY <1>1, AlwaysGood, PTL

\* Quantity edits, LR corrections and settlements keep an out line covered.
THEOREM OutLinesAreCovered == Spec => []DispatchedLineCovered
<1>1. Good(order) => DispatchedLineCovered
  BY DEF Good, LineInv, DispatchedLineCovered
<1> QED BY <1>1, AlwaysGood, PTL

\* Nothing leaves before the lock, nor on an order that ends up declined.
THEOREM ShipsOnlyLocked == Spec => []NothingShipsUnlocked
<1>1. Good(order) => NothingShipsUnlocked
  BY DEF Good, RequestedInv, SomeInv, NothingShipsUnlocked
<1> QED BY <1>1, AlwaysGood, PTL

\* The two sides of part_shipped, after every correction of what left.
THEOREM PartShippedIsExact == Spec => []PartShippedMeansSome
<1>1. Good(order) => PartShippedMeansSome
  BY DEF Good, SomeInv, PartShippedMeansSome
<1> QED BY <1>1, AlwaysGood, PTL

(***************************************************************************)
(* What a step of a ticket may never do, and the return window with its    *)
(* job.  The invariant above carries the argument; each operation is first *)
(* reduced to what it leaves alone.                                        *)
(***************************************************************************)

-----------------------------------------------------------------------------
(* What the operations leave alone.                                        *)

\* The operations before the lock and the cancel: the window is not touched,
\* the first confirmations are kept, and a seller's word is not taken back.
KeepsFirst(o, n) ==
    /\ n.returnWindow = o.returnWindow
    /\ o.sellerMoved => n.sellerMoved
    /\ \A l \in Lines : o.confirmedQuantity[l] # 0
                          => n.confirmedQuantity[l] = o.confirmedQuantity[l]

\* The operations after the lock stamp nothing either.
KeepsStamps(o, n) ==
    /\ n.returnWindow = o.returnWindow
    /\ n.sellerMoved = o.sellerMoved
    /\ n.confirmedQuantity = o.confirmedQuantity

LEMMA AskedKeeps ==
    ASSUME NEW o \in Ticket
    PROVE  /\ \A offered \in SUBSET Lines, q \in [Lines -> Quantities] :
                 LET n == QuoteSent(QuoteTx(o, o, offered, q))
                 IN KeepsFirst(o, n) /\ n.sellerMoved
           /\ KeepsFirst(o, SellerSpoke(ConfirmTx(o, o)))
           /\ SellerSpoke(ConfirmTx(o, o)).sellerMoved
           /\ KeepsFirst(o, AcceptQuoteTx(o, o))
           /\ \A yes, no, priced \in SUBSET Lines, q \in [Lines -> Quantities] :
                 LET v == DecideLineWrites(o, o, yes, no, q, priced)
                     n == SellerSpoke(DecideRollUp(v, o, v, yes))
                 IN KeepsFirst(o, n) /\ n.sellerMoved
           /\ KeepsFirst(o, SellerSpoke(DeclineOpenLines(DeclineStatus(o))))
           /\ SellerSpoke(DeclineOpenLines(DeclineStatus(o))).sellerMoved
           /\ KeepsStamps(o, CancelWrite(o))
<1>1. ASSUME NEW offered \in SUBSET Lines, NEW q \in [Lines -> Quantities]
      PROVE  LET n == QuoteSent(QuoteTx(o, o, offered, q))
             IN KeepsFirst(o, n) /\ n.sellerMoved
  BY DEF QuoteSent, QuoteTx, KeepsFirst, Ticket
<1>2. \A S \in SUBSET Lines :
         /\ KeepsFirst(o, LockTx(o, o, S))
         /\ KeepsFirst(o, SellerSpoke(LockTx(o, o, S)))
         /\ SellerSpoke(LockTx(o, o, S)).sellerMoved
  BY DEF LockTx, Stamp, SellerSpoke, KeepsFirst, Ticket
<1>3. OpenLines(o) \in SUBSET Lines /\ RatedOpen(o) \in SUBSET Lines
  BY DEF OpenLines, RatedOpen
<1>4. ASSUME NEW yes \in SUBSET Lines, NEW no \in SUBSET Lines,
             NEW priced \in SUBSET Lines, NEW q \in [Lines -> Quantities]
      PROVE  LET v == DecideLineWrites(o, o, yes, no, q, priced)
                 n == SellerSpoke(DecideRollUp(v, o, v, yes))
             IN KeepsFirst(o, n) /\ n.sellerMoved
  <2> DEFINE v == DecideLineWrites(o, o, yes, no, q, priced)
             n == DecideRollUp(v, o, v, yes)
  <2>0. v \in Ticket
    BY DecideType
  <2>1. KeepsFirst(o, v)
    BY DEF DecideLineWrites, KeepsFirst, Ticket
  <2> HIDE DEF v
  <2>2. n \in Ticket
    BY <2>0, DecideType
  <2>3. /\ n.returnWindow = v.returnWindow /\ n.sellerMoved = v.sellerMoved
        /\ n.confirmedQuantity = v.confirmedQuantity
    BY <2>0 DEF DecideRollUp, Ticket
  <2> HIDE DEF n
  <2>4. KeepsFirst(o, SellerSpoke(n)) /\ SellerSpoke(n).sellerMoved
    BY <2>1, <2>2, <2>3 DEF SellerSpoke, KeepsFirst, Ticket
  <2> QED BY <2>4 DEF v, n
<1>5. /\ KeepsFirst(o, SellerSpoke(DeclineOpenLines(DeclineStatus(o))))
      /\ SellerSpoke(DeclineOpenLines(DeclineStatus(o))).sellerMoved
      /\ KeepsStamps(o, CancelWrite(o))
  BY DEF SellerSpoke, DeclineOpenLines, DeclineStatus, CancelWrite, KeepsStamps,
         KeepsFirst, Ticket
<1> QED BY <1>1, <1>2, <1>3, <1>4, <1>5 DEF ConfirmTx, AcceptQuoteTx

LEMMA LockedKeeps ==
    ASSUME NEW o \in Ticket
    PROVE  /\ \A cant, back \in SUBSET Lines :
                 LET v == SetSupplyLines(o, o, cant, back)
                 IN KeepsStamps(o, SetSupplyStatus(v, v))
           /\ \A lines \in SUBSET Lines, q \in [Lines -> Quantities] :
                 LET v == SetQuantityLines(o, o, lines, q)
                 IN KeepsStamps(o, SetQuantityStatus(v, v))
           /\ \A was, now \in [Lines -> 0..MaxShipped] :
                 LET v == EditShipmentRow(o, was, now)
                     w == EditShipmentLines(v, v)
                 IN KeepsStamps(o, EditShipmentStatus(w, w))
  BY DEF KeepsStamps, Ticket, SetSupplyLines, SetSupplyStatus, SetQuantityLines,
         SetQuantityStatus, EditShipmentRow, EditShipmentLines, EditShipmentStatus,
         StatusWrite

\* The three operations that open a window leave the first confirmations alone.
LEMMA WindowWrites ==
    ASSUME NEW o \in Ticket
    PROVE  /\ \A parcel \in [Lines -> Amounts] :
                 LET n == DispatchStatus(DispatchLines(DispatchShipment(o, parcel),
                                                       o, parcel), o, parcel)
                 IN /\ n.confirmedQuantity = o.confirmedQuantity
                    /\ n.sellerMoved = o.sellerMoved
                    /\ n.returnWindow = IF DispatchComplete(o, parcel)
                                        THEN OpenWindow ELSE o.returnWindow
           /\ \A final \in [Lines -> 0..MaxShipped] :
                 LET n == SettleStatus(SettleLines(o, o, final))
                 IN /\ n.confirmedQuantity = o.confirmedQuantity
                    /\ n.sellerMoved = o.sellerMoved
                    /\ n.returnWindow = OpenWindow
           /\ LET n == DeliverStatus(DeliverLines(o))
              IN /\ n.confirmedQuantity = o.confirmedQuantity
                 /\ n.sellerMoved = o.sellerMoved
                 /\ n.returnWindow = OpenWindow
<1>1. ASSUME NEW parcel \in [Lines -> Amounts]
      PROVE  LET n == DispatchStatus(DispatchLines(DispatchShipment(o, parcel),
                                                   o, parcel), o, parcel)
             IN /\ n.confirmedQuantity = o.confirmedQuantity
                /\ n.sellerMoved = o.sellerMoved
                /\ n.returnWindow = IF DispatchComplete(o, parcel)
                                    THEN OpenWindow ELSE o.returnWindow
  <2> DEFINE v == DispatchLines(DispatchShipment(o, parcel), o, parcel)
  <2>1. /\ v \in Ticket /\ v.confirmedQuantity = o.confirmedQuantity
        /\ v.sellerMoved = o.sellerMoved /\ v.returnWindow = o.returnWindow
    <3>1. DispatchShipment(o, parcel) \in Ticket
      BY DispatchType
    <3>2. v \in Ticket
      BY <3>1, DispatchType
    <3> QED BY <3>2 DEF DispatchLines, DispatchShipment, Ticket
  <2> HIDE DEF v
  <2>2. /\ DispatchStatus(v, o, parcel).confirmedQuantity = v.confirmedQuantity
        /\ DispatchStatus(v, o, parcel).sellerMoved = v.sellerMoved
        /\ DispatchStatus(v, o, parcel).returnWindow =
              IF DispatchComplete(o, parcel) THEN OpenWindow ELSE v.returnWindow
    BY <2>1 DEF DispatchStatus, Ticket
  <2> QED BY <2>1, <2>2 DEF v
<1>2. ASSUME NEW final \in [Lines -> 0..MaxShipped]
      PROVE  LET n == SettleStatus(SettleLines(o, o, final))
             IN /\ n.confirmedQuantity = o.confirmedQuantity
                /\ n.sellerMoved = o.sellerMoved
                /\ n.returnWindow = OpenWindow
  BY DEF SettleStatus, SettleLines, Ticket
<1>3. LET n == DeliverStatus(DeliverLines(o))
      IN /\ n.confirmedQuantity = o.confirmedQuantity
         /\ n.sellerMoved = o.sellerMoved
         /\ n.returnWindow = OpenWindow
  BY DEF DeliverStatus, DeliverLines, Ticket
<1> QED BY <1>1, <1>2, <1>3

\* Time only moves the window on.
LEMMA ClockKeeps ==
    ASSUME TypeOK, TimePasses \/ ExpireWindow \/ UNCHANGED vars
    PROVE  /\ order'.confirmedQuantity = order.confirmedQuantity
           /\ order'.sellerMoved = order.sellerMoved
           /\ order'.status = order.status
  BY DEF TypeOK, TimePasses, ExpireWindow, vars, Ticket

-----------------------------------------------------------------------------
(* The first confirmation.  Amending drops lines and their stamps with      *)
(* them; it is refused once a seller's word is out, and before that no line *)
(* can have been stamped.                                                   *)

NoStampUnspoken == order.sellerMoved \/ \A l \in Lines : order.confirmedQuantity[l] = 0

StampKept == \A l \in Lines : order.confirmedQuantity[l] # 0
                               => order'.confirmedQuantity[l] = order.confirmedQuantity[l]

LEMMA StampInit == Init => NoStampUnspoken
  BY DEF Init, NewTicket, NoStampUnspoken

LEMMA StampStep ==
    ASSUME TypeOK, Good(order), NoStampUnspoken, [Next]_vars
    PROVE  StampKept /\ NoStampUnspoken'
<1> order \in Ticket
  BY DEF TypeOK
<1> USE DEF StampKept, NoStampUnspoken
<1>a. ASSUME KeepsFirst(order, order'), order'.sellerMoved
      PROVE  StampKept /\ NoStampUnspoken'
  BY <1>a DEF KeepsFirst
<1>b. ASSUME order'.confirmedQuantity = order.confirmedQuantity,
             order'.sellerMoved = order.sellerMoved
      PROVE  StampKept /\ NoStampUnspoken'
  BY <1>b
<1>1. CASE Amend
  <2>1. PICK kept \in SUBSET Items(order), added \in SUBSET (Lines \ Items(order)),
             q \in [Lines -> Quantities] :
               \E priced \in SUBSET (kept \cup added) :
                  order' = AmendWrite(order, order, kept, added, q, priced)
    BY <1>1 DEF Amend, Becomes
  <2>2. \A l \in Lines : order.confirmedQuantity[l] = 0
    BY <1>1 DEF Amend, CanAmend
  <2>3. \A l \in Lines : order'.confirmedQuantity[l] = 0
    BY <2>1, <2>2 DEF AmendWrite, Ticket
  <2> QED BY <2>2, <2>3
<1>2. CASE AcceptQuote
  <2>1. order.sellerMoved
    BY <1>2 DEF AcceptQuote, CanAcceptQuote, Good, QuoteInv
  <2>2. KeepsFirst(order, order')
    BY <1>2, AskedKeeps DEF AcceptQuote, Becomes
  <2>3. order'.sellerMoved
    BY <2>1, <2>2 DEF KeepsFirst
  <2> QED BY <2>2, <2>3, <1>a
<1>3. CASE Cancel
  BY <1>3, <1>b, AskedKeeps DEF Cancel, Becomes, KeepsStamps
<1>4. CASE Deliver
  BY <1>4, <1>b, WindowWrites DEF Deliver, Schedules
<1>5. CASE Quote
  <2>1. PICK offered \in Some(Lines), q \in [Lines -> Quantities] :
               order' = QuoteSent(QuoteTx(order, order, offered, q))
    BY <1>5 DEF Quote, Becomes
  <2>2. offered \in SUBSET Lines
    BY DEF Some
  <2> QED BY <2>1, <2>2, <1>a, AskedKeeps
<1>6. CASE Confirm
  BY <1>6, <1>a, AskedKeeps DEF Confirm, Becomes
<1>7. CASE DecideLines
  <2>1. PICK yes \in SUBSET Lines, no \in SUBSET Lines, q \in [Lines -> Quantities] :
               \E priced \in SUBSET yes :
                  LET v == DecideLineWrites(order, order, yes, no, q, priced)
                  IN order' = SellerSpoke(DecideRollUp(v, order, v, yes))
    BY <1>7 DEF DecideLines, Becomes
  <2>2. PICK priced \in SUBSET Lines :
               LET v == DecideLineWrites(order, order, yes, no, q, priced)
               IN order' = SellerSpoke(DecideRollUp(v, order, v, yes))
    BY <2>1
  <2> QED BY <2>2, <1>a, AskedKeeps
<1>8. CASE Decline
  BY <1>8, <1>a, AskedKeeps DEF Decline, Becomes
<1>9. CASE SetLineSupply
  BY <1>9, <1>b, LockedKeeps DEF SetLineSupply, Becomes, KeepsStamps
<1>10. CASE SetLineQuantity
  <2>1. PICK lines \in Some(Lines), q \in [Lines -> Quantities] :
               LET v == SetQuantityLines(order, order, lines, q)
               IN order' = SetQuantityStatus(v, v)
    BY <1>10 DEF SetLineQuantity, Becomes
  <2>2. lines \in SUBSET Lines
    BY DEF Some
  <2> QED BY <2>1, <2>2, <1>b, LockedKeeps DEF KeepsStamps
<1>11. CASE Dispatch
  BY <1>11, <1>b, WindowWrites DEF Dispatch, Becomes, Schedules
<1>12. CASE EditShipment
  BY <1>12, <1>b, LockedKeeps DEF EditShipment, Becomes, KeepsStamps
<1>13. CASE Settle
  BY <1>13, <1>b, WindowWrites DEF Settle, Schedules
<1>14. CASE TimePasses \/ ExpireWindow \/ UNCHANGED vars
  BY <1>14, <1>b, ClockKeeps
<1> QED BY <1>1, <1>2, <1>3, <1>4, <1>5, <1>6, <1>7, <1>8, <1>9, <1>10, <1>11,
           <1>12, <1>13, <1>14 DEF Next, BuyerStep, SellerStep

\* No operation on a ticket rewrites the quantity a line was first confirmed at:
\* quotes, restores, seller edits, LR corrections and settlements leave it alone,
\* and a line that carries one can no longer be amended away.
THEOREM FirstConfirmationStands == Spec => FirstConfirmKept
<1>1. Init => NoStampUnspoken
  BY StampInit
<1>2. TypeOK /\ Good(order) /\ NoStampUnspoken /\ [Next]_vars => NoStampUnspoken'
  BY StampStep
<1>3. TypeOK /\ Good(order) /\ NoStampUnspoken /\ [Next]_vars => [StampKept]_vars
  BY StampStep
<1>4. FirstConfirmKept <=> [][StampKept]_vars
  BY DEF FirstConfirmKept, StampKept
<1> QED BY <1>1, <1>2, <1>3, <1>4, AlwaysGood, PTL DEF Spec

-----------------------------------------------------------------------------
(* Finished tickets.                                                        *)

LEMMA OverStep ==
    ASSUME TypeOK, Over(order), [Next]_vars
    PROVE  order' = [order EXCEPT !.returnWindow = order'.returnWindow]
<1> order \in Ticket
  BY DEF TypeOK
<1>1. order.status \in {"declined", "cancelled", "settled"}
  BY DEF Over
<1>2. ~BuyerStep
  BY <1>1 DEF BuyerStep, Amend, CanAmend, AcceptQuote, CanAcceptQuote, Cancel,
              CanCancel, Deliver, CanDeliver
<1>3. ~SellerStep
  BY <1>1 DEF SellerStep, Quote, CanQuote, Confirm, CanConfirm, DecideLines, CanDecide,
              Decline, CanDecline, SetLineSupply, CanSetSupply, SetLineQuantity,
              CanSetQuantity, Dispatch, CanDispatch, EditShipment, CanEditShipment,
              Settle, CanSettle, Fulfilling
<1>4. \/ order' = order
      \/ order' = [order EXCEPT !.returnWindow = "lapsed"]
  BY <1>1, <1>2, <1>3 DEF Next, TimePasses, ExpireWindow, vars
<1> QED BY <1>4 DEF Ticket

\* A declined, cancelled or settled ticket is never changed again, by either side
\* or by the expiry job; only its return window lapses.
THEOREM FinishedTicketsStand == Spec => OverIsFinal
<1> DEFINE Frozen == Over(order) => order' = [order EXCEPT !.returnWindow = order'.returnWindow]
<1>1. TypeOK /\ [Next]_vars => [Frozen]_vars
  BY OverStep
<1>2. OverIsFinal <=> [][Frozen]_vars
  BY DEF OverIsFinal
<1> QED BY <1>1, <1>2, TypeCorrect, PTL DEF Spec

-----------------------------------------------------------------------------
(* Reopening.  A complete order has every supplied line covered, so an order *)
(* that stops being complete has a line that got bigger, came back or lost   *)
(* goods.                                                                    *)

Reopened(o, n) == \E l \in Lines : \/ n.quantity[l] > o.quantity[l]
                                   \/ n.shipped[l] < o.shipped[l]
                                   \/ /\ o.lineStatus[l] = "declined"
                                      /\ n.lineStatus[l] = "confirmed"

\* In an order that is no longer complete some supplied line is not out.
LEMMA NotAllOut ==
    ASSUME NEW v, RollUp(v) \in {"confirmed", "part_shipped"}
    PROVE  \E l \in Shippable(v) : ~LineOut(v, l)
  BY DEF RollUp, AllOut

LEMMA WasOut ==
    ASSUME NEW o, Good(o), o.status = "dispatched", NEW l \in Shippable(o)
    PROVE  /\ o.lineStatus[l] # "open"
           /\ Covered(o, l)
  BY DEF Good, LockInv, Locked, OpenLines, ShortInv, Shippable, Items

LEMMA StatusIs ==
    ASSUME NEW o \in Ticket, NEW st
    PROVE  /\ StatusWrite(o, st).status = st
           /\ StatusWrite(o, st).lineStatus = o.lineStatus
           /\ StatusWrite(o, st).quantity = o.quantity
           /\ StatusWrite(o, st).shipped = o.shipped
  BY DEF StatusWrite, Ticket

LEMMA SupplyReopens ==
    ASSUME NEW o \in Ticket, Good(o), o.status = "dispatched",
           NEW cant \in SUBSET Lines, NEW back \in SUBSET Lines,
           LET v == SetSupplyLines(o, o, cant, back)
           IN SetSupplyStatus(v, v).status \in {"confirmed", "part_shipped"}
    PROVE  LET v == SetSupplyLines(o, o, cant, back)
           IN Reopened(o, SetSupplyStatus(v, v))
<1> DEFINE v == SetSupplyLines(o, o, cant, back)
<1>1. v \in Ticket
  BY SupplyType
<1>2. /\ v.shipped = o.shipped
      /\ \A l \in Lines : \/ v.lineStatus[l] = "declined"
                          \/ o.lineStatus[l] = "declined" /\ v.lineStatus[l] = "confirmed"
                          \/ /\ v.lineStatus[l] = o.lineStatus[l]
                             /\ v.quantity[l] = o.quantity[l]
  BY DEF SetSupplyLines, CantChange, BackChange, Ticket
<1> HIDE DEF v
<1>3. SupplyRollUp(v) \in {"confirmed", "part_shipped"}
  BY <1>1, StatusIs DEF SetSupplyStatus, v
<1>4. RollUp(v) \in {"confirmed", "part_shipped"}
  BY <1>3 DEF SupplyRollUp
<1>5. PICK l \in Shippable(v) : ~LineOut(v, l)
  BY <1>4, NotAllOut
<1>6. l \in Lines /\ v.lineStatus[l] \notin {"none", "declined"}
  BY <1>5 DEF Shippable, Items
<1>7. o.lineStatus[l] = "declined" /\ v.lineStatus[l] = "confirmed"
  <2> SUFFICES ASSUME v.lineStatus[l] = o.lineStatus[l], v.quantity[l] = o.quantity[l]
               PROVE  FALSE
    BY <1>2, <1>6
  <2>1. l \in Shippable(o)
    BY <1>6 DEF Shippable, Items
  <2> QED BY <2>1, <1>2, <1>5, WasOut DEF LineOut, Covered
<1>8. SetSupplyStatus(v, v).lineStatus = v.lineStatus
  BY <1>1, StatusIs DEF SetSupplyStatus
<1> QED BY <1>6, <1>7, <1>8 DEF Reopened, v

LEMMA QuantityReopens ==
    ASSUME NEW o \in Ticket, Good(o), o.status = "dispatched",
           NEW lines \in SUBSET Lines, NEW q \in [Lines -> Quantities],
           CanSetQuantity(o, lines, q),
           LET v == SetQuantityLines(o, o, lines, q)
           IN SetQuantityStatus(v, v).status \in {"confirmed", "part_shipped"}
    PROVE  LET v == SetQuantityLines(o, o, lines, q)
           IN Reopened(o, SetQuantityStatus(v, v))
<1> DEFINE v == SetQuantityLines(o, o, lines, q)
<1>1. v \in Ticket
  BY QuantityType
<1>2. /\ v.shipped = o.shipped
      /\ \A l \in Lines :
            \/ /\ l \in lines /\ q[l] # o.quantity[l] /\ v.quantity[l] = q[l]
               /\ v.lineStatus[l] = IF o.shipped[l] >= q[l] THEN "dispatched" ELSE "confirmed"
            \/ v.lineStatus[l] = o.lineStatus[l] /\ v.quantity[l] = o.quantity[l]
  BY DEF SetQuantityLines, Ticket
<1>3. \A l \in lines : l \in Lines /\ o.lineStatus[l] \in {"confirmed", "dispatched"}
  BY DEF CanSetQuantity, InPlay
<1>4. Shippable(v) # {}
  <2>1. PICK l \in lines : q[l] # o.quantity[l]
    BY DEF CanSetQuantity
  <2>2. v.lineStatus[l] \in {"dispatched", "confirmed"}
    BY <2>1, <1>2, <1>3
  <2> QED BY <2>1, <2>2, <1>3 DEF Shippable, Items
<1> HIDE DEF v
<1>5. RollUp(v) \in {"confirmed", "part_shipped"}
  BY <1>1, <1>4, StatusIs DEF SetQuantityStatus, v
<1>6. PICK l \in Shippable(v) : ~LineOut(v, l)
  BY <1>5, NotAllOut
<1>7. l \in Lines /\ v.lineStatus[l] \notin {"none", "declined"}
  BY <1>6 DEF Shippable, Items
<1>8. CASE v.lineStatus[l] = o.lineStatus[l] /\ v.quantity[l] = o.quantity[l]
  <2>1. l \in Shippable(o)
    BY <1>7, <1>8 DEF Shippable, Items
  <2> QED BY <2>1, <1>8, <1>2, <1>6, WasOut DEF LineOut, Covered
<1>9. CASE l \in lines /\ v.quantity[l] = q[l]
            /\ v.lineStatus[l] = IF o.shipped[l] >= q[l] THEN "dispatched" ELSE "confirmed"
  <2>1. ~(o.shipped[l] >= q[l])
    BY <1>9, <1>6 DEF LineOut
  <2>2. l \in Shippable(o)
    BY <1>9, <1>3 DEF Shippable, Items
  <2>3. o.shipped[l] >= o.quantity[l]
    BY <2>2, WasOut DEF Covered
  <2>4. o.shipped[l] \in Nat /\ o.quantity[l] \in Nat /\ q[l] \in Nat
    BY <1>7, AmountPositive DEF Ticket
  <2>5. v.quantity[l] > o.quantity[l]
    BY <2>1, <2>3, <2>4, <1>9
  <2>6. SetQuantityStatus(v, v).quantity = v.quantity
    BY <1>1, StatusIs DEF SetQuantityStatus
  <2> QED BY <2>5, <2>6, <1>7 DEF Reopened, v
<1> QED BY <1>2, <1>7, <1>8, <1>9

LEMMA EditReopens ==
    ASSUME NEW o \in Ticket, Good(o), o.status = "dispatched",
           NEW was \in [Lines -> 0..MaxShipped], NEW now \in [Lines -> 0..MaxShipped],
           CanEditShipment(o, was, now),
           LET v == EditShipmentRow(o, was, now)
               w == EditShipmentLines(v, v)
           IN EditShipmentStatus(w, w).status \in {"confirmed", "part_shipped"}
    PROVE  LET v == EditShipmentRow(o, was, now)
               w == EditShipmentLines(v, v)
           IN Reopened(o, EditShipmentStatus(w, w))
<1> DEFINE v == EditShipmentRow(o, was, now)
           w == EditShipmentLines(v, v)
<1>1. v \in Ticket /\ w \in Ticket
  BY EditShipmentType
<1>2. v.lineStatus = o.lineStatus /\ v.quantity = o.quantity
  BY DEF EditShipmentRow, Ticket
<1> HIDE DEF v
<1>3. /\ w.shipped = v.shipped /\ w.quantity = o.quantity
      /\ \A l \in Lines :
            \/ w.lineStatus[l] = o.lineStatus[l]
            \/ /\ o.lineStatus[l] \in {"confirmed", "dispatched"}
               /\ w.lineStatus[l] \in {"confirmed", "dispatched"}
  BY <1>1, <1>2 DEF EditShipmentLines, InPlay, Ticket
<1> HIDE DEF w
<1>4. RollUp(w) \in {"confirmed", "part_shipped"}
  BY <1>1, StatusIs DEF EditShipmentStatus, v, w
<1>5. PICK l \in Shippable(w) : ~LineOut(w, l)
  BY <1>4, NotAllOut
<1>6. l \in Lines /\ l \in Shippable(o)
  BY <1>5, <1>3 DEF Shippable, Items
<1>7. o.lineStatus[l] # "open" /\ o.shipped[l] >= o.quantity[l]
  BY <1>6, WasOut DEF Covered
<1>8. ~Covered(w, l)
  BY <1>5, <1>3, <1>6, <1>7 DEF LineOut
<1>9. w.shipped[l] < o.shipped[l]
  <2>1. w.shipped[l] \in Nat /\ o.shipped[l] \in Nat /\ o.quantity[l] \in Nat
    BY <1>1, <1>6 DEF Ticket
  <2> QED BY <2>1, <1>3, <1>7, <1>8 DEF Covered
<1>10. EditShipmentStatus(w, w).shipped = w.shipped
  BY <1>1, StatusIs DEF EditShipmentStatus
<1> QED BY <1>6, <1>9, <1>10 DEF Reopened, v, w

LEMMA ReopenStep ==
    ASSUME TypeOK, Good(order), [Next]_vars, order.status = "dispatched",
           order'.status \in {"confirmed", "part_shipped"}
    PROVE  Reopened(order, order')
<1> order \in Ticket
  BY DEF TypeOK
<1>1. ~(Amend \/ AcceptQuote \/ Cancel \/ Quote \/ Confirm \/ DecideLines \/ Decline
        \/ Dispatch \/ Settle)
  BY DEF Amend, CanAmend, AcceptQuote, CanAcceptQuote, Cancel, CanCancel, Quote,
         CanQuote, Confirm, CanConfirm, DecideLines, CanDecide, Decline, CanDecline,
         Dispatch, CanDispatch, Settle, CanSettle
<1>2. ~Deliver
  BY DEF Deliver, Schedules, DeliverStatus, DeliverLines, Ticket
<1>3. ~(TimePasses \/ ExpireWindow \/ UNCHANGED vars)
  BY ClockKeeps
<1>4. CASE SetLineSupply
  BY <1>4, SupplyReopens DEF SetLineSupply, Becomes
<1>5. CASE SetLineQuantity
  <2>1. PICK lines \in Some(Lines), q \in [Lines -> Quantities] :
               /\ CanSetQuantity(order, lines, q)
               /\ LET v == SetQuantityLines(order, order, lines, q)
                  IN order' = SetQuantityStatus(v, v)
    BY <1>5 DEF SetLineQuantity, Becomes
  <2>2. lines \in SUBSET Lines
    BY DEF Some
  <2> QED BY <2>1, <2>2, QuantityReopens
<1>6. CASE EditShipment
  BY <1>6, EditReopens DEF EditShipment, Becomes
<1> QED BY <1>1, <1>2, <1>3, <1>4, <1>5, <1>6 DEF Next, BuyerStep, SellerStep

\* A complete order is reopened only by more being owed, by a line brought back
\* or by an LR corrected downwards; never by the roll-up alone.
THEOREM ReopeningHasACause == Spec => ReopenOnlyWithWork
<1>1. TypeOK /\ Good(order) /\ [Next]_vars
      => [order.status = "dispatched" /\ order'.status \in {"confirmed", "part_shipped"}
          => \E l \in Lines : \/ order'.quantity[l] > order.quantity[l]
                               \/ order'.shipped[l] < order.shipped[l]
                               \/ /\ order.lineStatus[l] = "declined"
                                  /\ order'.lineStatus[l] = "confirmed"]_vars
  BY ReopenStep DEF Reopened
<1> QED BY <1>1, AlwaysGood, PTL DEF Spec, ReopenOnlyWithWork

-----------------------------------------------------------------------------
(* The return window and its job.                                           *)

LEMMA WindowStep ==
    ASSUME TypeOK, RunningWindowHasJob, [Next]_vars
    PROVE  RunningWindowHasJob'
<1> order \in Ticket /\ waiting \in Nat
  BY DEF TypeOK
<1> USE DEF RunningWindowHasJob
<1>a. ASSUME order'.returnWindow = order.returnWindow, waiting' = waiting
      PROVE  RunningWindowHasJob'
  BY <1>a
<1>b. ASSUME NEW o, Schedules(o), o.returnWindow = OpenWindow
      PROVE  RunningWindowHasJob'
  BY <1>b DEF Schedules, OpenWindow
<1>1. CASE Amend
  BY <1>1, <1>a DEF Amend, Becomes, AmendWrite, Ticket
<1>2. CASE AcceptQuote
  BY <1>2, <1>a, AskedKeeps DEF AcceptQuote, Becomes, KeepsFirst
<1>3. CASE Cancel
  BY <1>3, <1>a, AskedKeeps DEF Cancel, Becomes, KeepsStamps
<1>4. CASE Deliver
  BY <1>4, <1>b, WindowWrites DEF Deliver
<1>5. CASE Quote
  <2>1. PICK offered \in Some(Lines), q \in [Lines -> Quantities] :
               Becomes(QuoteSent(QuoteTx(order, order, offered, q)))
    BY <1>5 DEF Quote
  <2>2. offered \in SUBSET Lines
    BY DEF Some
  <2> QED BY <2>1, <2>2, <1>a, AskedKeeps DEF Becomes, KeepsFirst
<1>6. CASE Confirm
  BY <1>6, <1>a, AskedKeeps DEF Confirm, Becomes, KeepsFirst
<1>7. CASE DecideLines
  <2>1. PICK yes \in SUBSET Lines, no \in SUBSET Lines, q \in [Lines -> Quantities] :
               \E priced \in SUBSET yes :
                  LET v == DecideLineWrites(order, order, yes, no, q, priced)
                  IN Becomes(SellerSpoke(DecideRollUp(v, order, v, yes)))
    BY <1>7 DEF DecideLines
  <2>2. PICK priced \in SUBSET Lines :
               LET v == DecideLineWrites(order, order, yes, no, q, priced)
               IN Becomes(SellerSpoke(DecideRollUp(v, order, v, yes)))
    BY <2>1
  <2> DEFINE v == DecideLineWrites(order, order, yes, no, q, priced)
             n == SellerSpoke(DecideRollUp(v, order, v, yes))
  <2>3. KeepsFirst(order, n)
    BY AskedKeeps
  <2>4. Becomes(n)
    BY <2>2
  <2> HIDE DEF n
  <2> QED BY <2>3, <2>4, <1>a DEF Becomes, KeepsFirst
<1>8. CASE Decline
  BY <1>8, <1>a, AskedKeeps DEF Decline, Becomes, KeepsFirst
<1>9. CASE SetLineSupply
  BY <1>9, <1>a, LockedKeeps DEF SetLineSupply, Becomes, KeepsStamps
<1>10. CASE SetLineQuantity
  <2>1. PICK lines \in Some(Lines), q \in [Lines -> Quantities] :
               LET v == SetQuantityLines(order, order, lines, q)
               IN Becomes(SetQuantityStatus(v, v))
    BY <1>10 DEF SetLineQuantity
  <2>2. lines \in SUBSET Lines
    BY DEF Some
  <2> QED BY <2>1, <2>2, <1>a, LockedKeeps DEF Becomes, KeepsStamps
<1>11. CASE Dispatch
  <2>1. PICK parcel \in [Lines -> Amounts] :
               LET v == DispatchStatus(DispatchLines(DispatchShipment(order, parcel),
                                                     order, parcel), order, parcel)
               IN IF DispatchComplete(order, parcel) THEN Schedules(v) ELSE Becomes(v)
    BY <1>11 DEF Dispatch
  <2> DEFINE n == DispatchStatus(DispatchLines(DispatchShipment(order, parcel),
                                               order, parcel), order, parcel)
  <2>2. n.returnWindow = IF DispatchComplete(order, parcel) THEN OpenWindow
                                                            ELSE order.returnWindow
    BY WindowWrites
  <2>3. IF DispatchComplete(order, parcel) THEN Schedules(n) ELSE Becomes(n)
    BY <2>1
  <2> HIDE DEF n
  <2>4. CASE DispatchComplete(order, parcel)
    BY <2>2, <2>3, <2>4, <1>b
  <2>5. CASE ~DispatchComplete(order, parcel)
    BY <2>2, <2>3, <2>5, <1>a DEF Becomes
  <2> QED BY <2>4, <2>5
<1>12. CASE EditShipment
  BY <1>12, <1>a, LockedKeeps DEF EditShipment, Becomes, KeepsStamps
<1>13. CASE Settle
  BY <1>13, <1>b, WindowWrites DEF Settle
<1>14. CASE TimePasses
  BY <1>14 DEF TimePasses, Ticket
<1>15. CASE ExpireWindow
  BY <1>15 DEF ExpireWindow, Ticket
<1>16. CASE UNCHANGED vars
  BY <1>16 DEF vars
<1> QED BY <1>1, <1>2, <1>3, <1>4, <1>5, <1>6, <1>7, <1>8, <1>9, <1>10, <1>11,
           <1>12, <1>13, <1>14, <1>15, <1>16 DEF Next, BuyerStep, SellerStep

\* A return window that runs has the job that will end it waiting, however often
\* the order was completed, delivered or settled and its window set again.
THEOREM WindowsAreEnded == Spec => []RunningWindowHasJob
<1>1. Init => RunningWindowHasJob
  BY DEF Init, NewTicket, RunningWindowHasJob
<1>2. TypeOK /\ RunningWindowHasJob /\ [Next]_vars => RunningWindowHasJob'
  BY WindowStep
<1> QED BY <1>1, <1>2, TypeCorrect, PTL DEF Spec
=============================================================================
