----------------------------- MODULE OrderRules -----------------------------
(***************************************************************************)
(* One trade ticket (an Order row, its OrderItem rows and its shipments)   *)
(* and what every operation of OrderService does to it.                    *)
(*                                                                         *)
(* Each handler of the service first reads the ticket, decides on what it  *)
(* read, and then writes.  So every operation here is a guard over the     *)
(* ticket that was read, s ("snapshot"), and one or more writes applied to *)
(* the ticket as it stands in the database, o.  OrderLifecycle runs an     *)
(* operation with s = o; OrderRaces lets other requests write in between.  *)
(*                                                                         *)
(* Quantities are whole units.  The shipment rows (LRs) of a line are      *)
(* represented by their sum, which is all the service computes from them.  *)
(***************************************************************************)
EXTENDS Integers

CONSTANTS Lines,             \* identities an item row of the ticket can have
          Quantities,        \* quantities a party can type on a sheet
          HasReturnWindow    \* RETURN_WINDOW_DAYS > 0

ASSUME QuantitiesAssumption == Quantities \subseteq Nat \ {0}
ASSUME WindowAssumption == HasReturnWindow \in BOOLEAN

OrderStatus == {"requested", "confirmed", "part_shipped", "dispatched",
                "delivered", "settled", "declined", "cancelled"}

\* "none" is an identity that no item row has (not added, or deleted by amend).
LineStatus == {"none", "open", "declined", "confirmed", "dispatched", "delivered"}

\* confirmedQuantity 0 stands for null: nobody confirmed the line yet.
Ticket == [status            : OrderStatus,
           inquiry           : BOOLEAN,            \* intent = inquiry
           lineStatus        : [Lines -> LineStatus],
           quantity          : [Lines -> Nat],
           requestedQuantity : [Lines -> Nat],
           confirmedQuantity : [Lines -> Nat],
           rated             : SUBSET Lines,       \* rate is not null
           shipped           : [Lines -> Nat],     \* shippedTotals
           quoted            : BOOLEAN,            \* hasSellerQuote
           sellerMoved       : BOOLEAN,            \* a seller message names the order
           closed            : BOOLEAN,            \* closedAt is not null
           returnWindow      : {"none", "running", "lapsed"}]

-----------------------------------------------------------------------------
(* What the handlers compute from a ticket.                                *)

Items(o)       == {l \in Lines : o.lineStatus[l] # "none"}
OpenLines(o)   == {l \in Lines : o.lineStatus[l] = "open"}
Shippable(o)   == {l \in Items(o) : o.lineStatus[l] # "declined"}
InPlay(o)      == {l \in Lines : o.lineStatus[l] \in {"confirmed", "dispatched"}}
Covered(o, l)  == o.shipped[l] >= o.quantity[l]

\* Fault: a line counts as out as soon as any of it has left.
LineOutWhenTouched(o, l) == o.lineStatus[l] # "open" /\ o.shipped[l] > 0

\* A line counts as out when it says so, or when enough of it has left.
LineOut(o, l)  == \/ o.lineStatus[l] \in {"dispatched", "delivered"}
                  \/ o.lineStatus[l] # "open" /\ Covered(o, l)
AllOut(o)      == \A l \in Shippable(o) : LineOut(o, l)
AnyShipped(o)  == \E l \in Shippable(o) : o.shipped[l] > 0

\* Fault: an order never goes back to confirmed once it was shipping.
RollUpNeverBack(o) == IF AllOut(o) THEN "dispatched" ELSE "part_shipped"

\* Fault: the partial case is tested first.
RollUpPartialFirst(o) == IF AnyShipped(o) THEN "part_shipped"
                         ELSE IF AllOut(o) THEN "dispatched" ELSE "confirmed"

\* The order status that a partial, complete or empty fulfilment rolls up to.
RollUp(o) == IF AllOut(o) THEN "dispatched"
             ELSE IF AnyShipped(o) THEN "part_shipped" ELSE "confirmed"

\* Fault: a settled order stays editable.
FulfillingOrSettled == {"confirmed", "part_shipped", "dispatched", "settled"}

Fulfilling == {"confirmed", "part_shipped", "dispatched"}

SetLines(o, S, st) == [l \in Lines |-> IF l \in S THEN st ELSE o.lineStatus[l]]

\* stampConfirmedIfMissing: the first confirmation is kept for good.
Stamp(o, s, S) ==
    [l \in Lines |-> IF l \in S /\ s.confirmedQuantity[l] = 0
                     THEN s.quantity[l] ELSE o.confirmedQuantity[l]]

-----------------------------------------------------------------------------
(* Before the lock: create, amend, quote, confirm, accept, decline.        *)

NewTicket(placed, q, priced, ask) ==
    [status            |-> "requested",
     inquiry           |-> ask,
     lineStatus        |-> [l \in Lines |-> IF l \in placed THEN "open" ELSE "none"],
     quantity          |-> [l \in Lines |-> IF l \in placed THEN q[l] ELSE 0],
     requestedQuantity |-> [l \in Lines |-> IF l \in placed THEN q[l] ELSE 0],
     confirmedQuantity |-> [l \in Lines |-> 0],
     rated             |-> priced,
     shipped           |-> [l \in Lines |-> 0],
     quoted            |-> FALSE,
     sellerMoved       |-> FALSE,
     closed            |-> FALSE,
     returnWindow      |-> "none"]

\* Fault: the seller's messages are not looked at.
AmendGuardDeafToSeller(s) == s.status = "requested" /\ Items(s) = OpenLines(s)

\* buyerCanAmend: only while requested, all lines open, no seller message yet.
CanAmend(s) == /\ s.status = "requested"
               /\ ~s.sellerMoved
               /\ Items(s) = OpenLines(s)

\* Retained lines keep their identity and status; new ones start open; deleting an
\* item row deletes its shipment rows with it (onDelete: Cascade).
AmendWrite(o, s, kept, added, q, priced) ==
    LET removed == Items(s) \ kept
        listed  == kept \cup added
        For(l, val, old) == IF l \in listed THEN val
                            ELSE IF l \in removed THEN 0 ELSE old
    IN [o EXCEPT
          !.lineStatus = [l \in Lines |-> IF l \in added THEN "open"
                                          ELSE IF l \in removed THEN "none"
                                          ELSE o.lineStatus[l]],
          !.quantity          = [l \in Lines |-> For(l, q[l], o.quantity[l])],
          !.requestedQuantity = [l \in Lines |-> For(l, q[l], o.requestedQuantity[l])],
          !.confirmedQuantity = [l \in Lines |-> IF l \in removed THEN 0
                                                 ELSE o.confirmedQuantity[l]],
          !.rated             = (o.rated \ removed) \cup priced,
          !.shipped           = [l \in Lines |-> IF l \in removed THEN 0
                                                 ELSE o.shipped[l]]]

CanConfirm(s) == s.status = "requested" /\ OpenLines(s) # {}

\* Every open line is confirmed and the order with it, in one transaction.
LockTx(o, s, lines) ==
    [o EXCEPT !.lineStatus        = SetLines(o, lines, "confirmed"),
              !.confirmedQuantity = Stamp(o, s, lines),
              !.status            = "confirmed",
              !.inquiry           = o.inquiry /\ ~s.inquiry]

ConfirmTx(o, s) == LockTx(o, s, OpenLines(s))

RatedOpen(s)   == OpenLines(s) \cap s.rated
CanAcceptQuote(s) == s.status = "requested" /\ s.quoted /\ RatedOpen(s) # {}
AcceptQuoteTx(o, s) == LockTx(o, s, RatedOpen(s))

\* offered: the lines given a rate and a quantity.  Lines left out are declined.
CanQuote(s, offered) ==
    /\ s.status = "requested"
    /\ offered # {}
    /\ \A l \in offered : s.lineStatus[l] \in {"open", "declined"}

\* Fault: a quote puts the order back to being asked for.
QuoteTxReasks(o, s, offered, q) ==
    [o EXCEPT !.status = "requested",
              !.lineStatus = [l \in Lines |->
                 IF l \in offered THEN "open"
                 ELSE IF l \in OpenLines(s) THEN "declined" ELSE o.lineStatus[l]],
              !.quantity = [l \in Lines |-> IF l \in offered THEN q[l] ELSE o.quantity[l]],
              !.rated    = o.rated \cup offered]

QuoteTx(o, s, offered, q) ==
    [o EXCEPT !.lineStatus = [l \in Lines |->
                 IF l \in offered THEN "open"
                 ELSE IF l \in OpenLines(s) THEN "declined" ELSE o.lineStatus[l]],
              !.quantity = [l \in Lines |-> IF l \in offered THEN q[l] ELSE o.quantity[l]],
              !.rated    = o.rated \cup offered]

\* The Rate message and the intent follow after the transaction.
QuoteSent(o) == [o EXCEPT !.quoted = TRUE, !.sellerMoved = TRUE, !.inquiry = FALSE]

SellerSpoke(o) == [o EXCEPT !.sellerMoved = TRUE]

CanDecide(s, yes, no) ==
    /\ s.status = "requested"
    /\ yes \cup no # {}
    /\ yes \cap no = {}
    /\ yes \cup no \subseteq OpenLines(s)

DecideLineWrites(o, s, yes, no, q, priced) ==
    [o EXCEPT !.lineStatus = [l \in Lines |-> IF l \in yes THEN "confirmed"
                                              ELSE IF l \in no THEN "declined"
                                              ELSE o.lineStatus[l]],
              !.quantity = [l \in Lines |-> IF l \in yes THEN q[l] ELSE o.quantity[l]],
              !.confirmedQuantity = [l \in Lines |->
                  IF l \in yes /\ s.confirmedQuantity[l] = 0
                  THEN q[l] ELSE o.confirmedQuantity[l]],
              !.rated = o.rated \cup priced]

\* The order follows its lines as the same transaction reads them back (v).
DecideRollUp(o, s, v, yes) ==
    LET firm == o.inquiry /\ ~(s.inquiry /\ yes # {})
    IN IF \A l \in Items(v) : v.lineStatus[l] = "declined"
       THEN [o EXCEPT !.status = "declined", !.closed = TRUE]
       ELSE IF OpenLines(v) = {} /\ \E l \in Lines : v.lineStatus[l] = "confirmed"
       THEN [o EXCEPT !.status = "confirmed", !.inquiry = firm]
       ELSE [o EXCEPT !.inquiry = firm]

CanDecline(s) == s.status = "requested"
DeclineStatus(o) == [o EXCEPT !.status = "declined", !.closed = TRUE]
DeclineOpenLines(o) == [o EXCEPT !.lineStatus = SetLines(o, OpenLines(o), "declined")]

CanCancel(s) == s.status \in {"requested", "confirmed"}
CancelWrite(o) == [o EXCEPT !.status = "cancelled", !.closed = TRUE]

-----------------------------------------------------------------------------
(* After the lock: supply, quantity, shipments, settle, deliver.           *)

\* Lines the request names that it really changes; the others are skipped.
CantChange(s, cant) == {l \in cant : s.lineStatus[l] # "declined"}
BackChange(s, back) == {l \in back : s.lineStatus[l] = "declined"}

CanSetSupply(s, cant, back) ==
    /\ s.status \in Fulfilling
    /\ cant \cup back \subseteq Items(s)
    /\ cant \cap back = {}
    /\ CantChange(s, cant) \subseteq InPlay(s)
    /\ CantChange(s, cant) \cup BackChange(s, back) # {}

RestoredQuantity(s, l) == IF s.confirmedQuantity[l] # 0 THEN s.confirmedQuantity[l]
                          ELSE IF s.quantity[l] > 0 THEN s.quantity[l]
                          ELSE s.requestedQuantity[l]

SetSupplyLines(o, s, cant, back) ==
    LET off == CantChange(s, cant)
        on  == BackChange(s, back)
    IN [o EXCEPT !.lineStatus = [l \in Lines |-> IF l \in off THEN "declined"
                                                 ELSE IF l \in on THEN "confirmed"
                                                 ELSE o.lineStatus[l]],
                 !.quantity = [l \in Lines |->
                     IF l \in off /\ s.shipped[l] > 0 THEN s.shipped[l]
                     ELSE IF l \in on THEN RestoredQuantity(s, l)
                     ELSE o.quantity[l]]]

\* Fault: goods already out are forgotten.
SupplyRollUpDeclines(v) == IF Shippable(v) # {} THEN RollUp(v) ELSE "declined"

\* Fault: a fully unsupplied order counts as complete.
SupplyRollUpCompletes(v) == IF Shippable(v) # {} THEN RollUp(v) ELSE "dispatched"

\* Nothing left to supply: complete if goods already left, else declined.
SupplyRollUp(v) == IF Shippable(v) # {} THEN RollUp(v)
                   ELSE IF \E l \in Items(v) : v.shipped[l] > 0
                        THEN "dispatched" ELSE "declined"

\* Fault: closedAt is kept when the order is reopened.
StatusWriteKeepsClosed(o, st) ==
    [o EXCEPT !.status = st,
              !.closed = o.closed \/ st \in {"dispatched", "declined"}]

\* The order row, from the ticket as reloaded after the line writes (v).
StatusWrite(o, st) == [o EXCEPT !.status = st,
                                !.closed = st \in {"dispatched", "declined"}]

SetSupplyStatus(o, v) == StatusWrite(o, SupplyRollUp(v))

CanSetQuantity(s, lines, q) ==
    /\ s.status \in Fulfilling
    /\ lines \subseteq InPlay(s)
    /\ \A l \in lines : q[l] >= s.shipped[l]
    /\ \E l \in lines : q[l] # s.quantity[l]

\* Fault: only the quantity is written.
SetQuantityOnly(o, s, lines, q) ==
    [o EXCEPT !.quantity = [l \in Lines |-> IF l \in lines THEN q[l] ELSE o.quantity[l]]]

\* Fault: the edit also rewrites the confirmed snapshot.
SetQuantityAndSnapshot(o, s, lines, q) ==
    [o EXCEPT !.quantity = [l \in Lines |-> IF l \in lines THEN q[l] ELSE o.quantity[l]],
              !.confirmedQuantity = [l \in Lines |-> IF l \in lines THEN q[l]
                                                     ELSE o.confirmedQuantity[l]],
              !.lineStatus = [l \in Lines |->
                  IF l \notin lines THEN o.lineStatus[l]
                  ELSE IF s.shipped[l] >= q[l] THEN "dispatched" ELSE "confirmed"]]

SetQuantityLines(o, s, lines, q) ==
    LET changed == {l \in lines : q[l] # s.quantity[l]}
    IN [o EXCEPT !.quantity = [l \in Lines |-> IF l \in changed THEN q[l]
                                               ELSE o.quantity[l]],
                 !.lineStatus = [l \in Lines |->
                     IF l \notin changed THEN o.lineStatus[l]
                     ELSE IF s.shipped[l] >= q[l] THEN "dispatched" ELSE "confirmed"]]

SetQuantityStatus(o, v) ==
    StatusWrite(o, IF Shippable(v) # {} THEN RollUp(v) ELSE "confirmed")

\* parcel: how much of each line travels on this LR (0: not on it).
CanDispatch(s, parcel) ==
    /\ s.status \in {"confirmed", "part_shipped"}
    /\ \E l \in Lines : parcel[l] > 0
    /\ {l \in Lines : parcel[l] > 0} \subseteq InPlay(s)

DispatchShipment(o, parcel) ==
    [o EXCEPT !.shipped = [l \in Lines |-> o.shipped[l] + parcel[l]]]

\* Totals are advanced in memory from the snapshot, not read back.
AfterParcel(s, parcel) == DispatchShipment(s, parcel)

\* Fault: the totals are read back after the LR was inserted and then advanced by it.
FullyShippedTwice(s, parcel) ==
    {l \in InPlay(s) : Covered(DispatchShipment(AfterParcel(s, parcel), parcel), l)}

FullyShipped(s, parcel) ==
    {l \in InPlay(s) : Covered(AfterParcel(s, parcel), l)}

DispatchLines(o, s, parcel) ==
    [o EXCEPT !.lineStatus = [l \in Lines |->
        IF l \in FullyShipped(s, parcel) /\ o.lineStatus[l] # "none"
        THEN "dispatched" ELSE o.lineStatus[l]]]

\* allOut && !hasConfirmed, over the snapshot advanced by this LR.
DispatchComplete(s, parcel) ==
    LET v == DispatchLines(AfterParcel(s, parcel), s, parcel)
    IN /\ AllOut(v)
       /\ \A l \in Lines : v.lineStatus[l] # "confirmed"

OpenWindow == IF HasReturnWindow THEN "running" ELSE "none"

DispatchStatus(o, s, parcel) ==
    IF DispatchComplete(s, parcel)
    THEN [o EXCEPT !.status = "dispatched", !.closed = TRUE, !.returnWindow = OpenWindow]
    ELSE [o EXCEPT !.status = "part_shipped"]

\* was: what an existing LR carries; now: what it is corrected to.
CanEditShipment(s, was, now) ==
    /\ s.status \in Fulfilling
    /\ \E l \in Lines : was[l] > 0
    /\ \A l \in Lines : was[l] <= s.shipped[l]
    /\ \E l \in Lines : now[l] > 0
    /\ \A l \in Lines : now[l] > 0 => l \in Items(s)

\* Fault: the correction is applied the wrong way round.
EditShipmentRowSwapped(o, was, now) ==
    [o EXCEPT !.shipped = [l \in Lines |-> (o.shipped[l] - now[l]) + was[l]]]

EditShipmentRow(o, was, now) ==
    [o EXCEPT !.shipped = [l \in Lines |-> (o.shipped[l] - was[l]) + now[l]]]

\* Every line in play is re-judged against the reloaded totals (v).
EditShipmentLines(o, v) ==
    [o EXCEPT !.lineStatus = [l \in Lines |->
        IF l \notin InPlay(v) THEN o.lineStatus[l]
        ELSE IF Covered(v, l) THEN "dispatched" ELSE "confirmed"]]

EditShipmentStatus(o, v) == StatusWrite(o, RollUp(v))

CanSettle(s, final) ==
    /\ s.status \in {"confirmed", "part_shipped"}
    /\ AnyShipped(s)
    /\ \E l \in Shippable(s) : ~Covered(s, l)
    /\ \A l \in Shippable(s) : final[l] <= s.shipped[l]

SettleLines(o, s, final) ==
    [o EXCEPT !.quantity = [l \in Lines |-> IF l \in Shippable(s) THEN final[l]
                                            ELSE o.quantity[l]],
              !.lineStatus = [l \in Lines |->
                  IF l \notin Shippable(s) THEN o.lineStatus[l]
                  ELSE IF final[l] = 0 THEN "declined" ELSE "dispatched"]]

\* Fault: closedAt is forgotten.
SettleStatusOnly(o) == [o EXCEPT !.status = "settled", !.returnWindow = OpenWindow]

SettleStatus(o) == [o EXCEPT !.status = "settled", !.closed = TRUE,
                             !.returnWindow = OpenWindow]

CanDeliver(s) == s.status = "dispatched"
DeliverLines(o) == [o EXCEPT !.lineStatus = SetLines(o, InPlay(o), "delivered")]
DeliverStatus(o) == [o EXCEPT !.status = "delivered", !.returnWindow = OpenWindow]
=============================================================================
