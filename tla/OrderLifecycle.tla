--------------------------- MODULE OrderLifecycle ---------------------------
(***************************************************************************)
(* One bilateral ticket between a buyer and a seller, every operation of   *)
(* OrderService on it run to completion before the next one starts, and    *)
(* the return window job the service schedules.                            *)
(***************************************************************************)
EXTENDS OrderRules

CONSTANTS MaxShipped,   \* bound: units of one line on all LRs
          MaxJobs       \* bound: return_window.expire jobs waiting or due

ASSUME BoundsAssumption == MaxShipped \in Nat /\ MaxJobs \in Nat

VARIABLES order,     \* the ticket
          waiting,   \* return_window.expire jobs whose runAt is still ahead
          due,       \* the ones whose runAt has passed
          notified   \* the buyer was told the return window closed

vars == <<order, waiting, due, notified>>

TypeOK == /\ order \in Ticket
          /\ waiting \in Nat
          /\ due \in Nat
          /\ notified \in BOOLEAN

Some(S) == (SUBSET S) \ {{}}
Amounts == Quantities \cup {0}

Init == /\ \E placed \in Some(Lines), q \in [Lines -> Quantities], ask \in BOOLEAN :
              \E priced \in SUBSET placed : order = NewTicket(placed, q, priced, ask)
        /\ waiting = 0
        /\ due = 0
        /\ notified = FALSE

\* The operations that schedule nothing.
Becomes(o) == /\ order' = o
              /\ UNCHANGED <<waiting, due, notified>>

Amend == /\ CanAmend(order)
         /\ \E kept \in SUBSET Items(order), added \in SUBSET (Lines \ Items(order)),
               q \in [Lines -> Quantities] :
              /\ kept \cup added # {}
              /\ \E priced \in SUBSET (kept \cup added) :
                   Becomes(AmendWrite(order, order, kept, added, q, priced))

Quote == \E offered \in Some(Lines), q \in [Lines -> Quantities] :
            /\ CanQuote(order, offered)
            /\ Becomes(QuoteSent(QuoteTx(order, order, offered, q)))

Confirm == /\ CanConfirm(order)
           /\ Becomes(SellerSpoke(ConfirmTx(order, order)))

AcceptQuote == /\ CanAcceptQuote(order)
               /\ Becomes(AcceptQuoteTx(order, order))

DecideLines ==
    \E yes, no \in SUBSET Lines, q \in [Lines -> Quantities] :
       /\ CanDecide(order, yes, no)
       /\ \E priced \in SUBSET yes :
            LET v == DecideLineWrites(order, order, yes, no, q, priced)
            IN Becomes(SellerSpoke(DecideRollUp(v, order, v, yes)))

Decline == /\ CanDecline(order)
           /\ Becomes(SellerSpoke(DeclineOpenLines(DeclineStatus(order))))

Cancel == /\ CanCancel(order)
          /\ Becomes(CancelWrite(order))

SetLineSupply ==
    \E cant, back \in SUBSET Lines :
       /\ CanSetSupply(order, cant, back)
       /\ LET v == SetSupplyLines(order, order, cant, back)
          IN Becomes(SetSupplyStatus(v, v))

SetLineQuantity ==
    \E lines \in Some(Lines), q \in [Lines -> Quantities] :
       /\ CanSetQuantity(order, lines, q)
       /\ LET v == SetQuantityLines(order, order, lines, q)
          IN Becomes(SetQuantityStatus(v, v))

\* Fault: the window is set without its job.
SchedulesNothing(o) == order' = o /\ UNCHANGED <<waiting, due, notified>>

\* Setting a return window also enqueues its expiry job for that instant.
Schedules(o) == /\ order' = o
                /\ IF HasReturnWindow THEN waiting + due < MaxJobs /\ waiting' = waiting + 1
                                      ELSE UNCHANGED waiting
                /\ UNCHANGED <<due, notified>>

Dispatch ==
    \E parcel \in [Lines -> Amounts] :
       /\ CanDispatch(order, parcel)
       /\ \A l \in Lines : order.shipped[l] + parcel[l] <= MaxShipped
       /\ LET v == DispatchStatus(DispatchLines(DispatchShipment(order, parcel),
                                                order, parcel), order, parcel)
          IN IF DispatchComplete(order, parcel) THEN Schedules(v) ELSE Becomes(v)

EditShipment ==
    \E was, now \in [Lines -> 0..MaxShipped] :
       /\ CanEditShipment(order, was, now)
       /\ \A l \in Lines : (order.shipped[l] - was[l]) + now[l] <= MaxShipped
       /\ LET v == EditShipmentRow(order, was, now)
              w == EditShipmentLines(v, v)
          IN Becomes(EditShipmentStatus(w, w))

Settle == \E final \in [Lines -> 0..MaxShipped] :
             /\ CanSettle(order, final)
             /\ Schedules(SettleStatus(SettleLines(order, order, final)))

Deliver == /\ CanDeliver(order)
           /\ Schedules(DeliverStatus(DeliverLines(order)))

\* Time reaches the earliest expiry still ahead.  The last one enqueued is the
\* current window's: its passing is what lets the window lapse.
TimePasses == /\ waiting > 0
              /\ waiting' = waiting - 1
              /\ due' = due + 1
              /\ order' = IF waiting = 1 /\ order.returnWindow = "running"
                          THEN [order EXCEPT !.returnWindow = "lapsed"] ELSE order
              /\ UNCHANGED notified

\* ReturnWindowHandler.run
ExpireWindow ==
    /\ due > 0
    /\ due' = due - 1
    /\ IF order.status = "delivered" /\ ~order.closed
       THEN order' = [order EXCEPT !.closed = TRUE] /\ notified' = TRUE
       ELSE UNCHANGED <<order, notified>>
    /\ UNCHANGED waiting

BuyerStep  == Amend \/ AcceptQuote \/ Cancel \/ Deliver
SellerStep == Quote \/ Confirm \/ DecideLines \/ Decline \/ SetLineSupply
              \/ SetLineQuantity \/ Dispatch \/ EditShipment \/ Settle

\* A finished ticket stops: nobody has anything left to do.
Next == BuyerStep \/ SellerStep \/ TimePasses \/ ExpireWindow

Spec == Init /\ [][Next]_vars

\* Time passes and the job runner keeps polling; nobody owes the ticket a step.
FairSpec == Spec /\ WF_vars(TimePasses) /\ WF_vars(ExpireWindow)

-----------------------------------------------------------------------------
(* Safety.                                                                 *)

Locked == {"confirmed", "part_shipped", "dispatched", "delivered", "settled"}

\* Once an order is locked no line is left undecided.  confirm, decideLines and
\* acceptQuote lock it in three different ways; acceptQuote takes only the lines
\* that carry a rate, and this holds because a quote rates or declines every
\* open line and closes the amend path that could add an unrated one.
NoOpenLineAfterLock == order.status \in Locked => OpenLines(order) = {}

\* closedAt is set exactly on the orders that are over, through every reopening
\* by setLineSupply, setLineQuantity and editShipment.
ClosedExactlyWhenOver ==
    order.closed <=> order.status \in {"dispatched", "delivered", "settled",
                                       "declined", "cancelled"}

\* A confirmed or part-shipped order always has a line the seller can still
\* ship; a dispatched or delivered one has none that is short.
RollUpMatchesLines ==
    /\ order.status \in {"confirmed", "part_shipped"} =>
          \E l \in Lines : order.lineStatus[l] = "confirmed" /\ ~Covered(order, l)
    /\ order.status \in {"dispatched", "delivered", "settled"} =>
          \A l \in Shippable(order) : Covered(order, l)

\* A line that says it has fully left has fully left, whatever quantity edits,
\* LR corrections, restores and settlements happened since.
DispatchedLineCovered ==
    \A l \in Lines : order.lineStatus[l] \in {"dispatched", "delivered"}
                      => Covered(order, l)

\* Nothing travels before the order is locked, and nothing of a declined order.
NothingShipsUnlocked ==
    order.status \in {"requested", "declined"} => \A l \in Lines : order.shipped[l] = 0

\* "part_shipped" is said of an order exactly when goods of a line that is still
\* on it are out; editing every LR of such lines away takes it back.
PartShippedMeansSome ==
    /\ order.status = "part_shipped" => AnyShipped(order)
    /\ order.status = "confirmed" => ~AnyShipped(order)

\* A running return window always has its expiry job ahead of it.
RunningWindowHasJob == order.returnWindow = "running" => waiting > 0

-----------------------------------------------------------------------------
(* Steps.                                                                  *)

\* Declined, cancelled and settled tickets are frozen, apart from time.
Over(o) == o.status \in {"declined", "cancelled", "settled"}
OverIsFinal ==
    [][Over(order) => order' = [order EXCEPT !.returnWindow = order'.returnWindow]]_vars

\* The first confirmed quantity of a line is never rewritten while the line lives
\* (quote, restore, seller edits, LR corrections and settle leave it alone).
FirstConfirmKept ==
    [][\A l \in Lines : order.confirmedQuantity[l] # 0
                         => order'.confirmedQuantity[l] = order.confirmedQuantity[l]]_vars

\* A reopened order (complete, then not) was reopened by the seller changing what
\* is owed or what left, and it keeps every line's first confirmation.
ReopenOnlyWithWork ==
    [][order.status = "dispatched" /\ order'.status \in {"confirmed", "part_shipped"}
       => \E l \in Lines : \/ order'.quantity[l] > order.quantity[l]
                            \/ order'.shipped[l] < order.shipped[l]
                            \/ /\ order.lineStatus[l] = "declined"
                               /\ order'.lineStatus[l] = "confirmed"]_vars

-----------------------------------------------------------------------------
(* What the documentation says and the code does not do.                   *)

\* docs: "part_shipped: some qty out, some still open".  Goods of a line that
\* was then marked Can't supply are out, yet the order reads "confirmed".
ConfirmedHasNothingOut ==
    order.status = "confirmed" => \A l \in Lines : order.shipped[l] = 0

\* docs: the return window is set on full dispatch.  An order that becomes
\* complete by setLineSupply, setLineQuantity or editShipment has none.
CompleteHasWindow ==
    HasReturnWindow /\ order.status = "dispatched" => order.returnWindow # "none"

\* The job's comment: it closes a delivered order's return window once it lapses
\* and tells the buyer.  Such an order was closed when it was dispatched.
LapsedWindowIsAnnounced ==
    (order.status = "delivered" /\ order.returnWindow = "lapsed") ~> notified
=============================================================================
