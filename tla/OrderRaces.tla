----------------------------- MODULE OrderRaces -----------------------------
(***************************************************************************)
(* The same ticket with several requests in flight.                        *)
(*                                                                         *)
(* A handler loads the order, checks its guards on what it loaded, and     *)
(* then writes; nothing is locked in between and no write repeats the      *)
(* check, so another request can commit between any two of its awaits.     *)
(* Every action here is one of those database round trips: a Begin action  *)
(* is the load with the guards, the others are the writes (a transaction   *)
(* is one write, applied when it commits) and the reloads, in the order of *)
(* the code.  Time and the return window job are in OrderLifecycle.        *)
(***************************************************************************)
EXTENDS OrderRules

CONSTANTS Requests,     \* HTTP requests the API can be serving at one moment
          Racing,       \* the operations that may be requested
          MaxShipped    \* bound: units of one line on all LRs

Operations == {"amend", "quote", "confirm", "acceptQuote", "decide", "decline", "cancel",
               "supply", "quantity", "dispatch", "settle", "deliver"}

\* The operations that leave no line owing more than it did: what they lower a
\* quantity to has left already.
NeverOweMore == {"confirm", "decline", "cancel", "dispatch", "settle", "deliver"}

ASSUME RacingAssumption == Racing \subseteq Operations
ASSUME ShippedAssumption == MaxShipped \in Nat

VARIABLES order,     \* the ticket in the database
          inflight,  \* what each request has loaded and how far it got
          left,      \* history: units of each line that ever left on an LR
          raised     \* history: a request that can make a line owe more was begun

vars == <<order, inflight, left, raised>>

Some(S)   == (SUBSET S) \ {{}}
Carry     == [Lines -> 0..MaxShipped]
NoAmounts == [l \in Lines |-> 0]
Idle      == [op |-> "idle"]

\* s: the ticket as loaded; yes, no, q: what the caller sent; step: the next write.
Serving == [op : Operations, s : Ticket, yes : SUBSET Lines, no : SUBSET Lines,
            q : [Lines -> Nat], step : 1..4]

TypeOK == /\ order \in Ticket
          /\ inflight \in [Requests -> Serving \cup {Idle}]
          /\ left \in [Lines -> Nat]
          /\ raised \in BOOLEAN

Init == /\ \E placed \in Some(Lines), q \in [Lines -> Quantities] :
              \E priced \in SUBSET placed : order = NewTicket(placed, q, priced, FALSE)
        /\ inflight = [r \in Requests |-> Idle]
        /\ left = NoAmounts
        /\ raised = FALSE

-----------------------------------------------------------------------------
(* One round trip of a request.                                            *)

Begin(r, op, yes, no, q) ==
    /\ inflight[r] = Idle
    /\ op \in Racing
    /\ inflight' = [inflight EXCEPT ![r] = [op |-> op, s |-> order, yes |-> yes,
                                            no |-> no, q |-> q, step |-> 1]]
    /\ raised' = (raised \/ op \notin NeverOweMore)
    /\ UNCHANGED <<order, left>>

At(r, op, k) == inflight[r].op = op /\ inflight[r].step = k

\* The rows the request is about to update or refer to are still there; Prisma
\* throws otherwise and the transaction rolls back.
Present(S) == \A l \in S : order.lineStatus[l] # "none"

Continue(r)  == inflight' = [inflight EXCEPT ![r].step = @ + 1]
Return(r)    == inflight' = [inflight EXCEPT ![r] = Idle]
Write(r, o)  == order' = o /\ Continue(r) /\ UNCHANGED <<left, raised>>
Finish(r, o) == order' = o /\ Return(r) /\ UNCHANGED <<left, raised>>
Throw(r)     == Return(r) /\ UNCHANGED <<order, left, raised>>
Reload(r)    == LET a == inflight[r]
                IN /\ inflight' = [inflight EXCEPT ![r] =
                                     [a EXCEPT !.s = order, !.step = a.step + 1]]
                   /\ UNCHANGED <<order, left, raised>>

-----------------------------------------------------------------------------
(* Before the lock.                                                        *)

\* Row identities are never used twice.
Fresh == {l \in Lines : /\ order.lineStatus[l] = "none"
                        /\ \A r \in Requests : inflight[r] # Idle
                              => inflight[r].s.lineStatus[l] = "none"}

AmendBegin(r) == /\ CanAmend(order)
                 /\ \E kept \in SUBSET Items(order), added \in SUBSET Fresh,
                       q \in [Lines -> Quantities] :
                       kept \cup added # {} /\ Begin(r, "amend", kept, added, q)

AmendCommit(r) ==
    LET a == inflight[r]
    IN /\ At(r, "amend", 1)
       /\ IF Present(a.yes)
          THEN Finish(r, AmendWrite(order, a.s, a.yes, a.no, a.q, a.no))
          ELSE Throw(r)

ConfirmBegin(r) == CanConfirm(order) /\ Begin(r, "confirm", {}, {}, NoAmounts)
ConfirmCommit(r) == LET a == inflight[r]
                    IN /\ At(r, "confirm", 1)
                       /\ IF Present(OpenLines(a.s)) THEN Write(r, ConfirmTx(order, a.s))
                                                     ELSE Throw(r)

AcceptBegin(r) == CanAcceptQuote(order) /\ Begin(r, "acceptQuote", {}, {}, NoAmounts)
AcceptCommit(r) == LET a == inflight[r]
                   IN /\ At(r, "acceptQuote", 1)
                      /\ IF Present(RatedOpen(a.s))
                         THEN Finish(r, AcceptQuoteTx(order, a.s)) ELSE Throw(r)

QuoteBegin(r) == \E offered \in Some(Lines), q \in [Lines -> Quantities] :
                    CanQuote(order, offered) /\ Begin(r, "quote", offered, {}, q)
QuoteCommit(r) == LET a == inflight[r]
                  IN /\ At(r, "quote", 1)
                     /\ IF Present(a.yes \cup OpenLines(a.s))
                        THEN Write(r, QuoteTx(order, a.s, a.yes, a.q)) ELSE Throw(r)
QuoteMessage(r) == At(r, "quote", 2) /\ Finish(r, QuoteSent(order))

DecideBegin(r) == \E yes, no \in SUBSET Lines, q \in [Lines -> Quantities] :
                     CanDecide(order, yes, no) /\ Begin(r, "decide", yes, no, q)
DecideCommit(r) ==
    LET a == inflight[r]
        v == DecideLineWrites(order, a.s, a.yes, a.no, a.q, {})
    IN /\ At(r, "decide", 1)
       /\ IF Present(a.yes \cup a.no) THEN Write(r, DecideRollUp(v, a.s, v, a.yes))
                                      ELSE Throw(r)

DeclineBegin(r) == CanDecline(order) /\ Begin(r, "decline", {}, {}, NoAmounts)
DeclineTransition(r) == At(r, "decline", 1) /\ Write(r, DeclineStatus(order))
DeclineRows(r) == At(r, "decline", 2) /\ Write(r, DeclineOpenLines(order))

\* The seller's card in the thread, after what it announces.
SellerCard(r) == /\ \/ At(r, "confirm", 2)
                    \/ At(r, "decide", 2)
                    \/ At(r, "decline", 3)
                 /\ Finish(r, SellerSpoke(order))

CancelBegin(r) == CanCancel(order) /\ Begin(r, "cancel", {}, {}, NoAmounts)
CancelTransition(r) == At(r, "cancel", 1) /\ Finish(r, CancelWrite(order))

-----------------------------------------------------------------------------
(* After the lock.                                                         *)

SupplyBegin(r) == \E cant, back \in SUBSET Lines :
                     CanSetSupply(order, cant, back)
                     /\ Begin(r, "supply", cant, back, NoAmounts)
SupplyCommit(r) ==
    LET a == inflight[r]
    IN /\ At(r, "supply", 1)
       /\ IF Present(CantChange(a.s, a.yes) \cup BackChange(a.s, a.no))
          THEN Write(r, SetSupplyLines(order, a.s, a.yes, a.no)) ELSE Throw(r)
SupplyReload(r) == At(r, "supply", 2) /\ Reload(r)
SupplyStatus(r) == At(r, "supply", 3) /\ Finish(r, SetSupplyStatus(order, inflight[r].s))

QuantityBegin(r) == \E lines \in Some(Lines), q \in [Lines -> Quantities] :
                       CanSetQuantity(order, lines, q)
                       /\ Begin(r, "quantity", lines, {}, q)
QuantityCommit(r) ==
    LET a == inflight[r]
    IN /\ At(r, "quantity", 1)
       /\ IF Present({l \in a.yes : a.q[l] # a.s.quantity[l]})
          THEN Write(r, SetQuantityLines(order, a.s, a.yes, a.q)) ELSE Throw(r)
QuantityReload(r) == At(r, "quantity", 2) /\ Reload(r)
QuantityStatus(r) == /\ At(r, "quantity", 3)
                     /\ Finish(r, SetQuantityStatus(order, inflight[r].s))

\* What a dispatch in flight is still going to send.
Pending(r) == IF At(r, "dispatch", 1) THEN inflight[r].q ELSE NoAmounts

DispatchBegin(r) == \E parcel \in Carry :
                       /\ CanDispatch(order, parcel)
                       /\ \A l \in Lines, other \in Requests \ {r} :
                            left[l] + parcel[l] + Pending(other)[l] <= MaxShipped
                       /\ Begin(r, "dispatch", {}, {}, parcel)
DispatchShip(r) ==
    LET a == inflight[r]
    IN /\ At(r, "dispatch", 1)
       /\ IF Present({l \in Lines : a.q[l] > 0})
          THEN /\ order' = DispatchShipment(order, a.q)
               /\ left' = [l \in Lines |-> left[l] + a.q[l]]
               /\ Continue(r) /\ UNCHANGED raised
          ELSE Throw(r)
DispatchRows(r) == LET a == inflight[r]
                   IN At(r, "dispatch", 2) /\ Write(r, DispatchLines(order, a.s, a.q))
DispatchEnd(r) == LET a == inflight[r]
                  IN At(r, "dispatch", 3) /\ Finish(r, DispatchStatus(order, a.s, a.q))

SettleBegin(r) == \E final \in Carry :
                     CanSettle(order, final) /\ Begin(r, "settle", {}, {}, final)
SettleCommit(r) == LET a == inflight[r]
                   IN /\ At(r, "settle", 1)
                      /\ IF Present(Shippable(a.s)) THEN Write(r, SettleLines(order, a.s, a.q))
                                                    ELSE Throw(r)
SettleEnd(r) == At(r, "settle", 2) /\ Finish(r, SettleStatus(order))

DeliverBegin(r) == CanDeliver(order) /\ Begin(r, "deliver", {}, {}, NoAmounts)
DeliverRows(r) == At(r, "deliver", 1) /\ Write(r, DeliverLines(order))
DeliverCheck(r) == At(r, "deliver", 2) /\ IF CanDeliver(order) THEN Reload(r) ELSE Throw(r)
DeliverTransition(r) == At(r, "deliver", 3) /\ Finish(r, DeliverStatus(order))

-----------------------------------------------------------------------------

BeforeLock(r) == \/ AmendBegin(r) \/ AmendCommit(r) \/ ConfirmBegin(r) \/ ConfirmCommit(r)
                 \/ AcceptBegin(r) \/ AcceptCommit(r) \/ QuoteBegin(r) \/ QuoteCommit(r)
                 \/ QuoteMessage(r) \/ DecideBegin(r) \/ DecideCommit(r)
                 \/ DeclineBegin(r) \/ DeclineTransition(r) \/ DeclineRows(r)
                 \/ SellerCard(r) \/ CancelBegin(r) \/ CancelTransition(r)

AfterLock(r) == \/ SupplyBegin(r) \/ SupplyCommit(r) \/ SupplyReload(r) \/ SupplyStatus(r)
                \/ QuantityBegin(r) \/ QuantityCommit(r) \/ QuantityReload(r)
                \/ QuantityStatus(r) \/ DispatchBegin(r) \/ DispatchShip(r)
                \/ DispatchRows(r) \/ DispatchEnd(r) \/ SettleBegin(r)
                \/ SettleCommit(r) \/ SettleEnd(r) \/ DeliverBegin(r) \/ DeliverRows(r)
                \/ DeliverCheck(r) \/ DeliverTransition(r)

Next == \E r \in Requests : BeforeLock(r) \/ AfterLock(r)

Spec == Init /\ [][Next]_vars

Quiet == \A r \in Requests : inflight[r] = Idle

-----------------------------------------------------------------------------
(* Safety that the races leave standing.                                   *)

\* Nothing ships on an order that is still being asked for: once an order has
\* left "requested" no stale write takes it back there.
NothingShipsRequested == order.status = "requested" => left = NoAmounts

\* An order that reads complete or over always carries closedAt, whichever of the
\* racing writes came last (the reverse can fail: a confirm that commits after a
\* decline leaves closedAt on a confirmed order).
FinishedIsClosed ==
    order.status \in {"dispatched", "settled", "declined", "cancelled"} => order.closed

\* An order that reads complete has sent something, even when two roll-ups
\* computed from different loads overwrite each other.
CompleteHasShipped ==
    order.status \in {"dispatched", "settled", "delivered"} => \E l \in Lines : left[l] > 0

\* A line reads dispatched, and the order complete, only when nothing is owed on it,
\* although every request decides this from totals it loaded earlier and advanced
\* by its own parcel alone: an old total can only be too low.  It says nothing once
\* an amend, a quote, a decision, a supply change or a quantity edit was begun: one
\* in flight can raise what is owed after the totals were looked at.
CompleteOwesNothing == ~raised =>
    /\ \A l \in Lines : order.lineStatus[l] = "dispatched" => Covered(order, l)
    /\ order.status = "dispatched" => \A l \in Shippable(order) : Covered(order, l)

-----------------------------------------------------------------------------
(* What the documentation says and the races break.                        *)

\* docs: "declined / cancelled: Terminal".
TerminalStatusStays ==
    [][order.status \in {"declined", "cancelled"} => order'.status = order.status]_vars

\* docs/features/orders.md: "Buyer cannot change qty after supplier confirm (API, not only UI)".
BuyerEditsOnlyUnconfirmed ==
    [][\A r \in Requests :
         /\ inflight[r] # Idle /\ inflight[r] # inflight'[r]
         /\ inflight[r].op = "amend"
         /\ order.status \in {"confirmed", "part_shipped", "dispatched"}
         => order'.quantity = order.quantity]_vars

\* docs: "part_shipped: some qty out, some still open", "dispatched: Full ship done".
PartShippedHasMoreToShip ==
    Quiet /\ order.status = "part_shipped" => \E l \in Shippable(order) : ~Covered(order, l)

\* docs: the first seller confirm stores confirmedQuantity and later operations
\* do not rewrite that snapshot.
FirstConfirmStays ==
    [][\A l \in Lines : order.confirmedQuantity[l] # 0
                         => order'.confirmedQuantity[l] = order.confirmedQuantity[l]]_vars
=============================================================================
