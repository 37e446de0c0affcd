------------------------------ MODULE MillHops ------------------------------
(***************************************************************************)
(* A buyer's order that a trader handles (tradeMode manage) and its hops:  *)
(* one linked order per mill, each with the lines of the buyer's order     *)
(* that the mill owns.  A hop waits until the trader sends it; from then   *)
(* on what the mill does to its hop is passed to the buyer's order, unless *)
(* the trader holds the hop.                                               *)
(*                                                                         *)
(* Every request runs to completion, pass-through included.  A hop line    *)
(* has the identity of the line it maps to (sourceItemId).  Modelled: the  *)
(* trader's desk (Send, Decline, Hold, Resume), the mill's work on its     *)
(* hop, the ends of the buyer's order, and the healing that reading it     *)
(* does.  Not modelled: quotes, amends, the return window's job and direct *)
(* work on the buyer's order, which the desk does not offer.               *)
(***************************************************************************)
EXTENDS OrderRules, FiniteSets

CONSTANTS Hops,        \* the linked orders
          OwnHops,     \* the one for the trader's own lines, if there is one
          Owner,       \* the hop that owns each line
          MaxShipped,  \* bound: units of one line on the LRs of its hop, or of the order
          MaxHeld      \* bound: hops the trader ever holds

\* A mixed order has an own hop beside those of the mills, never alone.
ASSUME OwnHopsAssumption == /\ OwnHops \subseteq Hops
                            /\ OwnHops # Hops
                            /\ \A g, h \in OwnHops : g = h
ASSUME OwnerAssumption == Owner \in [Lines -> Hops]
ASSUME BoundsAssumption == MaxShipped \in Nat /\ MaxHeld \in Nat

VARIABLES parent,     \* the buyer's order
          hop,        \* [Hops -> Ticket]
          released,   \* hops with upstreamReleasedAt
          held,       \* hops with passHeldAt
          everHeld    \* history: hops that were held at some time

vars == <<parent, hop, released, held, everHeld>>

TypeOK == /\ parent \in Ticket
          /\ hop \in [Hops -> Ticket]
          /\ released \in SUBSET Hops
          /\ held \in SUBSET (released \cap everHeld)
          /\ everHeld \in SUBSET Hops

Lots(h) == {l \in Lines : Owner[l] = h}

\* Hops are spawned waiting; the trader's own one is released at once.
Init == /\ \E q \in [Lines -> Quantities] :
              /\ parent = NewTicket(Lines, q, {}, FALSE)
              /\ hop = [h \in Hops |-> NewTicket(Lots(h), q, {}, FALSE)]
        /\ released = OwnHops
        /\ held = {}
        /\ everHeld = {}

\* What an LR of hop h carries, and what all of them can add up to.
LoadsOf(h, most) == {[l \in Lines |-> IF Owner[l] = h THEN p[l] ELSE 0] :
                        p \in [Lots(h) -> 0..most]}

-----------------------------------------------------------------------------
(* Pass-through: what a hop, as it now stands (m), makes of the buyer's    *)
(* order p.                                                                *)

\* Fault: a hop on hold still passes.
PassesHeld(h) == h \in released

Passes(h) == h \in released /\ h \notin held

GivenUp(m) == {l \in Lines : m.lineStatus[l] = "declined"}

\* Fault: a line that is fully out is not passed.
FirmConfirmedOnly(m) == {l \in Lines : m.lineStatus[l] = "confirmed"}

Firm(m)    == InPlay(m)

\* Fault: the buyer's confirmed snapshot follows every later pass.
SnapshotFollows(p, m, l) == IF l \in Firm(m) THEN m.quantity[l] ELSE p.confirmedQuantity[l]

\* The buyer's confirmed snapshot is written by the first pass only.
SnapshotAfter(p, m, l) ==
    IF l \in Firm(m) /\ p.confirmedQuantity[l] = 0
    THEN IF m.confirmedQuantity[l] # 0 THEN m.confirmedQuantity[l] ELSE m.quantity[l]
    ELSE p.confirmedQuantity[l]

\* passMillLinesToParent, the transaction.
LinesPassed(p, m) ==
    [p EXCEPT !.lineStatus = [l \in Lines |-> IF l \in GivenUp(m) \cup Firm(m)
                                              THEN m.lineStatus[l] ELSE p.lineStatus[l]],
              !.quantity = [l \in Lines |-> IF l \in Firm(m) THEN m.quantity[l]
                                                             ELSE p.quantity[l]],
              !.confirmedQuantity = [l \in Lines |-> SnapshotAfter(p, m, l)]]

\* The order row follows only when the pass changed something to report.
Reportable(p, m) == \/ \E l \in GivenUp(m) : p.lineStatus[l] # "declined"
                    \/ \E l \in Firm(m) : \/ p.lineStatus[l] # "confirmed"
                                          \/ p.quantity[l] # m.quantity[l]

PassLines(p, m) ==
    LET v == LinesPassed(p, m)
    IN IF /\ Reportable(p, m)
          /\ OpenLines(v) = {}
          /\ \E l \in Lines : v.lineStatus[l] = "confirmed"
          /\ v.status = "requested"
       THEN [v EXCEPT !.status = "confirmed"] ELSE v

Short(p) == \E l \in Shippable(p) : ~Covered(p, l)

PassedOut(p) == [p EXCEPT !.status = "dispatched", !.closed = TRUE,
                          !.returnWindow = OpenWindow]

\* passMillDispatchToParent: the same parcel leaves on the buyer's order.
PassDispatch(p, m, parcel) ==
    LET v == DispatchShipment(PassLines(p, m), parcel)
    IN IF ~Short(v) THEN PassedOut(v)
       ELSE IF AnyShipped(v) THEN [v EXCEPT !.status = "part_shipped"] ELSE v

\* Fault: a corrected LR is added to what was passed before.
RebuildAdds(p, m, h) == [p EXCEPT !.shipped = [l \in Lines |->
                            IF l \in Lots(h) THEN p.shipped[l] + m.shipped[l] ELSE p.shipped[l]]]

\* The LRs this hop passed are deleted and made again from the hop's.
Rebuild(p, m, h) == [p EXCEPT !.shipped = [l \in Lines |->
                        IF l \in Lots(h) THEN m.shipped[l] ELSE p.shipped[l]]]

Over == {"settled", "cancelled", "declined", "delivered"}

\* passMillEditShipmentToParent
PassEdit(p, m, h) ==
    LET v == Rebuild(PassLines(p, m), m, h)
        Reopened(st) == [v EXCEPT !.status = st, !.closed = FALSE, !.returnWindow = "none"]
    IN IF v.status \in Over THEN v
       ELSE IF AnyShipped(v)
       THEN IF Short(v) THEN Reopened("part_shipped")
            ELSE IF OpenLines(v) # {} THEN v ELSE PassedOut(v)
       ELSE IF Firm(v) # {} THEN Reopened("confirmed") ELSE v

-----------------------------------------------------------------------------
(* Completion: syncManageParentFromMillSettle and the healing on read.     *)

Finished == {"settled", "dispatched", "delivered"}
SubsetComplete == Finished \cup {"cancelled", "declined"}

\* Fault: the LRs are left as they were passed.
TakeFinalUntrimmed(p, hs, done) ==
    LET lots == {l \in Lines : Owner[l] \in done}
        final(l) == hs[Owner[l]].quantity[l]
    IN [p EXCEPT !.quantity = [l \in Lines |-> IF l \in lots THEN final(l)
                                                             ELSE p.quantity[l]],
                 !.lineStatus = [l \in Lines |-> IF l \notin lots THEN p.lineStatus[l]
                                                 ELSE IF final(l) = 0 THEN "declined"
                                                 ELSE "dispatched"]]

\* Finished hops rewrite their lines and trim the LRs they passed to the final quantity.
TakeFinal(p, hs, done) ==
    LET lots == {l \in Lines : Owner[l] \in done}
        final(l) == hs[Owner[l]].quantity[l]
    IN [p EXCEPT !.quantity = [l \in Lines |-> IF l \in lots THEN final(l)
                                                             ELSE p.quantity[l]],
                 !.lineStatus = [l \in Lines |-> IF l \notin lots THEN p.lineStatus[l]
                                                 ELSE IF final(l) = 0 THEN "declined"
                                                 ELSE "dispatched"],
                 !.shipped = [l \in Lines |-> IF l \in lots /\ final(l) < p.shipped[l]
                                              THEN final(l) ELSE p.shipped[l]]]

\* Fault: lines of a hop that still waits for Send do not count as pending.
NothingPendingPassed(p) ==
    \A l \in Shippable(p) : p.lineStatus[l] # "open" => Covered(p, l)

\* parentHasPendingFulfilmentLines, negated.
NothingPending(p) == \A l \in Shippable(p) : /\ p.lineStatus[l] \notin {"open", "confirmed"}
                                             /\ Covered(p, l)

\* Fault: one finished hop is enough.
SubsetsCompleteAny(hs, sent) == \E h \in sent : hs[h].status \in SubsetComplete

\* allReleasedSubsetsComplete
SubsetsComplete(hs, sent) == /\ sent # {}
                             /\ \A h \in sent : hs[h].status \in SubsetComplete

\* sent: the released hops; hs: the hops as they stand.
SyncFromHops(p, hs, sent) ==
    LET v == TakeFinal(p, hs, {h \in sent : hs[h].status \in Finished})
    IN IF p.status \in Over \cup {"dispatched"} THEN p
       ELSE IF SubsetsComplete(hs, sent) /\ NothingPending(v) THEN SettleStatus(v)
       ELSE IF AnyShipped(v) /\ Short(v) /\ v.status \in {"confirmed", "part_shipped"}
       THEN [v EXCEPT !.status = "part_shipped"] ELSE v

\* healManageParentIfSubsetsComplete: every GET of the buyer's order runs it, and the
\* desk's requests end in one.
Heal(p, hs, sent) == IF SubsetsComplete(hs, sent) THEN SyncFromHops(p, hs, sent) ELSE p

-----------------------------------------------------------------------------
(* The trader's desk.                                                      *)

Waiting(h) == h \notin released /\ hop[h].status = "requested"

\* One waiting hop, or all of them.
Chosen(S) == /\ S # {}
             /\ \A h \in S : Waiting(h)
             /\ \/ \E h \in S : S = {h}
                \/ \A h \in Hops : Waiting(h) => h \in S

\* The trader may change quantities of the hop's lines as it is sent.
Patched(m, lots, q) ==
    [m EXCEPT !.quantity = [l \in Lines |-> IF l \in lots THEN q[l] ELSE m.quantity[l]],
              !.requestedQuantity = [l \in Lines |-> IF l \in lots THEN q[l]
                                                     ELSE m.requestedQuantity[l]]]

Send == \E S \in SUBSET Hops, lots \in SUBSET Lines :
           /\ Chosen(S)
           /\ \A l \in lots : Owner[l] \in S
           /\ \E q \in [lots -> Quantities] :
                hop' = [h \in Hops |-> IF h \in S THEN Patched(hop[h], lots \cap Lots(h), q)
                                                  ELSE hop[h]]
           /\ released' = released \cup S
           /\ parent' = Heal(parent, hop', released')
           /\ UNCHANGED <<held, everHeld>>

\* millDecline: the hop, and the buyer's open lines of the same designs.
MillDecline ==
    \E S \in SUBSET Hops :
       /\ Chosen(S)
       /\ hop' = [h \in Hops |-> IF h \in S THEN DeclineOpenLines(DeclineStatus(hop[h]))
                                            ELSE hop[h]]
       /\ LET lots == {l \in OpenLines(parent) : Owner[l] \in S}
              v == [parent EXCEPT !.lineStatus = SetLines(parent, lots, "declined")]
          IN parent' = Heal(IF OpenLines(v) = {} THEN DeclineStatus(v) ELSE v, hop', released)
       /\ UNCHANGED <<released, held, everHeld>>

Hold(h) == /\ h \in released
           /\ Cardinality(everHeld \cup {h}) <= MaxHeld
           /\ held' = held \cup {h}
           /\ everHeld' = everHeld \cup {h}
           /\ parent' = Heal(parent, hop, released)
           /\ UNCHANGED <<hop, released>>

Resume(h) == /\ h \in released
             /\ held' = held \ {h}
             /\ parent' = Heal(parent, hop, released)
             /\ UNCHANGED <<hop, released, everHeld>>

-----------------------------------------------------------------------------
(* A hop's own handlers, each followed by what it passes.                  *)

\* Fault: the mill can open a hop that was not sent to it.
MillSeesAny(h) == h \in Hops

\* isHeldFromSupplier, negated.
MillSees(h) == h \in released

HopStep(h, m, p) == /\ hop' = [hop EXCEPT ![h] = m]
                    /\ parent' = p
                    /\ UNCHANGED <<released, held, everHeld>>

\* The handlers that end in passMillLinesToParent.
LinesStep(h, m) == HopStep(h, m, IF Passes(h) THEN PassLines(parent, m) ELSE parent)

Confirm(h) == /\ MillSees(h)
              /\ CanConfirm(hop[h])
              /\ LinesStep(h, ConfirmTx(hop[h], hop[h]))

DecideLines(h) ==
    /\ MillSees(h)
    /\ \E yes, no \in SUBSET Lots(h) : \E q \in [yes -> Quantities] :
         /\ CanDecide(hop[h], yes, no)
         /\ LET v == DecideLineWrites(hop[h], hop[h], yes, no, q, {})
            IN LinesStep(h, DecideRollUp(v, hop[h], v, yes))

SetLineSupply(h) ==
    /\ MillSees(h)
    /\ \E cant, back \in SUBSET Lots(h) :
         /\ CanSetSupply(hop[h], cant, back)
         /\ LET v == SetSupplyLines(hop[h], hop[h], cant, back)
            IN LinesStep(h, SetSupplyStatus(v, v))

SetLineQuantity(h) ==
    /\ MillSees(h)
    /\ \E lines \in SUBSET Lots(h) : \E q \in [lines -> Quantities] :
         /\ CanSetQuantity(hop[h], lines, q)
         /\ LET v == SetQuantityLines(hop[h], hop[h], lines, q)
            IN LinesStep(h, SetQuantityStatus(v, v))

Dispatch(h) ==
    /\ MillSees(h)
    /\ \E parcel \in LoadsOf(h, MaxShipped) :
         /\ CanDispatch(hop[h], parcel)
         /\ \A l \in Lines : /\ hop[h].shipped[l] + parcel[l] <= MaxShipped
                             /\ Passes(h) => parent.shipped[l] + parcel[l] <= MaxShipped
         /\ LET m == DispatchStatus(DispatchLines(DispatchShipment(hop[h], parcel),
                                                  hop[h], parcel), hop[h], parcel)
            IN HopStep(h, m, IF Passes(h) THEN PassDispatch(parent, m, parcel) ELSE parent)

EditShipment(h) ==
    /\ MillSees(h)
    /\ \E was, now \in LoadsOf(h, MaxShipped) :
         /\ CanEditShipment(hop[h], was, now)
         /\ \A l \in Lines : (hop[h].shipped[l] - was[l]) + now[l] <= MaxShipped
         /\ LET v == EditShipmentRow(hop[h], was, now)
                w == EditShipmentLines(v, v)
                m == EditShipmentStatus(w, w)
            IN HopStep(h, m, IF Passes(h) THEN PassEdit(parent, m, h) ELSE parent)

\* Settling is passed even from a hop on hold.
Settle(h) ==
    /\ MillSees(h)
    /\ \E final \in LoadsOf(h, MaxShipped) :
         /\ CanSettle(hop[h], final)
         /\ LET m == SettleStatus(SettleLines(hop[h], hop[h], final))
            IN HopStep(h, m, IF h \in released
                             THEN SyncFromHops(parent, [hop EXCEPT ![h] = m], released)
                             ELSE parent)

\* Declining, cancelling and delivering a hop pass nothing.  The buyer of the trader's
\* own hop is the end buyer, who cannot open it.
Decline(h) == /\ MillSees(h)
              /\ CanDecline(hop[h])
              /\ HopStep(h, DeclineOpenLines(DeclineStatus(hop[h])), parent)

Cancel(h) == /\ h \notin OwnHops
             /\ CanCancel(hop[h])
             /\ HopStep(h, CancelWrite(hop[h]), parent)

Deliver(h) == /\ h \notin OwnHops
              /\ CanDeliver(hop[h])
              /\ HopStep(h, DeliverStatus(DeliverLines(hop[h])), parent)

-----------------------------------------------------------------------------
(* The buyer's order itself.                                               *)

ParentStep(p) == parent' = p /\ UNCHANGED <<hop, released, held, everHeld>>

ParentCancel  == CanCancel(parent) /\ ParentStep(CancelWrite(parent))
ParentDecline == CanDecline(parent) /\ ParentStep(DeclineOpenLines(DeclineStatus(parent)))
ParentDeliver == CanDeliver(parent) /\ ParentStep(DeliverStatus(DeliverLines(parent)))
Read          == ParentStep(Heal(parent, hop, released))

Desk == Send \/ MillDecline \/ \E h \in Hops : Hold(h) \/ Resume(h)

Work(h) == Confirm(h) \/ DecideLines(h) \/ SetLineSupply(h) \/ SetLineQuantity(h)
           \/ Dispatch(h) \/ EditShipment(h) \/ Settle(h) \/ Decline(h)
           \/ Cancel(h) \/ Deliver(h)

\* A finished order may rest: only reading it is always possible.
Next == Desk \/ (\E h \in Hops : Work(h))
        \/ ParentCancel \/ ParentDecline \/ ParentDeliver \/ Read

Spec == Init /\ [][Next]_vars

-----------------------------------------------------------------------------
(* Correctness.                                                            *)

Unheld == released \ everHeld

\* A mill that was not sent its hop has done nothing the buyer can see: its lines are
\* open or dropped by the trader, and nothing of them has left.
\* (docs/features/orders.md: hops wait for Send.)
WaitingMillIsSilent ==
    \A h \in Hops \ released :
       /\ hop[h].status \in {"requested", "declined", "cancelled"}
       /\ \A l \in Lots(h) : /\ parent.lineStatus[l] \in {"open", "declined"}
                             /\ parent.shipped[l] = 0

\* However parcels, corrected LRs, settlements and heals follow each other, the buyer's
\* order never counts more of a line as sent than left the mill.  A hop that was held may
\* have taken an LR back in the meantime.
NeverMoreThanLeft ==
    \A h \in Unheld : \A l \in Lots(h) : parent.shipped[l] <= hop[h].shipped[l]

\* What a mill has agreed to and not settled is on the buyer's order at the mill's
\* quantity, as far along as on the hop or further.
AgreedIsPassed ==
    \A h \in Unheld : \A l \in InPlay(hop[h]) :
       hop[h].status # "settled" =>
          /\ parent.quantity[l] = hop[h].quantity[l]
          /\ parent.lineStatus[l] \in {hop[h].lineStatus[l], "dispatched", "delivered"}

\* A buyer's order that reads complete or over carries closedAt, whoever closed it last:
\* the buyer, the trader, a mill's parcel, a corrected LR or a heal.
FinishedIsClosed == parent.status \in Over \cup {"dispatched"} => parent.closed

\* "You complete + mill Waiting must not settle": no line of a settled order is with a mill
\* that was never asked, however the order was worked on after it settled.
SettledLeavesNobodyWaiting ==
    parent.status = "settled" =>
        \A h \in Hops \ released : \A l \in Lots(h) : parent.lineStatus[l] = "declined"

\* Until the trader resumes a held hop, nothing the mill does there but settling it
\* reaches the buyer's order.
HeldHopIsQuiet ==
    [][\A h \in held : hop'[h] # hop[h] /\ hop'[h].status # "settled" => parent' = parent]_vars

\* The quantity first confirmed to the buyer is never rewritten, by any pass, settlement
\* or heal.
SnapshotIsKept ==
    [][\A l \in Lines : parent.confirmedQuantity[l] # 0
                        => parent'.confirmedQuantity[l] = parent.confirmedQuantity[l]]_vars

\* Whatever settles the buyer's order (a mill's settlement, a desk request or a read),
\* every mill that was asked is done by then and the order is out in full.
SettlesOnlyWhenAllDone ==
    [][parent'.status = "settled" /\ parent.status # "settled" =>
          /\ \A h \in released' : hop'[h].status \in SubsetComplete
          /\ OpenLines(parent') = {}
          /\ ~Short(parent')]_vars

\* A mill's settlement reaches a buyer's order that is still in work at once, held or not,
\* with the final quantities and no more on its LRs than those.
SettlementReachesBuyer ==
    [][\A h \in Hops : \A l \in Lots(h) :
          /\ hop'[h].status = "settled" /\ hop[h].status # "settled"
          /\ parent.status \notin Over \cup {"dispatched"}
          => /\ parent'.quantity[l] = hop'[h].quantity[l]
             /\ parent'.shipped[l] <= hop'[h].quantity[l]]_vars

-----------------------------------------------------------------------------
(* What the repository says and the code does not keep.                    *)

\* "Other mills stay": dropping a waiting mill does not end an order of which another mill
\* has agreed or sent a line.  millDecline only counts the lines still open.
DeclineSparesAgreed ==
    [][parent'.status = "declined" /\ parent.status # "declined" => InPlay(parent) = {}]_vars

\* "declined / cancelled: terminal, the timeline ends on this step (no dispatch/settle
\* tail)".  Nothing tells the hops: a parcel of one takes the order back into work.
EndedStaysEnded ==
    [][parent.status \in {"cancelled", "declined"}
          => parent'.status \in {"cancelled", "declined"}]_vars

\* The buyer cancels only what has not left.  After an LR is corrected while its line is
\* given up, the order reads confirmed again although goods of it are on the road.
CancelledHasNotLeft ==
    [][parent'.status = "cancelled" /\ parent.status # "cancelled" =>
          \A h \in Unheld : \A l \in InPlay(hop[h]) : hop[h].shipped[l] = 0]_vars
=============================================================================
