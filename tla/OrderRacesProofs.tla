-------------------------- MODULE OrderRacesProofs ---------------------------
(***************************************************************************)
(* What the races between requests on one ticket leave standing, for any   *)
(* number of requests in flight, any lines and any quantities.             *)
(*                                                                         *)
(* A step of the system is one of five things (StepKind): a request loads  *)
(* the ticket, loads it again, throws, writes the ticket, or sends goods.  *)
(* Each theorem then needs to look at the writes only once.                *)
(***************************************************************************)
EXTENDS OrderRaces, TLAPS

\* The writes a request in flight makes, in the order of the code: n is the ticket
\* that the next write of r leaves.
Writing(r, n) ==
    LET a == inflight[r]
        v == DecideLineWrites(order, a.s, a.yes, a.no, a.q, {})
    IN \/ /\ At(r, "amend", 1) /\ Present(a.yes)
          /\ n = AmendWrite(order, a.s, a.yes, a.no, a.q, a.no)
       \/ /\ At(r, "confirm", 1) /\ Present(OpenLines(a.s))
          /\ n = LockTx(order, a.s, OpenLines(a.s))
       \/ /\ At(r, "acceptQuote", 1) /\ Present(RatedOpen(a.s))
          /\ n = LockTx(order, a.s, RatedOpen(a.s))
       \/ /\ At(r, "quote", 1) /\ Present(a.yes \cup OpenLines(a.s))
          /\ n = QuoteTx(order, a.s, a.yes, a.q)
       \/ At(r, "quote", 2) /\ n = QuoteSent(order)
       \/ /\ At(r, "decide", 1) /\ Present(a.yes \cup a.no)
          /\ n = DecideRollUp(v, a.s, v, a.yes)
       \/ At(r, "decline", 1) /\ n = DeclineStatus(order)
       \/ At(r, "decline", 2) /\ n = DeclineOpenLines(order)
       \/ (At(r, "confirm", 2) \/ At(r, "decide", 2) \/ At(r, "decline", 3)) /\ n = SellerSpoke(order)
       \/ At(r, "cancel", 1) /\ n = CancelWrite(order)
       \/ /\ At(r, "supply", 1) /\ Present(CantChange(a.s, a.yes) \cup BackChange(a.s, a.no))
          /\ n = SetSupplyLines(order, a.s, a.yes, a.no)
       \/ At(r, "supply", 3) /\ n = SetSupplyStatus(order, a.s)
       \/ At(r, "quantity", 1) /\ n = SetQuantityLines(order, a.s, a.yes, a.q)
       \/ At(r, "quantity", 3) /\ n = SetQuantityStatus(order, a.s)
       \/ At(r, "dispatch", 2) /\ n = DispatchLines(order, a.s, a.q)
       \/ At(r, "dispatch", 3) /\ n = DispatchStatus(order, a.s, a.q)
       \/ At(r, "settle", 1) /\ n = SettleLines(order, a.s, a.q)
       \/ At(r, "settle", 2) /\ n = SettleStatus(order)
       \/ At(r, "deliver", 1) /\ n = DeliverLines(order)
       \/ At(r, "deliver", 3) /\ n = DeliverStatus(order)

Typed == {"amend", "quote", "decide", "quantity"}

\* What the guards of a request establish when it loads the ticket.
Loaded(op, yes, no, q) ==
    /\ op \in Racing /\ op \in Operations
    /\ yes \in SUBSET Lines /\ no \in SUBSET Lines /\ q \in [Lines -> Nat]
    /\ op \in Typed => q \in [Lines -> Quantities]
    /\ op = "supply" => no \subseteq Items(order)
    /\ op = "dispatch" => CanDispatch(order, q)
    /\ op = "settle" => CanSettle(order, q)
    /\ op = "deliver" => CanDeliver(order)
    /\ op = "confirm" => CanConfirm(order)

Loads(r) == \E op, yes, no, q : Loaded(op, yes, no, q) /\ Begin(r, op, yes, no, q)

Reloads(r) == /\ inflight[r].op \in {"supply", "quantity", "deliver"}
              /\ inflight[r].step = 2
              /\ Reload(r)

Throws(r) == inflight[r] # Idle /\ Throw(r)

WritesTicket(r) == /\ Writing(r, order')
                   /\ left' = left /\ raised' = raised
                   /\ \/ Return(r)
                      \/ Continue(r) /\ inflight[r].step \in 1..3

Sends(r) == /\ At(r, "dispatch", 1)
            /\ order' = DispatchShipment(order, inflight[r].q)
            /\ left' = [l \in Lines |-> left[l] + inflight[r].q[l]]
            /\ raised' = raised
            /\ Continue(r)

LEMMA NotIdle ==
    ASSUME NEW r \in Requests, inflight[r].op \in Operations
    PROVE  inflight[r] # Idle
  BY DEF Idle, Operations

\* The load of every operation, with what its guard tells about the call.
LEMMA LoadKind ==
    ASSUME TypeOK, NEW r \in Requests,
           \/ AmendBegin(r) \/ ConfirmBegin(r) \/ AcceptBegin(r) \/ QuoteBegin(r)
           \/ DecideBegin(r) \/ DeclineBegin(r) \/ CancelBegin(r) \/ SupplyBegin(r)
           \/ QuantityBegin(r) \/ DispatchBegin(r) \/ SettleBegin(r) \/ DeliverBegin(r)
    PROVE  Loads(r)
<1>n. \A q \in [Lines -> Quantities] : q \in [Lines -> Nat]
  BY QuantitiesAssumption
<1>z. NoAmounts \in [Lines -> Nat]
  BY DEF NoAmounts
<1>c. \A q \in Carry : q \in [Lines -> Nat]
  BY ShippedAssumption DEF Carry
<1>s. {} \in SUBSET Lines /\ Some(Lines) \subseteq SUBSET Lines
      /\ Items(order) \subseteq Lines /\ Fresh \subseteq Lines
  BY DEF Some, Items, Fresh
<1>b. \A op, yes, no, q : Begin(r, op, yes, no, q) => op \in Racing /\ op \in Operations
  BY RacingAssumption DEF Begin
<1>1. CASE AmendBegin(r)
  <2>1. PICK kept \in SUBSET Items(order), added \in SUBSET Fresh, q \in [Lines -> Quantities] :
             Begin(r, "amend", kept, added, q)
    BY <1>1 DEF AmendBegin
  <2>2. Loaded("amend", kept, added, q)
    BY <2>1, <1>n, <1>s, <1>b DEF Loaded, Typed
  <2> QED BY <2>1, <2>2 DEF Loads
<1>2. CASE ConfirmBegin(r) \/ AcceptBegin(r) \/ DeclineBegin(r) \/ CancelBegin(r)
  <2>1. PICK op \in {"confirm", "acceptQuote", "decline", "cancel"} :
             /\ Begin(r, op, {}, {}, NoAmounts)
             /\ op = "confirm" => CanConfirm(order)
    BY <1>2 DEF ConfirmBegin, AcceptBegin, DeclineBegin, CancelBegin
  <2>2. Loaded(op, {}, {}, NoAmounts)
    BY <2>1, <1>z, <1>s, <1>b DEF Loaded, Typed
  <2> QED BY <2>1, <2>2 DEF Loads
<1>3. CASE QuoteBegin(r)
  <2>1. PICK offered \in Some(Lines), q \in [Lines -> Quantities] :
             Begin(r, "quote", offered, {}, q)
    BY <1>3 DEF QuoteBegin
  <2>2. Loaded("quote", offered, {}, q)
    BY <2>1, <1>n, <1>s, <1>b DEF Loaded, Typed
  <2> QED BY <2>1, <2>2 DEF Loads
<1>4. CASE DecideBegin(r)
  <2>1. PICK yes \in SUBSET Lines, no \in SUBSET Lines, q \in [Lines -> Quantities] :
             Begin(r, "decide", yes, no, q)
    BY <1>4 DEF DecideBegin
  <2>2. Loaded("decide", yes, no, q)
    BY <2>1, <1>n, <1>b DEF Loaded, Typed
  <2> QED BY <2>1, <2>2 DEF Loads
<1>5. CASE SupplyBegin(r)
  <2>1. PICK cant \in SUBSET Lines, back \in SUBSET Lines :
             CanSetSupply(order, cant, back) /\ Begin(r, "supply", cant, back, NoAmounts)
    BY <1>5 DEF SupplyBegin
  <2>2. Loaded("supply", cant, back, NoAmounts)
    BY <2>1, <1>z, <1>b DEF Loaded, Typed, CanSetSupply
  <2> QED BY <2>1, <2>2 DEF Loads
<1>6. CASE QuantityBegin(r)
  <2>1. PICK lines \in Some(Lines), q \in [Lines -> Quantities] :
             Begin(r, "quantity", lines, {}, q)
    BY <1>6 DEF QuantityBegin
  <2>2. Loaded("quantity", lines, {}, q)
    BY <2>1, <1>n, <1>s, <1>b DEF Loaded, Typed
  <2> QED BY <2>1, <2>2 DEF Loads
<1>7. CASE DispatchBegin(r)
  <2>1. PICK parcel \in Carry : CanDispatch(order, parcel) /\ Begin(r, "dispatch", {}, {}, parcel)
    BY <1>7 DEF DispatchBegin
  <2>2. Loaded("dispatch", {}, {}, parcel)
    BY <2>1, <1>c, <1>s, <1>b DEF Loaded, Typed
  <2> QED BY <2>1, <2>2 DEF Loads
<1>8. CASE SettleBegin(r)
  <2>1. PICK final \in Carry : CanSettle(order, final) /\ Begin(r, "settle", {}, {}, final)
    BY <1>8 DEF SettleBegin
  <2>2. Loaded("settle", {}, {}, final)
    BY <2>1, <1>c, <1>s, <1>b DEF Loaded, Typed
  <2> QED BY <2>1, <2>2 DEF Loads
<1>9. CASE DeliverBegin(r)
  <2>1. CanDeliver(order) /\ Begin(r, "deliver", {}, {}, NoAmounts)
    BY <1>9 DEF DeliverBegin
  <2>2. Loaded("deliver", {}, {}, NoAmounts)
    BY <2>1, <1>z, <1>s, <1>b DEF Loaded, Typed
  <2> QED BY <2>1, <2>2 DEF Loads
<1> QED BY <1>1, <1>2, <1>3, <1>4, <1>5, <1>6, <1>7, <1>8, <1>9

LEMMA StepKind ==
    ASSUME TypeOK, NEW r \in Requests, BeforeLock(r) \/ AfterLock(r)
    PROVE  Loads(r) \/ Reloads(r) \/ Throws(r) \/ WritesTicket(r) \/ Sends(r)
<1>1. CASE \/ AmendBegin(r) \/ ConfirmBegin(r) \/ AcceptBegin(r) \/ QuoteBegin(r)
           \/ DecideBegin(r) \/ DeclineBegin(r) \/ CancelBegin(r) \/ SupplyBegin(r)
           \/ QuantityBegin(r) \/ DispatchBegin(r) \/ SettleBegin(r) \/ DeliverBegin(r)
  BY <1>1, LoadKind
<1> USE NotIdle DEF At, Write, Finish, Writing, WritesTicket, Throws, Operations
<1>2. CASE AmendCommit(r) \/ ConfirmCommit(r) \/ AcceptCommit(r)
  BY <1>2 DEF AmendCommit, ConfirmCommit, AcceptCommit, ConfirmTx, AcceptQuoteTx
<1>3. CASE QuoteCommit(r) \/ QuoteMessage(r) \/ DecideCommit(r)
  BY <1>3 DEF QuoteCommit, QuoteMessage, DecideCommit
<1>4. CASE DeclineTransition(r) \/ DeclineRows(r) \/ SellerCard(r) \/ CancelTransition(r)
  BY <1>4 DEF DeclineTransition, DeclineRows, SellerCard, CancelTransition
<1>5. CASE SupplyCommit(r) \/ SupplyStatus(r) \/ QuantityCommit(r) \/ QuantityStatus(r)
  BY <1>5 DEF SupplyCommit, SupplyStatus, QuantityCommit, QuantityStatus
<1>6. CASE SupplyReload(r) \/ QuantityReload(r) \/ DeliverCheck(r)
  BY <1>6 DEF SupplyReload, QuantityReload, DeliverCheck, Reloads
<1>7. CASE DispatchShip(r)
  BY <1>7 DEF DispatchShip, Sends
<1>8. CASE DispatchRows(r) \/ DispatchEnd(r) \/ SettleCommit(r) \/ SettleEnd(r)
  BY <1>8 DEF DispatchRows, DispatchEnd, SettleCommit, SettleEnd
<1>9. CASE DeliverRows(r) \/ DeliverTransition(r)
  BY <1>9 DEF DeliverRows, DeliverTransition
<1> QED BY <1>1, <1>2, <1>3, <1>4, <1>5, <1>6, <1>7, <1>8, <1>9 DEF BeforeLock, AfterLock

-----------------------------------------------------------------------------
(* Types, and what a request in flight knows about its own call.           *)

RequestOK(r) ==
    /\ inflight[r].op \in Typed => inflight[r].q \in [Lines -> Quantities]
    /\ At(r, "supply", 1) => inflight[r].no \subseteq Items(inflight[r].s)
    /\ inflight[r].op = "dispatch" => \E l \in Lines : inflight[r].q[l] > 0

RequestsOK == \A r \in Requests : inflight[r] # Idle => RequestOK(r)

TypeInv == TypeOK /\ RequestsOK

\* A request that has come to one of its steps carries all the fields of a call.
LEMMA IsServing ==
    ASSUME TypeInv, NEW r \in Requests, inflight[r].op \in Operations
    PROVE  inflight[r] \in Serving /\ RequestOK(r)
  BY NotIdle DEF TypeInv, TypeOK, RequestsOK

LEMMA WritingServes ==
    ASSUME TypeInv, NEW r \in Requests, NEW n, Writing(r, n)
    PROVE  inflight[r] \in Serving /\ RequestOK(r) /\ inflight[r].op \in Operations
<1>1. inflight[r].op \in Operations
  BY DEF Writing, At, Operations
<1> QED BY <1>1, IsServing

\* What the writes of a decision, of goods and of a roll-up leave, whatever they read.
LEMMA DecideType ==
    ASSUME NEW o \in Ticket, NEW s \in Ticket, NEW v \in Ticket,
           NEW yes \in SUBSET Lines, NEW no \in SUBSET Lines,
           NEW q \in [Lines -> Quantities], NEW priced \in SUBSET Lines
    PROVE  /\ DecideLineWrites(o, s, yes, no, q, priced) \in Ticket
           /\ DecideRollUp(o, s, v, yes) \in Ticket
<1>1. DecideLineWrites(o, s, yes, no, q, priced) \in Ticket
  BY QuantitiesAssumption DEF DecideLineWrites, Ticket, LineStatus
<1>2. DecideRollUp(o, s, v, yes) \in Ticket
  BY DEF DecideRollUp, Ticket, OrderStatus
<1> QED BY <1>1, <1>2

LEMMA DispatchWritesType ==
    ASSUME NEW o \in Ticket, NEW s \in Ticket, NEW parcel \in [Lines -> Nat]
    PROVE  /\ DispatchShipment(o, parcel) \in Ticket
           /\ DispatchLines(o, s, parcel) \in Ticket
           /\ DispatchStatus(o, s, parcel) \in Ticket
<1>1. DispatchShipment(o, parcel) \in Ticket
  <2>1. ASSUME NEW l \in Lines PROVE o.shipped[l] + parcel[l] \in Nat
    <3>1. o.shipped[l] \in Nat
      BY DEF Ticket
    <3> QED BY <3>1
  <2> QED BY <2>1 DEF DispatchShipment, Ticket
<1>2. DispatchLines(o, s, parcel) \in Ticket
  BY DEF DispatchLines, Ticket, LineStatus
<1>3. DispatchStatus(o, s, parcel) \in Ticket
  BY DEF DispatchStatus, OpenWindow, Ticket, OrderStatus
<1> QED BY <1>1, <1>2, <1>3

LEMMA RollUpStatus ==
    ASSUME NEW v
    PROVE  /\ RollUp(v) \in Fulfilling
           /\ SupplyRollUp(v) \in Fulfilling \cup {"declined"}
  BY DEF RollUp, SupplyRollUp, Fulfilling

LEMMA StatusType ==
    ASSUME NEW o \in Ticket, NEW v
    PROVE  /\ SetSupplyStatus(o, v) \in Ticket
           /\ SetQuantityStatus(o, v) \in Ticket
           /\ EditShipmentStatus(o, v) \in Ticket
<1>1. ASSUME NEW st \in OrderStatus PROVE StatusWrite(o, st) \in Ticket
  <2> DEFINE over == st \in {"dispatched", "declined"}
  <2>1. over \in BOOLEAN
    OBVIOUS
  <2>2. StatusWrite(o, st) = [o EXCEPT !.status = st, !.closed = over]
    BY DEF StatusWrite
  <2> HIDE DEF over
  <2> QED BY <2>1, <2>2 DEF Ticket
<1>2. Fulfilling \cup {"declined"} \subseteq OrderStatus
  BY DEF Fulfilling, OrderStatus
<1> QED BY <1>1, <1>2, RollUpStatus
        DEF SetSupplyStatus, SetQuantityStatus, EditShipmentStatus, OrderStatus

\* Every write leaves a ticket.
LEMMA WritingType ==
    ASSUME TypeInv, NEW r \in Requests, NEW n, Writing(r, n)
    PROVE  n \in Ticket
<1> DEFINE a == inflight[r]
           v == DecideLineWrites(order, a.s, a.yes, a.no, a.q, {})
<1>1. /\ order \in Ticket /\ a.s \in Ticket
      /\ a.yes \in SUBSET Lines /\ a.no \in SUBSET Lines /\ a.q \in [Lines -> Nat]
  BY WritingServes DEF TypeInv, TypeOK, Serving
<1>2. a.op \in Typed => a.q \in [Lines -> Quantities]
  BY WritingServes DEF RequestOK
<1>3. OpenLines(a.s) \in SUBSET Lines /\ RatedOpen(a.s) \in SUBSET Lines /\ {} \in SUBSET Lines
  BY DEF OpenLines, RatedOpen
<1>4. CASE a.op \in Typed
  <2>1. a.q \in [Lines -> Quantities]
    BY <1>2, <1>4
  <2>2. AmendWrite(order, a.s, a.yes, a.no, a.q, a.no) \in Ticket
    BY <1>1, <2>1, QuantitiesAssumption DEF AmendWrite, Ticket, LineStatus
  <2>3. QuoteTx(order, a.s, a.yes, a.q) \in Ticket
    BY <1>1, <2>1, QuantitiesAssumption DEF QuoteTx, Ticket, LineStatus
  <2>4. v \in Ticket
    BY <1>1, <1>3, <2>1, DecideType
  <2> HIDE DEF v
  <2>5. DecideRollUp(v, a.s, v, a.yes) \in Ticket
    BY <1>1, <1>3, <2>1, <2>4, DecideType
  <2>6. SetQuantityLines(order, a.s, a.yes, a.q) \in Ticket
    BY <1>1, <2>1, QuantitiesAssumption DEF SetQuantityLines, Ticket, LineStatus
  <2>7. /\ QuoteSent(order) \in Ticket /\ SellerSpoke(order) \in Ticket
        /\ SetQuantityStatus(order, a.s) \in Ticket
    BY <1>1, StatusType DEF QuoteSent, SellerSpoke, Ticket
  <2> QED BY <1>4, <2>2, <2>3, <2>5, <2>6, <2>7 DEF Writing, At, Typed, v
<1>5. CASE a.op \notin Typed
  <2>1. LockTx(order, a.s, OpenLines(a.s)) \in Ticket /\ LockTx(order, a.s, RatedOpen(a.s)) \in Ticket
    BY <1>1, <1>3 DEF LockTx, Ticket, SetLines, Stamp, LineStatus, OrderStatus
  <2>2. /\ DeclineStatus(order) \in Ticket /\ DeclineOpenLines(order) \in Ticket
        /\ CancelWrite(order) \in Ticket /\ DeliverLines(order) \in Ticket
        /\ DeliverStatus(order) \in Ticket /\ SellerSpoke(order) \in Ticket
    BY <1>1 DEF DeclineStatus, DeclineOpenLines, CancelWrite, DeliverLines, DeliverStatus,
              SellerSpoke, SetLines, OpenWindow, Ticket, OrderStatus, LineStatus
  <2>3. SetSupplyLines(order, a.s, a.yes, a.no) \in Ticket /\ SetSupplyStatus(order, a.s) \in Ticket
    <3>1. SetSupplyLines(order, a.s, a.yes, a.no) \in Ticket
      BY <1>1 DEF SetSupplyLines, RestoredQuantity, Ticket, LineStatus
    <3> QED BY <1>1, <3>1, StatusType
  <2>4. DispatchLines(order, a.s, a.q) \in Ticket /\ DispatchStatus(order, a.s, a.q) \in Ticket
    BY <1>1, DispatchWritesType
  <2>5. SettleLines(order, a.s, a.q) \in Ticket /\ SettleStatus(order) \in Ticket
    BY <1>1 DEF SettleLines, SettleStatus, OpenWindow, Ticket, OrderStatus, LineStatus
  <2> QED BY <1>5, <2>1, <2>2, <2>3, <2>4, <2>5 DEF Writing, At, Typed
<1> QED BY <1>4, <1>5

\* What a request remembers while it moves on.
LEMMA MovesOn ==
    ASSUME TypeInv, NEW r \in Requests, inflight[r] \in Serving,
           Return(r) \/ (Continue(r) /\ inflight[r].step \in 1..3)
    PROVE  /\ inflight' \in [Requests -> Serving \cup {Idle}]
           /\ \A q \in Requests :
                 \/ inflight'[q] = inflight[q]
                 \/ q = r /\ inflight'[q] = Idle
                 \/ q = r /\ inflight'[q] = [inflight[q] EXCEPT !.step = inflight[q].step + 1]
<1> DEFINE e == [inflight[r] EXCEPT !.step = inflight[r].step + 1]
<1>0. inflight \in [Requests -> Serving \cup {Idle}]
  BY DEF TypeInv, TypeOK
<1>1. inflight[r].step \in 1..3 => e \in Serving
  BY DEF Serving
<1>2. CASE Return(r)
  BY <1>0, <1>2 DEF Return
<1>3. CASE Continue(r) /\ inflight[r].step \in 1..3
  <2>1. inflight' = [inflight EXCEPT ![r] = e]
    BY <1>3 DEF Continue
  <2> HIDE DEF e
  <2>2. /\ inflight' \in [Requests -> Serving \cup {Idle}] /\ inflight'[r] = e
        /\ \A q \in Requests : q # r => inflight'[q] = inflight[q]
    <3>1. e \in Serving
      BY <1>1, <1>3
    <3> QED BY <1>0, <2>1, <3>1
  <2> QED BY <2>2 DEF e
<1> QED BY <1>2, <1>3

LEMMA MovesType ==
    ASSUME TypeInv, NEW r \in Requests, inflight[r] \in Serving, order' \in Ticket,
           left' \in [Lines -> Nat], raised' \in BOOLEAN,
           Return(r) \/ (Continue(r) /\ inflight[r].step \in 1..3)
    PROVE  TypeInv'
<1>1. TypeOK'
  BY MovesOn DEF TypeOK
<1>2. ASSUME NEW q \in Requests, inflight'[q] # Idle PROVE RequestOK(q)'
  <2>1. CASE inflight'[q] = inflight[q]
    BY <1>2, <2>1 DEF TypeInv, RequestsOK, RequestOK, At
  <2>2. CASE q = r /\ inflight'[q] = [inflight[q] EXCEPT !.step = inflight[q].step + 1]
    <3>1. /\ inflight'[q].op = inflight[q].op /\ inflight'[q].q = inflight[q].q
          /\ inflight'[q].step # 1
      BY <2>2 DEF Serving
    <3>2. inflight[q].op \in Operations
      BY <2>2 DEF Serving
    <3>3. RequestOK(q)
      BY <3>2, IsServing
    <3> QED BY <3>1, <3>3 DEF RequestOK, At
  <2> QED BY <1>2, <2>1, <2>2, MovesOn
<1> QED BY <1>1, <1>2 DEF TypeInv, RequestsOK

\* What a load and a second load leave in flight.
LEMMA LoadsOn ==
    ASSUME TypeInv, NEW r \in Requests, NEW op, NEW yes, NEW no, NEW q,
           Loaded(op, yes, no, q), Begin(r, op, yes, no, q)
    PROVE  /\ inflight' \in [Requests -> Serving \cup {Idle}]
           /\ \A p \in Requests : p # r => inflight'[p] = inflight[p]
           /\ inflight'[r] = [op |-> op, s |-> order, yes |-> yes, no |-> no, q |-> q,
                              step |-> 1]
<1> DEFINE e == [op |-> op, s |-> order, yes |-> yes, no |-> no, q |-> q, step |-> 1]
<1>1. e \in Serving
  BY DEF TypeInv, TypeOK, Serving, Loaded
<1>2. inflight' = [inflight EXCEPT ![r] = e] /\ inflight \in [Requests -> Serving \cup {Idle}]
  BY DEF Begin, TypeInv, TypeOK
<1> HIDE DEF e
<1>3. /\ inflight' \in [Requests -> Serving \cup {Idle}] /\ inflight'[r] = e
      /\ \A p \in Requests : p # r => inflight'[p] = inflight[p]
  BY <1>1, <1>2
<1> QED BY <1>3 DEF e

LEMMA ReloadsOn ==
    ASSUME TypeInv, NEW r \in Requests, Reloads(r)
    PROVE  /\ inflight' \in [Requests -> Serving \cup {Idle}]
           /\ \A p \in Requests : p # r => inflight'[p] = inflight[p]
           /\ inflight'[r].s = order /\ inflight'[r].step = 3
           /\ inflight'[r].op = inflight[r].op /\ inflight'[r].q = inflight[r].q
           /\ inflight'[r].op \in {"supply", "quantity", "deliver"}
<1>1. inflight[r] \in Serving /\ order \in Ticket /\ inflight[r].step = 2
  BY IsServing DEF Reloads, Operations, TypeInv, TypeOK
<1>2. PICK k \in 1..4 : k = 3
  OBVIOUS
<1> DEFINE e == [inflight[r] EXCEPT !.s = order, !.step = k]
<1>3. /\ e \in Serving /\ e.s = order /\ e.step = k
      /\ e.op = inflight[r].op /\ e.q = inflight[r].q
  BY <1>1 DEF Serving
<1>4. inflight' = [inflight EXCEPT ![r] = e] /\ inflight \in [Requests -> Serving \cup {Idle}]
  <2>1. inflight[r].step + 1 = k
    BY <1>1, <1>2
  <2>2. inflight' = [inflight EXCEPT ![r] = [inflight[r] EXCEPT !.s = order,
                                                               !.step = inflight[r].step + 1]]
    BY DEF Reloads, Reload
  <2> QED BY <2>1, <2>2 DEF TypeInv, TypeOK
<1> HIDE DEF e
<1>5. /\ inflight' \in [Requests -> Serving \cup {Idle}] /\ inflight'[r] = e
      /\ \A p \in Requests : p # r => inflight'[p] = inflight[p]
  BY <1>3, <1>4
<1> QED BY <1>2, <1>3, <1>5 DEF Reloads

LEMMA ThrowsOn ==
    ASSUME TypeInv, NEW r \in Requests, Throws(r)
    PROVE  /\ inflight' \in [Requests -> Serving \cup {Idle}]
           /\ \A p \in Requests : p # r => inflight'[p] = inflight[p]
           /\ inflight'[r] = Idle
  BY DEF Throws, Throw, Return, TypeInv, TypeOK

LEMMA TypeInit == Init => TypeInv
<1> SUFFICES ASSUME Init PROVE TypeInv
  OBVIOUS
<1>1. PICK placed \in Some(Lines), q \in [Lines -> Quantities] :
         \E priced \in SUBSET placed : order = NewTicket(placed, q, priced, FALSE)
  BY DEF Init
<1>2. placed \in SUBSET Lines
  BY DEF Some
<1>3. \A priced \in SUBSET Lines : NewTicket(placed, q, priced, FALSE) \in Ticket
  BY <1>2, QuantitiesAssumption DEF NewTicket, Ticket, OrderStatus, LineStatus
<1>4. order \in Ticket
  BY <1>1, <1>2, <1>3
<1> QED BY <1>4 DEF Init, TypeInv, TypeOK, RequestsOK, NoAmounts

LEMMA TypeStep == TypeInv /\ [Next]_vars => TypeInv'
<1> SUFFICES ASSUME TypeInv, [Next]_vars PROVE TypeInv'
  OBVIOUS
<1> order \in Ticket /\ left \in [Lines -> Nat] /\ raised \in BOOLEAN
  BY DEF TypeInv, TypeOK
<1>o. ASSUME NEW r \in Requests, NEW q \in Requests, q # r, inflight'[q] = inflight[q],
             inflight'[q] # Idle
      PROVE  RequestOK(q)'
  BY <1>o DEF TypeInv, RequestsOK, RequestOK, At
<1>1. ASSUME NEW r \in Requests, Loads(r) PROVE TypeInv'
  <2>1. PICK op, yes, no, q : Loaded(op, yes, no, q) /\ Begin(r, op, yes, no, q)
    BY <1>1 DEF Loads
  <2>2. TypeOK'
    BY <2>1, LoadsOn DEF Begin, TypeOK
  <2>3. RequestOK(r)'
    <3>1. /\ inflight'[r].op = op /\ inflight'[r].q = q /\ inflight'[r].no = no
          /\ inflight'[r].s = order
      <4>1. inflight'[r] = [op |-> op, s |-> order, yes |-> yes, no |-> no, q |-> q, step |-> 1]
        BY <2>1, LoadsOn
      <4> QED BY <4>1
    <3> QED BY <2>1, <3>1 DEF RequestOK, At, Loaded, CanDispatch, Items
  <2> QED BY <2>1, <2>2, <2>3, <1>o, LoadsOn DEF TypeInv, RequestsOK
<1>2. ASSUME NEW r \in Requests, Reloads(r) PROVE TypeInv'
  <2>1. TypeOK'
    BY <1>2, ReloadsOn DEF Reloads, Reload, TypeOK
  <2>2. RequestOK(r)
    BY <1>2, IsServing DEF Reloads, Operations
  <2>3. RequestOK(r)'
    BY <1>2, <2>2, ReloadsOn DEF RequestOK, At
  <2> QED BY <1>2, <2>1, <2>3, <1>o, ReloadsOn DEF TypeInv, RequestsOK
<1>3. ASSUME NEW r \in Requests, Throws(r) PROVE TypeInv'
  <2>1. TypeOK'
    BY <1>3, ThrowsOn DEF Throws, Throw, TypeOK
  <2> QED BY <1>3, <2>1, <1>o, ThrowsOn DEF TypeInv, RequestsOK
<1>4. ASSUME NEW r \in Requests, WritesTicket(r) PROVE TypeInv'
  <2>1. order' \in Ticket /\ inflight[r] \in Serving
    BY <1>4, WritingType, WritingServes DEF WritesTicket
  <2> QED BY <1>4, <2>1, MovesType DEF WritesTicket
<1>5. ASSUME NEW r \in Requests, Sends(r) PROVE TypeInv'
  <2>1. inflight[r] \in Serving /\ inflight[r].step = 1
    BY <1>5, IsServing DEF Sends, At, Operations
  <2>2. inflight[r].q \in [Lines -> Nat]
    BY <2>1 DEF Serving
  <2>3. order' \in Ticket
    BY <1>5, <2>2, DispatchWritesType DEF Sends
  <2>4. left' \in [Lines -> Nat]
    <3>1. \A l \in Lines : left[l] + inflight[r].q[l] \in Nat
      BY <2>2
    <3> QED BY <1>5, <3>1 DEF Sends
  <2> QED BY <1>5, <2>1, <2>3, <2>4, MovesType DEF Sends
<1>6. CASE UNCHANGED vars
  BY <1>6 DEF vars, TypeInv, TypeOK, RequestsOK, RequestOK, At
<1> QED BY <1>1, <1>2, <1>3, <1>4, <1>5, <1>6, StepKind DEF Next, TypeInv

\* The ticket, the calls in flight and the count of goods keep their types.
THEOREM RaceTypes == Spec => []TypeOK
<1>1. TypeInv => TypeOK
  BY DEF TypeInv
<1> QED BY <1>1, TypeInit, TypeStep, PTL DEF Spec

\* A request in flight carries a call that its guard let in: quantities from the sheet,
\* lines of the order, and something to send if it is a dispatch.
THEOREM AlwaysTypeInv == Spec => []TypeInv
  BY TypeInit, TypeStep, PTL DEF Spec

-----------------------------------------------------------------------------
(* What the writes do to the status and the closing.                       *)

\* The tickets a write starts from, for the lemmas below.
LEMMA WritingOn ==
    ASSUME TypeInv, NEW r \in Requests, NEW n, Writing(r, n)
    PROVE  order \in Ticket /\ inflight[r].s \in Ticket
  BY WritingServes DEF TypeInv, TypeOK, Serving

\* No write takes an order back to "requested", and none but the ones that say so
\* set a finished status without closedAt.
LEMMA WritingStatus ==
    ASSUME TypeInv, NEW r \in Requests, NEW n, Writing(r, n)
    PROVE  /\ n.status = "requested" => order.status = "requested"
           /\ FinishedIsClosed /\ n.status \in {"dispatched", "settled", "declined", "cancelled"}
                => n.closed
<1> DEFINE Over == {"dispatched", "settled", "declined", "cancelled"}
           Fine == /\ n.status = "requested" => order.status = "requested"
                   /\ FinishedIsClosed /\ n.status \in Over => n.closed
           a == inflight[r]
           v == DecideLineWrites(order, a.s, a.yes, a.no, a.q, {})
<1>0. order \in Ticket
  BY WritingOn
<1>k. ASSUME n.status = order.status, n.closed = order.closed PROVE Fine
  BY <1>k DEF FinishedIsClosed
<1>1. CASE n = AmendWrite(order, a.s, a.yes, a.no, a.q, a.no)
  BY <1>0, <1>1, <1>k DEF AmendWrite, Ticket
<1>2. CASE n = LockTx(order, a.s, OpenLines(a.s)) \/ n = LockTx(order, a.s, RatedOpen(a.s))
  BY <1>0, <1>2 DEF LockTx, Ticket
<1>3. CASE n = QuoteTx(order, a.s, a.yes, a.q) \/ n = QuoteSent(order) \/ n = SellerSpoke(order)
  BY <1>0, <1>3, <1>k DEF QuoteTx, QuoteSent, SellerSpoke, Ticket
<1>4. CASE n = DecideRollUp(v, a.s, v, a.yes)
  <2>1. v.status = order.status /\ v.closed = order.closed
    BY <1>0 DEF DecideLineWrites, Ticket
  <2>2. v = [v EXCEPT !.inquiry = v.inquiry] /\ DOMAIN v = DOMAIN order
    BY <1>0 DEF DecideLineWrites, Ticket
  <2> HIDE DEF v
  <2>3. \/ n.status = "declined" /\ n.closed
        \/ n.status = "confirmed"
        \/ n.status = v.status /\ n.closed = v.closed
    BY <1>0, <1>4, <2>2 DEF DecideRollUp, Ticket
  <2> QED BY <2>1, <2>3, <1>k
<1>5. CASE n = DeclineStatus(order) \/ n = CancelWrite(order) \/ n = SettleStatus(order)
  BY <1>0, <1>5 DEF DeclineStatus, CancelWrite, SettleStatus, Ticket
<1>6. CASE n = DeclineOpenLines(order) \/ n = DeliverLines(order)
  BY <1>0, <1>6, <1>k DEF DeclineOpenLines, DeliverLines, Ticket
<1>7. CASE n = SetSupplyLines(order, a.s, a.yes, a.no) \/ n = SetQuantityLines(order, a.s, a.yes, a.q)
  BY <1>0, <1>7, <1>k DEF SetSupplyLines, SetQuantityLines, Ticket
<1>8. CASE n = SetSupplyStatus(order, a.s) \/ n = SetQuantityStatus(order, a.s)
  <2>1. PICK st : n = StatusWrite(order, st) /\ st \in Fulfilling \cup {"declined"}
    BY <1>8, RollUpStatus DEF SetSupplyStatus, SetQuantityStatus, Fulfilling
  <2>2. n.status = st /\ n.closed = (st \in {"dispatched", "declined"})
    BY <1>0, <2>1 DEF StatusWrite, Ticket
  <2> QED BY <2>1, <2>2 DEF Fulfilling
<1>9. CASE n = DispatchLines(order, a.s, a.q) \/ n = SettleLines(order, a.s, a.q)
  BY <1>0, <1>9, <1>k DEF DispatchLines, SettleLines, Ticket
<1>10. CASE n = DispatchStatus(order, a.s, a.q) \/ n = DeliverStatus(order)
  BY <1>0, <1>10 DEF DispatchStatus, DeliverStatus, Ticket
<1> QED BY <1>1, <1>2, <1>3, <1>4, <1>5, <1>6, <1>7, <1>8, <1>9, <1>10 DEF Writing

-----------------------------------------------------------------------------
(* closedAt.                                                               *)

LEMMA ClosedStep == ASSUME TypeInv, FinishedIsClosed, [Next]_vars PROVE FinishedIsClosed'
<1> USE DEF FinishedIsClosed
<1>1. ASSUME NEW r \in Requests, Loads(r) \/ Reloads(r) \/ Throws(r) PROVE FinishedIsClosed'
  BY <1>1 DEF Loads, Begin, Reloads, Reload, Throws, Throw
<1>2. ASSUME NEW r \in Requests, WritesTicket(r) PROVE FinishedIsClosed'
  BY <1>2, WritingStatus DEF WritesTicket
<1>3. ASSUME NEW r \in Requests, Sends(r) PROVE FinishedIsClosed'
  <2>1. order' = DispatchShipment(order, inflight[r].q) /\ order \in Ticket
    BY <1>3 DEF Sends, TypeInv, TypeOK
  <2> QED BY <2>1 DEF DispatchShipment, Ticket
<1>4. CASE UNCHANGED vars
  BY <1>4 DEF vars
<1> QED BY <1>1, <1>2, <1>3, <1>4, StepKind DEF Next, TypeInv

\* Whichever of the racing writes comes last, a ticket that reads complete, settled,
\* declined or cancelled carries closedAt.
THEOREM FinishedCarriesClosed == Spec => []FinishedIsClosed
<1>1. Init => FinishedIsClosed
  BY DEF Init, FinishedIsClosed, NewTicket
<1>2. TypeInv /\ FinishedIsClosed /\ [Next]_vars => FinishedIsClosed'
  BY ClosedStep
<1> QED BY <1>1, <1>2, AlwaysTypeInv, PTL DEF Spec

-----------------------------------------------------------------------------
(* Nothing leaves before the lock.  A dispatch that was let in keeps the    *)
(* order from being asked for until its goods are out.                      *)

Nothing == \A l \in Lines : left[l] = 0

NoEarlyGoods ==
    order.status = "requested" =>
       /\ Nothing
       /\ \A r \in Requests : ~At(r, "dispatch", 1)

LEMMA EarlyStep == ASSUME TypeInv, NoEarlyGoods, [Next]_vars PROVE NoEarlyGoods'
<1>0. SUFFICES ASSUME order'.status = "requested"
               PROVE  Nothing' /\ \A r \in Requests : ~At(r, "dispatch", 1)'
  BY DEF NoEarlyGoods
<1>1. ASSUME NEW r \in Requests, Loads(r)
      PROVE  Nothing' /\ \A p \in Requests : ~At(p, "dispatch", 1)'
  <2>1. PICK op, yes, no, q : Loaded(op, yes, no, q) /\ Begin(r, op, yes, no, q)
    BY <1>1 DEF Loads
  <2>2. /\ inflight'[r] = [op |-> op, s |-> order, yes |-> yes, no |-> no, q |-> q, step |-> 1]
        /\ \A p \in Requests : p # r => inflight'[p] = inflight[p]
    BY <2>1, LoadsOn
  <2>3. order' = order /\ left' = left
    BY <2>1 DEF Begin
  <2>4. op # "dispatch"
    BY <1>0, <2>1, <2>3 DEF Loaded, CanDispatch
  <2> QED BY <1>0, <2>2, <2>3, <2>4 DEF NoEarlyGoods, Nothing, At
<1>2. ASSUME NEW r \in Requests, Reloads(r)
      PROVE  Nothing' /\ \A p \in Requests : ~At(p, "dispatch", 1)'
  BY <1>0, <1>2, ReloadsOn DEF Reloads, Reload, NoEarlyGoods, Nothing, At
<1>3. ASSUME NEW r \in Requests, Throws(r)
      PROVE  Nothing' /\ \A p \in Requests : ~At(p, "dispatch", 1)'
  BY <1>0, <1>3, ThrowsOn DEF Throws, Throw, NoEarlyGoods, Nothing, At, Idle
<1>4. ASSUME NEW r \in Requests, WritesTicket(r)
      PROVE  Nothing' /\ \A p \in Requests : ~At(p, "dispatch", 1)'
  <2>1. order.status = "requested" /\ inflight[r] \in Serving
    BY <1>0, <1>4, WritingStatus, WritingServes DEF WritesTicket
  <2>2. ASSUME NEW p \in Requests PROVE ~At(p, "dispatch", 1)'
    <3>1. CASE inflight'[p] = inflight[p]
      BY <2>1, <3>1 DEF NoEarlyGoods, At
    <3>2. CASE inflight'[p] = Idle
      BY <3>2 DEF Idle, At
    <3>3. CASE p = r /\ inflight'[p] = [inflight[p] EXCEPT !.step = inflight[p].step + 1]
      BY <2>1, <3>3 DEF Serving, At
    <3> QED BY <1>4, <2>1, <3>1, <3>2, <3>3, MovesOn DEF WritesTicket
  <2> QED BY <1>4, <2>1, <2>2 DEF WritesTicket, NoEarlyGoods, Nothing
<1>5. ASSUME NEW r \in Requests, Sends(r)
      PROVE  Nothing' /\ \A p \in Requests : ~At(p, "dispatch", 1)'
  <2>1. order' = DispatchShipment(order, inflight[r].q) /\ order \in Ticket
    BY <1>5 DEF Sends, TypeInv, TypeOK
  <2>2. order.status = "requested"
    BY <1>0, <2>1 DEF DispatchShipment, Ticket
  <2> QED BY <1>5, <2>2 DEF Sends, NoEarlyGoods
<1>6. CASE UNCHANGED vars
  BY <1>0, <1>6 DEF vars, NoEarlyGoods, Nothing, At
<1> QED BY <1>1, <1>2, <1>3, <1>4, <1>5, <1>6, StepKind DEF Next, TypeInv

\* No write of a request that loaded earlier takes a locked order back to being asked
\* for, so a ticket that is being asked for has sent nothing.
THEOREM AskedForSendsNothing == Spec => []NothingShipsRequested
<1>1. Init => NoEarlyGoods
  BY DEF Init, NoEarlyGoods, Nothing, NoAmounts, At, Idle
<1>2. TypeInv /\ NoEarlyGoods /\ [Next]_vars => NoEarlyGoods'
  BY EarlyStep
<1>3. TypeInv /\ NoEarlyGoods => NothingShipsRequested
  BY DEF TypeInv, TypeOK, NoEarlyGoods, Nothing, NoAmounts, NothingShipsRequested
<1> QED BY <1>1, <1>2, <1>3, AlwaysTypeInv, PTL DEF Spec

-----------------------------------------------------------------------------
(* Complete tickets.  As long as nothing has left, neither the ticket nor   *)
(* any copy of it that a request has loaded can be rolled up to complete:   *)
(* every line on it asks for something and none of them says it is out.     *)

Complete == {"dispatched", "settled", "delivered"}

Unsent(o) == /\ o.status \notin Complete
             /\ \A l \in Lines : /\ o.shipped[l] = 0
                                 /\ o.lineStatus[l] \notin {"dispatched", "delivered"}
                                 /\ o.lineStatus[l] # "none" => o.quantity[l] > 0

UnsentCall(r) == /\ Unsent(inflight[r].s)
                 /\ inflight[r].op \notin {"settle", "deliver"}
                 /\ inflight[r].op = "dispatch" => inflight[r].step = 1

UnsentInv == Nothing => /\ Unsent(order)
                        /\ \A r \in Requests : inflight[r] # Idle => UnsentCall(r)

\* The roll-ups of an unsent ticket.
LEMMA UnsentRollUp ==
    ASSUME NEW v \in Ticket, Unsent(v)
    PROVE  /\ Shippable(v) # {} => RollUp(v) \in {"confirmed", "part_shipped"}
           /\ SupplyRollUp(v) \in {"confirmed", "part_shipped", "declined"}
<1>1. \A l \in Shippable(v) : ~LineOut(v, l)
  <2> TAKE l \in Shippable(v)
  <2>1. l \in Lines /\ v.quantity[l] > 0 /\ v.shipped[l] = 0
    BY DEF Shippable, Items, Unsent
  <2>2. v.quantity[l] \in Nat
    BY <2>1 DEF Ticket
  <2> QED BY <2>1, <2>2 DEF LineOut, Covered, Unsent
<1>2. Shippable(v) # {} => RollUp(v) \in {"confirmed", "part_shipped"}
  BY <1>1 DEF RollUp, AllOut
<1>3. \A l \in Items(v) : ~(v.shipped[l] > 0)
  <2> TAKE l \in Items(v)
  <2>1. v.shipped[l] = 0
    BY DEF Items, Unsent
  <2> QED BY <2>1
<1> QED BY <1>2, <1>3 DEF SupplyRollUp

LEMMA RequestedPositive ==
    ASSUME NEW q \in [Lines -> Quantities]
    PROVE  \A l \in Lines : q[l] \in Nat /\ q[l] > 0
<1> TAKE l \in Lines
<1>1. q[l] \in Nat \ {0}
  BY QuantitiesAssumption
<1> QED BY <1>1

\* A write that takes lines off, or opens, declines or confirms lines that are there or
\* that it gives a quantity, keeps an unsent ticket unsent.
LEMMA LinesStayUnsent ==
    ASSUME NEW o, Unsent(o), NEW n, n.status \notin Complete, NEW S \in SUBSET Lines,
           \A l \in Lines : n.shipped[l] = 0,
           \A l \in Lines \ S : n.lineStatus[l] = o.lineStatus[l] /\ n.quantity[l] = o.quantity[l],
           \A l \in S : \/ n.lineStatus[l] = "none"
                        \/ /\ n.lineStatus[l] = o.lineStatus[l]
                              \/ n.lineStatus[l] \in {"open", "declined", "confirmed"}
                           /\ \/ n.quantity[l] > 0
                              \/ n.quantity[l] = o.quantity[l] /\ o.lineStatus[l] # "none"
    PROVE  Unsent(n)
<1>1. ASSUME NEW l \in Lines
      PROVE  /\ n.lineStatus[l] \notin {"dispatched", "delivered"}
             /\ n.lineStatus[l] # "none" => n.quantity[l] > 0
  BY <1>1 DEF Unsent
<1> QED BY <1>1 DEF Unsent

LEMMA WritingUnsent ==
    ASSUME TypeInv, NEW r \in Requests, NEW n, Writing(r, n),
           Unsent(order), UnsentCall(r)
    PROVE  Unsent(n)
<1> DEFINE a == inflight[r]
           v == DecideLineWrites(order, a.s, a.yes, a.no, a.q, {})
<1>0. /\ order \in Ticket /\ a.s \in Ticket /\ Unsent(a.s)
      /\ a.yes \in SUBSET Lines /\ a.no \in SUBSET Lines
  BY WritingServes DEF TypeInv, TypeOK, Serving, UnsentCall
<1>q. a.op \in Typed => /\ a.q \in [Lines -> Quantities]
                        /\ \A l \in Lines : a.q[l] \in Nat /\ a.q[l] > 0
  BY WritingServes, RequestedPositive DEF RequestOK
<1>u. /\ order.status \notin Complete
      /\ \A l \in Lines : order.shipped[l] = 0 /\ a.s.shipped[l] = 0
  BY <1>0 DEF Unsent
<1>1. CASE a.op = "amend" /\ n = AmendWrite(order, a.s, a.yes, a.no, a.q, a.no)
  <2> DEFINE gone == Items(a.s) \ a.yes
             S == gone \cup a.yes \cup a.no
  <2>1. \A l \in Lines : a.q[l] > 0
    BY <1>1, <1>q DEF Typed
  <2>2. /\ n.status = order.status
        /\ n.shipped = [l \in Lines |-> IF l \in gone THEN 0 ELSE order.shipped[l]]
        /\ n.lineStatus = [l \in Lines |-> IF l \in a.no THEN "open"
                                           ELSE IF l \in gone THEN "none" ELSE order.lineStatus[l]]
        /\ n.quantity = [l \in Lines |-> IF l \in a.yes \cup a.no THEN a.q[l]
                                         ELSE IF l \in gone THEN 0 ELSE order.quantity[l]]
    BY <1>0, <1>1 DEF AmendWrite, Ticket
  <2>3. S \in SUBSET Lines
    BY <1>0 DEF Items
  <2>4. \A l \in Lines : n.shipped[l] = 0
    BY <1>u, <2>2
  <2>5. \A l \in Lines \ S : n.lineStatus[l] = order.lineStatus[l] /\ n.quantity[l] = order.quantity[l]
    BY <2>2
  <2>6. ASSUME NEW l \in S
        PROVE  \/ n.lineStatus[l] = "none"
               \/ /\ n.lineStatus[l] \in {"open", order.lineStatus[l]}
                  /\ n.quantity[l] > 0
    BY <2>1, <2>2, <2>3
  <2>7. n.status \notin Complete
    BY <1>u, <2>2
  <2> HIDE DEF S
  <2> QED BY <1>0, <2>3, <2>4, <2>5, <2>6, <2>7, LinesStayUnsent
<1>2. CASE \E S \in SUBSET Lines : Present(S) /\ n = LockTx(order, a.s, S)
  <2>1. PICK S \in SUBSET Lines : Present(S) /\ n = LockTx(order, a.s, S)
    BY <1>2
  <2>2. /\ n.status = "confirmed" /\ n.shipped = order.shipped /\ n.quantity = order.quantity
        /\ n.lineStatus = [l \in Lines |-> IF l \in S THEN "confirmed" ELSE order.lineStatus[l]]
    BY <1>0, <2>1 DEF LockTx, SetLines, Ticket
  <2> QED BY <1>0, <1>u, <2>1, <2>2, LinesStayUnsent DEF Present, Complete
<1>3. CASE /\ a.op = "quote" /\ Present(a.yes \cup OpenLines(a.s))
           /\ n = QuoteTx(order, a.s, a.yes, a.q)
  <2> DEFINE S == a.yes \cup OpenLines(a.s)
  <2>1. \A l \in Lines : a.q[l] > 0
    BY <1>3, <1>q DEF Typed
  <2>2. /\ n.status = order.status /\ n.shipped = order.shipped
        /\ n.quantity = [l \in Lines |-> IF l \in a.yes THEN a.q[l] ELSE order.quantity[l]]
        /\ n.lineStatus = [l \in Lines |->
              IF l \in a.yes THEN "open"
              ELSE IF l \in OpenLines(a.s) THEN "declined" ELSE order.lineStatus[l]]
    BY <1>0, <1>3 DEF QuoteTx, Ticket
  <2>3. S \in SUBSET Lines
    BY <1>0 DEF OpenLines
  <2>4. \A l \in Lines \ S : n.lineStatus[l] = order.lineStatus[l] /\ n.quantity[l] = order.quantity[l]
    BY <2>2
  <2>5. ASSUME NEW l \in S
        PROVE  /\ n.lineStatus[l] \in {"open", "declined"}
               /\ \/ n.quantity[l] > 0
                  \/ n.quantity[l] = order.quantity[l] /\ order.lineStatus[l] # "none"
    BY <1>3, <2>1, <2>2, <2>3 DEF Present
  <2>7. n.status \notin Complete /\ \A l \in Lines : n.shipped[l] = 0
    BY <1>u, <2>2
  <2> HIDE DEF S
  <2> QED BY <1>0, <2>3, <2>4, <2>5, <2>7, LinesStayUnsent
<1>4. CASE n = QuoteSent(order) \/ n = SellerSpoke(order)
  <2>1. /\ n.status = order.status /\ n.shipped = order.shipped
        /\ n.quantity = order.quantity /\ n.lineStatus = order.lineStatus
    BY <1>0, <1>4 DEF QuoteSent, SellerSpoke, Ticket
  <2> QED BY <1>0, <2>1 DEF Unsent
<1>5. CASE a.op = "decide" /\ Present(a.yes \cup a.no) /\ n = DecideRollUp(v, a.s, v, a.yes)
  <2> DEFINE S == a.yes \cup a.no
  <2>1. a.q \in [Lines -> Quantities] /\ \A l \in Lines : a.q[l] > 0
    BY <1>5, <1>q DEF Typed
  <2>2. /\ v.status = order.status /\ v.shipped = order.shipped
        /\ v.quantity = [l \in Lines |-> IF l \in a.yes THEN a.q[l] ELSE order.quantity[l]]
        /\ v.lineStatus = [l \in Lines |-> IF l \in a.yes THEN "confirmed"
                                           ELSE IF l \in a.no THEN "declined"
                                           ELSE order.lineStatus[l]]
    BY <1>0 DEF DecideLineWrites, Ticket
  <2>3. v \in Ticket
    BY <1>0, <2>1, DecideType
  <2> HIDE DEF v
  <2>4. S \in SUBSET Lines
    BY <1>0
  <2>5. \A l \in Lines \ S : v.lineStatus[l] = order.lineStatus[l] /\ v.quantity[l] = order.quantity[l]
    BY <2>2
  <2>6. ASSUME NEW l \in S
        PROVE  /\ v.lineStatus[l] \in {"confirmed", "declined"}
               /\ \/ v.quantity[l] > 0
                  \/ v.quantity[l] = order.quantity[l] /\ order.lineStatus[l] # "none"
    BY <1>5, <2>1, <2>2, <2>4 DEF Present
  <2>7. Unsent(v)
    <3>1. v.status \notin Complete /\ \A l \in Lines : v.shipped[l] = 0
      BY <1>u, <2>2
    <3> HIDE DEF S
    <3> QED BY <1>0, <2>4, <2>5, <2>6, <3>1, LinesStayUnsent
  <2>8. /\ n.lineStatus = v.lineStatus /\ n.quantity = v.quantity /\ n.shipped = v.shipped
        /\ n.status \in {"declined", "confirmed", v.status}
    BY <1>5, <2>3 DEF DecideRollUp, Ticket
  <2> QED BY <2>7, <2>8 DEF Unsent, Complete
<1>6. CASE n = DeclineStatus(order) \/ n = DeclineOpenLines(order) \/ n = CancelWrite(order)
  <2>1. /\ n.status \in {order.status, "declined", "cancelled"}
        /\ n.shipped = order.shipped /\ n.quantity = order.quantity
        /\ \A l \in Lines : \/ n.lineStatus[l] = order.lineStatus[l]
                            \/ n.lineStatus[l] = "declined" /\ order.lineStatus[l] = "open"
    <3>1. CASE n = DeclineStatus(order) \/ n = CancelWrite(order)
      BY <1>0, <3>1 DEF DeclineStatus, CancelWrite, Ticket
    <3>2. CASE n = DeclineOpenLines(order)
      <4>1. /\ n.status = order.status
            /\ n.shipped = order.shipped /\ n.quantity = order.quantity
            /\ n.lineStatus = SetLines(order, OpenLines(order), "declined")
        BY <1>0, <3>2 DEF DeclineOpenLines, Ticket
      <4> QED BY <4>1 DEF SetLines, OpenLines
    <3> QED BY <1>6, <3>1, <3>2
  <2> QED BY <1>0, <2>1 DEF Unsent, Complete
<1>7. CASE /\ At(r, "supply", 1) /\ Present(CantChange(a.s, a.yes) \cup BackChange(a.s, a.no))
           /\ n = SetSupplyLines(order, a.s, a.yes, a.no)
  <2> DEFINE off == CantChange(a.s, a.yes)
             on  == BackChange(a.s, a.no)
             S   == off \cup on
  <2>1. a.no \subseteq Items(a.s)
    BY <1>7, WritingServes DEF RequestOK
  <2>2. ASSUME NEW l \in on PROVE RestoredQuantity(a.s, l) > 0
    <3>1. l \in Lines /\ a.s.quantity[l] > 0
      BY <1>0, <2>1, <2>2 DEF BackChange, Items, Unsent
    <3>2. a.s.confirmedQuantity[l] \in Nat
      BY <1>0, <3>1 DEF Ticket
    <3> QED BY <3>1, <3>2 DEF RestoredQuantity
  <2>3. /\ n.status = order.status /\ n.shipped = order.shipped
        /\ n.lineStatus = [l \in Lines |-> IF l \in off THEN "declined"
                                           ELSE IF l \in on THEN "confirmed"
                                           ELSE order.lineStatus[l]]
        /\ n.quantity = [l \in Lines |->
              IF l \in off /\ a.s.shipped[l] > 0 THEN a.s.shipped[l]
              ELSE IF l \in on THEN RestoredQuantity(a.s, l) ELSE order.quantity[l]]
    BY <1>0, <1>7 DEF SetSupplyLines, Ticket
  <2>4. S \in SUBSET Lines
    BY <1>0 DEF CantChange, BackChange
  <2>5. \A l \in Lines \ S : n.lineStatus[l] = order.lineStatus[l] /\ n.quantity[l] = order.quantity[l]
    BY <2>3
  <2>6. ASSUME NEW l \in S
        PROVE  /\ n.lineStatus[l] \in {"declined", "confirmed"}
               /\ \/ n.quantity[l] > 0
                  \/ n.quantity[l] = order.quantity[l] /\ order.lineStatus[l] # "none"
    BY <1>7, <2>2, <2>3, <2>4 DEF Present
  <2>7. n.status \notin Complete /\ \A l \in Lines : n.shipped[l] = 0
    BY <1>u, <2>3
  <2> HIDE DEF S
  <2> QED BY <1>0, <2>4, <2>5, <2>6, <2>7, LinesStayUnsent
<1>8. CASE At(r, "quantity", 1) /\ n = SetQuantityLines(order, a.s, a.yes, a.q)
  <2> DEFINE S == {l \in a.yes : a.q[l] # a.s.quantity[l]}
  <2>1. \A l \in Lines : a.q[l] \in Nat /\ a.q[l] > 0
    BY <1>8, <1>q DEF Typed, At
  <2>2. ASSUME NEW l \in Lines PROVE ~(a.s.shipped[l] >= a.q[l])
    <3>1. a.s.shipped[l] = 0 /\ a.q[l] \in Nat /\ a.q[l] > 0
      BY <1>u, <2>1
    <3> QED BY <3>1
  <2>3. /\ n.status = order.status /\ n.shipped = order.shipped
        /\ n.lineStatus = [l \in Lines |-> IF l \notin S THEN order.lineStatus[l]
                                           ELSE IF a.s.shipped[l] >= a.q[l] THEN "dispatched"
                                           ELSE "confirmed"]
        /\ n.quantity = [l \in Lines |-> IF l \in S THEN a.q[l] ELSE order.quantity[l]]
    BY <1>0, <1>8 DEF SetQuantityLines, Ticket
  <2>4. S \in SUBSET Lines
    BY <1>0
  <2>5. \A l \in Lines \ S : n.lineStatus[l] = order.lineStatus[l] /\ n.quantity[l] = order.quantity[l]
    BY <2>3
  <2>6. ASSUME NEW l \in S PROVE n.lineStatus[l] = "confirmed" /\ n.quantity[l] > 0
    BY <2>1, <2>2, <2>3, <2>4
  <2>7. n.status \notin Complete /\ \A l \in Lines : n.shipped[l] = 0
    BY <1>u, <2>3
  <2> HIDE DEF S
  <2> QED BY <1>0, <2>4, <2>5, <2>6, <2>7, LinesStayUnsent
<1>9. CASE n = SetSupplyStatus(order, a.s) \/ n = SetQuantityStatus(order, a.s)
  <2>1. PICK st : n = StatusWrite(order, st) /\ st \in {"confirmed", "part_shipped", "declined"}
    BY <1>0, <1>9, UnsentRollUp DEF SetSupplyStatus, SetQuantityStatus
  <2>2. /\ n.status = st /\ n.lineStatus = order.lineStatus
        /\ n.quantity = order.quantity /\ n.shipped = order.shipped
    BY <1>0, <2>1 DEF StatusWrite, Ticket
  <2> QED BY <1>0, <2>1, <2>2 DEF Unsent, Complete
<1>10. ~ \/ At(r, "dispatch", 2) \/ At(r, "dispatch", 3) \/ At(r, "settle", 1)
         \/ At(r, "settle", 2) \/ At(r, "deliver", 1) \/ At(r, "deliver", 3)
  BY DEF UnsentCall, At
<1>11. OpenLines(a.s) \in SUBSET Lines /\ RatedOpen(a.s) \in SUBSET Lines
  BY DEF OpenLines, RatedOpen
<1> QED BY <1>1, <1>2, <1>3, <1>4, <1>5, <1>6, <1>7, <1>8, <1>9, <1>10, <1>11 DEF Writing, At

\* A load that finds an unsent ticket: nothing to settle and nothing to deliver yet.
LEMMA LoadUnsent ==
    ASSUME Unsent(order), NEW op, NEW yes, NEW no, NEW q, Loaded(op, yes, no, q)
    PROVE  op \notin {"settle", "deliver"}
<1>1. ASSUME op = "settle" PROVE FALSE
  <2>1. PICK l \in Shippable(order) : order.shipped[l] > 0
    BY <1>1 DEF Loaded, CanSettle, AnyShipped
  <2>2. order.shipped[l] = 0
    BY DEF Shippable, Items, Unsent
  <2> QED BY <2>1, <2>2
<1>2. ASSUME op = "deliver" PROVE FALSE
  BY <1>2 DEF Loaded, CanDeliver, Unsent, Complete
<1> QED BY <1>1, <1>2

LEMMA UnsentStep == ASSUME TypeInv, UnsentInv, [Next]_vars PROVE UnsentInv'
<1> SUFFICES ASSUME Nothing'
             PROVE  Unsent(order)' /\ \A p \in Requests : inflight'[p] # Idle => UnsentCall(p)'
  BY DEF UnsentInv
<1> DEFINE Goal == Unsent(order)' /\ \A p \in Requests : inflight'[p] # Idle => UnsentCall(p)'
<1>k. ASSUME left' = left PROVE Unsent(order) /\ \A p \in Requests : inflight[p] # Idle => UnsentCall(p)
  BY <1>k DEF UnsentInv, Nothing
<1>o. ASSUME left' = left, NEW p \in Requests, inflight'[p] = inflight[p], inflight'[p] # Idle
      PROVE  UnsentCall(p)'
  BY <1>k, <1>o DEF UnsentCall, Unsent
<1>1. ASSUME NEW r \in Requests, Loads(r) PROVE Goal
  <2>1. PICK op, yes, no, q : Loaded(op, yes, no, q) /\ Begin(r, op, yes, no, q)
    BY <1>1 DEF Loads
  <2>2. /\ inflight'[r] = [op |-> op, s |-> order, yes |-> yes, no |-> no, q |-> q, step |-> 1]
        /\ \A p \in Requests : p # r => inflight'[p] = inflight[p]
    BY <2>1, LoadsOn
  <2>3. order' = order /\ left' = left
    BY <2>1 DEF Begin
  <2>4. op \notin {"settle", "deliver"}
    BY <1>k, <2>1, <2>3, LoadUnsent
  <2>5. inflight'[r].s = order /\ inflight'[r].op = op /\ inflight'[r].step = 1
    BY <2>2
  <2>6. UnsentCall(r)' /\ Unsent(order)'
    BY <1>k, <2>3, <2>4, <2>5 DEF UnsentCall, Unsent
  <2> QED BY <2>2, <2>3, <2>6, <1>o
<1>2. ASSUME NEW r \in Requests, Reloads(r) PROVE Goal
  <2>1. order' = order /\ left' = left
    BY <1>2 DEF Reloads, Reload
  <2>2. UnsentCall(r)
    BY <1>2, <1>k, <2>1, NotIdle DEF Reloads, Operations
  <2>3. /\ inflight'[r].s = order
        /\ inflight'[r].op = inflight[r].op
        /\ inflight'[r].op \in {"supply", "quantity", "deliver"}
    BY <1>2, ReloadsOn
  <2>4. UnsentCall(r)' /\ Unsent(order)'
    BY <1>k, <2>1, <2>2, <2>3 DEF UnsentCall, Unsent
  <2> QED BY <1>2, <2>1, <2>4, <1>o, ReloadsOn
<1>3. ASSUME NEW r \in Requests, Throws(r) PROVE Goal
  <2>1. order' = order /\ left' = left
    BY <1>3 DEF Throws, Throw
  <2>2. Unsent(order)'
    BY <1>k, <2>1 DEF Unsent
  <2> QED BY <1>3, <2>1, <2>2, <1>o, ThrowsOn
<1>4. ASSUME NEW r \in Requests, WritesTicket(r) PROVE Goal
  <2>1. left' = left /\ Writing(r, order')
    BY <1>4 DEF WritesTicket
  <2>2. inflight[r] \in Serving /\ inflight[r] # Idle
    BY <2>1, WritingServes, NotIdle
  <2>3. UnsentCall(r) /\ Unsent(order)
    BY <1>k, <2>1, <2>2
  <2>4. Unsent(order')
    BY <2>1, <2>3, WritingUnsent
  <2>5. inflight[r].op # "dispatch"
    BY <2>1, <2>3 DEF Writing, At, UnsentCall
  <2>6. ASSUME NEW p \in Requests, inflight'[p] # Idle PROVE UnsentCall(p)'
    <3>1. CASE p = r /\ inflight'[p] = [inflight[p] EXCEPT !.step = inflight[p].step + 1]
      <4>1. inflight'[p].op = inflight[p].op /\ inflight'[p].s = inflight[p].s
        BY <2>2, <3>1 DEF Serving
      <4> QED BY <2>3, <2>5, <3>1, <4>1 DEF UnsentCall, Unsent
    <3>2. CASE inflight'[p] = inflight[p]
      BY <1>o, <2>1, <2>6, <3>2
    <3> QED BY <1>4, <2>2, <2>6, <3>1, <3>2, MovesOn DEF WritesTicket
  <2> QED BY <2>4, <2>6 DEF Unsent
<1>5. ASSUME NEW r \in Requests, Sends(r) PROVE FALSE
  <2>1. inflight[r] \in Serving /\ RequestOK(r) /\ inflight[r].op = "dispatch"
    BY <1>5, IsServing DEF Sends, At, Operations
  <2>2. PICK l \in Lines : inflight[r].q[l] > 0
    BY <2>1 DEF RequestOK
  <2>3. left[l] \in Nat /\ inflight[r].q[l] \in Nat
    BY <2>1 DEF Serving, TypeInv, TypeOK
  <2>4. left'[l] = left[l] + inflight[r].q[l]
    BY <1>5 DEF Sends
  <2>5. left'[l] = 0
    BY DEF Nothing
  <2> QED BY <2>2, <2>3, <2>4, <2>5
<1>6. CASE UNCHANGED vars
  BY <1>6, <1>k, <1>o DEF vars, Unsent
<1> QED BY <1>1, <1>2, <1>3, <1>4, <1>5, <1>6, StepKind DEF Next, TypeInv

\* However the roll-ups of racing requests overwrite each other, a ticket reads
\* complete, settled or delivered only when some of its goods have left.
THEOREM CompleteHasSent == Spec => []CompleteHasShipped
<1>1. Init => UnsentInv
  <2> SUFFICES ASSUME Init PROVE UnsentInv
    OBVIOUS
  <2>1. PICK placed \in Some(Lines), q \in [Lines -> Quantities] :
           \E priced \in SUBSET placed : order = NewTicket(placed, q, priced, FALSE)
    BY DEF Init
  <2>2. \A l \in Lines : q[l] \in Nat /\ q[l] > 0
    BY <2>1, RequestedPositive
  <2>3. Unsent(order)
    BY <2>1, <2>2 DEF Unsent, Complete, NewTicket
  <2> QED BY <2>3 DEF Init, UnsentInv
<1>2. TypeInv /\ UnsentInv /\ [Next]_vars => UnsentInv'
  BY UnsentStep
<1>3. TypeInv /\ UnsentInv => CompleteHasShipped
  <2> SUFFICES ASSUME TypeInv, UnsentInv, order.status \in Complete
               PROVE  \E l \in Lines : left[l] > 0
    BY DEF CompleteHasShipped, Complete
  <2>1. PICK l \in Lines : left[l] # 0
    BY DEF UnsentInv, Unsent, Nothing
  <2>2. left[l] \in Nat
    BY DEF TypeInv, TypeOK
  <2> QED BY <2>1, <2>2
<1> QED BY <1>1, <1>2, <1>3, AlwaysTypeInv, PTL DEF Spec

-----------------------------------------------------------------------------
(* Complete tickets owe nothing.  When every request in flight is one that  *)
(* leaves no line owing more, what a request has loaded can only be behind: *)
(* fewer goods out and more asked for than now.  So a line that its totals  *)
(* show covered is covered.                                                 *)

LinesCovered(o) == \A l \in Lines : o.lineStatus[l] \in {"dispatched", "delivered"} => Covered(o, l)
AllCovered(o)   == \A l \in Items(o) : Covered(o, l)

\* Every line is decided, and nothing is asked of the declined ones.
Agreed(o) == /\ OpenLines(o) = {}
             /\ \A l \in Items(o) : o.lineStatus[l] = "declined" => o.quantity[l] = 0

Agreeing == {"confirmed", "part_shipped", "dispatched", "settled", "delivered"}

EarnedTicket(o) == /\ LinesCovered(o)
                   /\ OpenLines(o) = {} \/ OpenLines(o) = Items(o)
                   /\ o.status \in Agreeing => Agreed(o)
                   /\ o.status = "dispatched" => AllCovered(o)

\* What a request a in flight has loaded is behind the ticket o, never ahead of it.
Behind(a, o) ==
    /\ Items(a.s) = Items(o)
    /\ \A l \in Lines : a.s.shipped[l] <= o.shipped[l]
    /\ \A l \in Lines : Covered(o, l) \/ o.quantity[l] <= a.s.quantity[l]

EarnedCall(a, o) ==
    /\ a.op \in NeverOweMore
    /\ Behind(a, o)
    /\ LinesCovered(a.s)
    /\ a.op = "confirm" => OpenLines(a.s) = Items(a.s)
    /\ a.op \in {"dispatch", "settle", "deliver"} => Agreed(a.s) /\ Agreed(o)
    /\ a.op = "dispatch" /\ a.step # 1 => \A l \in Lines : a.s.shipped[l] + a.q[l] <= o.shipped[l]
    /\ a.op = "settle" => \A l \in Shippable(a.s) : a.q[l] <= a.s.shipped[l]
    /\ a.op = "deliver" => AllCovered(o)

OwedInv == /\ EarnedTicket(order)
           /\ \A r \in Requests : inflight[r] # Idle => EarnedCall(inflight[r], order)

\* What a step makes of a ticket o: the rows stay, nothing comes back, a quantity is
\* lowered only to what has left, and what was decided stays decided.
Keeps(o, n) == /\ Items(n) = Items(o)
               /\ \A l \in Lines : o.shipped[l] <= n.shipped[l]
               /\ \A l \in Lines : n.quantity[l] = o.quantity[l] \/ Covered(n, l)
               /\ Agreed(o) => Agreed(n)

LEMMA CoverStays ==
    ASSUME NEW o \in Ticket, NEW n \in Ticket, Keeps(o, n), NEW l \in Lines, Covered(o, l)
    PROVE  Covered(n, l)
<1>1. /\ o.quantity[l] \in Nat /\ n.quantity[l] \in Nat
      /\ o.shipped[l] \in Nat /\ n.shipped[l] \in Nat
  BY DEF Ticket
<1> QED BY <1>1 DEF Covered, Keeps

LEMMA SameShipped ==
    ASSUME NEW o \in Ticket, NEW n, n.shipped = o.shipped
    PROVE  \A l \in Lines : o.shipped[l] <= n.shipped[l]
<1> TAKE l \in Lines
<1>1. o.shipped[l] \in Nat
  BY DEF Ticket
<1> QED BY <1>1

\* A request that waits while another one takes a step keeps what it knows.
LEMMA CallStays ==
    ASSUME NEW o \in Ticket, NEW n \in Ticket, Keeps(o, n), NEW a \in Serving, EarnedCall(a, o)
    PROVE  EarnedCall(a, n)
<1>t. /\ a.s \in Ticket /\ a.q \in [Lines -> Nat]
      /\ \A l \in Lines : /\ a.s.shipped[l] \in Nat /\ a.s.quantity[l] \in Nat
                          /\ o.shipped[l] \in Nat /\ o.quantity[l] \in Nat
                          /\ n.shipped[l] \in Nat /\ n.quantity[l] \in Nat
                          /\ a.q[l] \in Nat
  BY DEF Serving, Ticket
<1>1. Behind(a, n)
  <2>1. ASSUME NEW l \in Lines
        PROVE  /\ a.s.shipped[l] <= n.shipped[l]
               /\ Covered(n, l) \/ n.quantity[l] <= a.s.quantity[l]
    <3>1. a.s.shipped[l] <= n.shipped[l]
      BY <1>t DEF EarnedCall, Behind, Keeps
    <3>2. CASE Covered(o, l)
      BY <3>1, <3>2, CoverStays
    <3>3. CASE o.quantity[l] <= a.s.quantity[l]
      BY <3>1, <3>3 DEF Keeps
    <3> QED BY <3>2, <3>3, <3>1 DEF EarnedCall, Behind
  <2> QED BY <2>1 DEF Behind, EarnedCall, Keeps
<1>2. a.op = "deliver" => AllCovered(n)
  BY CoverStays DEF EarnedCall, AllCovered, Keeps, Items
<1>3. a.op = "dispatch" /\ a.step # 1 => \A l \in Lines : a.s.shipped[l] + a.q[l] <= n.shipped[l]
  <2>1. ASSUME NEW l \in Lines, a.s.shipped[l] + a.q[l] <= o.shipped[l]
        PROVE  a.s.shipped[l] + a.q[l] <= n.shipped[l]
    BY <1>t, <2>1 DEF Keeps
  <2> QED BY <2>1 DEF EarnedCall
<1> QED BY <1>1, <1>2, <1>3 DEF EarnedCall, Keeps

LEMMA LoadEarned ==
    ASSUME order \in Ticket, EarnedTicket(order), NEW op \in NeverOweMore,
           NEW yes, NEW no, NEW q, Loaded(op, yes, no, q), NEW a \in Serving,
           a = [op |-> op, s |-> order, yes |-> yes, no |-> no, q |-> q, step |-> 1]
    PROVE  EarnedCall(a, order)
<1>1. a.op = op /\ a.s = order /\ a.q = q /\ a.step = 1
  OBVIOUS
<1>2. Behind(a, order)
  <2>1. \A l \in Lines : order.shipped[l] \in Nat /\ order.quantity[l] \in Nat
    BY DEF Ticket
  <2> QED BY <1>1, <2>1 DEF Behind
<1>3. a.op \in NeverOweMore
  BY <1>1
<1>4. a.op = "confirm" => OpenLines(a.s) = Items(a.s)
  BY <1>1 DEF Loaded, CanConfirm, EarnedTicket
<1>5. a.op \in {"dispatch", "settle", "deliver"} => order.status \in Agreeing
  BY <1>1 DEF Loaded, CanDispatch, CanSettle, CanDeliver, Agreeing
<1>6. a.op = "deliver" => AllCovered(order)
  BY <1>1 DEF Loaded, CanDeliver, EarnedTicket
<1>7. a.op = "settle" => \A l \in Shippable(a.s) : a.q[l] <= a.s.shipped[l]
  BY <1>1 DEF Loaded, CanSettle
<1> QED BY <1>1, <1>2, <1>3, <1>4, <1>5, <1>6, <1>7 DEF EarnedCall, EarnedTicket

\* A write that leaves the lines alone.
LEMMA StatusMoves ==
    ASSUME NEW o \in Ticket, NEW n \in Ticket, EarnedTicket(o), n.lineStatus = o.lineStatus,
           n.quantity = o.quantity, n.shipped = o.shipped,
           n.status \in Agreeing => Agreed(o), n.status = "dispatched" => AllCovered(o)
    PROVE  Keeps(o, n) /\ EarnedTicket(n)
<1>1. Items(n) = Items(o) /\ OpenLines(n) = OpenLines(o)
  BY DEF Items, OpenLines
<1>2. \A l \in Lines : Covered(n, l) = Covered(o, l)
  BY DEF Covered
<1>3. Agreed(n) = Agreed(o)
  BY <1>1 DEF Agreed
<1>4. \A l \in Lines : o.shipped[l] <= n.shipped[l]
  BY SameShipped
<1> QED BY <1>1, <1>2, <1>3, <1>4 DEF Keeps, EarnedTicket, LinesCovered, AllCovered, Items

\* A write that leaves the status alone.
LEMMA LinesMove ==
    ASSUME NEW o \in Ticket, NEW n \in Ticket, EarnedTicket(o), Keeps(o, n),
           n.status = o.status, LinesCovered(n), OpenLines(n) = {} \/ OpenLines(n) = Items(n)
    PROVE  EarnedTicket(n)
<1>1. AllCovered(o) => AllCovered(n)
  BY CoverStays DEF AllCovered, Keeps, Items
<1> QED BY <1>1 DEF EarnedTicket, Keeps

\* The status writes of the seller's card, a decline and a cancel.
LEMMA SpokenEarned ==
    ASSUME NEW o \in Ticket, EarnedTicket(o), NEW n \in Ticket,
           n = SellerSpoke(o) \/ n = DeclineStatus(o) \/ n = CancelWrite(o)
    PROVE  Keeps(o, n) /\ EarnedTicket(n)
<1>1. /\ n.lineStatus = o.lineStatus /\ n.quantity = o.quantity /\ n.shipped = o.shipped
      /\ n.status \in {o.status, "declined", "cancelled"}
  BY DEF SellerSpoke, DeclineStatus, CancelWrite, Ticket
<1>2. n.status \in Agreeing => n.status = o.status
  BY <1>1 DEF Agreeing
<1> QED BY <1>1, <1>2, StatusMoves DEF EarnedTicket

LEMMA DeclineRowsEarned ==
    ASSUME NEW o \in Ticket, EarnedTicket(o), NEW n \in Ticket, n = DeclineOpenLines(o)
    PROVE  Keeps(o, n) /\ EarnedTicket(n)
<1>1. /\ n.status = o.status /\ n.quantity = o.quantity /\ n.shipped = o.shipped
      /\ \A l \in Lines : n.lineStatus[l] = IF o.lineStatus[l] = "open" THEN "declined"
                                            ELSE o.lineStatus[l]
  BY DEF DeclineOpenLines, SetLines, OpenLines, Ticket
<1>2. Items(n) = Items(o) /\ OpenLines(n) = {}
  BY <1>1 DEF Items, OpenLines
<1>3. \A l \in Lines : o.shipped[l] <= n.shipped[l]
  BY <1>1, SameShipped
<1>4. Agreed(o) => Agreed(n)
  BY <1>1, <1>2 DEF Agreed, Items, OpenLines
<1>5. LinesCovered(n)
  BY <1>1 DEF LinesCovered, Covered, EarnedTicket
<1>6. Keeps(o, n)
  BY <1>1, <1>2, <1>3, <1>4 DEF Keeps
<1> QED BY <1>1, <1>2, <1>5, <1>6, LinesMove

\* A confirmation, however late, takes every line.
LEMMA LockEarned ==
    ASSUME NEW o \in Ticket, EarnedTicket(o), NEW n \in Ticket, NEW s \in Ticket,
           Items(s) = Items(o), OpenLines(s) = Items(s), n = LockTx(o, s, OpenLines(s))
    PROVE  Keeps(o, n) /\ EarnedTicket(n)
<1>1. /\ n.status = "confirmed" /\ n.quantity = o.quantity /\ n.shipped = o.shipped
      /\ \A l \in Lines : n.lineStatus[l] = IF l \in Items(o) THEN "confirmed"
                                            ELSE o.lineStatus[l]
  <2>1. OpenLines(s) = Items(o) /\ Items(o) \subseteq Lines
    BY DEF Items
  <2>2. /\ n.status = "confirmed" /\ n.quantity = o.quantity /\ n.shipped = o.shipped
        /\ n.lineStatus = SetLines(o, OpenLines(s), "confirmed")
    BY DEF LockTx, Ticket
  <2> QED BY <2>1, <2>2 DEF SetLines
<1>2. Items(n) = Items(o) /\ OpenLines(n) = {} /\ Agreed(n) /\ LinesCovered(n)
  BY <1>1 DEF Items, OpenLines, Agreed, LinesCovered
<1>3. \A l \in Lines : o.shipped[l] <= n.shipped[l]
  BY <1>1, SameShipped
<1> QED BY <1>1, <1>2, <1>3 DEF Keeps, EarnedTicket

\* The rows and the roll-up of an LR, written from totals loaded earlier.
LEMMA DispatchRowsEarned ==
    ASSUME NEW o \in Ticket, EarnedTicket(o), NEW n \in Ticket, NEW a \in Serving,
           EarnedCall(a, o), a.op = "dispatch", a.step # 1, n = DispatchLines(o, a.s, a.q)
    PROVE  Keeps(o, n) /\ EarnedTicket(n)
<1>1. /\ n.status = o.status /\ n.quantity = o.quantity /\ n.shipped = o.shipped
      /\ \A l \in Lines : n.lineStatus[l] =
            IF l \in FullyShipped(a.s, a.q) /\ o.lineStatus[l] # "none"
            THEN "dispatched" ELSE o.lineStatus[l]
  BY DEF DispatchLines, Ticket
<1>2. Items(n) = Items(o) /\ OpenLines(n) \subseteq OpenLines(o)
  BY <1>1 DEF Items, OpenLines
<1>3. Agreed(o) /\ Agreed(n) /\ OpenLines(n) = {}
  BY <1>1, <1>2 DEF Agreed, EarnedCall, Items, OpenLines
<1>4. \A l \in Lines : o.shipped[l] <= n.shipped[l]
  BY <1>1, SameShipped
<1>5. ASSUME NEW l \in FullyShipped(a.s, a.q) PROVE Covered(o, l)
  <2>1. a.s \in Ticket /\ a.q \in [Lines -> Nat] /\ l \in Lines
    BY <1>5 DEF Serving, FullyShipped, InPlay
  <2>2. a.s.shipped[l] + a.q[l] >= a.s.quantity[l]
    BY <1>5, <2>1 DEF FullyShipped, AfterParcel, DispatchShipment, Covered, Ticket
  <2>3. a.s.shipped[l] + a.q[l] <= o.shipped[l] /\ (Covered(o, l) \/ o.quantity[l] <= a.s.quantity[l])
    BY <2>1 DEF EarnedCall, Behind
  <2>4. /\ a.s.shipped[l] \in Nat /\ a.s.quantity[l] \in Nat /\ a.q[l] \in Nat
        /\ o.shipped[l] \in Nat /\ o.quantity[l] \in Nat
    BY <2>1 DEF Ticket
  <2> QED BY <2>2, <2>3, <2>4 DEF Covered
<1>6. LinesCovered(n)
  <2>1. \A l \in Lines : Covered(n, l) = Covered(o, l)
    BY <1>1 DEF Covered
  <2> QED BY <1>1, <1>5, <2>1 DEF LinesCovered, EarnedTicket
<1>7. Keeps(o, n)
  BY <1>1, <1>2, <1>3, <1>4 DEF Keeps
<1> QED BY <1>1, <1>3, <1>6, <1>7, LinesMove

LEMMA DispatchStatusEarned ==
    ASSUME NEW o \in Ticket, EarnedTicket(o), NEW n \in Ticket, NEW a \in Serving,
           EarnedCall(a, o), a.op = "dispatch", a.step # 1, n = DispatchStatus(o, a.s, a.q)
    PROVE  Keeps(o, n) /\ EarnedTicket(n)
<1>0. a.s \in Ticket /\ a.q \in [Lines -> Nat]
  BY DEF Serving
<1>1. n.lineStatus = o.lineStatus /\ n.quantity = o.quantity /\ n.shipped = o.shipped
  BY DEF DispatchStatus, Ticket
<1>2. ASSUME n.status = "dispatched" PROVE DispatchComplete(a.s, a.q)
  BY <1>2 DEF DispatchStatus, Ticket
<1>3. ASSUME DispatchComplete(a.s, a.q), NEW l \in Items(o) PROVE Covered(o, l)
  <2> DEFINE p == AfterParcel(a.s, a.q)
             v == DispatchLines(p, a.s, a.q)
  <2>1. l \in Lines /\ l \in Items(a.s) /\ a.s.lineStatus[l] # "none"
    BY <1>3 DEF EarnedCall, Behind, Items
  <2>2. /\ p.lineStatus = a.s.lineStatus /\ p.quantity = a.s.quantity
        /\ p.shipped[l] = a.s.shipped[l] + a.q[l] /\ p \in Ticket
    <3>1. p \in Ticket
      BY <1>0, DispatchWritesType DEF AfterParcel
    <3> QED BY <1>0, <2>1, <3>1 DEF AfterParcel, DispatchShipment, Ticket
  <2> HIDE DEF p
  <2>3. /\ v.quantity = a.s.quantity /\ v.shipped[l] = a.s.shipped[l] + a.q[l]
        /\ v.lineStatus[l] = IF l \in FullyShipped(a.s, a.q) THEN "dispatched"
                             ELSE a.s.lineStatus[l]
    BY <2>1, <2>2 DEF DispatchLines, Ticket
  <2>4. AllOut(v) /\ v.lineStatus[l] # "confirmed"
    BY <1>3, <2>1 DEF DispatchComplete, p
  <2>5. /\ a.s.shipped[l] \in Nat /\ a.s.quantity[l] \in Nat /\ a.q[l] \in Nat
        /\ o.shipped[l] \in Nat /\ o.quantity[l] \in Nat
    BY <1>0, <2>1 DEF Ticket
  <2>6. /\ a.s.shipped[l] + a.q[l] <= o.shipped[l]
        /\ Covered(o, l) \/ o.quantity[l] <= a.s.quantity[l]
    BY <2>1 DEF EarnedCall, Behind
  <2>7. a.s.lineStatus[l] = "declined" => a.s.quantity[l] = 0
    BY <2>1 DEF EarnedCall, Agreed
  <2>8. a.s.lineStatus[l] # "open"
    BY <2>1 DEF EarnedCall, Agreed, OpenLines
  <2>9. a.s.lineStatus[l] \in {"dispatched", "delivered"} => a.s.shipped[l] >= a.s.quantity[l]
    BY <2>1 DEF EarnedCall, LinesCovered, Covered
  <2>10. l \in FullyShipped(a.s, a.q) => a.s.shipped[l] + a.q[l] >= a.s.quantity[l]
    BY <2>2 DEF FullyShipped, Covered, p
  <2>11. a.s.lineStatus[l] \in LineStatus
    BY <1>0, <2>1 DEF Ticket
  <2>12. a.s.shipped[l] + a.q[l] >= a.s.quantity[l]
    <3>1. CASE l \in FullyShipped(a.s, a.q)
      BY <2>10, <3>1
    <3>2. CASE l \notin FullyShipped(a.s, a.q)
      <4>1. a.s.lineStatus[l] # "confirmed"
        BY <2>3, <2>4, <3>2
      <4> QED BY <2>1, <2>5, <2>7, <2>8, <2>9, <2>11, <4>1 DEF LineStatus
    <3> QED BY <3>1, <3>2
  <2> QED BY <2>5, <2>6, <2>12 DEF Covered
<1>4. n.status = "dispatched" => AllCovered(o)
  BY <1>2, <1>3 DEF AllCovered
<1> QED BY <1>1, <1>4, StatusMoves DEF EarnedCall

\* A settlement asks only for what the request has seen out.
LEMMA SettleRowsEarned ==
    ASSUME NEW o \in Ticket, EarnedTicket(o), NEW n \in Ticket, NEW a \in Serving,
           EarnedCall(a, o), a.op = "settle", n = SettleLines(o, a.s, a.q)
    PROVE  Keeps(o, n) /\ EarnedTicket(n)
<1> DEFINE S == Shippable(a.s)
<1>0. S \subseteq Items(o) /\ Items(o) \subseteq Lines
  BY DEF Shippable, EarnedCall, Behind, Items
<1>1. /\ n.status = o.status /\ n.shipped = o.shipped
      /\ \A l \in S : n.quantity[l] = a.q[l]
      /\ \A l \in S : n.lineStatus[l] = IF a.q[l] = 0 THEN "declined" ELSE "dispatched"
      /\ \A l \in Lines \ S : n.quantity[l] = o.quantity[l] /\ n.lineStatus[l] = o.lineStatus[l]
  BY <1>0 DEF SettleLines, Ticket
<1>2. ASSUME NEW l \in S PROVE Covered(n, l)
  <2>1. l \in Lines /\ a.q[l] <= a.s.shipped[l] /\ a.s.shipped[l] <= o.shipped[l]
    BY <1>0, <1>2 DEF EarnedCall, Behind
  <2>2. a.q[l] \in Nat /\ a.s.shipped[l] \in Nat /\ o.shipped[l] \in Nat
    BY <2>1 DEF Serving, Ticket
  <2> QED BY <1>1, <1>2, <2>1, <2>2 DEF Covered
<1> HIDE DEF S
<1>3. Items(n) = Items(o)
  <2>1. ASSUME NEW l \in Lines PROVE n.lineStatus[l] # "none" <=> o.lineStatus[l] # "none"
    BY <1>0, <1>1 DEF Items
  <2> QED BY <2>1 DEF Items
<1>4. Agreed(o)
  BY DEF EarnedCall
<1>5. OpenLines(n) = {}
  BY <1>1, <1>4 DEF OpenLines, Agreed
<1>6. Agreed(n)
  BY <1>0, <1>1, <1>3, <1>4, <1>5 DEF Agreed
<1>7. \A l \in Lines : o.shipped[l] <= n.shipped[l]
  BY <1>1, SameShipped
<1>8. LinesCovered(n)
  <2>1. ASSUME NEW l \in Lines \ S PROVE Covered(n, l) = Covered(o, l)
    BY <1>1 DEF Covered
  <2> QED BY <1>1, <1>2, <2>1 DEF LinesCovered, EarnedTicket
<1>9. Keeps(o, n)
  BY <1>1, <1>2, <1>3, <1>6, <1>7 DEF Keeps
<1> QED BY <1>1, <1>5, <1>8, <1>9, LinesMove

LEMMA FinishEarned ==
    ASSUME NEW o \in Ticket, EarnedTicket(o), NEW n \in Ticket, Agreed(o),
           n = SettleStatus(o) \/ n = DeliverStatus(o)
    PROVE  Keeps(o, n) /\ EarnedTicket(n)
<1>1. /\ n.lineStatus = o.lineStatus /\ n.quantity = o.quantity /\ n.shipped = o.shipped
      /\ n.status \in {"settled", "delivered"}
  BY DEF SettleStatus, DeliverStatus, Ticket
<1> QED BY <1>1, StatusMoves

LEMMA DeliverRowsEarned ==
    ASSUME NEW o \in Ticket, EarnedTicket(o), NEW n \in Ticket, Agreed(o), AllCovered(o),
           n = DeliverLines(o)
    PROVE  Keeps(o, n) /\ EarnedTicket(n)
<1>1. /\ n.status = o.status /\ n.quantity = o.quantity /\ n.shipped = o.shipped
      /\ \A l \in Lines : n.lineStatus[l] = IF l \in InPlay(o) THEN "delivered"
                                            ELSE o.lineStatus[l]
  BY DEF DeliverLines, SetLines, Ticket
<1>2. InPlay(o) \subseteq Items(o)
  BY DEF InPlay, Items
<1>3. \A l \in Lines : o.lineStatus[l] # "open"
  BY DEF Agreed, OpenLines
<1>4. Items(n) = Items(o)
  <2>1. \A l \in Lines : n.lineStatus[l] # "none" <=> o.lineStatus[l] # "none"
    BY <1>1 DEF InPlay
  <2> QED BY <2>1 DEF Items
<1>5. OpenLines(n) = {}
  BY <1>1, <1>3 DEF OpenLines
<1>6. Agreed(n)
  <2>1. ASSUME NEW l \in Items(n), n.lineStatus[l] = "declined" PROVE n.quantity[l] = 0
    <3>1. l \in Lines /\ l \in Items(o) /\ o.lineStatus[l] = "declined"
      BY <1>1, <1>4, <2>1 DEF Items
    <3> QED BY <1>1, <3>1 DEF Agreed
  <2> QED BY <1>5, <2>1 DEF Agreed
<1>7. \A l \in Lines : o.shipped[l] <= n.shipped[l]
  BY <1>1, SameShipped
<1>8. LinesCovered(n)
  <2>1. \A l \in Lines : Covered(n, l) = Covered(o, l)
    BY <1>1 DEF Covered
  <2> QED BY <1>1, <1>2, <2>1 DEF LinesCovered, EarnedTicket, AllCovered
<1>9. Keeps(o, n)
  BY <1>1, <1>4, <1>6, <1>7 DEF Keeps
<1> QED BY <1>1, <1>5, <1>8, <1>9, LinesMove

LEMMA SendEarned ==
    ASSUME NEW o \in Ticket, EarnedTicket(o), NEW n \in Ticket, NEW q \in [Lines -> Nat],
           n = DispatchShipment(o, q)
    PROVE  /\ Keeps(o, n) /\ EarnedTicket(n)
           /\ \A l \in Lines : n.shipped[l] = o.shipped[l] + q[l]
<1>1. /\ n.status = o.status /\ n.quantity = o.quantity /\ n.lineStatus = o.lineStatus
      /\ \A l \in Lines : n.shipped[l] = o.shipped[l] + q[l]
  BY DEF DispatchShipment, Ticket
<1>2. Items(n) = Items(o) /\ OpenLines(n) = OpenLines(o) /\ (Agreed(o) => Agreed(n))
  BY <1>1 DEF Items, OpenLines, Agreed
<1>3. ASSUME NEW l \in Lines PROVE o.shipped[l] <= n.shipped[l]
  <2>1. o.shipped[l] \in Nat /\ q[l] \in Nat
    BY DEF Ticket
  <2> QED BY <1>1, <2>1
<1>4. Keeps(o, n)
  BY <1>1, <1>2, <1>3 DEF Keeps
<1>5. LinesCovered(n)
  BY <1>1, <1>4, CoverStays DEF LinesCovered, EarnedTicket
<1> QED BY <1>1, <1>2, <1>4, <1>5, LinesMove DEF EarnedTicket

LEMMA WritingEarned ==
    ASSUME TypeInv, OwedInv, NEW r \in Requests, NEW n, Writing(r, n)
    PROVE  Keeps(order, n) /\ EarnedTicket(n)
<1> DEFINE a == inflight[r]
<1>0. /\ order \in Ticket /\ n \in Ticket /\ EarnedTicket(order)
      /\ a \in Serving /\ a.s \in Ticket /\ EarnedCall(a, order)
  BY WritingOn, WritingType, WritingServes, NotIdle DEF OwedInv
<1>n. a.op \in NeverOweMore
  BY <1>0 DEF EarnedCall
<1>1. CASE At(r, "confirm", 1) /\ n = LockTx(order, a.s, OpenLines(a.s))
  <2>1. Items(a.s) = Items(order) /\ OpenLines(a.s) = Items(a.s)
    BY <1>0, <1>1 DEF At, EarnedCall, Behind
  <2> QED BY <1>0, <1>1, <2>1, LockEarned
<1>2. CASE n = DeclineOpenLines(order)
  BY <1>0, <1>2, DeclineRowsEarned
<1>3. CASE n = SellerSpoke(order) \/ n = DeclineStatus(order) \/ n = CancelWrite(order)
  BY <1>0, <1>3, SpokenEarned
<1>4. CASE \/ At(r, "dispatch", 2) /\ n = DispatchLines(order, a.s, a.q)
           \/ At(r, "dispatch", 3) /\ n = DispatchStatus(order, a.s, a.q)
  <2>1. a.op = "dispatch" /\ a.step # 1
    BY <1>4 DEF At
  <2> HIDE DEF a
  <2> QED BY <1>0, <1>4, <2>1, DispatchRowsEarned, DispatchStatusEarned
<1>5. CASE At(r, "settle", 1) /\ n = SettleLines(order, a.s, a.q)
  <2>1. a.op = "settle"
    BY <1>5 DEF At
  <2> HIDE DEF a
  <2> QED BY <1>0, <1>5, <2>1, SettleRowsEarned
<1>6. CASE \/ At(r, "settle", 2) /\ n = SettleStatus(order)
           \/ At(r, "deliver", 3) /\ n = DeliverStatus(order)
  <2>1. Agreed(order)
    BY <1>0, <1>6 DEF At, EarnedCall
  <2> QED BY <1>0, <1>6, <2>1, FinishEarned
<1>7. CASE At(r, "deliver", 1) /\ n = DeliverLines(order)
  <2>1. Agreed(order) /\ AllCovered(order)
    BY <1>0, <1>7 DEF At, EarnedCall
  <2> QED BY <1>0, <1>7, <2>1, DeliverRowsEarned
<1> QED BY <1>n, <1>1, <1>2, <1>3, <1>4, <1>5, <1>6, <1>7 DEF Writing, At, NeverOweMore

LEMMA OwedStep ==
    ASSUME TypeInv, ~raised => OwedInv, [Next]_vars, ~raised'
    PROVE  OwedInv'
<1>r. ~raised
  <2>1. raised \in BOOLEAN
    BY DEF TypeInv, TypeOK
  <2>2. ASSUME NEW r \in Requests, Loads(r) PROVE ~raised
    BY <2>1, <2>2 DEF Loads, Begin
  <2>3. ASSUME NEW r \in Requests, Reloads(r) \/ Throws(r) \/ WritesTicket(r) \/ Sends(r)
        PROVE  ~raised
    BY <2>3 DEF Reloads, Reload, Throws, Throw, WritesTicket, Sends
  <2> QED BY <2>2, <2>3, StepKind DEF Next, TypeInv, vars
<1> OwedInv
  BY <1>r
<1>0. order \in Ticket /\ order' \in Ticket /\ EarnedTicket(order)
  BY TypeStep DEF TypeInv, TypeOK, OwedInv
<1>s. ASSUME NEW p \in Requests, inflight[p] # Idle
      PROVE  inflight[p] \in Serving /\ EarnedCall(inflight[p], order)
  BY <1>s DEF OwedInv, TypeInv, TypeOK
<1>k. ASSUME NEW p \in Requests, inflight'[p] = inflight[p], inflight'[p] # Idle,
             Keeps(order, order')
      PROVE  EarnedCall(inflight'[p], order')
  BY <1>0, <1>k, <1>s, CallStays
<1>e. order' = order => Keeps(order, order') /\ EarnedTicket(order')
  <2>1. \A l \in Lines : order.shipped[l] <= order.shipped[l]
    BY <1>0 DEF Ticket
  <2> QED BY <1>0, <2>1 DEF Keeps
<1>1. ASSUME NEW r \in Requests, Loads(r) PROVE OwedInv'
  <2>1. PICK op, yes, no, q : Loaded(op, yes, no, q) /\ Begin(r, op, yes, no, q)
    BY <1>1 DEF Loads
  <2>2. /\ inflight'[r] = [op |-> op, s |-> order, yes |-> yes, no |-> no, q |-> q, step |-> 1]
        /\ \A p \in Requests : p # r => inflight'[p] = inflight[p]
        /\ inflight' \in [Requests -> Serving \cup {Idle}]
    BY <2>1, LoadsOn
  <2>3. order' = order /\ op \in NeverOweMore
    BY <2>1 DEF Begin
  <2>4. inflight'[r] \in Serving
    <3>1. inflight'[r] # Idle
      <4>1. inflight'[r].op \in Operations
        BY <2>1, <2>2 DEF Loaded
      <4> QED BY <4>1 DEF Idle, Operations
    <3> QED BY <2>2, <3>1
  <2>5. EarnedCall(inflight'[r], order')
    BY <1>0, <2>1, <2>2, <2>3, <2>4, LoadEarned
  <2> QED BY <1>e, <1>k, <2>2, <2>3, <2>5 DEF OwedInv
<1>2. ASSUME NEW r \in Requests, Reloads(r) PROVE OwedInv'
  <2>1. order' = order
    BY <1>2 DEF Reloads, Reload
  <2>2. /\ inflight[r] \in Serving /\ EarnedCall(inflight[r], order)
        /\ inflight[r].op \in NeverOweMore
    BY <1>2, <1>s, NotIdle DEF Reloads, Operations, EarnedCall
  <2>3. inflight'[r].op = "deliver" /\ inflight[r].op = "deliver" /\ inflight'[r].s = order
    BY <1>2, <2>2, ReloadsOn DEF NeverOweMore
  <2>4. Agreed(order) /\ AllCovered(order)
    BY <2>2, <2>3 DEF EarnedCall
  <2>5. EarnedCall(inflight'[r], order')
    <3>1. Behind(inflight'[r], order')
      <4>1. \A l \in Lines : order.shipped[l] \in Nat /\ order.quantity[l] \in Nat
        BY <1>0 DEF Ticket
      <4> QED BY <2>1, <2>3, <4>1 DEF Behind
    <3> QED BY <1>0, <2>1, <2>3, <2>4, <3>1 DEF EarnedCall, EarnedTicket, NeverOweMore
  <2> QED BY <1>2, <1>e, <1>k, <2>1, <2>5, ReloadsOn DEF OwedInv
<1>3. ASSUME NEW r \in Requests, Throws(r) PROVE OwedInv'
  <2>1. order' = order
    BY <1>3 DEF Throws, Throw
  <2> QED BY <1>3, <1>e, <1>k, <2>1, ThrowsOn DEF OwedInv
<1>m. ASSUME NEW r \in Requests, inflight[r] \in Serving, inflight[r] # Idle,
             Return(r) \/ (Continue(r) /\ inflight[r].step \in 1..3),
             Keeps(order, order'), EarnedTicket(order'),
             inflight[r].op = "dispatch" /\ inflight[r].step = 1
               => \A l \in Lines : inflight[r].s.shipped[l] + inflight[r].q[l] <= order'.shipped[l]
      PROVE  OwedInv'
  <2>1. ASSUME NEW p \in Requests, inflight'[p] # Idle PROVE EarnedCall(inflight'[p], order')
    <3>1. CASE inflight'[p] = inflight[p]
      BY <1>k, <1>m, <2>1, <3>1
    <3>2. CASE p = r /\ inflight'[p] = [inflight[p] EXCEPT !.step = inflight[p].step + 1]
      <4>1. EarnedCall(inflight[r], order')
        BY <1>0, <1>m, <1>s, CallStays
      <4>2. /\ inflight'[p].op = inflight[r].op /\ inflight'[p].s = inflight[r].s
            /\ inflight'[p].q = inflight[r].q
        BY <1>m, <3>2 DEF Serving
      <4>3. Behind(inflight'[p], order')
        BY <4>1, <4>2 DEF EarnedCall, Behind
      <4> QED BY <1>m, <4>1, <4>2, <4>3 DEF EarnedCall
    <3> QED BY <1>m, <2>1, <3>1, <3>2, MovesOn
  <2> QED BY <1>m, <2>1 DEF OwedInv
<1>4. ASSUME NEW r \in Requests, WritesTicket(r) PROVE OwedInv'
  <2>1. /\ inflight[r] \in Serving /\ inflight[r] # Idle
        /\ Keeps(order, order') /\ EarnedTicket(order')
    BY <1>4, WritingEarned, WritingServes, NotIdle DEF WritesTicket
  <2>2. ~(inflight[r].op = "dispatch" /\ inflight[r].step = 1)
    BY <1>4 DEF WritesTicket, Writing, At
  <2> QED BY <1>4, <1>m, <2>1, <2>2 DEF WritesTicket
<1>5. ASSUME NEW r \in Requests, Sends(r) PROVE OwedInv'
  <2>1. /\ inflight[r] \in Serving /\ inflight[r] # Idle /\ inflight[r].step = 1
        /\ EarnedCall(inflight[r], order)
    BY <1>5, <1>s, NotIdle DEF Sends, At, Operations
  <2>2. inflight[r].q \in [Lines -> Nat] /\ inflight[r].s \in Ticket
    BY <2>1 DEF Serving
  <2>3. /\ Keeps(order, order') /\ EarnedTicket(order')
        /\ \A l \in Lines : order'.shipped[l] = order.shipped[l] + inflight[r].q[l]
    BY <1>0, <1>5, <2>2, SendEarned DEF Sends
  <2>4. ASSUME NEW l \in Lines
        PROVE  inflight[r].s.shipped[l] + inflight[r].q[l] <= order'.shipped[l]
    <3>1. inflight[r].s.shipped[l] <= order.shipped[l]
      BY <2>1 DEF EarnedCall, Behind
    <3>2. inflight[r].s.shipped[l] \in Nat /\ inflight[r].q[l] \in Nat /\ order.shipped[l] \in Nat
      BY <1>0, <2>2 DEF Ticket
    <3> QED BY <2>3, <3>1, <3>2
  <2> QED BY <1>5, <1>m, <2>1, <2>3, <2>4 DEF Sends
<1>6. CASE UNCHANGED vars
  BY <1>6, <1>e, <1>k DEF vars, OwedInv
<1> QED BY <1>1, <1>2, <1>3, <1>4, <1>5, <1>6, StepKind DEF Next, TypeInv

\* With any number of requests in flight, each deciding from totals it loaded earlier,
\* no line reads dispatched and no order complete while something is still owed on it,
\* as long as only confirms, declines, cancels, dispatches, settlements and deliveries
\* were requested.
THEOREM CompleteOrdersOweNothing == Spec => []CompleteOwesNothing
<1>1. Init => OwedInv
  <2> SUFFICES ASSUME Init PROVE OwedInv
    OBVIOUS
  <2>1. PICK placed \in Some(Lines), q \in [Lines -> Quantities] :
           \E priced \in SUBSET placed : order = NewTicket(placed, q, priced, FALSE)
    BY DEF Init
  <2>2. /\ order.status = "requested"
        /\ \A l \in Lines : order.lineStatus[l] \in {"open", "none"}
    BY <2>1 DEF NewTicket
  <2>3. OpenLines(order) = Items(order) /\ LinesCovered(order)
    BY <2>2 DEF OpenLines, Items, LinesCovered
  <2> QED BY <2>2, <2>3 DEF Init, OwedInv, EarnedTicket, Agreeing
<1>2. TypeInv /\ (~raised => OwedInv) /\ [Next]_vars => (~raised => OwedInv)'
  BY OwedStep
<1>3. (~raised => OwedInv) => CompleteOwesNothing
  BY DEF OwedInv, EarnedTicket, LinesCovered, AllCovered, CompleteOwesNothing, Shippable
<1> QED BY <1>1, <1>2, <1>3, AlwaysTypeInv, PTL DEF Spec
=============================================================================
