------------------------- MODULE RelistGrantsProofs -------------------------
(***************************************************************************)
(* Proofs about RelistGrants, for any companies, designs, collections, asks *)
(* and requests at once.  Type correctness; that an allowed ask was        *)
(* honoured; and that a right which is nowhere left comes back only        *)
(* through the supplier of the design.                                     *)
(***************************************************************************)
EXTENDS RelistGrants, TLAPS

Party == Companies \cup {Nobody}

\* An ask that was created names two companies.
AsksFit ==
  \A q \in Asks : asks[q].status # "none" => asks[q].from \in Companies /\ asks[q].to \in Companies

\* What a request knows of the rows it works on.
CallFits(call, rows) ==
  /\ call.at = "asking" => call.who \in Companies /\ call.peer \in Companies
  /\ call.at \in {"allowing", "granting", "denying"} =>
       call.who \in Companies /\ call.ask \in Asks /\ rows[call.ask].status # "none"
  /\ call.at \in {"revoking", "cascading"} => call.peer \in Companies
  /\ call.at \in {"curating", "publishing"} => call.who \in Curators

CallsFit == \A k \in Calls : CallFits(calls[k], asks)

Inv == TypeOK /\ AsksFit /\ CallsFit

LEMMA InitInv == Init => Inv
  BY SupplierAssumption
  DEF Init, Inv, TypeOK, AsksFit, CallsFit, CallFits, Call, Ask, Pack, Stages, Resting, NoAsk

\* An ask that was created stays, with the same asker, company and designs.
AsksKept ==
  \A q \in Asks : asks[q].status # "none" =>
    /\ asks'[q].status # "none"
    /\ asks'[q].from = asks[q].from
    /\ asks'[q].to = asks[q].to
    /\ asks'[q].designs = asks[q].designs

\* A request that moves on to a call that fits keeps them all fitting.
LEMMA Fitting ==
  ASSUME Inv, NEW k \in Calls, NEW call \in Call, Goes(k, call), AsksKept,
         CallFits(call, asks')
  PROVE  calls' \in [Calls -> Call] /\ CallsFit'
<1>1. calls' = [calls EXCEPT ![k] = call] /\ calls \in [Calls -> Call]
  BY DEF Goes, Inv, TypeOK
<1>2. calls'[k] = call /\ \A i \in Calls : i # k => calls'[i] = calls[i]
  BY <1>1
<1>3. calls' \in [Calls -> Call]
  BY <1>1
<1>4. \A i \in Calls : CallFits(calls[i], asks')
  BY DEF Inv, CallsFit, CallFits, AsksKept
<1>5. \A i \in Calls : CallFits(calls'[i], asks')
  BY <1>2, <1>4
<1> QED BY <1>3, <1>5 DEF CallsFit, CallFits

LEMMA SameAsks == asks' = asks => AsksKept
  BY DEF AsksKept

\* A request that moves on and writes nothing.
LEMMA QuietInv ==
  ASSUME Inv, NEW k \in Calls, NEW call \in Call, Goes(k, call), CallFits(call, asks),
         UNCHANGED <<open, grants, packs, asks, withdrawn>>
  PROVE  Inv'
<1>1. AsksKept /\ AsksFit' /\ CallFits(call, asks')
  BY SameAsks DEF Inv, AsksFit
<1>2. calls' \in [Calls -> Call] /\ CallsFit'
  BY <1>1, Fitting
<1> QED BY <1>1, <1>2 DEF Inv, TypeOK

LEMMA RestingFits ==
  Resting \in Call /\ Resting.at = "idle" /\ \A rows : CallFits(Resting, rows)
  BY DEF Resting, Call, Stages, CallFits

\* The ask.
LEMMA AskInv == ASSUME Inv, NEW k \in Calls, AskSteps(k) PROVE Inv' /\ AsksKept
<1>1. CASE \E c, t \in Companies, S \in SUBSET Designs, wide \in BOOLEAN : AskCheck(k, c, t, S, wide)
  <2>1. PICK c \in Companies, t \in Companies, S \in SUBSET Designs, wide \in BOOLEAN :
             AskCheck(k, c, t, S, wide)
    BY <1>1
  <2> DEFINE call == [Resting EXCEPT !.at = "asking", !.who = c, !.peer = t,
                                     !.over = S, !.wide = wide]
  <2>2. call \in Call /\ CallFits(call, asks)
    BY DEF Resting, Call, Stages, CallFits
  <2>3. Goes(k, call) /\ UNCHANGED <<open, grants, packs, asks, withdrawn>>
    BY <2>1 DEF AskCheck
  <2> HIDE DEF call
  <2> QED BY <2>2, <2>3, QuietInv, SameAsks
<1>2. CASE \E q \in Asks : AskInsert(k, q)
  <2>1. PICK q \in Asks : AskInsert(k, q)
    BY <1>2
  <2> DEFINE ask == [status |-> "pending", from |-> calls[k].who, to |-> calls[k].peer,
                     designs |-> calls[k].over, wide |-> calls[k].wide]
  <2>2. calls[k] \in Call /\ asks \in [Asks -> Ask]
    BY DEF Inv, TypeOK
  <2>3. calls[k].who \in Companies /\ calls[k].peer \in Companies
    BY <2>1 DEF Inv, CallsFit, CallFits, AskInsert
  <2>4. ask \in Ask /\ ask.from \in Companies /\ ask.to \in Companies
    BY <2>2, <2>3 DEF Call, Ask
  <2>5. asks' = [asks EXCEPT ![q] = ask] /\ Goes(k, Resting) /\ asks[q].status = "none"
        /\ UNCHANGED <<open, grants, packs, withdrawn>>
    BY <2>1 DEF AskInsert, NoAsk
  <2> HIDE DEF ask
  <2>6. asks' \in [Asks -> Ask] /\ AsksKept
    BY <2>2, <2>4, <2>5 DEF AsksKept
  <2>7. AsksFit'
    BY <2>2, <2>4, <2>5 DEF Inv, AsksFit
  <2>8. calls' \in [Calls -> Call] /\ CallsFit'
    BY <2>5, <2>6, RestingFits, Fitting
  <2> QED BY <2>5, <2>6, <2>7, <2>8 DEF Inv, TypeOK
<1> QED BY <1>1, <1>2 DEF AskSteps

\* The answer.
LEMMA LoadInv ==
  ASSUME Inv, NEW k \in Calls, NEW q \in Asks, AllowLoad(k, q) \/ DenyLoad(k, q)
  PROVE  Inv' /\ AsksKept
<1>1. asks[q] \in Ask /\ asks[q].status # "none" /\ asks[q].to \in Companies
  BY DEF Inv, TypeOK, AsksFit, AllowLoad, DenyLoad
<1> DEFINE yes == [Resting EXCEPT !.at = "allowing", !.who = asks[q].to,
                                  !.ask = q, !.over = Locked(q)]
           no == [Resting EXCEPT !.at = "denying", !.who = asks[q].to, !.ask = q]
<1>2. Locked(q) \in SUBSET Designs
  BY <1>1 DEF Locked, Ask
<1>3. yes \in Call /\ CallFits(yes, asks)
  BY <1>1, <1>2 DEF Resting, Call, Stages, CallFits
<1>4. no \in Call /\ CallFits(no, asks)
  BY <1>1 DEF Resting, Call, Stages, CallFits
<1>5. (Goes(k, yes) \/ Goes(k, no)) /\ UNCHANGED <<open, grants, packs, asks, withdrawn>>
  BY DEF AllowLoad, DenyLoad
<1> HIDE DEF yes, no
<1> QED BY <1>3, <1>4, <1>5, QuietInv, SameAsks

LEMMA AllowCheckInv ==
  ASSUME Inv, NEW k \in Calls, AllowCheck(k)
  PROVE  Inv' /\ AsksKept
<1> DEFINE call == [calls[k] EXCEPT !.at = "granting", !.over = asks[calls[k].ask].designs]
<1>1. calls[k] \in Call /\ asks \in [Asks -> Ask]
  BY DEF Inv, TypeOK
<1>2. calls[k].who \in Companies /\ calls[k].ask \in Asks /\ asks[calls[k].ask].status # "none"
  BY DEF Inv, CallsFit, CallFits, AllowCheck
<1>3. asks[calls[k].ask].designs \in SUBSET Designs
  BY <1>1, <1>2 DEF Ask
<1>4. call \in Call /\ CallFits(call, asks)
  BY <1>1, <1>2, <1>3 DEF Call, Stages, CallFits
<1>5. (Goes(k, call) \/ Goes(k, Resting)) /\ UNCHANGED <<open, grants, packs, asks, withdrawn>>
  BY DEF AllowCheck
<1> HIDE DEF call
<1> QED BY <1>4, <1>5, RestingFits, QuietInv, SameAsks

LEMMA AllowGrantInv ==
  ASSUME Inv, NEW k \in Calls, NEW d \in Designs, AllowGrant(k, d)
  PROVE  Inv' /\ AsksKept
<1> DEFINE call == [calls[k] EXCEPT !.over = @ \ {d}]
<1>1. calls[k] \in Call
  BY DEF Inv, TypeOK
<1>2. calls[k].who \in Companies /\ calls[k].at = "granting" /\ CallFits(calls[k], asks)
  BY DEF Inv, CallsFit, CallFits, AllowGrant
<1>3. call \in Call /\ CallFits(call, asks)
  BY <1>1, <1>2 DEF Call, CallFits
<1>4. Goes(k, call) /\ UNCHANGED <<open, packs, asks, withdrawn>>
  BY DEF AllowGrant
<1> HIDE DEF call
<1>5. grants' \in [Designs -> [Companies -> Companies \cup {Nobody}]]
  BY <1>2 DEF AllowGrant, Inv, TypeOK
<1>6. AsksKept /\ AsksFit' /\ CallFits(call, asks')
  BY <1>3, <1>4, SameAsks DEF Inv, AsksFit
<1>7. calls' \in [Calls -> Call] /\ CallsFit'
  BY <1>3, <1>4, <1>6, Fitting
<1> QED BY <1>4, <1>5, <1>6, <1>7 DEF Inv, TypeOK

LEMMA SettleInv ==
  ASSUME Inv, NEW k \in Calls, AllowSettle(k) \/ DenySettle(k)
  PROVE  Inv' /\ AsksKept
<1>1. calls[k].ask \in Asks /\ asks[calls[k].ask].status # "none" /\ asks \in [Asks -> Ask]
  BY DEF Inv, TypeOK, CallsFit, CallFits, AllowSettle, DenySettle
<1>2. PICK s \in {"allowed", "denied"} : asks' = [asks EXCEPT ![calls[k].ask].status = s]
  BY DEF AllowSettle, DenySettle
<1>3. Goes(k, Resting) /\ UNCHANGED <<open, grants, packs, withdrawn>>
  BY DEF AllowSettle, DenySettle
<1>4. asks' \in [Asks -> Ask]
  BY <1>1, <1>2 DEF Ask
<1>5. AsksKept
  BY <1>1, <1>2 DEF AsksKept, Ask
<1>6. AsksFit'
  BY <1>1, <1>2 DEF Inv, AsksFit, Ask
<1>7. calls' \in [Calls -> Call] /\ CallsFit'
  BY <1>3, <1>5, RestingFits, Fitting
<1> QED BY <1>3, <1>4, <1>5, <1>6, <1>7 DEF Inv, TypeOK

LEMMA AnswerInv == ASSUME Inv, NEW k \in Calls, AnswerSteps(k) PROVE Inv' /\ AsksKept
  BY LoadInv, AllowCheckInv, AllowGrantInv, SettleInv DEF AnswerSteps

\* The withdrawal.
LEMMA WithdrawTypes ==
  ASSUME Inv, NEW d \in Designs, NEW C \in SUBSET Companies, Withdraw(d, C)
  PROVE  /\ grants' \in [Designs -> [Companies -> Companies \cup {Nobody}]]
         /\ withdrawn' \in SUBSET (Designs \X Companies)
         /\ \A e \in Designs, c \in Companies :
              grants'[e][c] = IF e = d /\ c \in C THEN Nobody ELSE grants[e][c]
<1> DEFINE row == [c \in Companies |-> IF c \in C THEN Nobody ELSE grants[d][c]]
<1>1. grants \in [Designs -> [Companies -> Companies \cup {Nobody}]]
  BY DEF Inv, TypeOK
<1>2. row \in [Companies -> Companies \cup {Nobody}]
  BY <1>1
<1>3. grants' = [grants EXCEPT ![d] = row]
  BY DEF Withdraw
<1>4. \A c \in Companies : row[c] = IF c \in C THEN Nobody ELSE grants[d][c]
  OBVIOUS
<1> HIDE DEF row
<1>5. grants' \in [Designs -> [Companies -> Companies \cup {Nobody}]]
  BY <1>1, <1>2, <1>3
<1>6. \A e \in Designs, c \in Companies :
        grants'[e][c] = IF e = d /\ c \in C THEN Nobody ELSE grants[e][c]
  BY <1>1, <1>3, <1>4
<1>7. {<<d, c>> : c \in {x \in C : Holds(x, d)}} \subseteq Designs \X Companies
  OBVIOUS
<1> QED BY <1>5, <1>6, <1>7 DEF Inv, TypeOK, Withdraw

LEMMA RevokeInv == ASSUME Inv, NEW k \in Calls, RevokeSteps(k) PROVE Inv' /\ AsksKept
<1>a. calls[k] \in Call
  BY DEF Inv, TypeOK
<1>1. CASE \E a, c \in Companies, d \in Designs : RevokeCheck(k, a, d, c)
  <2>1. PICK a \in Companies, c \in Companies, d \in Designs : RevokeCheck(k, a, d, c)
    BY <1>1
  <2> DEFINE call == [Resting EXCEPT !.at = "revoking", !.who = a, !.over = {d}, !.peer = c]
  <2>2. call \in Call /\ CallFits(call, asks)
    BY DEF Resting, Call, Stages, CallFits
  <2>3. Goes(k, call) /\ UNCHANGED <<open, grants, packs, asks, withdrawn>>
    BY <2>1 DEF RevokeCheck
  <2> HIDE DEF call
  <2> QED BY <2>2, <2>3, QuietInv, SameAsks
<1>2. CASE \E d \in Designs : RevokeDelete(k, d)
  <2>1. PICK d \in Designs : RevokeDelete(k, d)
    BY <1>2
  <2> DEFINE call == [calls[k] EXCEPT !.at = "cascading"]
  <2>2. calls[k].peer \in Companies
    BY <2>1 DEF Inv, CallsFit, CallFits, RevokeDelete
  <2>3. call \in Call /\ CallFits(call, asks)
    BY <1>a, <2>2 DEF Call, Stages, CallFits
  <2>4. Goes(k, call) /\ UNCHANGED <<open, packs, asks>> /\ Withdraw(d, {calls[k].peer})
    BY <2>1 DEF RevokeDelete
  <2> HIDE DEF call
  <2>5. AsksKept /\ AsksFit' /\ CallFits(call, asks')
    BY <2>3, <2>4, SameAsks DEF Inv, AsksFit
  <2>6. calls' \in [Calls -> Call] /\ CallsFit'
    BY <2>3, <2>4, <2>5, Fitting
  <2>7. {calls[k].peer} \in SUBSET Companies
    BY <2>2
  <2> QED BY <2>4, <2>5, <2>6, <2>7, WithdrawTypes DEF Inv, TypeOK
<1>3. CASE \E d \in Designs : RevokeCascade(k, d)
  <2>1. PICK d \in Designs : RevokeCascade(k, d)
    BY <1>3
  <2>2. Goes(k, Resting) /\ UNCHANGED <<open, packs, asks>>
        /\ Withdraw(d, GivenBy(calls[k].peer, d))
    BY <2>1 DEF RevokeCascade
  <2>3. AsksKept /\ AsksFit'
    BY <2>2, SameAsks DEF Inv, AsksFit
  <2>4. calls' \in [Calls -> Call] /\ CallsFit'
    BY <2>2, <2>3, RestingFits, Fitting
  <2>5. GivenBy(calls[k].peer, d) \in SUBSET Companies
    BY DEF GivenBy
  <2> QED BY <2>2, <2>3, <2>4, <2>5, WithdrawTypes DEF Inv, TypeOK
<1> QED BY <1>1, <1>2, <1>3 DEF RevokeSteps

\* The collections.
LEMMA PackWrite ==
  ASSUME Inv, NEW k \in Calls, CurateWrite(k) \/ PublishWrite(k)
  PROVE  /\ calls[k].who \in Curators /\ packs' \in [Curators -> Pack]
         /\ \A p \in Curators : p # calls[k].who => packs'[p] = packs[p]
         /\ CurateWrite(k) => packs'[calls[k].who].designs = calls[k].over
         /\ PublishWrite(k) => packs'[calls[k].who].designs = packs[calls[k].who].designs
<1>1. calls[k] \in Call /\ packs \in [Curators -> Pack]
  BY DEF Inv, TypeOK
<1>2. calls[k].who \in Curators /\ calls[k].over \in SUBSET Designs /\ calls[k].wide \in BOOLEAN
  BY <1>1 DEF CurateWrite, PublishWrite, Inv, CallsFit, CallFits, Call
<1> DEFINE who == calls[k].who
           filled == [packs[who] EXCEPT !.designs = calls[k].over]
           shown == [[packs[who] EXCEPT !.live = TRUE] EXCEPT !.open = calls[k].wide]
<1>3. filled \in Pack /\ filled.designs = calls[k].over
  BY <1>1, <1>2 DEF Pack
<1>4. shown \in Pack /\ shown.designs = packs[who].designs
  BY <1>1, <1>2 DEF Pack
<1>5. CurateWrite(k) => packs' = [packs EXCEPT ![who] = filled]
  BY <1>1, <1>2 DEF CurateWrite
<1>6. PublishWrite(k) => packs' = [packs EXCEPT ![who] = shown]
  BY <1>1, <1>2 DEF PublishWrite
<1>7. CurateWrite(k) => calls[k].at = "curating"
  BY DEF CurateWrite
<1>8. PublishWrite(k) => calls[k].at = "publishing"
  BY DEF PublishWrite
<1> HIDE DEF filled, shown
<1> QED BY <1>1, <1>2, <1>3, <1>4, <1>5, <1>6, <1>7, <1>8

LEMMA PackInv == ASSUME Inv, NEW k \in Calls, PackSteps(k) PROVE Inv' /\ AsksKept
<1>1. CASE \E c \in Curators, S \in SUBSET Designs : CurateCheck(k, c, S)
  <2>1. PICK c \in Curators, S \in SUBSET Designs : CurateCheck(k, c, S)
    BY <1>1
  <2> DEFINE call == [Resting EXCEPT !.at = "curating", !.who = c, !.over = S]
  <2>2. call \in Call /\ CallFits(call, asks)
    BY CuratorsAssumption DEF Resting, Call, Stages, CallFits
  <2>3. Goes(k, call) /\ UNCHANGED <<open, grants, packs, asks, withdrawn>>
    BY <2>1 DEF CurateCheck
  <2> HIDE DEF call
  <2> QED BY <2>2, <2>3, QuietInv, SameAsks
<1>2. CASE \E c \in Curators, wide \in BOOLEAN : PublishCheck(k, c, wide)
  <2>1. PICK c \in Curators, wide \in BOOLEAN : PublishCheck(k, c, wide)
    BY <1>2
  <2> DEFINE call == [Resting EXCEPT !.at = "publishing", !.who = c, !.wide = wide]
  <2>2. call \in Call /\ CallFits(call, asks)
    BY CuratorsAssumption DEF Resting, Call, Stages, CallFits
  <2>3. Goes(k, call) /\ UNCHANGED <<open, grants, packs, asks, withdrawn>>
    BY <2>1 DEF PublishCheck
  <2> HIDE DEF call
  <2> QED BY <2>2, <2>3, QuietInv, SameAsks
<1>3. CASE CurateWrite(k) \/ PublishWrite(k)
  <2>1. Goes(k, Resting) /\ UNCHANGED <<open, grants, asks, withdrawn>>
    BY <1>3 DEF CurateWrite, PublishWrite
  <2>2. AsksKept /\ AsksFit'
    BY <2>1, SameAsks DEF Inv, AsksFit
  <2>3. calls' \in [Calls -> Call] /\ CallsFit'
    BY <2>1, <2>2, RestingFits, Fitting
  <2> QED BY <1>3, <2>1, <2>2, <2>3, PackWrite DEF Inv, TypeOK
<1> QED BY <1>1, <1>2, <1>3 DEF PackSteps

LEMMA DiesInv == ASSUME Inv, NEW k \in Calls, Dies(k) PROVE Inv' /\ AsksKept
  BY QuietInv, RestingFits, SameAsks DEF Dies

\* What changes outside the requests.
LEMMA OutsideInv ==
  ASSUME Inv, (\E c \in Curators : Hide(c)) \/ (\E d \in Designs : Reopen(d)) \/ UNCHANGED vars
  PROVE  Inv' /\ AsksKept
<1>1. CASE \E c \in Curators : Hide(c)
  BY <1>1 DEF Hide, Inv, TypeOK, AsksFit, CallsFit, CallFits, Pack, AsksKept
<1>2. CASE \E d \in Designs : Reopen(d)
  BY <1>2 DEF Reopen, Inv, TypeOK, AsksFit, CallsFit, CallFits, AsksKept
<1>3. CASE UNCHANGED vars
  BY <1>3 DEF vars, Inv, TypeOK, AsksFit, CallsFit, CallFits, AsksKept
<1> QED BY <1>1, <1>2, <1>3

LEMMA NextInv == ASSUME Inv, [Next]_vars PROVE Inv' /\ AsksKept
  BY AskInv, AnswerInv, RevokeInv, PackInv, DiesInv, OutsideInv DEF Next

LEMMA InvAlways == Spec => []Inv
<1>1. Inv /\ [Next]_vars => Inv'
  BY NextInv
<1> QED BY <1>1, InitInv, PTL DEF Spec

\* Type correctness of the rows and of the requests, for any numbers of them.
THEOREM TypeCorrect == Spec => []TypeOK
<1>1. Inv => TypeOK
  BY DEF Inv
<1> QED BY <1>1, InvAlways, PTL

-----------------------------------------------------------------------------
(* An allowed ask was honoured.                                            *)

Honoured(q, d) == Holds(asks[q].from, d) \/ <<d, asks[q].from>> \in withdrawn

\* An answer on its way has given every design it no longer has before it.
GrantingFits ==
  \A k \in Calls : calls[k].at = "granting" =>
    \A d \in asks[calls[k].ask].designs \ calls[k].over : Honoured(calls[k].ask, d)

GrantInv == GrantingFits /\ AllowedMeansGranted

\* Rights move in three actions only.
LEMMA RightsMove ==
  ASSUME [Next]_vars
  PROVE  \/ UNCHANGED <<grants, withdrawn>>
         \/ \E k \in Calls, e \in Designs : AllowGrant(k, e)
         \/ \E k \in Calls, e \in Designs : RevokeDelete(k, e) \/ RevokeCascade(k, e)
<1>1. CASE \E k \in Calls : AskSteps(k)
  BY <1>1 DEF AskSteps, AskCheck, AskInsert
<1>2. CASE \E k \in Calls : AnswerSteps(k)
  BY <1>2 DEF AnswerSteps, AllowLoad, AllowCheck, AllowSettle, DenyLoad, DenySettle
<1>3. CASE \E k \in Calls : RevokeSteps(k)
  BY <1>3 DEF RevokeSteps, RevokeCheck
<1>4. CASE \E k \in Calls : PackSteps(k)
  BY <1>4 DEF PackSteps, CurateCheck, CurateWrite, PublishCheck, PublishWrite
<1>5. CASE \E k \in Calls : Dies(k)
  BY <1>5 DEF Dies
<1>6. CASE (\E c \in Curators : Hide(c)) \/ (\E d \in Designs : Reopen(d)) \/ UNCHANGED vars
  BY <1>6 DEF Hide, Reopen, vars
<1> QED BY <1>1, <1>2, <1>3, <1>4, <1>5, <1>6 DEF Next

\* No step takes a right away without leaving its mark.
LEMMA HonouredStays ==
  ASSUME Inv, [Next]_vars,
         NEW q \in Asks, asks[q].status # "none", NEW d \in Designs, Honoured(q, d)
  PROVE  Honoured(q, d)'
<1>1. asks'[q].from = asks[q].from
  BY NextInv DEF AsksKept
<1>2. asks[q].from \in Companies
  BY DEF Inv, AsksFit
<1>3. CASE UNCHANGED <<grants, withdrawn>>
  BY <1>1, <1>3 DEF Honoured, Holds
<1>4. CASE \E k \in Calls, e \in Designs : AllowGrant(k, e)
  <2>1. PICK k \in Calls, e \in Designs : AllowGrant(k, e)
    BY <1>4
  <2>2. calls[k].who \in Companies
    BY <2>1 DEF Inv, CallsFit, CallFits, AllowGrant
  <2>3. grants'[d][asks[q].from] \in {grants[d][asks[q].from], calls[k].who}
    BY <1>2, <2>1 DEF AllowGrant, Inv, TypeOK
  <2>4. withdrawn' = withdrawn
    BY <2>1 DEF AllowGrant
  <2> QED BY <1>1, <2>2, <2>3, <2>4, NobodyAssumption DEF Honoured, Holds
<1>5. CASE \E k \in Calls, e \in Designs : RevokeDelete(k, e) \/ RevokeCascade(k, e)
  <2>1. PICK k \in Calls, e \in Designs : RevokeDelete(k, e) \/ RevokeCascade(k, e)
    BY <1>5
  <2>2. calls[k].peer \in Companies
    BY <2>1 DEF Inv, CallsFit, CallFits, RevokeDelete, RevokeCascade
  <2>3. PICK C \in SUBSET Companies : Withdraw(e, C)
    <3>1. {calls[k].peer} \in SUBSET Companies /\ GivenBy(calls[k].peer, e) \in SUBSET Companies
      BY <2>2 DEF GivenBy
    <3> QED BY <2>1, <3>1 DEF RevokeDelete, RevokeCascade
  <2>4. grants'[d][asks[q].from]
          = IF d = e /\ asks[q].from \in C THEN Nobody ELSE grants[d][asks[q].from]
    BY <1>2, <2>3, WithdrawTypes
  <2>5. withdrawn' = withdrawn \cup {<<e, c>> : c \in {x \in C : Holds(x, e)}}
    BY <2>3 DEF Withdraw
  <2> QED BY <1>1, <2>4, <2>5 DEF Honoured, Holds
<1> QED BY <1>3, <1>4, <1>5, RightsMove

\* A request that is not giving rights, or gave no more than before, is in order.
LEMMA GrantingStays ==
  ASSUME Inv, [Next]_vars, GrantingFits, NEW i \in Calls, calls'[i] = calls[i]
  PROVE  calls'[i].at = "granting" =>
           \A d \in asks'[calls'[i].ask].designs \ calls'[i].over : Honoured(calls[i].ask, d)'
<1> SUFFICES ASSUME calls[i].at = "granting",
                    NEW d \in asks'[calls[i].ask].designs \ calls[i].over
             PROVE  Honoured(calls[i].ask, d)'
  OBVIOUS
<1>1. calls[i].ask \in Asks /\ asks[calls[i].ask].status # "none"
  BY DEF Inv, CallsFit, CallFits
<1>2. asks'[calls[i].ask].designs = asks[calls[i].ask].designs
  BY <1>1, NextInv DEF AsksKept
<1>3. asks[calls[i].ask].designs \in SUBSET Designs
  BY <1>1 DEF Inv, TypeOK, Ask
<1>4. Honoured(calls[i].ask, d) /\ d \in Designs
  BY <1>2, <1>3 DEF GrantingFits
<1> QED BY <1>1, <1>4, HonouredStays DEF Honoured

\* The new call of the request that moved, and the old ones of the others.
LEMMA Others ==
  ASSUME Inv, NEW k \in Calls, NEW call, Goes(k, call)
  PROVE  calls'[k] = call /\ \A i \in Calls : i # k => calls'[i] = calls[i]
  BY DEF Goes, Inv, TypeOK

\* A request comes to give rights through the check, and keeps at it one design
\* at a time.
LEMMA GrantsOnly ==
  ASSUME Inv, [Next]_vars, NEW i \in Calls, calls'[i].at = "granting", calls'[i] # calls[i]
  PROVE  AllowCheck(i) \/ \E e \in Designs : AllowGrant(i, e)
<1>a. calls[i] \in Call
  BY DEF Inv, TypeOK
<1>1. \A k \in Calls : \A call : Goes(k, call) => k = i /\ calls'[i] = call
  BY Others
<1>2. ~\E k \in Calls : Goes(k, Resting)
  BY <1>1, RestingFits
<1>3. CASE \E k \in Calls : AskSteps(k)
  <2>1. PICK k \in Calls : AskSteps(k)
    BY <1>3
  <2>2. PICK c \in Companies, t \in Companies, S \in SUBSET Designs, wide \in BOOLEAN :
             AskCheck(k, c, t, S, wide)
    BY <1>2, <2>1 DEF AskSteps, AskInsert
  <2>3. calls'[i] = [Resting EXCEPT !.at = "asking", !.who = c, !.peer = t, !.over = S, !.wide = wide]
    BY <1>1, <2>2 DEF AskCheck
  <2> QED BY <2>3 DEF Resting
<1>4. CASE \E k \in Calls : AnswerSteps(k)
  <2>1. PICK k \in Calls : AnswerSteps(k)
    BY <1>4
  <2>2. ~AllowSettle(k) /\ ~DenySettle(k)
    BY <1>2 DEF AllowSettle, DenySettle
  <2>3. \A q \in Asks : ~AllowLoad(k, q)
    <3> SUFFICES ASSUME NEW q \in Asks, AllowLoad(k, q) PROVE FALSE
      OBVIOUS
    <3>1. calls'[i] = [Resting EXCEPT !.at = "allowing", !.who = asks[q].to,
                                      !.ask = q, !.over = Locked(q)]
      BY <1>1 DEF AllowLoad
    <3> QED BY <3>1 DEF Resting
  <2>4. \A q \in Asks : ~DenyLoad(k, q)
    <3> SUFFICES ASSUME NEW q \in Asks, DenyLoad(k, q) PROVE FALSE
      OBVIOUS
    <3>1. calls'[i] = [Resting EXCEPT !.at = "denying", !.who = asks[q].to, !.ask = q]
      BY <1>1 DEF DenyLoad
    <3> QED BY <3>1 DEF Resting
  <2>5. AllowCheck(k) => k = i
    BY <1>1, <1>2 DEF AllowCheck
  <2>6. \A e \in Designs : AllowGrant(k, e) => k = i
    BY <1>1 DEF AllowGrant
  <2> QED BY <2>1, <2>2, <2>3, <2>4, <2>5, <2>6 DEF AnswerSteps
<1>5. CASE \E k \in Calls : RevokeSteps(k)
  <2>1. PICK k \in Calls : RevokeSteps(k)
    BY <1>5
  <2>2. CASE \E a, c \in Companies, d \in Designs : RevokeCheck(k, a, d, c)
    <3>1. PICK a \in Companies, c \in Companies, d \in Designs : RevokeCheck(k, a, d, c)
      BY <2>2
    <3>2. calls'[i] = [Resting EXCEPT !.at = "revoking", !.who = a, !.over = {d}, !.peer = c]
      BY <1>1, <3>1 DEF RevokeCheck
    <3> QED BY <3>2 DEF Resting
  <2>3. CASE \E d \in Designs : RevokeDelete(k, d)
    <3>1. k = i /\ calls'[i] = [calls[k] EXCEPT !.at = "cascading"]
      BY <1>1, <2>3 DEF RevokeDelete
    <3> QED BY <1>a, <3>1 DEF Call
  <2>4. CASE \E d \in Designs : RevokeCascade(k, d)
    BY <1>2, <2>4 DEF RevokeCascade
  <2> QED BY <2>1, <2>2, <2>3, <2>4 DEF RevokeSteps
<1>6. CASE \E k \in Calls : PackSteps(k)
  <2>1. PICK k \in Calls : PackSteps(k)
    BY <1>6
  <2>2. CASE \E c \in Curators, S \in SUBSET Designs : CurateCheck(k, c, S)
    <3>1. PICK c \in Curators, S \in SUBSET Designs : CurateCheck(k, c, S)
      BY <2>2
    <3>2. calls'[i] = [Resting EXCEPT !.at = "curating", !.who = c, !.over = S]
      BY <1>1, <3>1 DEF CurateCheck
    <3> QED BY <3>2 DEF Resting
  <2>3. CASE \E c \in Curators, wide \in BOOLEAN : PublishCheck(k, c, wide)
    <3>1. PICK c \in Curators, wide \in BOOLEAN : PublishCheck(k, c, wide)
      BY <2>3
    <3>2. calls'[i] = [Resting EXCEPT !.at = "publishing", !.who = c, !.wide = wide]
      BY <1>1, <3>1 DEF PublishCheck
    <3> QED BY <3>2 DEF Resting
  <2> QED BY <1>2, <2>1, <2>2, <2>3 DEF PackSteps, CurateWrite, PublishWrite
<1>7. ~\E k \in Calls : Dies(k)
  BY <1>2 DEF Dies
<1>8. ~\E c \in Curators : Hide(c)
  BY DEF Hide
<1>9. ~\E d \in Designs : Reopen(d)
  BY DEF Reopen
<1>10. ~UNCHANGED vars
  BY DEF vars
<1> QED BY <1>3, <1>4, <1>5, <1>6, <1>7, <1>8, <1>9, <1>10 DEF Next

\* An ask comes to be allowed through the answer that gave its last right.
LEMMA AllowsOnly ==
  ASSUME Inv, [Next]_vars, NEW q \in Asks, asks'[q].status = "allowed", asks[q].status # "allowed"
  PROVE  \E k \in Calls : AllowSettle(k) /\ calls[k].ask = q
<1>1. asks' # asks /\ asks \in [Asks -> Ask]
  BY DEF Inv, TypeOK
<1>2. CASE \E k \in Calls, r \in Asks : AskInsert(k, r)
  <2>1. PICK k \in Calls, r \in Asks : AskInsert(k, r)
    BY <1>2
  <2>2. asks'[q].status \in {asks[q].status, "pending"}
    BY <1>1, <2>1 DEF AskInsert
  <2> QED BY <2>2
<1>3. CASE \E k \in Calls : AllowSettle(k)
  <2>1. PICK k \in Calls : AllowSettle(k)
    BY <1>3
  <2>2. calls[k].ask # q => asks'[q] = asks[q]
    BY <1>1, <2>1 DEF AllowSettle
  <2> QED BY <2>1, <2>2
<1>4. CASE \E k \in Calls : DenySettle(k)
  <2>1. PICK k \in Calls : DenySettle(k)
    BY <1>4
  <2>2. asks'[q].status \in {asks[q].status, "denied"}
    BY <1>1, <2>1 DEF DenySettle, Ask
  <2> QED BY <2>2
<1>5. CASE \E k \in Calls : AskSteps(k)
  BY <1>1, <1>2, <1>5 DEF AskSteps, AskCheck
<1>6. CASE \E k \in Calls : AnswerSteps(k)
  BY <1>1, <1>3, <1>4, <1>6 DEF AnswerSteps, AllowLoad, AllowCheck, AllowGrant, DenyLoad
<1>7. CASE \E k \in Calls : RevokeSteps(k)
  BY <1>1, <1>7 DEF RevokeSteps, RevokeCheck, RevokeDelete, RevokeCascade
<1>8. CASE \E k \in Calls : PackSteps(k)
  BY <1>1, <1>8 DEF PackSteps, CurateCheck, CurateWrite, PublishCheck, PublishWrite
<1>9. CASE \E k \in Calls : Dies(k)
  BY <1>1, <1>9 DEF Dies
<1>10. CASE (\E c \in Curators : Hide(c)) \/ (\E d \in Designs : Reopen(d)) \/ UNCHANGED vars
  BY <1>1, <1>10 DEF Hide, Reopen, vars
<1> QED BY <1>5, <1>6, <1>7, <1>8, <1>9, <1>10 DEF Next

LEMMA GrantInvStep == ASSUME Inv, GrantInv, [Next]_vars PROVE GrantInv'
<1>a. \A q \in Asks : asks[q].status # "none" =>
        \A d \in Designs : Honoured(q, d) => Honoured(q, d)'
  BY HonouredStays
<1>b. Inv' /\ AsksKept
  BY NextInv
<1>1. GrantingFits'
  <2> SUFFICES ASSUME NEW i \in Calls, calls'[i].at = "granting", calls'[i] # calls[i],
                      NEW d \in asks'[calls'[i].ask].designs \ calls'[i].over
               PROVE  Honoured(calls[i].ask, d)'
    BY GrantingStays DEF GrantInv, GrantingFits
  <2>1. CASE AllowCheck(i)
    <3> DEFINE call == [calls[i] EXCEPT !.at = "granting", !.over = asks[calls[i].ask].designs]
    <3>1. calls[i] \in Call
      BY DEF Inv, TypeOK
    <3>2. Goes(i, call) \/ Goes(i, Resting)
      BY <2>1 DEF AllowCheck
    <3>3. call.ask = calls[i].ask /\ call.over = asks[calls[i].ask].designs
      BY <3>1 DEF Call
    <3> HIDE DEF call
    <3>4. calls'[i] = call
      BY <3>2, RestingFits, Others
    <3>5. asks' = asks
      BY <2>1 DEF AllowCheck
    <3> QED BY <3>3, <3>4, <3>5
  <2>2. CASE \E e \in Designs : AllowGrant(i, e)
    <3>1. PICK e \in Designs : AllowGrant(i, e)
      BY <2>2
    <3> DEFINE call == [calls[i] EXCEPT !.over = @ \ {e}]
    <3>2. calls[i] \in Call /\ calls[i].at = "granting"
      BY <3>1 DEF Inv, TypeOK, AllowGrant
    <3>3. Goes(i, call) /\ asks' = asks
      BY <3>1 DEF AllowGrant
    <3>4. call.ask = calls[i].ask /\ call.over = calls[i].over \ {e}
      BY <3>2 DEF Call
    <3> HIDE DEF call
    <3>5. calls'[i].ask = calls[i].ask /\ calls'[i].over = calls[i].over \ {e}
      BY <3>3, <3>4, Others
    <3>6. calls[i].ask \in Asks /\ asks[calls[i].ask].status # "none" /\ calls[i].who \in Companies
      BY <3>2 DEF Inv, CallsFit, CallFits
    <3>7. asks[calls[i].ask].designs \in SUBSET Designs /\ asks[calls[i].ask].from \in Companies
      BY <3>6 DEF Inv, TypeOK, AsksFit, Ask
    <3>8. CASE d = e
      <4>1. grants'[d][asks[calls[i].ask].from] = calls[i].who
        BY <3>1, <3>7, <3>8 DEF AllowGrant, Inv, TypeOK
      <4> QED BY <3>3, <3>5, <3>6, <4>1, NobodyAssumption DEF Honoured, Holds
    <3>9. CASE d # e
      <4>1. Honoured(calls[i].ask, d) /\ d \in Designs
        BY <3>2, <3>3, <3>5, <3>7, <3>9 DEF GrantInv, GrantingFits
      <4> QED BY <1>a, <3>5, <3>6, <4>1 DEF Honoured
    <3> QED BY <3>8, <3>9
  <2>3. AllowCheck(i) \/ \E e \in Designs : AllowGrant(i, e)
    BY GrantsOnly
  <2> QED BY <2>1, <2>2, <2>3
<1>2. AllowedMeansGranted'
  <2> SUFFICES ASSUME NEW q \in Asks, asks'[q].status = "allowed",
                      NEW d \in asks'[q].designs
               PROVE  Honoured(q, d)'
    BY DEF AllowedMeansGranted, Honoured
  <2>1. CASE asks[q].status = "allowed"
    <3>1. asks'[q].designs = asks[q].designs /\ asks[q].designs \in SUBSET Designs
      BY <1>b, <2>1 DEF AsksKept, Inv, TypeOK, Ask
    <3>2. Honoured(q, d)
      BY <2>1, <3>1 DEF GrantInv, AllowedMeansGranted, Honoured
    <3> QED BY <1>a, <2>1, <3>1, <3>2
  <2>2. CASE \E k \in Calls : AllowSettle(k) /\ calls[k].ask = q
    <3>1. PICK k \in Calls : AllowSettle(k) /\ calls[k].ask = q
      BY <2>2
    <3>2. asks[q].status # "none" /\ calls[k].at = "granting" /\ calls[k].over = {}
      BY <3>1 DEF Inv, CallsFit, CallFits, AllowSettle
    <3>3. asks'[q].designs = asks[q].designs /\ asks[q].designs \in SUBSET Designs
      BY <1>b, <3>2 DEF AsksKept, Inv, TypeOK, Ask
    <3>4. Honoured(q, d)
      BY <3>1, <3>2, <3>3 DEF GrantInv, GrantingFits
    <3> QED BY <1>a, <3>2, <3>3, <3>4
  <2>3. asks[q].status = "allowed" \/ \E k \in Calls : AllowSettle(k) /\ calls[k].ask = q
    BY AllowsOnly
  <2> QED BY <2>1, <2>2, <2>3
<1> QED BY <1>1, <1>2 DEF GrantInv

\* An ask marked allowed was honoured in full, but for what was withdrawn: for
\* any number of designs in an ask and of requests that interleave or stop.
THEOREM AllowedIsGranted == Spec => []AllowedMeansGranted
<1>1. Init => GrantInv
  BY DEF Init, GrantInv, GrantingFits, AllowedMeansGranted, Resting, NoAsk
<1>2. Inv /\ GrantInv /\ [Next]_vars => GrantInv'
  BY GrantInvStep
<1>3. GrantInv => AllowedMeansGranted
  BY DEF GrantInv
<1> QED BY <1>1, <1>2, <1>3, InvAlways, PTL DEF Spec

-----------------------------------------------------------------------------
(* A right that is nowhere left comes back only through the supplier.      *)

\* Nothing more is out than before, if the moving request is past no check
\* that it had not passed, or that the right was not out for.
LEMMA NothingNew ==
  ASSUME Inv, AsksKept, NEW k \in Calls, NEW d \in Designs, UNCHANGED open,
         \A i \in Calls : i # k => calls'[i] = calls[i],
         \A c \in Companies : Holds(c, d)' => Holds(c, d),
         \A p \in Curators : \/ packs'[p] = packs[p]
                             \/ ~OpenPack(p, d)' /\ (p = Supplier[d] \/ d \notin packs'[p].designs)
                             \/ Spread(d),
         Passed(k, d)' => Spread(d),
         Spread(d)'
  PROVE  Spread(d)
<1>1. CASE open'[d] \/ \E c \in Companies : Holds(c, d)'
  BY <1>1 DEF Spread
<1>2. CASE \E p \in Curators : OpenPack(p, d)' \/ (p # Supplier[d] /\ d \in packs'[p].designs)
  BY <1>2 DEF Spread, OpenPack
<1>3. CASE \E i \in Calls : Passed(i, d)'
  <2>1. PICK i \in Calls : Passed(i, d)'
    BY <1>3
  <2>2. CASE i = k
    BY <2>1, <2>2
  <2>3. CASE i # k
    <3>1. calls'[i] = calls[i]
      BY <2>3
    <3>2. calls[i].at = "allowing" => asks'[calls[i].ask].designs = asks[calls[i].ask].designs
      BY DEF AsksKept, Inv, CallsFit, CallFits
    <3>3. Passed(i, d)
      BY <2>1, <3>1, <3>2 DEF Passed
    <3> QED BY <3>3 DEF Spread
  <2> QED BY <2>2, <2>3
<1> QED BY <1>1, <1>2, <1>3 DEF Spread

LetsOut(d) == ~Spread(d) /\ Spread(d)' => LetOut(d)'

\* A request that moves on, past no check, and touches neither rights nor collections.
LEMMA QuietLets ==
  ASSUME Inv, AsksKept, NEW k \in Calls, NEW call, Goes(k, call), NEW d \in Designs,
         call.at \notin {"allowing", "granting", "curating"}, UNCHANGED <<open, grants, packs>>
  PROVE  LetsOut(d)
<1>1. ~Passed(k, d)'
  BY Others DEF Passed
<1> QED BY <1>1, Others, NothingNew DEF LetsOut, Holds

LEMMA AskLets == ASSUME Inv, NEW k \in Calls, AskSteps(k), NEW d \in Designs PROVE LetsOut(d)
<1>1. CASE \E c, t \in Companies, S \in SUBSET Designs, wide \in BOOLEAN : AskCheck(k, c, t, S, wide)
  <2>1. PICK c \in Companies, t \in Companies, S \in SUBSET Designs, wide \in BOOLEAN :
             AskCheck(k, c, t, S, wide)
    BY <1>1
  <2> DEFINE call == [Resting EXCEPT !.at = "asking", !.who = c, !.peer = t,
                                     !.over = S, !.wide = wide]
  <2>2. call.at = "asking"
    BY DEF Resting
  <2>3. Goes(k, call) /\ UNCHANGED <<open, grants, packs>>
    BY <2>1 DEF AskCheck
  <2> HIDE DEF call
  <2> QED BY <2>2, <2>3, AskInv, QuietLets
<1>2. CASE \E q \in Asks : AskInsert(k, q)
  BY <1>2, AskInv, RestingFits, QuietLets DEF AskInsert
<1> QED BY <1>1, <1>2 DEF AskSteps

LEMMA AnswerLets == ASSUME Inv, NEW k \in Calls, AnswerSteps(k), NEW d \in Designs PROVE LetsOut(d)
<1>a. calls[k] \in Call /\ AsksKept
  BY AnswerInv DEF Inv, TypeOK
<1>1. CASE \E q \in Asks : AllowLoad(k, q)
  <2>1. PICK q \in Asks : AllowLoad(k, q)
    BY <1>1
  <2> DEFINE call == [Resting EXCEPT !.at = "allowing", !.who = asks[q].to,
                                     !.ask = q, !.over = Locked(q)]
  <2>2. call.at = "allowing" /\ call.who = asks[q].to /\ call.ask = q /\ call.over = Locked(q)
    BY DEF Resting
  <2>3. Goes(k, call) /\ UNCHANGED <<open, grants, packs, asks>>
    BY <2>1 DEF AllowLoad
  <2> HIDE DEF call
  <2>4. Passed(k, d)' => Spread(d)
    BY <2>2, <2>3, Others DEF Passed, Locked, Spread
  <2> QED BY <1>a, <2>3, <2>4, Others, NothingNew DEF LetsOut, Holds
<1>2. CASE \E q \in Asks : DenyLoad(k, q)
  <2>1. PICK q \in Asks : DenyLoad(k, q)
    BY <1>2
  <2> DEFINE call == [Resting EXCEPT !.at = "denying", !.who = asks[q].to, !.ask = q]
  <2>2. call.at = "denying"
    BY DEF Resting
  <2>3. Goes(k, call) /\ UNCHANGED <<open, grants, packs>>
    BY <2>1 DEF DenyLoad
  <2> HIDE DEF call
  <2> QED BY <1>a, <2>2, <2>3, QuietLets
<1>5. CASE AllowSettle(k) \/ DenySettle(k)
  BY <1>a, <1>5, RestingFits, QuietLets DEF AllowSettle, DenySettle
<1>3. CASE AllowCheck(k)
  <2> DEFINE call == [calls[k] EXCEPT !.at = "granting", !.over = asks[calls[k].ask].designs]
  <2>1. call.at = "granting" /\ call.who = calls[k].who /\ call.over = asks[calls[k].ask].designs
    BY <1>a DEF Call
  <2>2. UNCHANGED <<open, grants, packs, asks>> /\ calls[k].at = "allowing"
        /\ \/ Goes(k, call) /\ \A e \in calls[k].over : Holds(calls[k].who, e)
           \/ Goes(k, Resting)
    BY <1>3 DEF AllowCheck
  <2>3. calls[k].who \in Companies
    BY <2>2 DEF Inv, CallsFit, CallFits
  <2> HIDE DEF call
  <2>4. CASE Goes(k, call) /\ \A e \in calls[k].over : Holds(calls[k].who, e)
    <3>1. Passed(k, d)' => Passed(k, d) \/ Holds(calls[k].who, d)
      BY <2>1, <2>2, <2>4, Others DEF Passed
    <3>2. Passed(k, d)' => Spread(d)
      BY <2>3, <3>1 DEF Spread
    <3> QED BY <1>a, <2>2, <2>4, <3>2, Others, NothingNew DEF LetsOut, Holds
  <2>5. CASE Goes(k, Resting)
    <3>1. ~Passed(k, d)'
      BY <2>5, RestingFits, Others DEF Passed
    <3> QED BY <1>a, <2>2, <2>5, <3>1, Others, NothingNew DEF LetsOut, Holds
  <2> QED BY <2>2, <2>4, <2>5
<1>4. CASE \E e \in Designs : AllowGrant(k, e)
  <2>1. PICK e \in Designs : AllowGrant(k, e)
    BY <1>4
  <2> DEFINE call == [calls[k] EXCEPT !.over = @ \ {e}]
  <2>2. call.at = calls[k].at /\ call.who = calls[k].who /\ call.over = calls[k].over \ {e}
    BY <1>a DEF Call
  <2>3. Goes(k, call) /\ UNCHANGED <<open, packs, asks>> /\ e \in calls[k].over
        /\ calls[k].at = "granting"
    BY <2>1 DEF AllowGrant
  <2> HIDE DEF call
  <2>4. calls[k].who \in Companies /\ calls[k].ask \in Asks /\ asks[calls[k].ask].from \in Companies
    BY <2>3 DEF Inv, CallsFit, CallFits, AsksFit
  <2>5. Passed(k, d)' => Passed(k, d)
    BY <2>2, <2>3, Others DEF Passed
  <2>6. CASE d # e
    <3>1. \A c \in Companies : Holds(c, d)' => Holds(c, d)
      BY <2>1, <2>4, <2>6 DEF AllowGrant, Holds, Inv, TypeOK
    <3> QED BY <1>a, <2>3, <2>5, <3>1, Others, NothingNew DEF LetsOut, Spread
  <2>7. CASE d = e /\ calls[k].who # Supplier[d]
    <3>1. Passed(k, d)
      BY <2>3, <2>7 DEF Passed
    <3> QED BY <3>1 DEF LetsOut, Spread
  <2>8. CASE d = e /\ calls[k].who = Supplier[d]
    <3>1. grants'[d][asks[calls[k].ask].from] = Supplier[d]
      BY <2>1, <2>4, <2>8 DEF AllowGrant, Inv, TypeOK
    <3> QED BY <2>4, <3>1 DEF LetsOut, LetOut
  <2> QED BY <2>6, <2>7, <2>8
<1> QED BY <1>1, <1>2, <1>3, <1>4, <1>5 DEF AnswerSteps

LEMMA RevokeLets == ASSUME Inv, NEW k \in Calls, RevokeSteps(k), NEW d \in Designs PROVE LetsOut(d)
<1>a. calls[k] \in Call /\ AsksKept
  BY RevokeInv DEF Inv, TypeOK
<1>1. CASE \E a, c \in Companies, e \in Designs : RevokeCheck(k, a, e, c)
  <2>1. PICK a \in Companies, c \in Companies, e \in Designs : RevokeCheck(k, a, e, c)
    BY <1>1
  <2> DEFINE call == [Resting EXCEPT !.at = "revoking", !.who = a, !.over = {e}, !.peer = c]
  <2>2. call.at = "revoking"
    BY DEF Resting
  <2>3. Goes(k, call) /\ UNCHANGED <<open, grants, packs>>
    BY <2>1 DEF RevokeCheck
  <2> HIDE DEF call
  <2> QED BY <1>a, <2>2, <2>3, QuietLets
<1>2. ASSUME NEW e \in Designs, NEW C \in SUBSET Companies, Withdraw(e, C), UNCHANGED <<open, packs>>,
             NEW call, Goes(k, call), call.at \notin {"allowing", "granting", "curating"}
      PROVE  LetsOut(d)
  <2>1. \A c \in Companies : Holds(c, d)' => Holds(c, d)
    BY <1>2, WithdrawTypes DEF Holds
  <2>2. ~Passed(k, d)'
    BY <1>2, Others DEF Passed
  <2> QED BY <1>a, <1>2, <2>1, <2>2, Others, NothingNew DEF LetsOut
<1>3. CASE \E e \in Designs : RevokeDelete(k, e)
  <2>1. PICK e \in Designs : RevokeDelete(k, e)
    BY <1>3
  <2> DEFINE call == [calls[k] EXCEPT !.at = "cascading"]
  <2>2. call.at = "cascading"
    BY <1>a DEF Call
  <2>3. Goes(k, call) /\ UNCHANGED <<open, packs>> /\ Withdraw(e, {calls[k].peer})
    BY <2>1 DEF RevokeDelete
  <2>4. {calls[k].peer} \in SUBSET Companies
    BY <2>1 DEF Inv, CallsFit, CallFits, RevokeDelete
  <2> HIDE DEF call
  <2> QED BY <1>2, <2>2, <2>3, <2>4
<1>4. CASE \E e \in Designs : RevokeCascade(k, e)
  <2>1. PICK e \in Designs : RevokeCascade(k, e)
    BY <1>4
  <2>2. GivenBy(calls[k].peer, e) \in SUBSET Companies
    BY DEF GivenBy
  <2> QED BY <1>2, <2>1, <2>2, RestingFits DEF RevokeCascade
<1> QED BY <1>1, <1>3, <1>4 DEF RevokeSteps

LEMMA PackLets == ASSUME Inv, NEW k \in Calls, PackSteps(k), NEW d \in Designs PROVE LetsOut(d)
<1>a. calls[k] \in Call /\ AsksKept
  BY PackInv DEF Inv, TypeOK
<1>1. CASE \E c \in Curators, S \in SUBSET Designs : CurateCheck(k, c, S)
  <2>1. PICK c \in Curators, S \in SUBSET Designs : CurateCheck(k, c, S)
    BY <1>1
  <2> DEFINE call == [Resting EXCEPT !.at = "curating", !.who = c, !.over = S]
  <2>2. call.at = "curating" /\ call.who = c /\ call.over = S
    BY DEF Resting
  <2>3. Goes(k, call) /\ UNCHANGED <<open, grants, packs, asks>>
        /\ \A e \in S \ packs[c].designs : MayCarry(c, e)
    BY <2>1 DEF CurateCheck
  <2> HIDE DEF call
  <2>4. Passed(k, d)' => c # Supplier[d] /\ d \in S
    BY <2>2, <2>3, Others DEF Passed
  <2>5. Passed(k, d)' => Spread(d)
    BY <2>3, <2>4, CuratorsAssumption DEF MayCarry, Spread
  <2> QED BY <1>a, <2>3, <2>5, Others, NothingNew DEF LetsOut, Holds
<1>2. CASE \E c \in Curators, wide \in BOOLEAN : PublishCheck(k, c, wide)
  <2>1. PICK c \in Curators, wide \in BOOLEAN : PublishCheck(k, c, wide)
    BY <1>2
  <2> DEFINE call == [Resting EXCEPT !.at = "publishing", !.who = c, !.wide = wide]
  <2>2. call.at = "publishing"
    BY DEF Resting
  <2>3. Goes(k, call) /\ UNCHANGED <<open, grants, packs>>
    BY <2>1 DEF PublishCheck
  <2> HIDE DEF call
  <2> QED BY <1>a, <2>2, <2>3, QuietLets
<1>3. CASE CurateWrite(k) \/ PublishWrite(k)
  <2>1. Goes(k, Resting) /\ UNCHANGED <<open, grants, asks>>
    BY <1>3 DEF CurateWrite, PublishWrite
  <2>2. ~Passed(k, d)'
    BY <2>1, RestingFits, Others DEF Passed
  <2>3. PICK who \in Curators : who = calls[k].who /\ \A p \in Curators : p # who => packs'[p] = packs[p]
    BY <1>3, PackWrite
  <2>4. d \in packs'[who].designs /\ who # Supplier[d] => Spread(d)
    <3>1. CASE CurateWrite(k)
      <4>1. packs'[who].designs = calls[k].over /\ calls[k].at = "curating"
        BY <2>3, <3>1, PackWrite DEF CurateWrite
      <4> QED BY <2>3, <4>1 DEF Passed, Spread
    <3>2. CASE PublishWrite(k)
      <4>1. packs'[who].designs = packs[who].designs
        BY <2>3, <3>2, PackWrite
      <4> QED BY <2>3, <4>1 DEF Spread
    <3> QED BY <1>3, <3>1, <3>2
  <2>5. CASE who = Supplier[d] /\ OpenPack(who, d)'
    BY <2>3, <2>5 DEF LetsOut, LetOut
  <2>6. CASE ~(who = Supplier[d] /\ OpenPack(who, d)')
    <3>1. \A p \in Curators : \/ packs'[p] = packs[p]
                              \/ ~OpenPack(p, d)' /\ (p = Supplier[d] \/ d \notin packs'[p].designs)
                              \/ Spread(d)
      BY <2>3, <2>4, <2>6 DEF OpenPack
    <3> QED BY <1>a, <2>1, <2>2, <3>1, Others, NothingNew DEF LetsOut, Holds
  <2> QED BY <2>5, <2>6
<1> QED BY <1>1, <1>2, <1>3 DEF PackSteps

LEMMA DiesLets == ASSUME Inv, NEW k \in Calls, Dies(k), NEW d \in Designs PROVE LetsOut(d)
  BY DiesInv, RestingFits, QuietLets DEF Dies

LEMMA OutsideLets ==
  ASSUME Inv, (\E c \in Curators : Hide(c)) \/ (\E e \in Designs : Reopen(e)) \/ UNCHANGED vars,
         NEW d \in Designs
  PROVE  LetsOut(d)
<1>1. CASE \E c \in Curators : Hide(c)
  <2>1. PICK c \in Curators : Hide(c)
    BY <1>1
  <2>2. packs \in [Curators -> Pack]
    BY DEF Inv, TypeOK
  <2>3. \A p \in Curators : packs'[p].designs = packs[p].designs /\ (OpenPack(p, d)' => OpenPack(p, d))
    BY <2>1, <2>2 DEF Hide, Pack, OpenPack
  <2>4. UNCHANGED <<open, grants, asks, calls>>
    BY <2>1 DEF Hide
  <2> QED BY <2>3, <2>4 DEF LetsOut, Spread, Holds, Passed
<1>2. CASE \E e \in Designs : Reopen(e)
  BY <1>2 DEF Reopen, LetsOut, LetOut, Spread, Holds, Passed, OpenPack
<1>3. CASE UNCHANGED vars
  BY <1>3 DEF vars, LetsOut, Spread, Holds, Passed, OpenPack
<1> QED BY <1>1, <1>2, <1>3

LEMMA NextLets == ASSUME Inv, [Next]_vars PROVE \A d \in Designs : LetsOut(d)
  BY AskLets, AnswerLets, RevokeLets, PackLets, DiesLets, OutsideLets DEF Next

\* A right to a design that is nowhere left comes back only by an act of its
\* supplier: for any chain of companies, of any length, and any collections.
THEOREM SupplierLetsOut == Spec => OnlyTheSupplierLetsOut
<1>1. Inv /\ [Next]_vars => [\A d \in Designs : ~Spread(d) /\ Spread(d)' => LetOut(d)']_vars
  BY NextLets DEF LetsOut
<1> QED BY <1>1, InvAlways, PTL DEF Spec, OnlyTheSupplierLetsOut
=============================================================================
