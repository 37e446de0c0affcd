------------------------- MODULE CompanyPairProofs -------------------------
(***************************************************************************)
(* Proofs about CompanyPair, for any number of API calls at work, of       *)
(* access requests and of chats.  Type correctness; that a block which met *)
(* no call that had looked before stands, and is silent; and that who is   *)
(* shown a chat can open it.                                               *)
(***************************************************************************)
EXTENDS CompanyPair, FiniteSetTheorems, TLAPS

\* The pair: there is the other company and no third one.
LEMMA PairOfTwo ==
  ASSUME NEW c \in Companies
  PROVE  /\ Other(c) \in Companies /\ Other(c) # c
         /\ \A d \in Companies : d = c \/ d = Other(c)
<1>1. IsFiniteSet(Companies \ {c}) /\ Cardinality(Companies \ {c}) = 1
  BY PairAssumption, FS_RemoveElement
<1>2. PICK x : Companies \ {c} = {x}
  BY <1>1, FS_Singleton
<1>3. x \in Companies /\ x # c /\ \A d \in Companies : d # c => d = x
  BY <1>2
<1>4. Other(c) \in Companies /\ Other(c) # c
  BY <1>3 DEF Other
<1> QED BY <1>3, <1>4

-----------------------------------------------------------------------------
(* The invariant.                                                          *)

\* What a call refers to.
Fit(k) ==
  /\ k.at # "idle" => k.who \in Companies
  /\ k.at \in {"checking", "approving", "declining"} => k.request \in RequestIds
  /\ k.at \in {"accepting", "nudging", "pinging"} => k.thread \in ThreadIds

\* While a block stands that crossed nothing ...
Blocked == ~crossed /\ blockers # {}

\* ... no call is about to connect the pair or to bring a chat back, only its own company
\* is lifting it, and a chat that is being started stays out of the other's inbox.
Harmless(k) ==
  Blocked => /\ k.at \notin {"approving", "connecting", "pinging"}
             /\ k.at = "unblock" => k.who \in blockers
             /\ k.at \in {"knowing", "starting"} => k.target = "archived"

OneBlocker == ~crossed => \A c, d \in blockers : c = d

CallsInv == \A r \in Calls : Fit(call[r]) /\ Harmless(call[r])

Inv == TypeOK /\ BlockHolds /\ OneBlocker /\ CallsInv

\* What a step does to the chats of a company that has blocked.
Silent ==
  \A c \in blockers, t \in ThreadIds :
     ~crossed /\ thread'[t].open /\ thread'[t].state[c] = "pending"
       => thread[t].open /\ thread[t].state[c] = "pending"

LEMMA SameThreads == thread' = thread => Silent
  BY DEF Silent

LEMMA IdleIsCall == Idle \in Call /\ Idle.at = "idle" /\ Idle.target = "pending"
  BY DEF Idle, Call, Steps, ParticipantState

LEMMA InitInv == Init => Inv
<1> SUFFICES ASSUME Init PROVE Inv
  OBVIOUS
<1>1. TypeOK
  BY IdleIsCall DEF Init, TypeOK, Connection, Request, FollowStatus, Thread, ParticipantState
<1>2. CallsInv
  BY DEF Init, CallsInv, Fit, Harmless, Blocked, Idle
<1> QED BY <1>1, <1>2 DEF Init, Inv, BlockHolds, OneBlocker

-----------------------------------------------------------------------------
(* How a call moves on.                                                    *)

\* Call r becomes k.
Becomes(r, k) == call' = [call EXCEPT ![r] = k]

RowsTyped == /\ connection \in Connection
             /\ request \in [RequestIds -> Request]
             /\ follow \in [Companies -> FollowStatus]
             /\ thread \in [ThreadIds -> Thread]

\* A call that becomes a harmless one, while connection and history stay.
LEMMA Moves ==
  ASSUME Inv, NEW r \in Calls, NEW k \in Call, Becomes(r, k), Fit(k), Harmless(k),
         UNCHANGED connection, NoHistory, RowsTyped'
  PROVE  Inv'
<1>1. call' \in [Calls -> Call] /\ call'[r] = k /\ \A i \in Calls : i # r => call'[i] = call[i]
  BY DEF Inv, TypeOK, Becomes
<1>2. \A i \in Calls : Fit(call'[i]) /\ Harmless(call'[i])
  BY <1>1 DEF Inv, CallsInv
<1>3. CallsInv'
  BY <1>2 DEF CallsInv, Fit, Harmless, Blocked, NoHistory
<1>4. TypeOK'
  BY <1>1 DEF TypeOK, RowsTyped, Inv, NoHistory
<1> QED BY <1>3, <1>4 DEF Inv, BlockHolds, OneBlocker, NoHistory

\* The same when it only looks.
LEMMA Looks ==
  ASSUME Inv, NEW r \in Calls, NEW k \in Call, Becomes(r, k), Fit(k), Harmless(k),
         UNCHANGED rows, NoHistory
  PROVE  Inv' /\ Silent
  BY Moves, SameThreads DEF rows, RowsTyped, Inv, TypeOK

\* Begins, Goes and Ends are such moves.
LEMMA Beginning ==
  ASSUME Inv, NEW r \in Calls, NEW c \in Companies, NEW step \in Steps, Begins(r, c, step)
  PROVE  \E k \in Call : Becomes(r, k) /\ k.at = step /\ k.who = c
<1> DEFINE k == [Idle EXCEPT !.at = step, !.who = c]
<1>1. k \in Call /\ k.at = step /\ k.who = c
  BY IdleIsCall DEF Call, Idle
<1> QED BY <1>1 DEF Begins, Becomes

LEMMA Going ==
  ASSUME Inv, NEW r \in Calls, NEW step \in Steps, Goes(r, step)
  PROVE  \E k \in Call : /\ Becomes(r, k) /\ k.at = step
                         /\ k.who = call[r].who /\ k.request = call[r].request
                         /\ k.thread = call[r].thread /\ k.target = call[r].target
<1> DEFINE k == [call[r] EXCEPT !.at = step]
<1>1. call[r] \in Call
  BY DEF Inv, TypeOK
<1>2. k \in Call /\ k.at = step /\ k.who = call[r].who /\ k.request = call[r].request
      /\ k.thread = call[r].thread /\ k.target = call[r].target
  BY <1>1 DEF Call
<1>3. Becomes(r, k)
  BY DEF Goes, Becomes
<1> QED BY <1>2, <1>3

LEMMA Ending ==
  ASSUME Inv, NEW r \in Calls, Ends(r)
  PROVE  Becomes(r, Idle) /\ Fit(Idle) /\ Harmless(Idle)
  BY IdleIsCall DEF Ends, Becomes, Fit, Harmless

LEMMA BlockStands == ASSUME Inv, Blocked PROVE connection.status = "blocked" /\ connection.by \in blockers
  BY DEF Inv, BlockHolds, Blocked

-----------------------------------------------------------------------------
(* Calls that look.                                                        *)

LEMMA FirstLook ==
  ASSUME Inv, NEW r \in Calls, NEW c \in Companies,
         Block(r, c) \/ Unblock(r, c) \/ RequestAccess(r, c) \/ StartDirect(r, c)
  PROVE  Inv' /\ Silent
<1>1. UNCHANGED rows /\ NoHistory
  BY DEF Block, Unblock, RequestAccess, StartDirect
<1>2. \E step \in {"block", "unblock", "asking", "opening"} :
        /\ Begins(r, c, step)
        /\ step = "unblock" => MayUnblock(c)
  BY DEF Block, Unblock, RequestAccess, StartDirect
<1>3. PICK step \in {"block", "unblock", "asking", "opening"} :
        /\ Begins(r, c, step)
        /\ step = "unblock" => MayUnblock(c)
  BY <1>2
<1>4. step \in Steps
  BY DEF Steps
<1>5. PICK k \in Call : Becomes(r, k) /\ k.at = step /\ k.who = c
  BY <1>3, <1>4, Beginning
<1>6. Fit(k) /\ Harmless(k)
  BY <1>3, <1>5, BlockStands DEF Fit, Harmless, MayUnblock
<1> QED BY <1>1, <1>5, <1>6, Looks

LEMMA FirstLookAtRows ==
  ASSUME Inv, NEW r \in Calls, NEW c \in Companies,
         \/ \E q \in RequestIds : Approve(r, c, q) \/ DeclineRequest(r, c, q)
         \/ \E t \in ThreadIds : Accept(r, c, t)
  PROVE  Inv' /\ Silent
<1>1. UNCHANGED rows /\ NoHistory
  BY DEF Approve, DeclineRequest, Accept
<1>2. CASE \E q \in RequestIds : Approve(r, c, q) \/ DeclineRequest(r, c, q)
  <2>1. PICK q \in RequestIds, step \in {"checking", "declining"} :
            call' = [call EXCEPT ![r] = [Idle EXCEPT !.at = step, !.who = c, !.request = q]]
    BY <1>2 DEF Approve, DeclineRequest
  <2> DEFINE k == [Idle EXCEPT !.at = step, !.who = c, !.request = q]
  <2>2. k \in Call /\ k.at = step /\ k.who = c /\ k.request = q /\ Becomes(r, k)
    BY <2>1 DEF Idle, Call, Steps, ParticipantState, Becomes
  <2> HIDE DEF k
  <2>3. Fit(k) /\ Harmless(k)
    BY <2>2 DEF Fit, Harmless
  <2> QED BY <1>1, <2>2, <2>3, Looks
<1>3. CASE \E t \in ThreadIds : Accept(r, c, t)
  <2>1. PICK t \in ThreadIds, step \in {"accepting", "granting"} :
            call' = [call EXCEPT ![r] = [Idle EXCEPT !.at = step, !.who = c, !.thread = t]]
    BY <1>3 DEF Accept
  <2> DEFINE k == [Idle EXCEPT !.at = step, !.who = c, !.thread = t]
  <2>2. k \in Call /\ k.at = step /\ k.who = c /\ k.thread = t /\ Becomes(r, k)
    BY <2>1 DEF Idle, Call, Steps, ParticipantState, Becomes
  <2> HIDE DEF k
  <2>3. Fit(k) /\ Harmless(k)
    BY <2>2 DEF Fit, Harmless
  <2> QED BY <1>1, <2>2, <2>3, Looks
<1> QED BY <1>2, <1>3

\* The steps between the first look and the write.
LEMMA LaterLook ==
  ASSUME Inv, NEW r \in Calls,
         \/ FindPending(r) \/ FindWinner(r) \/ CheckBlock(r) \/ EnsureActive(r) \/ Nudge(r)
  PROVE  Inv' /\ Silent
<1>1. UNCHANGED rows /\ NoHistory
  BY DEF FindPending, FindWinner, CheckBlock, EnsureActive, Nudge
<1>2. CASE Ends(r)
  BY <1>1, <1>2, Ending, IdleIsCall, Looks
<1>3. CASE ~Ends(r)
  <2>1. PICK step \in {"introducing", "creating", "approving", "connecting", "pinging"} :
          /\ Goes(r, step) /\ call[r].at # "idle"
          /\ step \in {"approving", "connecting", "pinging"} => connection.status # "blocked"
          /\ step = "approving" => call[r].at = "checking"
          /\ step = "pinging" => call[r].at = "nudging"
    BY <1>3 DEF FindPending, FindWinner, CheckBlock, EnsureActive, Nudge, StopsApproval, At
  <2>2. step \in Steps
    BY DEF Steps
  <2>3. PICK k \in Call : /\ Becomes(r, k) /\ k.at = step /\ k.who = call[r].who
                          /\ k.request = call[r].request /\ k.thread = call[r].thread
    BY <2>1, <2>2, Going
  <2>4. Fit(k)
    BY <2>1, <2>3 DEF Inv, CallsInv, Fit
  <2>5. Harmless(k)
    BY <2>1, <2>3, BlockStands DEF Harmless
  <2> QED BY <1>1, <2>3, <2>4, <2>5, Looks
<1> QED BY <1>2, <1>3

LEMMA GrantLook == ASSUME Inv, NEW r \in Calls, Grant(r) PROVE Inv' /\ Silent
<1>1. UNCHANGED rows /\ NoHistory /\ call[r].at = "granting"
  BY DEF Grant, At
<1>2. call[r] \in Call /\ call[r].who \in Companies
  BY <1>1 DEF Inv, TypeOK, CallsInv, Fit
<1>3. CASE Goes(r, "ensuring")
  <2>1. "ensuring" \in Steps
    BY DEF Steps
  <2>2. PICK k \in Call : Becomes(r, k) /\ k.at = "ensuring" /\ k.who = call[r].who
    BY <1>3, <2>1, Going
  <2> QED BY <1>1, <1>2, <2>2, Looks DEF Fit, Harmless
<1>4. CASE ~Goes(r, "ensuring")
  <2>1. PICK q \in RequestIds :
          call' = [call EXCEPT ![r].at = "checking", ![r].request = q]
    BY <1>4 DEF Grant, Pending
  <2> DEFINE k == [call[r] EXCEPT !.at = "checking", !.request = q]
  <2>2. k \in Call /\ k.at = "checking" /\ k.who = call[r].who /\ k.request = q
    BY <1>2 DEF Call, Steps
  <2>3. Becomes(r, k)
    BY <1>2, <2>1 DEF Becomes, Inv, TypeOK
  <2> HIDE DEF k
  <2> QED BY <1>1, <1>2, <2>2, <2>3, Looks DEF Fit, Harmless
<1> QED BY <1>3, <1>4

LEMMA ReachLook ==
  ASSUME Inv, NEW r \in Calls, ReachBlocked(r) \/ ReachConnected(r)
  PROVE  Inv' /\ Silent
<1>1. UNCHANGED rows /\ NoHistory /\ call[r].at \in {"reaching", "knowing"}
  BY DEF ReachBlocked, ReachConnected, At
<1>2. call[r] \in Call /\ call[r].who \in Companies /\ Harmless(call[r])
  BY <1>1 DEF Inv, TypeOK, CallsInv, Fit
<1>3. PICK step \in {"knowing", "starting"}, target \in ParticipantState :
        /\ call' = [call EXCEPT ![r].at = step, ![r].target = target]
        /\ Blocked => target = "archived"
  <2>1. CASE ReachBlocked(r)
    BY <2>1, BlockStands DEF ReachBlocked, FirstReach, ParticipantState
  <2>2. CASE ReachConnected(r)
    <3> DEFINE target == IF call[r].target # "archived" /\ connection.status = "active"
                         THEN "active" ELSE call[r].target
    <3>1. target \in ParticipantState
      BY <1>2 DEF Call, ParticipantState
    <3>2. Blocked => target = "archived"
      BY <1>2, <2>2 DEF Harmless, ReachConnected, At
    <3>3. call' = [call EXCEPT ![r].at = "starting", ![r].target = target]
      BY <2>2 DEF ReachConnected
    <3> QED BY <3>1, <3>2, <3>3
  <2> QED BY <2>1, <2>2
<1> DEFINE k == [call[r] EXCEPT !.at = step, !.target = target]
<1>4. k \in Call /\ k.at = step /\ k.who = call[r].who /\ k.target = target
  BY <1>2 DEF Call, Steps
<1>5. Becomes(r, k)
  BY <1>2, <1>3 DEF Becomes, Inv, TypeOK
<1> HIDE DEF k
<1>6. Fit(k) /\ Harmless(k)
  BY <1>2, <1>3, <1>4 DEF Fit, Harmless
<1> QED BY <1>1, <1>4, <1>5, <1>6, Looks

-----------------------------------------------------------------------------
(* Calls that write.                                                       *)

\* Who blocks meets no call that could undo it, or is excused.
LEMMA BlocksInv ==
  ASSUME Inv, NEW c \in Companies, Blocks(c), UNCHANGED <<request, follow, thread>>,
         \/ UNCHANGED call
         \/ \E r \in Calls : Ends(r)
  PROVE  Inv' /\ Silent
<1>1. /\ connection' = [status |-> "blocked", by |-> c]
      /\ blockers' = blockers \cup {c}
      /\ crossed' = (crossed \/ Looked \/ Other(c) \in blockers)
  BY DEF Blocks
<1>2. call' \in [Calls -> Call] /\ \A i \in Calls : call'[i] = call[i] \/ call'[i] = Idle
  BY IdleIsCall DEF Inv, TypeOK, Ends
<1>3. \A i \in Calls : Fit(call'[i])
  BY <1>2, IdleIsCall DEF Inv, CallsInv, Fit
<1>4. ~crossed' => \A i \in Calls : call'[i].at \notin {"approving", "connecting", "pinging",
                                                      "unblock", "knowing", "starting"}
  BY <1>1, <1>2, IdleIsCall DEF Looked
<1>5. CallsInv'
  BY <1>3, <1>4 DEF CallsInv, Fit, Harmless, Blocked
<1>6. ~crossed' => blockers' = {c}
  <2>1. blockers \subseteq Companies /\ \A d \in Companies : d = c \/ d = Other(c)
    BY PairOfTwo DEF Inv, TypeOK
  <2> QED BY <1>1, <2>1
<1>7. BlockHolds' /\ OneBlocker'
  BY <1>1, <1>6 DEF BlockHolds, OneBlocker
<1>8. crossed' \in BOOLEAN
  BY <1>1 DEF Inv, TypeOK, Looked
<1>9. TypeOK'
  BY <1>1, <1>2, <1>8 DEF Inv, TypeOK, Connection
<1> QED BY <1>5, <1>7, <1>9, SameThreads DEF Inv

LEMMA BlockWriteInv == ASSUME Inv, NEW r \in Calls, BlockWrite(r) PROVE Inv' /\ Silent
<1>1. Who(r) \in Companies
  BY DEF BlockWrite, At, Who, Inv, CallsInv, Fit
<1> QED BY <1>1, BlocksInv DEF BlockWrite

LEMMA UnblockWriteInv == ASSUME Inv, NEW r \in Calls, UnblockWrite(r) PROVE Inv' /\ Silent
<1>1. /\ call[r].at = "unblock" /\ Connects /\ Ends(r)
      /\ blockers' = blockers \ {call[r].who}
      /\ UNCHANGED <<request, follow, thread, crossed>>
  BY DEF UnblockWrite, At, Who
<1>2. ~crossed' => blockers' = {}
  BY <1>1 DEF Inv, OneBlocker, CallsInv, Harmless, Blocked
<1>3. call' \in [Calls -> Call] /\ \A i \in Calls : Fit(call'[i])
  BY <1>1, IdleIsCall DEF Ends, Inv, TypeOK, CallsInv, Fit
<1>4. CallsInv' /\ BlockHolds' /\ OneBlocker'
  BY <1>2, <1>3 DEF CallsInv, Fit, Harmless, Blocked, BlockHolds, OneBlocker
<1>5. TypeOK'
  BY <1>1, <1>3 DEF Inv, TypeOK, Connects, Connection
<1> QED BY <1>1, <1>4, <1>5, SameThreads DEF Inv

\* No block stands when a call makes the connection active.
LEMMA ConnectsInv ==
  ASSUME Inv, NEW r \in Calls, NEW k \in Call, Becomes(r, k), Fit(k), ~Blocked, Connects,
         request' \in [RequestIds -> Request], UNCHANGED <<follow, thread>>, NoHistory
  PROVE  Inv' /\ Silent
<1>1. call' \in [Calls -> Call] /\ \A i \in Calls : Fit(call'[i])
  BY DEF Becomes, Inv, TypeOK, CallsInv
<1>2. ~Blocked' /\ OneBlocker'
  BY DEF Blocked, NoHistory, OneBlocker, Inv
<1>3. CallsInv' /\ BlockHolds'
  BY <1>1, <1>2 DEF CallsInv, Fit, Harmless, Blocked, BlockHolds
<1>4. TypeOK'
  BY <1>1 DEF Inv, TypeOK, Connects, Connection, NoHistory
<1> QED BY <1>2, <1>3, <1>4, SameThreads DEF Inv

LEMMA ApproveWriteInv == ASSUME Inv, NEW r \in Calls, ApproveWrite(r) PROVE Inv' /\ Silent
<1>1. call[r].at = "approving" /\ Connects /\ Goes(r, "activating") /\ NoHistory
      /\ UNCHANGED <<follow, thread>>
  BY DEF ApproveWrite, At
<1>2. ~Blocked /\ call[r].who \in Companies /\ call[r].request \in RequestIds
  BY <1>1 DEF Inv, CallsInv, Harmless, Fit
<1>3. request' \in [RequestIds -> Request]
  BY <1>2 DEF ApproveWrite, Inv, TypeOK, Request
<1>4. "activating" \in Steps
  BY DEF Steps
<1>5. PICK k \in Call : Becomes(r, k) /\ k.at = "activating" /\ k.who = call[r].who
  BY <1>1, <1>4, Going
<1>6. Fit(k)
  BY <1>2, <1>5 DEF Fit
<1> QED BY <1>1, <1>2, <1>3, <1>5, <1>6, ConnectsInv

LEMMA EnsureWriteInv == ASSUME Inv, NEW r \in Calls, EnsureWrite(r) PROVE Inv' /\ Silent
<1>1. call[r].at = "connecting" /\ Connects /\ Ends(r) /\ NoHistory
      /\ UNCHANGED <<request, follow, thread>>
  BY DEF EnsureWrite, At
<1>2. ~Blocked /\ request' \in [RequestIds -> Request]
  BY <1>1 DEF Inv, CallsInv, Harmless, TypeOK
<1> QED BY <1>1, <1>2, Ending, IdleIsCall, ConnectsInv

\* Writes of access requests and follows.
LEMMA RequestWrites ==
  ASSUME Inv, NEW r \in Calls, CreateRequest(r) \/ DeclineWrite(r)
  PROVE  Inv' /\ Silent
<1>1. UNCHANGED <<connection, follow, thread>> /\ NoHistory
  BY DEF CreateRequest, DeclineWrite
<1>2. call[r].who \in Companies
  BY DEF CreateRequest, DeclineWrite, At, Inv, CallsInv, Fit
<1>3. request' \in [RequestIds -> Request]
  <2>1. CASE CreateRequest(r)
    <3>1. \/ UNCHANGED request
          \/ \E q \in Unused : request' = [request EXCEPT ![q] = [from |-> Who(r), status |-> "pending"]]
      BY <2>1 DEF CreateRequest
    <3> QED BY <1>2, <3>1 DEF Unused, Who, Inv, TypeOK, Request
  <2>2. CASE DeclineWrite(r)
    <3>1. call[r].request \in RequestIds
      BY <2>2 DEF DeclineWrite, At, Inv, CallsInv, Fit
    <3> QED BY <2>2, <3>1 DEF DeclineWrite, Inv, TypeOK, Request
  <2> QED BY <2>1, <2>2
<1>4. RowsTyped'
  BY <1>1, <1>3 DEF RowsTyped, Inv, TypeOK
<1>5. CASE Ends(r)
  BY <1>1, <1>4, <1>5, Ending, IdleIsCall, Moves, SameThreads
<1>6. CASE ~Ends(r)
  <2>1. PICK step \in {"conflict", "introducing"} : Goes(r, step)
    BY <1>6 DEF CreateRequest, DeclineWrite
  <2>2. step \in Steps
    BY DEF Steps
  <2>3. PICK k \in Call : Becomes(r, k) /\ k.at = step /\ k.who = call[r].who
    BY <2>1, <2>2, Going
  <2>4. Fit(k) /\ Harmless(k)
    BY <1>2, <2>3 DEF Fit, Harmless
  <2> QED BY <1>1, <1>4, <2>3, <2>4, Moves, SameThreads
<1> QED BY <1>5, <1>6

LEMMA AllowInv == ASSUME Inv, NEW r \in Calls, NEW c \in Companies, Allow(r, c) PROVE Inv' /\ Silent
<1>1. Begins(r, c, "ensuring") /\ UNCHANGED <<connection, request, thread>> /\ NoHistory
  BY DEF Allow
<1>2. RowsTyped'
  BY <1>1, PairOfTwo DEF Allow, RowsTyped, Inv, TypeOK, FollowStatus
<1>3. "ensuring" \in Steps
  BY DEF Steps
<1>4. PICK k \in Call : Becomes(r, k) /\ k.at = "ensuring" /\ k.who = c
  BY <1>1, <1>3, Beginning
<1>5. Fit(k) /\ Harmless(k)
  BY <1>4 DEF Fit, Harmless
<1> QED BY <1>1, <1>2, <1>4, <1>5, Moves, SameThreads

-----------------------------------------------------------------------------
(* Writes of the chat.                                                     *)

\* The rewritten chat asks no company that has blocked.
AsksNoBlocker(old, new) ==
  \A c \in blockers : ~crossed /\ new.open /\ new.state[c] = "pending"
                       => old.open /\ old.state[c] = "pending"

LEMMA Rewritten ==
  ASSUME Inv, NEW t \in ThreadIds, NEW new \in Thread, thread' = [thread EXCEPT ![t] = new],
         AsksNoBlocker(thread[t], new), UNCHANGED <<connection, request, follow>>
  PROVE  RowsTyped' /\ Silent
<1>1. thread' \in [ThreadIds -> Thread] /\ thread'[t] = new
      /\ \A u \in ThreadIds : u # t => thread'[u] = thread[u]
  BY DEF Inv, TypeOK
<1>2. Silent
  BY <1>1 DEF Silent, AsksNoBlocker
<1> QED BY <1>1, <1>2 DEF RowsTyped, Inv, TypeOK

LEMMA Unwritten ==
  ASSUME Inv, UNCHANGED <<connection, request, follow, thread>>
  PROVE  RowsTyped' /\ Silent
  BY SameThreads DEF RowsTyped, Inv, TypeOK

LEMMA ActivateInv == ASSUME Inv, NEW r \in Calls, Activate(r) PROVE Inv' /\ Silent
<1>1. Ends(r) /\ UNCHANGED <<connection, request, follow>> /\ NoHistory
  BY DEF Activate
<1>2. RowsTyped' /\ Silent
  <2>1. CASE UNCHANGED thread
    BY <1>1, <2>1, Unwritten
  <2>2. CASE thread' # thread
    <3>1. PICK t \in OpenThreads :
             thread' = [thread EXCEPT ![t].state = [c \in Companies |-> "active"]]
      BY <2>2 DEF Activate
    <3> DEFINE new == [thread[t] EXCEPT !.state = [c \in Companies |-> "active"]]
    <3>2. t \in ThreadIds /\ thread[t] \in Thread
      BY <3>1 DEF OpenThreads, Inv, TypeOK
    <3>3. new \in Thread /\ \A c \in Companies : new.state[c] = "active"
      BY <3>2 DEF Thread, ParticipantState
    <3>4. thread' = [thread EXCEPT ![t] = new]
      BY <3>1
    <3>5. AsksNoBlocker(thread[t], new)
      BY <3>3 DEF AsksNoBlocker, Inv, TypeOK
    <3> HIDE DEF new
    <3> QED BY <1>1, <3>2, <3>3, <3>4, <3>5, Rewritten
  <2> QED BY <2>1, <2>2
<1> QED BY <1>1, <1>2, Ending, IdleIsCall, Moves

LEMMA FindThreadInv == ASSUME Inv, NEW r \in Calls, FindThread(r) PROVE Inv' /\ Silent
<1>1. /\ UNCHANGED <<connection, request, follow>> /\ NoHistory
      /\ call[r].at \in {"opening", "introducing"} /\ call[r].who \in Companies
  BY DEF FindThread, At, Inv, CallsInv, Fit
<1>2. CASE OpenThreads = {}
  <2>1. Goes(r, "reaching") /\ UNCHANGED thread
    BY <1>2 DEF FindThread
  <2>2. "reaching" \in Steps
    BY DEF Steps
  <2>3. PICK k \in Call : Becomes(r, k) /\ k.at = "reaching" /\ k.who = call[r].who
    BY <2>1, <2>2, Going
  <2>4. Fit(k) /\ Harmless(k)
    BY <1>1, <2>3 DEF Fit, Harmless
  <2> QED BY <1>1, <2>1, <2>3, <2>4, Unwritten, Moves
<1>3. CASE OpenThreads # {}
  <2> DEFINE c == call[r].who
  <2>1. PICK t \in OpenThreads :
          /\ thread' = [thread EXCEPT ![t].state[c] = IF @ = "archived" THEN "active" ELSE @,
                                      ![t].people = IF At(r, "opening") THEN @ \cup {c} ELSE @]
          /\ Ends(r)
    BY <1>3 DEF FindThread, Who
  <2> DEFINE new == [thread[t] EXCEPT !.state[c] = IF @ = "archived" THEN "active" ELSE @,
                                      !.people = IF At(r, "opening") THEN @ \cup {c} ELSE @]
  <2>2. t \in ThreadIds /\ thread[t] \in Thread
    BY <2>1 DEF OpenThreads, Inv, TypeOK
  <2>3. new \in Thread /\ new.open = thread[t].open
        /\ \A d \in Companies : new.state[d] = thread[t].state[d] \/ new.state[d] = "active"
    BY <1>1, <2>2 DEF Thread, ParticipantState
  <2>4. thread' = [thread EXCEPT ![t] = new]
    BY <2>1, <2>2 DEF Inv, TypeOK
  <2>5. AsksNoBlocker(thread[t], new)
    BY <2>3 DEF AsksNoBlocker, Inv, TypeOK
  <2> HIDE DEF new
  <2>6. RowsTyped' /\ Silent
    BY <1>1, <2>2, <2>3, <2>4, <2>5, Rewritten
  <2> QED BY <1>1, <2>1, <2>6, Ending, IdleIsCall, Moves
<1> QED BY <1>2, <1>3

LEMMA CreateThreadInv == ASSUME Inv, NEW r \in Calls, CreateThread(r) PROVE Inv' /\ Silent
<1> DEFINE c == call[r].who
<1> DEFINE new == [state |-> [d \in Companies |-> IF d = c THEN "active" ELSE call[r].target],
                   people |-> IF call[r].target = "archived" THEN {c} ELSE Companies,
                   open |-> TRUE]
<1>1. Ends(r) /\ UNCHANGED <<connection, request, follow>> /\ NoHistory /\ call[r].at = "starting"
  BY DEF CreateThread, At
<1>2. PICK t \in ThreadIds : thread' = [thread EXCEPT ![t] = new]
  BY DEF CreateThread, Who
<1>3. call[r] \in Call /\ c \in Companies /\ Harmless(call[r])
  BY <1>1 DEF Inv, TypeOK, CallsInv, Fit
<1>4. new \in Thread
  BY <1>3 DEF Thread, ParticipantState, Call
<1>5. AsksNoBlocker(thread[t], new)
  <2>1. SUFFICES ASSUME NEW d \in blockers, ~crossed, new.state[d] = "pending" PROVE FALSE
    BY DEF AsksNoBlocker
  <2>2. d \in Companies
    BY DEF Inv, TypeOK
  <2>3. call[r].target = "archived"
    BY <1>1, <1>3, <2>1 DEF Harmless, Blocked
  <2> QED BY <2>1, <2>2, <2>3
<1> HIDE DEF new
<1>6. RowsTyped' /\ Silent
  BY <1>1, <1>2, <1>4, <1>5, Rewritten
<1> QED BY <1>1, <1>6, Ending, IdleIsCall, Moves

\* One company's answer to the chat: it is active, or put away.
LEMMA Answered ==
  ASSUME Inv, NEW t \in ThreadIds, NEW c \in Companies, NEW st \in {"active", "archived"},
         thread' = [thread EXCEPT ![t].state[c] = st], UNCHANGED <<connection, request, follow>>
  PROVE  RowsTyped' /\ Silent
<1> DEFINE new == [thread[t] EXCEPT !.state[c] = st]
<1>1. thread[t] \in Thread
  BY DEF Inv, TypeOK
<1>2. new \in Thread /\ new.open = thread[t].open
      /\ \A d \in Companies : new.state[d] = IF d = c THEN st ELSE thread[t].state[d]
  BY <1>1 DEF Thread, ParticipantState
<1>3. thread' = [thread EXCEPT ![t] = new]
  OBVIOUS
<1>4. AsksNoBlocker(thread[t], new)
  BY <1>2 DEF AsksNoBlocker, Inv, TypeOK
<1> HIDE DEF new
<1> QED BY <1>2, <1>3, <1>4, Rewritten

LEMMA AcceptWriteInv == ASSUME Inv, NEW r \in Calls, AcceptWrite(r) PROVE Inv' /\ Silent
<1>1. /\ Goes(r, "granting") /\ UNCHANGED <<connection, request, follow>> /\ NoHistory
      /\ thread' = [thread EXCEPT ![call[r].thread].state[call[r].who] = "active"]
      /\ call[r].at = "accepting"
  BY DEF AcceptWrite, At, Who
<1>2. call[r].thread \in ThreadIds /\ call[r].who \in Companies
  BY <1>1 DEF Inv, CallsInv, Fit
<1>3. RowsTyped' /\ Silent
  BY <1>1, <1>2, Answered
<1>4. "granting" \in Steps
  BY DEF Steps
<1>5. PICK k \in Call : Becomes(r, k) /\ k.at = "granting" /\ k.who = call[r].who
  BY <1>1, <1>4, Going
<1>6. Fit(k) /\ Harmless(k)
  BY <1>2, <1>5 DEF Fit, Harmless
<1> QED BY <1>1, <1>3, <1>5, <1>6, Moves

LEMMA SendInv ==
  ASSUME Inv, NEW r \in Calls, NEW c \in Companies, NEW t \in ThreadIds, Send(r, c, t)
  PROVE  Inv' /\ Silent
<1> DEFINE k == [Idle EXCEPT !.at = "nudging", !.who = c, !.thread = t]
<1>1. /\ thread' = [thread EXCEPT ![t].state[c] = "active"] /\ Becomes(r, k)
      /\ UNCHANGED <<connection, request, follow>> /\ NoHistory
  BY DEF Send, Becomes
<1>2. k \in Call /\ k.at = "nudging" /\ k.who = c /\ k.thread = t
  BY DEF Idle, Call, Steps, ParticipantState
<1> HIDE DEF k
<1>3. Fit(k) /\ Harmless(k)
  BY <1>2 DEF Fit, Harmless
<1>4. RowsTyped' /\ Silent
  BY <1>1, Answered
<1> QED BY <1>1, <1>2, <1>3, <1>4, Moves

\* A chat comes back only while no block stands.
LEMMA NudgeWriteInv == ASSUME Inv, NEW r \in Calls, NudgeWrite(r) PROVE Inv' /\ Silent
<1> DEFINE t == call[r].thread
           new == BroughtBack(thread[t], Other(call[r].who))
<1>1. /\ Ends(r) /\ UNCHANGED <<connection, request, follow>> /\ NoHistory
      /\ thread' = [thread EXCEPT ![t] = new] /\ call[r].at = "pinging"
  BY DEF NudgeWrite, At, Who
<1>2. t \in ThreadIds /\ call[r].who \in Companies /\ ~Blocked
  BY <1>1 DEF Inv, CallsInv, Fit, Harmless
<1>3. Other(call[r].who) \in Companies /\ thread[t] \in Thread
  BY <1>2, PairOfTwo DEF Inv, TypeOK
<1>4. new \in Thread
  BY <1>3 DEF BroughtBack, Thread, ParticipantState
<1>5. AsksNoBlocker(thread[t], new)
  BY <1>2 DEF AsksNoBlocker, Blocked
<1> HIDE DEF new
<1>6. RowsTyped' /\ Silent
  BY <1>1, <1>2, <1>4, <1>5, Rewritten
<1> QED BY <1>1, <1>6, Ending, IdleIsCall, Moves

-----------------------------------------------------------------------------
(* What one statement does, and all together.                              *)

\* No call moves and no history changes.
LEMMA RowsOnly ==
  ASSUME Inv, UNCHANGED <<call, connection>>, NoHistory, RowsTyped'
  PROVE  Inv'
<1>1. TypeOK'
  BY DEF Inv, TypeOK, RowsTyped, NoHistory
<1>2. CallsInv' /\ BlockHolds' /\ OneBlocker'
  BY DEF Inv, CallsInv, Fit, Harmless, Blocked, BlockHolds, OneBlocker, NoHistory
<1> QED BY <1>1, <1>2 DEF Inv

LEMMA AtOnceInv == ASSUME Inv, NEW c \in Companies, AtOnce(c) PROVE Inv' /\ Silent
<1>1. CASE BlockCounterpart(c)
  BY <1>1, BlocksInv DEF BlockCounterpart
<1>2. CASE Follow(c) \/ Unfollow(c) \/ Deny(c)
  <2>1. UNCHANGED <<connection, request, thread, call>> /\ NoHistory
    BY <1>2 DEF Follow, Unfollow, Deny
  <2>2. follow' \in [Companies -> FollowStatus]
    BY <1>2, PairOfTwo DEF Follow, Unfollow, Deny, Inv, TypeOK, FollowStatus
  <2>3. RowsTyped'
    BY <2>1, <2>2 DEF RowsTyped, Inv, TypeOK
  <2> QED BY <2>1, <2>3, RowsOnly, SameThreads
<1>3. CASE \E t \in ThreadIds : DeclineThread(c, t)
  BY <1>3, Answered, RowsOnly DEF DeclineThread
<1> QED BY <1>1, <1>2, <1>3 DEF AtOnce

LEMMA NextInv == ASSUME Inv, [Next]_vars PROVE Inv' /\ Silent
<1>1. CASE \E r \in Calls, c \in Companies : Begin(r, c)
  BY <1>1, FirstLook, FirstLookAtRows, AllowInv, SendInv DEF Begin
<1>2. CASE \E r \in Calls : Proceed(r)
  BY <1>2, BlockWriteInv, UnblockWriteInv, LaterLook, RequestWrites, ApproveWriteInv,
     ActivateInv, EnsureWriteInv, FindThreadInv, ReachLook, CreateThreadInv, AcceptWriteInv,
     GrantLook, NudgeWriteInv DEF Proceed
<1>3. CASE \E c \in Companies : AtOnce(c)
  BY <1>3, AtOnceInv
<1>4. CASE UNCHANGED vars
  BY <1>4, Unwritten, RowsOnly DEF vars, NoHistory
<1> QED BY <1>1, <1>2, <1>3, <1>4 DEF Next

LEMMA InvAlways == Spec => []Inv
  BY InitInv, NextInv, PTL DEF Spec

\* Type correctness of the rows and of the calls at work.
THEOREM TypeCorrect == Spec => []TypeOK
<1>1. Inv => TypeOK
  BY DEF Inv
<1> QED BY <1>1, InvAlways, PTL

\* However many calls of the six services are at work: a block that met none which had
\* looked before stands until the company that set it lifts it.
THEOREM BlockStandsAlways == Spec => []BlockHolds
<1>1. Inv => BlockHolds
  BY DEF Inv
<1> QED BY <1>1, InvAlways, PTL

\* And while it stands no chat comes up in the requests of the company that set it.
THEOREM BlockIsSilent == Spec => BlockIsQuiet
<1>1. Inv /\ [Next]_vars =>
        [\A c \in blockers, t \in ThreadIds :
            ~crossed /\ thread'[t].open /\ thread'[t].state[c] = "pending"
              => thread[t].open /\ thread[t].state[c] = "pending"]_vars
  BY NextInv DEF Silent
<1> QED BY <1>1, InvAlways, PTL DEF Spec, BlockIsQuiet

-----------------------------------------------------------------------------
(* Who is shown a chat can open it.  A silenced company is not put on the  *)
(* chat; nothing may bring that chat into its inbox without putting its    *)
(* people on it.  The chat of a request does, and so does an approval: the *)
(* argument is that neither exists beside a chat that was started silent.  *)

Unasked == \A q \in RequestIds : request[q].status = "unused"

\* Calls that will ask, that will open a chat, that decide a request there is.
Asking(k) == k.at \in {"asking", "creating", "conflict", "introducing"}
OpeningChat(k) == k.at \in {"introducing", "reaching", "knowing", "starting"}
Deciding(k) == k.at \in {"checking", "approving", "activating", "declining"}

\* A chat that is being started without the other's people, and one that was.
Silencing(k) == k.at \in {"knowing", "starting"} /\ k.target = "archived"
Missing == \E t \in OpenThreads : thread[t].people # Companies
Silenced == Missing \/ \E r \in Calls : Silencing(call[r])

\* Who is about to accept is on the chat.
OnBoard(k) == k.at = "accepting" => /\ k.thread \in OpenThreads
                                    /\ k.who \in thread[k.thread].people

\* Nobody has asked, and nobody is going to, where somebody was silenced.
SilencedUnasked ==
  ~crossed /\ Silenced => /\ Unasked /\ connection.status # "none"
                          /\ \A r \in Calls : ~Asking(call[r])

\* Behind a block nobody asks, and a chat is started only if there was no request.
BlockedUnasked ==
  ~crossed /\ connection.status = "blocked" =>
    /\ Unasked \/ OpenThreads # {}
    /\ \A r \in Calls : ~Asking(call[r]) /\ (call[r].at = "reaching" => Unasked)

\* A request has its chat, or a call that opens it.
AskedHasChat == Unasked \/ OpenThreads # {} \/ \E r \in Calls : OpeningChat(call[r])

DecidingAsked == \A r \in Calls : Deciding(call[r]) => ~Unasked

ShownInv == /\ SilencedUnasked /\ BlockedUnasked /\ AskedHasChat /\ DecidingAsked
            /\ \A r \in Calls : OnBoard(call[r])
            /\ ShownToSomebody

\* What a step does to the chats: none is closed and nobody leaves one ...
Keeps == \A t \in OpenThreads : t \in OpenThreads' /\ thread[t].people \subseteq thread'[t].people

\* ... and nobody is missing from one who was not.
NobodyGoesMissing == Missing' => Missing

LEMMA InitShown == Init => ShownInv
<1> SUFFICES ASSUME Init PROVE ShownInv
  OBVIOUS
<1>1. OpenThreads = {} /\ Unasked /\ \A r \in Calls : call[r].at = "idle"
  BY IdleIsCall DEF Init, OpenThreads, Unasked
<1>2. connection.status = "none"
  BY DEF Init
<1> QED BY <1>1, <1>2 DEF ShownInv, SilencedUnasked, Silenced, Missing, Silencing, BlockedUnasked,
        AskedHasChat, DecidingAsked, Deciding, Asking, OnBoard, ShownToSomebody

\* Call r becomes k: what k and the rows must be for the invariant to stand.
LEMMA Carries ==
  ASSUME Inv, ShownInv, NEW r \in Calls, NEW k, Becomes(r, k), UNCHANGED crossed,
         connection'.status \in {connection.status, "active"},
         Unasked' => Unasked,
         Unasked => Unasked' \/ (OpeningChat(k) /\ Asking(call[r])),
         Keeps, Missing' => Missing \/ Silencing(call[r]), ShownToSomebody',
         Asking(k) => Asking(call[r]) \/ connection.status = "none",
         k.at = "reaching" => OpenThreads = {},
         Silencing(k) => \/ Silencing(call[r])
                         \/ call[r].at = "reaching" /\ connection.status = "blocked",
         OpeningChat(call[r]) => OpeningChat(k) \/ OpenThreads' # {},
         Deciding(k) => Deciding(call[r]) \/ ~Unasked,
         OnBoard(k)
  PROVE  ShownInv'
<1>1. call'[r] = k /\ \A i \in Calls : i # r => call'[i] = call[i]
  BY DEF Inv, TypeOK, Becomes
<1>2. SilencedUnasked'
  <2>1. SUFFICES ASSUME ~crossed, Silenced'
                 PROVE  /\ Unasked' /\ connection'.status # "none"
                        /\ \A i \in Calls : ~Asking(call'[i])
    BY DEF SilencedUnasked, Asking
  <2>2. Silenced \/ (call[r].at = "reaching" /\ connection.status = "blocked")
    <3>1. CASE Missing'
      BY <3>1 DEF Silenced
    <3>2. CASE \E i \in Calls : Silencing(call'[i])
      BY <1>1, <3>2 DEF Silenced
    <3> QED BY <2>1, <3>1, <3>2 DEF Silenced, Silencing
  <2>3. Unasked /\ connection.status # "none" /\ \A i \in Calls : ~Asking(call[i])
    BY <2>1, <2>2 DEF ShownInv, SilencedUnasked, BlockedUnasked
  <2> QED BY <1>1, <2>3
<1>3. BlockedUnasked'
  <2>1. SUFFICES ASSUME ~crossed, connection'.status = "blocked"
                 PROVE  /\ Unasked' \/ OpenThreads' # {}
                        /\ \A i \in Calls : ~Asking(call'[i]) /\ (call'[i].at = "reaching" => Unasked')
    BY DEF BlockedUnasked, Asking
  <2>2. /\ Unasked \/ OpenThreads # {}
        /\ \A i \in Calls : ~Asking(call[i]) /\ (call[i].at = "reaching" => Unasked)
        /\ connection.status # "none"
    BY <2>1 DEF ShownInv, BlockedUnasked
  <2>3. Unasked => Unasked'
    BY <2>2
  <2>4. OpenThreads # {} => OpenThreads' # {}
    BY DEF Keeps
  <2>5. ~Asking(k) /\ (k.at = "reaching" => Unasked)
    BY <2>2
  <2> QED BY <1>1, <2>2, <2>3, <2>4, <2>5
<1>4. AskedHasChat'
  <2>1. OpenThreads # {} => OpenThreads' # {}
    BY DEF Keeps
  <2>2. Unasked' \/ OpenThreads' # {} \/ \E i \in Calls : OpeningChat(call'[i])
    BY <1>1, <2>1 DEF ShownInv, AskedHasChat
  <2> QED BY <2>2 DEF AskedHasChat, OpeningChat
<1>5. DecidingAsked'
  <2>1. \A i \in Calls : Deciding(call'[i]) => ~Unasked'
    BY <1>1 DEF ShownInv, DecidingAsked
  <2> QED BY <2>1 DEF DecidingAsked, Deciding
<1>6. \A i \in Calls : OnBoard(call[i])' 
  <2>1. SUFFICES ASSUME NEW i \in Calls, call'[i].at = "accepting"
                 PROVE  /\ call'[i].thread \in OpenThreads'
                        /\ call'[i].who \in thread'[call'[i].thread].people
    BY DEF OnBoard
  <2>2. call'[i].thread \in OpenThreads /\ call'[i].who \in thread[call'[i].thread].people
    BY <1>1, <2>1 DEF ShownInv, OnBoard
  <2> QED BY <2>2 DEF Keeps
<1> QED BY <1>2, <1>3, <1>4, <1>5, <1>6 DEF ShownInv

\* A step that leaves the chats alone.
LEMMA SameChats ==
  ASSUME ShownInv, UNCHANGED <<thread, crossed>>
  PROVE  Keeps /\ NobodyGoesMissing /\ ShownToSomebody' /\ OpenThreads' = OpenThreads
  BY DEF Keeps, NobodyGoesMissing, Missing, OpenThreads, ShownInv, ShownToSomebody

\* A step that rewrites one chat, open before as after, and puts on it who sees it.
LEMMA SameChatsBut ==
  ASSUME Inv, ShownInv, UNCHANGED crossed,
         NEW t \in ThreadIds, NEW new \in Thread, thread' = [thread EXCEPT ![t] = new],
         new.open = thread[t].open, thread[t].people \subseteq new.people,
         ~crossed /\ new.open => \A c \in Companies : new.state[c] # "archived" => c \in new.people
  PROVE  Keeps /\ NobodyGoesMissing /\ ShownToSomebody' /\ OpenThreads' = OpenThreads
<1>1. thread'[t] = new /\ \A u \in ThreadIds : u # t => thread'[u] = thread[u]
  BY DEF Inv, TypeOK
<1>2. OpenThreads' = OpenThreads
  BY <1>1 DEF OpenThreads
<1>3. Keeps
  BY <1>1, <1>2 DEF Keeps, OpenThreads
<1>4. NobodyGoesMissing
  <2>1. SUFFICES ASSUME NEW u \in OpenThreads, thread'[u].people # Companies
                 PROVE  thread[u].people # Companies
    BY <1>2 DEF NobodyGoesMissing, Missing
  <2>2. new.people \subseteq Companies /\ u \in ThreadIds
    BY DEF Thread, OpenThreads
  <2>3. CASE u = t
    BY <1>1, <2>1, <2>2, <2>3
  <2>4. CASE u # t
    BY <1>1, <2>1, <2>2, <2>4
  <2> QED BY <2>3, <2>4
<1>5. ShownToSomebody'
  <2>1. SUFFICES ASSUME ~crossed, NEW u \in OpenThreads, NEW c \in Companies,
                        thread'[u].state[c] # "archived"
                 PROVE  c \in thread'[u].people
    BY <1>2 DEF ShownToSomebody
  <2>2. u \in ThreadIds /\ thread[u].open
    BY DEF OpenThreads
  <2>3. CASE u = t
    BY <1>1, <2>1, <2>2, <2>3
  <2>4. CASE u # t
    BY <1>1, <2>1, <2>2, <2>4 DEF ShownInv, ShownToSomebody
  <2> QED BY <2>3, <2>4
<1> QED BY <1>2, <1>3, <1>4, <1>5

\* Everybody is on an open chat as long as nobody has been silenced.
LEMMA NobodyMissing ==
  ASSUME ShownInv, ~crossed, NEW t \in OpenThreads,
         ~Unasked \/ \E r \in Calls : Asking(call[r])
  PROVE  thread[t].people = Companies
  BY DEF ShownInv, SilencedUnasked, Silenced, Missing

-----------------------------------------------------------------------------
(* Calls that leave the chats alone.                                       *)

\* A call that only moves on.
LEMMA MovesOn ==
  ASSUME Inv, ShownInv, NEW r \in Calls, NEW k, Becomes(r, k), UNCHANGED <<request, thread, crossed>>,
         connection'.status \in {connection.status, "active"},
         Asking(k) => Asking(call[r]) \/ connection.status = "none",
         k.at \notin {"reaching", "knowing", "starting", "accepting"},
         OpeningChat(call[r]) => OpeningChat(k),
         Deciding(k) => Deciding(call[r]) \/ ~Unasked
  PROVE  ShownInv'
<1>1. (Unasked' <=> Unasked) /\ ~Silencing(k) /\ OnBoard(k)
  BY DEF Unasked, Silencing, OnBoard
<1>2. Keeps /\ NobodyGoesMissing /\ ShownToSomebody'
  BY SameChats
<1> QED BY <1>1, <1>2, Carries DEF NobodyGoesMissing

LEMMA FirstLookShown ==
  ASSUME Inv, ShownInv, NEW r \in Calls, NEW c \in Companies,
         Block(r, c) \/ Unblock(r, c) \/ RequestAccess(r, c) \/ StartDirect(r, c) \/ Allow(r, c)
  PROVE  ShownInv'
<1>1. UNCHANGED <<connection, request, thread, crossed>> /\ call[r].at = "idle"
  BY DEF Block, Unblock, RequestAccess, StartDirect, Allow, Begins, At, rows, NoHistory
<1>2. PICK step \in {"block", "unblock", "asking", "opening", "ensuring"} :
        /\ Begins(r, c, step)
        /\ step = "asking" => connection.status \notin {"blocked", "active"}
  BY DEF Block, Unblock, RequestAccess, StartDirect, Allow
<1>3. step \in Steps
  BY DEF Steps
<1>4. PICK k \in Call : Becomes(r, k) /\ k.at = step
  BY <1>2, <1>3, Beginning
<1>5. connection.status \in {"none", "active", "blocked"}
  BY DEF Inv, TypeOK, Connection
<1> QED BY <1>1, <1>2, <1>4, <1>5, MovesOn DEF Asking, OpeningChat, Deciding

\* A request that can be decided is one that was made.
LEMMA PendingAsked == ASSUME NEW c, NEW q \in Pending(c) PROVE ~Unasked
  BY DEF Pending, Unasked

LEMMA DecideShown ==
  ASSUME Inv, ShownInv, NEW r \in Calls, NEW c \in Companies, NEW q \in RequestIds,
         Approve(r, c, q) \/ DeclineRequest(r, c, q)
  PROVE  ShownInv'
<1>1. /\ UNCHANGED <<connection, request, thread, crossed>> /\ call[r].at = "idle"
      /\ q \in Pending(Other(c))
  BY DEF Approve, DeclineRequest, At, Decidable, rows, NoHistory
<1>2. PICK step \in {"checking", "declining"} :
          call' = [call EXCEPT ![r] = [Idle EXCEPT !.at = step, !.who = c, !.request = q]]
  BY DEF Approve, DeclineRequest
<1> DEFINE k == [Idle EXCEPT !.at = step, !.who = c, !.request = q]
<1>3. k.at = step /\ Becomes(r, k)
  BY <1>2 DEF Idle, Becomes
<1>4. ~Unasked
  BY <1>1, PendingAsked
<1> HIDE DEF k
<1> QED BY <1>1, <1>3, <1>4, MovesOn DEF Asking, OpeningChat

LEMMA AcceptShown ==
  ASSUME Inv, ShownInv, NEW r \in Calls, NEW c \in Companies, NEW t \in ThreadIds, Accept(r, c, t)
  PROVE  ShownInv'
<1>1. /\ UNCHANGED <<connection, request, thread, crossed>> /\ call[r].at = "idle"
      /\ t \in OpenThreads /\ c \in thread[t].people
  BY DEF Accept, At, OnThread, OpenThreads, rows, NoHistory
<1>2. PICK step \in {"accepting", "granting"} :
          call' = [call EXCEPT ![r] = [Idle EXCEPT !.at = step, !.who = c, !.thread = t]]
  BY DEF Accept
<1> DEFINE k == [Idle EXCEPT !.at = step, !.who = c, !.thread = t]
<1>3. k.at = step /\ k.who = c /\ k.thread = t /\ Becomes(r, k)
  BY <1>2 DEF Idle, Becomes
<1> HIDE DEF k
<1>4. Keeps /\ NobodyGoesMissing /\ ShownToSomebody' /\ (Unasked' <=> Unasked)
  BY <1>1, SameChats DEF Unasked
<1>5. OnBoard(k) /\ ~Silencing(k) /\ ~Asking(k) /\ ~Deciding(k) /\ k.at # "reaching"
      /\ ~OpeningChat(call[r])
  BY <1>1, <1>3 DEF OnBoard, Silencing, Asking, Deciding, OpeningChat
<1> QED BY <1>1, <1>3, <1>4, <1>5, Carries DEF NobodyGoesMissing

LEMMA LaterLookShown ==
  ASSUME Inv, ShownInv, NEW r \in Calls,
         \/ FindPending(r) \/ FindWinner(r) \/ CheckBlock(r) \/ EnsureActive(r) \/ Nudge(r)
         \/ EnsureWrite(r)
  PROVE  ShownInv'
<1>1. /\ UNCHANGED <<request, thread, crossed>>
      /\ connection'.status \in {connection.status, "active"}
      /\ ~OpeningChat(call[r])
  BY DEF FindPending, FindWinner, CheckBlock, EnsureActive, Nudge, EnsureWrite, Connects, At,
         OpeningChat, rows, NoHistory
<1>2. CASE Ends(r)
  BY <1>1, <1>2, Ending, IdleIsCall, MovesOn DEF Asking, Deciding
<1>3. CASE ~Ends(r)
  <2>1. PICK step \in {"introducing", "creating", "approving", "connecting", "pinging"} :
          /\ Goes(r, step)
          /\ step \in {"introducing", "creating"} => call[r].at \in {"asking", "conflict"}
          /\ step = "approving" => call[r].at = "checking"
    BY <1>3 DEF FindPending, FindWinner, CheckBlock, EnsureActive, Nudge, EnsureWrite, At
  <2>2. step \in Steps
    BY DEF Steps
  <2>3. PICK k \in Call : Becomes(r, k) /\ k.at = step
    BY <2>1, <2>2, Going
  <2> QED BY <1>1, <2>1, <2>3, MovesOn DEF Asking, Deciding
<1> QED BY <1>2, <1>3

LEMMA GrantShown == ASSUME Inv, ShownInv, NEW r \in Calls, Grant(r) PROVE ShownInv'
<1>1. UNCHANGED <<connection, request, thread, crossed>> /\ call[r].at = "granting"
  BY DEF Grant, At, rows, NoHistory
<1>2. CASE Goes(r, "ensuring")
  <2>1. "ensuring" \in Steps
    BY DEF Steps
  <2>2. PICK k \in Call : Becomes(r, k) /\ k.at = "ensuring"
    BY <1>2, <2>1, Going
  <2> QED BY <1>1, <2>2, MovesOn DEF Asking, OpeningChat, Deciding
<1>3. CASE ~Goes(r, "ensuring")
  <2>1. PICK q \in Pending(Other(Who(r))) :
          call' = [call EXCEPT ![r].at = "checking", ![r].request = q]
    BY <1>3 DEF Grant
  <2> DEFINE k == [call[r] EXCEPT !.at = "checking", !.request = q]
  <2>2. call[r] \in Call
    BY DEF Inv, TypeOK
  <2>3. k.at = "checking" /\ Becomes(r, k)
    BY <2>1, <2>2 DEF Call, Becomes, Inv, TypeOK
  <2>4. ~Unasked
    BY <2>1, PendingAsked
  <2> HIDE DEF k
  <2> QED BY <1>1, <2>3, <2>4, MovesOn DEF Asking, OpeningChat
<1> QED BY <1>2, <1>3

\* A chat is started silent only behind a block.
LEMMA ReachShown ==
  ASSUME Inv, ShownInv, NEW r \in Calls, ReachBlocked(r) \/ ReachConnected(r)
  PROVE  ShownInv'
<1>1. UNCHANGED <<connection, request, thread, crossed>> /\ call[r].at \in {"reaching", "knowing"}
  BY DEF ReachBlocked, ReachConnected, At, rows, NoHistory
<1>2. PICK step \in {"knowing", "starting"}, target \in ParticipantState :
        /\ call' = [call EXCEPT ![r].at = step, ![r].target = target]
        /\ target = "archived" => \/ call[r].at = "knowing" /\ call[r].target = "archived"
                                  \/ call[r].at = "reaching" /\ connection.status = "blocked"
  <2>1. CASE ReachBlocked(r)
    BY <2>1 DEF ReachBlocked, FirstReach, At, ParticipantState
  <2>2. CASE ReachConnected(r)
    <3> DEFINE target == IF call[r].target # "archived" /\ connection.status = "active"
                         THEN "active" ELSE call[r].target
    <3>1. target \in ParticipantState /\ (target = "archived" => call[r].target = "archived")
      BY DEF Inv, TypeOK, Call, ParticipantState
    <3>2. call' = [call EXCEPT ![r].at = "starting", ![r].target = target]
      BY <2>2 DEF ReachConnected
    <3>3. call[r].at = "knowing"
      BY <2>2 DEF ReachConnected, At
    <3> QED BY <3>1, <3>2, <3>3
  <2> QED BY <2>1, <2>2
<1> DEFINE k == [call[r] EXCEPT !.at = step, !.target = target]
<1>3. call[r] \in Call
  BY DEF Inv, TypeOK
<1>4. k.at = step /\ k.target = target /\ Becomes(r, k)
  BY <1>2, <1>3 DEF Call, Becomes, Inv, TypeOK
<1> HIDE DEF k
<1>5. Keeps /\ NobodyGoesMissing /\ ShownToSomebody' /\ (Unasked' <=> Unasked)
  BY <1>1, SameChats DEF Unasked
<1>6. /\ OnBoard(k) /\ ~Asking(k) /\ ~Deciding(k) /\ k.at # "reaching" /\ OpeningChat(k)
      /\ Silencing(k) => \/ Silencing(call[r])
                         \/ call[r].at = "reaching" /\ connection.status = "blocked"
  BY <1>2, <1>4 DEF OnBoard, Silencing, Asking, Deciding, OpeningChat
<1> QED BY <1>1, <1>4, <1>5, <1>6, Carries DEF NobodyGoesMissing

\* Requests are made and decided; none is unmade.
LEMMA RequestWritesShown ==
  ASSUME Inv, ShownInv, NEW r \in Calls, CreateRequest(r) \/ ApproveWrite(r) \/ DeclineWrite(r)
  PROVE  ShownInv'
<1>1. /\ UNCHANGED <<thread, crossed>> /\ connection'.status \in {connection.status, "active"}
      /\ call[r].at \in {"creating", "approving", "declining"}
  BY DEF CreateRequest, ApproveWrite, DeclineWrite, Connects, At, NoHistory
<1>2. Keeps /\ NobodyGoesMissing /\ ShownToSomebody'
  BY <1>1, SameChats
<1>3. PICK k : /\ Becomes(r, k)
               /\ k.at \in {"conflict", "introducing", "activating", "idle"}
               /\ k.at \in {"conflict", "introducing"} => call[r].at = "creating"
               /\ k.at = "activating" => call[r].at = "approving"
               /\ call[r].at = "creating" /\ request' # request => k.at = "introducing"
  <2>1. CASE Ends(r)
    <3>1. ~CreateRequest(r) \/ request' = request
      <4>1. SUFFICES ASSUME CreateRequest(r), request' # request PROVE FALSE
        OBVIOUS
      <4>2. Goes(r, "introducing")
        BY <4>1 DEF CreateRequest
      <4>3. call[r] \in Call /\ call' = [call EXCEPT ![r].at = "introducing"]
            /\ call' = [call EXCEPT ![r] = Idle]
        BY <2>1, <4>2 DEF Goes, Ends, Inv, TypeOK
      <4>4. call'[r].at = "introducing" /\ call'[r].at = "idle"
        BY <4>3, IdleIsCall DEF Inv, TypeOK, Call
      <4> QED BY <4>4
    <3> QED BY <1>1, <2>1, <3>1, Ending, IdleIsCall DEF CreateRequest, ApproveWrite, DeclineWrite, At
  <2>2. CASE ~Ends(r)
    <3>1. PICK step \in {"conflict", "introducing", "activating"} :
            /\ Goes(r, step)
            /\ step \in {"conflict", "introducing"} => call[r].at = "creating"
            /\ step = "activating" => call[r].at = "approving"
            /\ call[r].at = "creating" /\ request' # request => step = "introducing"
      BY <2>2 DEF CreateRequest, ApproveWrite, DeclineWrite, At
    <3>2. step \in Steps
      BY DEF Steps
    <3>3. PICK k \in Call : Becomes(r, k) /\ k.at = step
      BY <3>1, <3>2, Going
    <3> QED BY <3>1, <3>3
  <2> QED BY <2>1, <2>2
<1>4. /\ Unasked' => Unasked
      /\ Unasked => Unasked' \/ (OpeningChat(k) /\ Asking(call[r]))
  <2>1. CASE CreateRequest(r)
    <3>1. CASE UNCHANGED request
      BY <3>1 DEF Unasked
    <3>2. CASE request' # request
      <4>1. PICK q \in Unused : request' = [request EXCEPT ![q] = [from |-> Who(r), status |-> "pending"]]
        BY <2>1, <3>2 DEF CreateRequest
      <4>2. q \in RequestIds /\ request'[q].status = "pending"
        BY <4>1 DEF Unused, Inv, TypeOK
      <4>3. ~Unasked'
        BY <4>2 DEF Unasked
      <4>4. OpeningChat(k) /\ Asking(call[r])
        BY <1>3, <2>1, <3>2 DEF CreateRequest, At, OpeningChat, Asking
      <4> QED BY <4>3, <4>4
    <3> QED BY <3>1, <3>2
  <2>2. CASE ApproveWrite(r) \/ DeclineWrite(r)
    <3>1. call[r].request \in RequestIds /\ ~Unasked
      BY <2>2 DEF ApproveWrite, DeclineWrite, At, Inv, CallsInv, Fit, ShownInv, DecidingAsked, Deciding
    <3>2. request'[call[r].request].status \in {"approved", "declined"}
      BY <2>2, <3>1 DEF ApproveWrite, DeclineWrite, Inv, TypeOK, Request
    <3>3. ~Unasked'
      BY <3>1, <3>2 DEF Unasked
    <3> QED BY <3>1, <3>3
  <2> QED BY <2>1, <2>2
<1>5. /\ Asking(k) => Asking(call[r])
      /\ k.at # "reaching" /\ ~Silencing(k) /\ OnBoard(k) /\ ~OpeningChat(call[r])
      /\ Deciding(k) => Deciding(call[r])
  BY <1>1, <1>3 DEF Asking, Silencing, OnBoard, OpeningChat, Deciding
<1> QED BY <1>1, <1>2, <1>3, <1>4, <1>5, Carries DEF NobodyGoesMissing

\* Who blocks meets nobody that asks or opens a chat, or is excused.
LEMMA BlocksShown ==
  ASSUME Inv, ShownInv, NEW c \in Companies, Blocks(c), UNCHANGED <<request, follow, thread>>,
         \/ UNCHANGED call
         \/ \E r \in Calls : Ends(r) /\ call[r].at = "block"
  PROVE  ShownInv'
<1>1. connection'.status = "blocked" /\ crossed' = (crossed \/ Looked \/ Other(c) \in blockers)
  BY DEF Blocks
<1>2. \A i \in Calls : call'[i] = call[i] \/ (call'[i].at = "idle" /\ call[i].at = "block")
  BY IdleIsCall DEF Inv, TypeOK, Ends
<1>3. (Unasked' <=> Unasked) /\ OpenThreads' = OpenThreads /\ (Missing' <=> Missing)
  BY DEF Unasked, OpenThreads, Missing
<1>4. AskedHasChat'
  <2>1. Unasked' \/ OpenThreads' # {} \/ \E i \in Calls : OpeningChat(call'[i])
    BY <1>2, <1>3 DEF ShownInv, AskedHasChat, OpeningChat
  <2> QED BY <2>1 DEF AskedHasChat, OpeningChat
<1>5. ~crossed' => ~crossed /\ \A i \in Calls : ~Asking(call'[i]) /\ ~OpeningChat(call'[i])
                                                /\ ~OpeningChat(call[i])
  BY <1>1, <1>2 DEF Looked, Asking, OpeningChat
<1>6. SilencedUnasked'
  <2>1. SUFFICES ASSUME ~crossed', Silenced'
                 PROVE  Unasked' /\ \A i \in Calls : ~Asking(call'[i])
    BY <1>1 DEF SilencedUnasked, Asking
  <2>2. Missing
    BY <1>3, <1>5, <2>1 DEF Silenced, Silencing, OpeningChat
  <2> QED BY <1>3, <1>5, <2>1, <2>2 DEF ShownInv, SilencedUnasked, Silenced
<1>7. BlockedUnasked'
  <2>1. SUFFICES ASSUME ~crossed'
                 PROVE  /\ Unasked' \/ OpenThreads' # {}
                        /\ \A i \in Calls : ~Asking(call'[i]) /\ call'[i].at # "reaching"
    BY DEF BlockedUnasked, Asking
  <2> QED BY <1>3, <1>5, <2>1 DEF ShownInv, AskedHasChat, OpeningChat
<1>8. DecidingAsked'
  <2>1. \A i \in Calls : Deciding(call'[i]) => ~Unasked'
    BY <1>2, <1>3 DEF ShownInv, DecidingAsked, Deciding
  <2> QED BY <2>1 DEF DecidingAsked, Deciding
<1>9. (\A i \in Calls : OnBoard(call[i]))'
  <2>1. \A i \in Calls : call'[i].at = "accepting" => /\ call'[i].thread \in OpenThreads'
                                                     /\ call'[i].who \in thread'[call'[i].thread].people
    BY <1>2, <1>3 DEF ShownInv, OnBoard
  <2> QED BY <2>1 DEF OnBoard
<1>10. ShownToSomebody'
  BY <1>3, <1>5 DEF ShownInv, ShownToSomebody
<1> QED BY <1>4, <1>6, <1>7, <1>8, <1>9, <1>10 DEF ShownInv

LEMMA BlockWriteShown == ASSUME Inv, ShownInv, NEW r \in Calls, BlockWrite(r) PROVE ShownInv'
<1>1. Who(r) \in Companies
  BY DEF BlockWrite, At, Who, Inv, CallsInv, Fit
<1> QED BY <1>1, BlocksShown DEF BlockWrite, At

LEMMA UnblockWriteShown == ASSUME Inv, ShownInv, NEW r \in Calls, UnblockWrite(r) PROVE ShownInv'
<1>1. /\ call[r].at = "unblock" /\ connection'.status = "active" /\ Ends(r)
      /\ UNCHANGED <<request, thread, crossed>>
  BY DEF UnblockWrite, At, Connects
<1> QED BY <1>1, Ending, IdleIsCall, MovesOn DEF Asking, OpeningChat, Deciding

-----------------------------------------------------------------------------
(* Calls that write the chat.                                              *)

\* A call that rewrites a chat, who sees it being on it, and is over or goes on granting.
LEMMA RewritesShown ==
  ASSUME Inv, ShownInv, NEW r \in Calls, Keeps, NobodyGoesMissing, ShownToSomebody',
         UNCHANGED <<connection, request, crossed>>, OpenThreads' = OpenThreads,
         OpeningChat(call[r]) => OpenThreads # {},
         Ends(r) \/ Goes(r, "granting")
  PROVE  ShownInv'
<1>1. Unasked' <=> Unasked
  BY DEF Unasked
<1>2. "granting" \in Steps
  BY DEF Steps
<1>3. PICK k \in Call : Becomes(r, k) /\ k.at \in {"idle", "granting"}
  BY <1>2, Ending, IdleIsCall, Going
<1>4. ~Asking(k) /\ ~OpeningChat(k) /\ ~Deciding(k) /\ ~Silencing(k) /\ OnBoard(k) /\ k.at # "reaching"
  BY <1>3 DEF Asking, OpeningChat, Deciding, Silencing, OnBoard
<1> QED BY <1>1, <1>3, <1>4, Carries DEF NobodyGoesMissing

LEMMA ActivateShown == ASSUME Inv, ShownInv, NEW r \in Calls, Activate(r) PROVE ShownInv'
<1>1. /\ Ends(r) /\ UNCHANGED <<connection, request, crossed>> /\ call[r].at = "activating"
  BY DEF Activate, At, NoHistory
<1>2. ~Unasked /\ ~OpeningChat(call[r])
  BY <1>1 DEF ShownInv, DecidingAsked, Deciding, OpeningChat
<1>3. Keeps /\ NobodyGoesMissing /\ ShownToSomebody' /\ OpenThreads' = OpenThreads
  <2>1. CASE UNCHANGED thread
    BY <1>1, <2>1, SameChats
  <2>2. CASE thread' # thread
    <3>1. PICK t \in OpenThreads :
             thread' = [thread EXCEPT ![t].state = [c \in Companies |-> "active"]]
      BY <2>2 DEF Activate
    <3> DEFINE new == [thread[t] EXCEPT !.state = [c \in Companies |-> "active"]]
    <3>2. t \in ThreadIds /\ thread[t] \in Thread
      BY <3>1 DEF OpenThreads, Inv, TypeOK
    <3>3. new \in Thread /\ new.open = thread[t].open /\ new.people = thread[t].people
      BY <3>2 DEF Thread, ParticipantState
    <3>4. thread' = [thread EXCEPT ![t] = new]
      BY <3>1
    <3>5. ~crossed => new.people = Companies
      BY <1>2, <3>1, <3>3, NobodyMissing
    <3> HIDE DEF new
    <3> QED BY <1>1, <3>2, <3>3, <3>4, <3>5, SameChatsBut
  <2> QED BY <2>1, <2>2
<1> QED BY <1>1, <1>2, <1>3, RewritesShown

LEMMA FindThreadShown == ASSUME Inv, ShownInv, NEW r \in Calls, FindThread(r) PROVE ShownInv'
<1>1. /\ UNCHANGED <<connection, request, crossed>>
      /\ call[r].at \in {"opening", "introducing"} /\ call[r].who \in Companies
  BY DEF FindThread, At, NoHistory, Inv, CallsInv, Fit
<1>2. CASE OpenThreads = {}
  <2>1. Goes(r, "reaching") /\ UNCHANGED thread
    BY <1>2 DEF FindThread
  <2>2. "reaching" \in Steps
    BY DEF Steps
  <2>3. PICK k \in Call : Becomes(r, k) /\ k.at = "reaching"
    BY <2>1, <2>2, Going
  <2>4. Keeps /\ NobodyGoesMissing /\ ShownToSomebody' /\ (Unasked' <=> Unasked)
    BY <1>1, <2>1, SameChats DEF Unasked
  <2>5. OpeningChat(k) /\ ~Asking(k) /\ ~Deciding(k) /\ ~Silencing(k) /\ OnBoard(k)
    BY <2>3 DEF Asking, OpeningChat, Deciding, Silencing, OnBoard
  <2> QED BY <1>1, <1>2, <2>3, <2>4, <2>5, Carries DEF NobodyGoesMissing
<1>3. CASE OpenThreads # {}
  <2> DEFINE c == call[r].who
  <2>1. PICK t \in OpenThreads :
          /\ thread' = [thread EXCEPT ![t].state[c] = IF @ = "archived" THEN "active" ELSE @,
                                      ![t].people = IF At(r, "opening") THEN @ \cup {c} ELSE @]
          /\ Ends(r)
    BY <1>3 DEF FindThread, Who
  <2> DEFINE new == [thread[t] EXCEPT !.state[c] = IF @ = "archived" THEN "active" ELSE @,
                                      !.people = IF At(r, "opening") THEN @ \cup {c} ELSE @]
  <2>2. t \in ThreadIds /\ thread[t] \in Thread
    BY <2>1 DEF OpenThreads, Inv, TypeOK
  <2>3. /\ new \in Thread /\ new.open = thread[t].open /\ thread[t].people \subseteq new.people
        /\ At(r, "opening") => c \in new.people
        /\ \A d \in Companies \ {c} : new.state[d] = thread[t].state[d]
    BY <1>1, <2>2 DEF Thread, ParticipantState
  <2>4. thread' = [thread EXCEPT ![t] = new]
    BY <2>1, <2>2 DEF Inv, TypeOK
  <2> HIDE DEF new
  <2>5. ASSUME ~crossed, NEW d \in Companies, new.state[d] # "archived"
        PROVE  d \in new.people
    <3>1. CASE d # c
      BY <2>1, <2>3, <2>5, <3>1 DEF ShownInv, ShownToSomebody
    <3>2. CASE d = c /\ At(r, "opening")
      BY <2>3, <3>2
    <3>3. CASE d = c /\ ~At(r, "opening")
      <4>1. Asking(call[r])
        BY <1>1, <3>3 DEF Asking, At
      <4>2. thread[t].people = Companies
        BY <2>1, <2>5, <4>1, NobodyMissing
      <4> QED BY <2>3, <4>2
    <3> QED BY <3>1, <3>2, <3>3
  <2>6. Keeps /\ NobodyGoesMissing /\ ShownToSomebody' /\ OpenThreads' = OpenThreads
    BY <1>1, <2>2, <2>3, <2>4, <2>5, SameChatsBut
  <2> QED BY <1>1, <1>3, <2>1, <2>6, RewritesShown
<1> QED BY <1>2, <1>3

\* A chat that is started has its people, or was started silent.
LEMMA CreateThreadShown == ASSUME Inv, ShownInv, NEW r \in Calls, CreateThread(r) PROVE ShownInv'
<1> DEFINE c == call[r].who
<1> DEFINE new == [state |-> [d \in Companies |-> IF d = c THEN "active" ELSE call[r].target],
                   people |-> IF call[r].target = "archived" THEN {c} ELSE Companies,
                   open |-> TRUE]
<1>1. Ends(r) /\ UNCHANGED <<connection, request, crossed>> /\ call[r].at = "starting"
  BY DEF CreateThread, At, NoHistory
<1>2. PICK t \in ThreadIds \ OpenThreads : thread' = [thread EXCEPT ![t] = new]
  BY DEF CreateThread, Who
<1>3. call[r] \in Call /\ c \in Companies
  BY <1>1 DEF Inv, TypeOK, CallsInv, Fit
<1>4. /\ new.open
      /\ call[r].target # "archived" => new.people = Companies
      /\ \A d \in Companies : new.state[d] # "archived" => d \in new.people
  BY <1>3
<1> HIDE DEF new
<1>5. thread'[t] = new /\ \A u \in ThreadIds : u # t => thread'[u] = thread[u]
  BY <1>2 DEF Inv, TypeOK
<1>6. OpenThreads' = OpenThreads \cup {t}
  BY <1>2, <1>4, <1>5 DEF OpenThreads
<1>7. Keeps
  BY <1>2, <1>5, <1>6 DEF Keeps, OpenThreads
<1>8. Missing' => Missing \/ Silencing(call[r])
  <2>1. SUFFICES ASSUME NEW u \in OpenThreads', thread'[u].people # Companies
                 PROVE  Missing \/ Silencing(call[r])
    BY DEF Missing
  <2>2. CASE u = t
    BY <1>1, <1>4, <1>5, <2>1, <2>2 DEF Silencing
  <2>3. CASE u # t
    BY <1>5, <1>6, <2>1, <2>3 DEF Missing, OpenThreads
  <2> QED BY <2>2, <2>3
<1>9. ShownToSomebody'
  <2>1. SUFFICES ASSUME ~crossed, NEW u \in OpenThreads', NEW d \in Companies,
                        thread'[u].state[d] # "archived"
                 PROVE  d \in thread'[u].people
    BY <1>1 DEF ShownToSomebody
  <2>2. CASE u = t
    BY <1>4, <1>5, <2>1, <2>2
  <2>3. CASE u # t
    <3>1. u \in OpenThreads /\ thread'[u] = thread[u]
      BY <1>5, <1>6, <2>1, <2>3 DEF OpenThreads
    <3> QED BY <2>1, <3>1 DEF ShownInv, ShownToSomebody
  <2> QED BY <2>2, <2>3
<1>10. Unasked' <=> Unasked
  BY <1>1 DEF Unasked
<1>11. Becomes(r, Idle) /\ ~Asking(Idle) /\ ~Silencing(Idle) /\ ~Deciding(Idle) /\ OnBoard(Idle)
       /\ Idle.at # "reaching"
  BY <1>1, IdleIsCall, Ending DEF Asking, Silencing, Deciding, OnBoard
<1> QED BY <1>1, <1>6, <1>7, <1>8, <1>9, <1>10, <1>11, Carries

\* One company's answer to a chat it is on, or that it puts away.
LEMMA AnsweredShown ==
  ASSUME Inv, ShownInv, NEW t \in ThreadIds, NEW c \in Companies, NEW st \in {"active", "archived"},
         thread' = [thread EXCEPT ![t].state[c] = st], UNCHANGED crossed,
         st = "active" => c \in thread[t].people
  PROVE  Keeps /\ NobodyGoesMissing /\ ShownToSomebody' /\ OpenThreads' = OpenThreads
<1> DEFINE new == [thread[t] EXCEPT !.state[c] = st]
<1>1. thread[t] \in Thread
  BY DEF Inv, TypeOK
<1>2. new \in Thread /\ new.open = thread[t].open /\ new.people = thread[t].people
      /\ \A d \in Companies : new.state[d] = IF d = c THEN st ELSE thread[t].state[d]
  BY <1>1 DEF Thread, ParticipantState
<1>3. thread' = [thread EXCEPT ![t] = new]
  OBVIOUS
<1> HIDE DEF new
<1>4. ASSUME ~crossed, new.open, NEW d \in Companies, new.state[d] # "archived"
      PROVE  d \in new.people
  <2>1. CASE d = c
    BY <1>2, <1>4, <2>1
  <2>2. CASE d # c
    BY <1>2, <1>4, <2>2 DEF ShownInv, ShownToSomebody, OpenThreads
  <2> QED BY <2>1, <2>2
<1> QED BY <1>2, <1>3, <1>4, SameChatsBut

LEMMA AcceptWriteShown == ASSUME Inv, ShownInv, NEW r \in Calls, AcceptWrite(r) PROVE ShownInv'
<1>1. /\ Goes(r, "granting") /\ UNCHANGED <<connection, request, crossed>>
      /\ thread' = [thread EXCEPT ![call[r].thread].state[call[r].who] = "active"]
      /\ call[r].at = "accepting"
  BY DEF AcceptWrite, At, Who, NoHistory
<1>2. /\ call[r].thread \in ThreadIds /\ call[r].who \in Companies
      /\ call[r].who \in thread[call[r].thread].people /\ ~OpeningChat(call[r])
  BY <1>1 DEF Inv, CallsInv, Fit, ShownInv, OnBoard, OpeningChat
<1>3. Keeps /\ NobodyGoesMissing /\ ShownToSomebody' /\ OpenThreads' = OpenThreads
  BY <1>1, <1>2, AnsweredShown
<1> QED BY <1>1, <1>2, <1>3, RewritesShown

LEMMA SendShown ==
  ASSUME Inv, ShownInv, NEW r \in Calls, NEW c \in Companies, NEW t \in ThreadIds, Send(r, c, t)
  PROVE  ShownInv'
<1> DEFINE k == [Idle EXCEPT !.at = "nudging", !.who = c, !.thread = t]
<1>1. /\ thread' = [thread EXCEPT ![t].state[c] = "active"] /\ Becomes(r, k)
      /\ UNCHANGED <<connection, request, crossed>> /\ c \in thread[t].people
      /\ call[r].at = "idle"
  BY DEF Send, Becomes, At, OnThread, NoHistory
<1>2. k.at = "nudging"
  BY DEF Idle
<1> HIDE DEF k
<1>3. Keeps /\ NobodyGoesMissing /\ ShownToSomebody' /\ OpenThreads' = OpenThreads
  BY <1>1, AnsweredShown
<1>4. ~Asking(k) /\ ~Deciding(k) /\ ~Silencing(k) /\ OnBoard(k) /\ k.at # "reaching"
      /\ ~OpeningChat(call[r]) /\ (Unasked' <=> Unasked)
  BY <1>1, <1>2 DEF Asking, Deciding, Silencing, OnBoard, OpeningChat, Unasked
<1> QED BY <1>1, <1>3, <1>4, Carries DEF NobodyGoesMissing

\* A chat comes back to a company with its people.
LEMMA NudgeWriteShown == ASSUME Inv, ShownInv, NEW r \in Calls, NudgeWrite(r) PROVE ShownInv'
<1> DEFINE t == call[r].thread
           o == Other(call[r].who)
           new == BroughtBack(thread[t], o)
<1>1. /\ Ends(r) /\ UNCHANGED <<connection, request, crossed>>
      /\ thread' = [thread EXCEPT ![t] = new] /\ call[r].at = "pinging"
  BY DEF NudgeWrite, At, Who, NoHistory
<1>2. t \in ThreadIds /\ call[r].who \in Companies /\ ~OpeningChat(call[r])
  BY <1>1 DEF Inv, CallsInv, Fit, OpeningChat
<1>3. o \in Companies /\ thread[t] \in Thread
  BY <1>2, PairOfTwo DEF Inv, TypeOK
<1>4. /\ new \in Thread /\ new.open = thread[t].open /\ thread[t].people \subseteq new.people
      /\ o \in new.people
      /\ \A d \in Companies : d # o => new.state[d] = thread[t].state[d]
  BY <1>3 DEF BroughtBack, Thread, ParticipantState
<1> HIDE DEF new, o
<1>5. ASSUME ~crossed, new.open, NEW d \in Companies, new.state[d] # "archived"
      PROVE  d \in new.people
  <2>1. CASE d = o
    BY <1>4, <2>1
  <2>2. CASE d # o
    <3>1. t \in OpenThreads
      BY <1>2, <1>4, <1>5 DEF OpenThreads
    <3>2. thread[t].state[d] # "archived"
      BY <1>4, <1>5, <2>2
    <3>3. d \in thread[t].people
      BY <1>5, <3>1, <3>2 DEF ShownInv, ShownToSomebody
    <3> QED BY <1>4, <3>3
  <2> QED BY <2>1, <2>2
<1>6. Keeps /\ NobodyGoesMissing /\ ShownToSomebody' /\ OpenThreads' = OpenThreads
  BY <1>1, <1>2, <1>4, <1>5, SameChatsBut
<1> QED BY <1>1, <1>2, <1>6, RewritesShown

\* No call moves, and no chat opens.
LEMMA CallsStayShown ==
  ASSUME Inv, ShownInv, UNCHANGED <<connection, request, call, crossed>>,
         Keeps, NobodyGoesMissing, ShownToSomebody', OpenThreads' = OpenThreads
  PROVE  ShownInv'
<1>1. (Unasked' <=> Unasked) /\ (Silenced' => Silenced)
  BY DEF Unasked, Silenced, Silencing, NobodyGoesMissing
<1>2. SilencedUnasked' /\ BlockedUnasked'
  BY <1>1 DEF ShownInv, SilencedUnasked, BlockedUnasked, Asking
<1>3. AskedHasChat' /\ DecidingAsked'
  BY <1>1 DEF ShownInv, AskedHasChat, DecidingAsked, OpeningChat, Deciding
<1>4. (\A i \in Calls : OnBoard(call[i]))'
  <2>1. \A i \in Calls : call[i].at = "accepting" => /\ call[i].thread \in OpenThreads'
                                                     /\ call[i].who \in thread'[call[i].thread].people
    BY DEF ShownInv, OnBoard, Keeps
  <2> QED BY <2>1 DEF OnBoard
<1> QED BY <1>2, <1>3, <1>4 DEF ShownInv

LEMMA AtOnceShown == ASSUME Inv, ShownInv, NEW c \in Companies, AtOnce(c) PROVE ShownInv'
<1>1. CASE BlockCounterpart(c)
  BY <1>1, BlocksShown DEF BlockCounterpart
<1>2. CASE Follow(c) \/ Unfollow(c) \/ Deny(c)
  BY <1>2, SameChats, CallsStayShown DEF Follow, Unfollow, Deny, NoHistory
<1>3. CASE \E t \in ThreadIds : DeclineThread(c, t)
  <2>1. PICK t \in ThreadIds : DeclineThread(c, t)
    BY <1>3
  <2>2. /\ thread' = [thread EXCEPT ![t].state[c] = "archived"]
        /\ UNCHANGED <<connection, request, call, crossed>>
    BY <2>1 DEF DeclineThread, NoHistory
  <2>3. Keeps /\ NobodyGoesMissing /\ ShownToSomebody' /\ OpenThreads' = OpenThreads
    BY <2>2, AnsweredShown
  <2> QED BY <2>2, <2>3, CallsStayShown
<1> QED BY <1>1, <1>2, <1>3 DEF AtOnce

LEMMA NextShown == ASSUME Inv, ShownInv, [Next]_vars PROVE ShownInv'
<1>1. CASE \E r \in Calls, c \in Companies : Begin(r, c)
  BY <1>1, FirstLookShown, DecideShown, AcceptShown, SendShown DEF Begin
<1>2. CASE \E r \in Calls : Proceed(r)
  BY <1>2, BlockWriteShown, UnblockWriteShown, LaterLookShown, RequestWritesShown,
     ActivateShown, FindThreadShown, ReachShown, CreateThreadShown, AcceptWriteShown,
     GrantShown, NudgeWriteShown DEF Proceed
<1>3. CASE \E c \in Companies : AtOnce(c)
  BY <1>3, AtOnceShown
<1>4. CASE UNCHANGED vars
  BY <1>4, SameChats, CallsStayShown DEF vars
<1> QED BY <1>1, <1>2, <1>3, <1>4 DEF Next

\* However many calls are at work and however many chats the pair has: a chat that shows in
\* a company's inbox can be opened by somebody there, until a block crosses a call.
THEOREM ShownToSomebodyAlways == Spec => []ShownToSomebody
<1>1. ShownInv => ShownToSomebody
  BY DEF ShownInv
<1> QED BY <1>1, InvAlways, InitShown, NextShown, PTL DEF Spec
=============================================================================
