----------------------------- MODULE CompanyPair -----------------------------
(***************************************************************************)
(* Two businesses of Ekum and what stands between them: the connection     *)
(* row, access requests, follows and their direct chat.                    *)
(*                                                                         *)
(* Six services write these rows.  Each reads the connection, decides, and *)
(* writes later, by id, without looking again.  Calls counts the requests  *)
(* that are at the API at a time; a request is a chain of actions, one per *)
(* read that decides and one per write.  Folded into one action: a chat    *)
(* that starts or comes back with the roster seeding that follows it       *)
(* (CreateThread, NudgeWrite), and the look for a chat with the update it  *)
(* leads to (FindThread, Activate).                                        *)
(***************************************************************************)
EXTENDS Naturals, FiniteSets

CONSTANTS Companies,
          Followers,    \* bound: who asks to follow the other
          Calls,        \* bound: API calls at work at a time
          MaxRequests,  \* bound: AccessRequest rows
          MaxThreads,   \* bound: direct threads of the pair
          Nobody

ASSUME PairAssumption == /\ IsFiniteSet(Companies) /\ Cardinality(Companies) = 2
                         /\ Nobody \notin Companies
                         /\ Followers \subseteq Companies
ASSUME BoundsAssumption == MaxRequests \in Nat /\ MaxThreads \in Nat

VARIABLES connection, \* the row of the pair: status and statusSetByCompanyId
          request,    \* AccessRequest rows, in the order they were made
          follow,     \* follower -> status of its follow of the other
          thread,     \* direct threads: participant states and whose people are on it
          call,       \* the API calls at work
          blockers,   \* history: who has blocked the other and not unblocked since
          crossed     \* history: a block met a call that had looked before, or another block

rows == <<connection, request, follow, thread>>
vars == <<connection, request, follow, thread, call, blockers, crossed>>

RequestIds == 1..MaxRequests
ThreadIds == 1..MaxThreads
Other(c) == CHOOSE d \in Companies : d # c

Connection == [status : {"none", "active", "blocked"}, by : Companies \cup {Nobody}]
Request == [from : Companies \cup {Nobody}, status : {"unused", "pending", "approved", "declined"}]
FollowStatus == {"none", "pending", "allowed", "stopped"}
ParticipantState == {"active", "pending", "archived"}
Thread == [state : [Companies -> ParticipantState], people : SUBSET Companies, open : BOOLEAN]

\* What a call does next.
Steps == {"idle", "block", "unblock",                    \* Network
          "asking", "creating", "conflict",              \* Request access
          "opening", "introducing",                      \* Message, or the chat of a request
          "reaching", "knowing", "starting",
          "checking", "approving", "activating", "declining",
          "accepting", "granting", "ensuring", "connecting",
          "nudging", "pinging"}

Call == [at : Steps, who : Companies \cup {Nobody}, request : RequestIds \cup {0},
         thread : ThreadIds \cup {0}, target : ParticipantState]

TypeOK == /\ connection \in Connection
          /\ request \in [RequestIds -> Request]
          /\ follow \in [Companies -> FollowStatus]
          /\ thread \in [ThreadIds -> Thread]
          /\ call \in [Calls -> Call]
          /\ blockers \subseteq Companies
          /\ crossed \in BOOLEAN

Idle == [at |-> "idle", who |-> Nobody, request |-> 0, thread |-> 0, target |-> "pending"]

Init == /\ connection = [status |-> "none", by |-> Nobody]
        /\ request = [q \in RequestIds |-> [from |-> Nobody, status |-> "unused"]]
        /\ follow = [c \in Companies |-> "none"]
        /\ thread = [t \in ThreadIds |-> [state |-> [c \in Companies |-> "pending"],
                                          people |-> {}, open |-> FALSE]]
        /\ call = [r \in Calls |-> Idle]
        /\ blockers = {}
        /\ crossed = FALSE

At(r, step) == call[r].at = step
Who(r) == call[r].who
Goes(r, step) == call' = [call EXCEPT ![r].at = step]
Ends(r) == call' = [call EXCEPT ![r] = Idle]
Begins(r, c, step) == At(r, "idle") /\ call' = [call EXCEPT ![r] = [Idle EXCEPT !.at = step, !.who = c]]

Connects == connection' = [status |-> "active", by |-> Nobody]
NoHistory == UNCHANGED <<blockers, crossed>>

\* Calls that have looked at the connection, themselves or when they were let in, and act on
\* it from now on.
Looked == \E r \in Calls : call[r].at \in {"approving", "connecting", "unblock", "asking",
                                          "creating", "conflict", "introducing", "opening",
                                          "reaching", "knowing", "starting", "pinging"}

\* Company c has blocked the other: the row says so from now on.
Blocks(c) == /\ connection' = [status |-> "blocked", by |-> c]
             /\ blockers' = blockers \cup {c}
             /\ crossed' = (crossed \/ Looked \/ Other(c) \in blockers)

-----------------------------------------------------------------------------
(* Network: ConnectionService and the block of a chat or a profile.        *)

MayUnblock(c) == connection.status = "blocked" /\ connection.by = c

Block(r, c) == /\ connection.status = "active"
               /\ Begins(r, c, "block")
               /\ UNCHANGED rows /\ NoHistory

BlockWrite(r) == /\ At(r, "block")
                 /\ Blocks(Who(r))
                 /\ Ends(r)
                 /\ UNCHANGED <<request, follow, thread>>

Unblock(r, c) == /\ MayUnblock(c)
                 /\ Begins(r, c, "unblock")
                 /\ UNCHANGED rows /\ NoHistory

UnblockWrite(r) == /\ At(r, "unblock")
                   /\ Connects
                   /\ blockers' = blockers \ {Who(r)}
                   /\ Ends(r)
                   /\ UNCHANGED <<request, follow, thread, crossed>>

\* One upsert, whatever the row says.
BlockCounterpart(c) == /\ Blocks(c)
                       /\ UNCHANGED <<request, follow, thread, call>>

-----------------------------------------------------------------------------
(* AccessService.                                                          *)

Pending(c) == {q \in RequestIds : request[q] = [from |-> c, status |-> "pending"]}
Unused == {q \in RequestIds : request[q].status = "unused"}

RequestAccess(r, c) == /\ connection.status \notin {"blocked", "active"}
                       /\ Begins(r, c, "asking")
                       /\ UNCHANGED rows /\ NoHistory

FindPending(r) == /\ At(r, "asking")
                  /\ Goes(r, IF Pending(Who(r)) # {} THEN "introducing" ELSE "creating")
                  /\ UNCHANGED rows /\ NoHistory

\* The partial unique index lets one pending request of a direction in.
CreateRequest(r) ==
    /\ At(r, "creating")
    /\ IF Pending(Who(r)) # {}
         THEN Goes(r, "conflict") /\ UNCHANGED request
         ELSE \E q \in Unused :
                 /\ \A p \in Unused : q <= p
                 /\ request' = [request EXCEPT ![q] = [from |-> Who(r), status |-> "pending"]]
                 /\ Goes(r, "introducing")
    /\ UNCHANGED <<connection, follow, thread>> /\ NoHistory

\* The winner of the race may be decided by now; then the error goes up.
FindWinner(r) == /\ At(r, "conflict")
                 /\ IF Pending(Who(r)) # {} THEN Goes(r, "introducing") ELSE Ends(r)
                 /\ UNCHANGED rows /\ NoHistory

\* loadDecidableRequest.
Decidable(c, q) == q \in Pending(Other(c))

Approve(r, c, q) == /\ Decidable(c, q)
                    /\ At(r, "idle")
                    /\ call' = [call EXCEPT ![r] = [Idle EXCEPT !.at = "checking", !.who = c,
                                                                !.request = q]]
                    /\ UNCHANGED rows /\ NoHistory

\* Fault: an approval does not look at the block.
StopsApprovalNever == FALSE

\* "approving a request must never silently reactivate a connection".
StopsApproval == connection.status = "blocked"

CheckBlock(r) == /\ At(r, "checking")
                 /\ IF StopsApproval THEN Ends(r) ELSE Goes(r, "approving")
                 /\ UNCHANGED rows /\ NoHistory

ApproveWrite(r) == /\ At(r, "approving")
                   /\ request' = [request EXCEPT ![call[r].request].status = "approved"]
                   /\ Connects
                   /\ Goes(r, "activating")
                   /\ UNCHANGED <<follow, thread>> /\ NoHistory

OpenThreads == {t \in ThreadIds : thread[t].open}

\* activateDirectParticipants: everybody is back in the chat.  The look and the updates are
\* one step.
Activate(r) ==
    /\ At(r, "activating")
    /\ IF OpenThreads = {} THEN UNCHANGED thread
       ELSE \E t \in OpenThreads :
               thread' = [thread EXCEPT ![t].state = [c \in Companies |-> "active"]]
    /\ Ends(r)
    /\ UNCHANGED <<connection, request, follow>> /\ NoHistory

DeclineRequest(r, c, q) == /\ Decidable(c, q)
                           /\ At(r, "idle")
                           /\ call' = [call EXCEPT ![r] = [Idle EXCEPT !.at = "declining", !.who = c,
                                                                       !.request = q]]
                           /\ UNCHANGED rows /\ NoHistory

DeclineWrite(r) == /\ At(r, "declining")
                   /\ request' = [request EXCEPT ![call[r].request].status = "declined"]
                   /\ Ends(r)
                   /\ UNCHANGED <<connection, follow, thread>> /\ NoHistory

\* ensureActiveConnection and ensureActiveConnectionUnlessBlocked: they differ in what they
\* answer.
EnsureActive(r) == /\ At(r, "ensuring")
                   /\ IF connection.status \in {"blocked", "active"} THEN Ends(r)
                      ELSE Goes(r, "connecting")
                   /\ UNCHANGED rows /\ NoHistory

EnsureWrite(r) == /\ At(r, "connecting")
                  /\ Connects
                  /\ Ends(r)
                  /\ UNCHANGED <<request, follow, thread>> /\ NoHistory

-----------------------------------------------------------------------------
(* ThreadService and MessageService: the direct chat.                      *)

StartDirect(r, c) == /\ Begins(r, c, "opening")
                     /\ UNCHANGED rows /\ NoHistory

\* findDirectThread.  One that is there is put back in the own inbox; who writes from the
\* app brings the own people.
FindThread(r) ==
    LET c == Who(r)
    IN /\ At(r, "opening") \/ At(r, "introducing")
       /\ IF OpenThreads = {} THEN Goes(r, "reaching") /\ UNCHANGED thread
          ELSE \E t \in OpenThreads :
                  /\ thread' = [thread EXCEPT ![t].state[c] = IF @ = "archived" THEN "active" ELSE @,
                                              ![t].people = IF At(r, "opening") THEN @ \cup {c} ELSE @]
                  /\ Ends(r)
       /\ UNCHANGED <<connection, request, follow>> /\ NoHistory

\* Fault: a first message to who has blocked is a request like any other.
FirstReachAny == "pending"

FirstReach == IF connection.status = "blocked" THEN "archived" ELSE "pending"

ReachBlocked(r) == /\ At(r, "reaching")
                   /\ call' = [call EXCEPT ![r].at = "knowing", ![r].target = FirstReach]
                   /\ UNCHANGED rows /\ NoHistory

ReachConnected(r) ==
    /\ At(r, "knowing")
    /\ call' = [call EXCEPT ![r].at = "starting",
                            ![r].target = IF @ # "archived" /\ connection.status = "active"
                                            THEN "active" ELSE @]
    /\ UNCHANGED rows /\ NoHistory

\* The owners of both are put on the chat, those of a silenced company are not.
CreateThread(r) ==
    LET c == Who(r)
    IN /\ At(r, "starting")
       /\ \E t \in ThreadIds \ OpenThreads :
             /\ \A u \in ThreadIds \ OpenThreads : t <= u
             /\ thread' = [thread EXCEPT ![t] =
                  [state |-> [d \in Companies |-> IF d = c THEN "active" ELSE call[r].target],
                   people |-> IF call[r].target = "archived" THEN {c} ELSE Companies,
                   open |-> TRUE]]
       /\ Ends(r)
       /\ UNCHANGED <<connection, request, follow>> /\ NoHistory

\* membershipOrThrow.
OnThread(c, t) == /\ thread[t].open
                  /\ thread[t].state[c] # "archived"
                  /\ c \in thread[t].people

Accept(r, c, t) == /\ At(r, "idle")
                   /\ OnThread(c, t)
                   /\ call' = [call EXCEPT ![r] = [Idle EXCEPT
                        !.at = IF thread[t].state[c] = "pending" THEN "accepting" ELSE "granting",
                        !.who = c, !.thread = t]]
                   /\ UNCHANGED rows /\ NoHistory

AcceptWrite(r) == /\ At(r, "accepting")
                  /\ thread' = [thread EXCEPT ![call[r].thread].state[Who(r)] = "active"]
                  /\ Goes(r, "granting")
                  /\ UNCHANGED <<connection, request, follow>> /\ NoHistory

\* The request the chat came from is approved, or else the pair is connected.
Grant(r) == /\ At(r, "granting")
            /\ IF Pending(Other(Who(r))) = {} THEN Goes(r, "ensuring")
               ELSE \E q \in Pending(Other(Who(r))) :
                       call' = [call EXCEPT ![r].at = "checking", ![r].request = q]
            /\ UNCHANGED rows /\ NoHistory

DeclineThread(c, t) == /\ OnThread(c, t)
                       /\ thread' = [thread EXCEPT ![t].state[c] = "archived"]
                       /\ UNCHANGED <<connection, request, follow, call>> /\ NoHistory

\* Sending accepts a request.  Then those who have put the chat away are looked for.
Send(r, c, t) == /\ At(r, "idle")
                 /\ OnThread(c, t)
                 /\ thread' = [thread EXCEPT ![t].state[c] = "active"]
                 /\ call' = [call EXCEPT ![r] = [Idle EXCEPT !.at = "nudging", !.who = c, !.thread = t]]
                 /\ UNCHANGED <<connection, request, follow>> /\ NoHistory

Nudge(r) == /\ At(r, "nudging")
            /\ IF /\ thread[call[r].thread].state[Other(Who(r))] = "archived"
                  /\ connection.status # "blocked"
                 THEN Goes(r, "pinging") ELSE Ends(r)
            /\ UNCHANGED rows /\ NoHistory

\* Fault: the chat comes back and nobody is put on it.
BroughtBackAlone(t, c) == [t EXCEPT !.state[c] = "pending"]

\* A chat that comes back to c.
BroughtBack(t, c) == [t EXCEPT !.state[c] = "pending", !.people = @ \cup {c}]

NudgeWrite(r) ==
    /\ At(r, "pinging")
    /\ thread' = [thread EXCEPT ![call[r].thread] = BroughtBack(@, Other(Who(r)))]
    /\ Ends(r)
    /\ UNCHANGED <<connection, request, follow>> /\ NoHistory

-----------------------------------------------------------------------------
(* FollowService.                                                          *)

Follow(c) == /\ c \in Followers
             /\ connection.status # "blocked"
             /\ follow[c] \in {"none", "stopped"}
             /\ follow' = [follow EXCEPT ![c] = "pending"]
             /\ UNCHANGED <<connection, request, thread, call>> /\ NoHistory

Unfollow(c) == /\ follow[c] # "none"
               /\ follow' = [follow EXCEPT ![c] = "none"]
               /\ UNCHANGED <<connection, request, thread, call>> /\ NoHistory

\* decide: look or pack.  Follow, therefore connect.
Allow(r, c) == /\ follow[Other(c)] \in {"pending", "stopped"}
               /\ follow' = [follow EXCEPT ![Other(c)] = "allowed"]
               /\ Begins(r, c, "ensuring")
               /\ UNCHANGED <<connection, request, thread>> /\ NoHistory

\* decide: deny.
Deny(c) == /\ follow[Other(c)] \in {"pending", "allowed"}
           /\ follow' = [follow EXCEPT ![Other(c)] = IF @ = "pending" THEN "none" ELSE "stopped"]
           /\ UNCHANGED <<connection, request, thread, call>> /\ NoHistory

-----------------------------------------------------------------------------
Begin(r, c) == \/ Block(r, c) \/ Unblock(r, c) \/ RequestAccess(r, c) \/ StartDirect(r, c)
               \/ Allow(r, c)
               \/ \E q \in RequestIds : Approve(r, c, q) \/ DeclineRequest(r, c, q)
               \/ \E t \in ThreadIds : Accept(r, c, t) \/ Send(r, c, t)

Proceed(r) == \/ BlockWrite(r) \/ UnblockWrite(r)
              \/ FindPending(r) \/ CreateRequest(r) \/ FindWinner(r)
              \/ CheckBlock(r) \/ ApproveWrite(r) \/ Activate(r) \/ DeclineWrite(r)
              \/ EnsureActive(r) \/ EnsureWrite(r)
              \/ FindThread(r) \/ ReachBlocked(r) \/ ReachConnected(r) \/ CreateThread(r)
              \/ AcceptWrite(r) \/ Grant(r) \/ Nudge(r) \/ NudgeWrite(r)

\* What one statement does.
AtOnce(c) == \/ BlockCounterpart(c) \/ Follow(c) \/ Unfollow(c) \/ Deny(c)
             \/ \E t \in ThreadIds : DeclineThread(c, t)

Next == \/ \E r \in Calls, c \in Companies : Begin(r, c)
        \/ \E r \in Calls : Proceed(r)
        \/ \E c \in Companies : AtOnce(c)

Spec == Init /\ [][Next]_vars

-----------------------------------------------------------------------------
(* Correctness.                                                            *)

\* "Only the company that blocked can unblock": whoever approves, allows, opens or accepts,
\* a block that met no call that had looked before stands until its company lifts it.
BlockHolds == ~crossed /\ blockers # {} => connection.status = "blocked" /\ connection.by \in blockers

\* "Block is silent": while a block stands no chat comes up in the blocker's requests, be it
\* a first message, a message to a chat put away, or the chat of an access request.
BlockIsQuiet ==
    [][\A c \in blockers, t \in ThreadIds :
          ~crossed /\ thread'[t].open /\ thread'[t].state[c] = "pending"
            => thread[t].open /\ thread[t].state[c] = "pending"]_vars

\* A chat that shows in a company's inbox can be opened by somebody there.
ShownToSomebody ==
    ~crossed => \A t \in OpenThreads : \A c \in Companies :
                   thread[t].state[c] # "archived" => c \in thread[t].people

-----------------------------------------------------------------------------
(* What the repository says and the code does not keep.                    *)

\* docs/features/00-concepts.md: "Only the company that blocked can unblock", with nothing
\* excused.
OnlyTheBlockerUnblocks == connection.status = "active" => blockers = {}

\* docs/features/00-concepts.md: "Approve never reactivates a block -- the blocker must
\* unblock first": a blocked pair is connected by an unblock and by nothing else.
ApproveKeepsBlock ==
    [][connection.status = "blocked" /\ connection'.status = "active"
         => \E r \in Calls : At(r, "unblock") /\ call'[r] # call[r]]_vars

\* docs/features/chat.md: "One direct thread per company pair."
OneDirectThread == Cardinality(OpenThreads) <= 1
=============================================================================
