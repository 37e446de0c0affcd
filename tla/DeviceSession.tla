---------------------------- MODULE DeviceSession ----------------------------
(***************************************************************************)
(* One device signed in to Ekum: the tabs of a browser that share one      *)
(* localStorage, and the API that rotates refresh tokens.                  *)
(*                                                                         *)
(* A tab keeps the tokens in memory and in localStorage; a write there     *)
(* reaches the other tabs as a storage event, later.  When a request comes *)
(* back 401 the tab refreshes: one refresh per tab, under a lock that the  *)
(* tabs share, with a check whether another tab has refreshed meanwhile.   *)
(* The API rotates in steps: look into the grace map (in memory), read the *)
(* row, revoke it, create its successor, remember the pair.  A token is    *)
(* named by its refresh token; access tokens expire at any time.           *)
(***************************************************************************)
EXTENDS Naturals, Sequences, FiniteSets

CONSTANTS Tabs,
          MaxTokens,    \* bound: refresh tokens the API ever makes up
          Calls,        \* bound: calls of POST /auth/refresh at the API at a time
          NoTab,
          MaxFaults,    \* bound: answers that are lost, and restarts of the API
          MaxLogouts    \* bound: Logouts pressed

ASSUME NobodyAssumption == NoTab \notin Tabs
ASSUME FiniteAssumption == IsFiniteSet(Tabs) /\ IsFiniteSet(Calls)
ASSUME BoundsAssumption == MaxTokens \in Nat \ {0} /\ MaxFaults \in Nat /\ MaxLogouts \in Nat

VARIABLES row,       \* RefreshToken rows: [Tokens -> RowState]
          grace,     \* refreshGraceByOldHash: token -> the one issued for it
          call,      \* rotations at the API
          stored,    \* localStorage, the tokens
          holder,    \* who holds the refresh lock
          tab,       \* what every tab has in memory and is doing
          events,    \* storage events on their way to a tab
          logouts,   \* POST /auth/logout on their way, by token
          faults,    \* lost answers and restarts so far
          loggedOut, \* history: how often Logout was pressed
          excused    \* history: something happened that may end the session

server == <<row, grace, call>>
vars == <<row, grace, call, stored, holder, tab, events, logouts, faults, loggedOut, excused>>

\* Tokens are numbered as they are made; 0 is none.
Tokens == 1..MaxTokens
NoToken == 0
MaybeToken == Tokens \cup {NoToken}
RowState == {"unused", "live", "revoked"}

Phases == {"idle",
           "waiting",   \* refreshing: for the lock
           "locked",    \* has the lock, about to look into localStorage
           "fetching"} \* POST /auth/refresh is out

\* mem: module variable tokens; asked: the token to refresh; before: mem as it started;
\* kept: what localStorage held under the lock; stale: the generation has moved on.
Tab == [phase : Phases, mem : MaybeToken, asked : MaybeToken, before : MaybeToken,
        kept : MaybeToken, stale : BOOLEAN]

Steps == {"free", "arrived", "missed", "found", "revoked", "issued", "ok", "refused"}

\* to: the tab that waits for the answer, old: the token sent, new: its successor.
Call == [at : Steps, to : Tabs \cup {NoTab}, old : MaybeToken, new : MaybeToken]

TypeOK == /\ row \in [Tokens -> RowState]
          /\ grace \in [Tokens -> MaybeToken]
          /\ call \in [Calls -> Call]
          /\ stored \in MaybeToken
          /\ holder \in Tabs \cup {NoTab}
          /\ tab \in [Tabs -> Tab]
          /\ events \in [Tabs -> Seq(MaybeToken)]
          /\ logouts \in SUBSET Tokens
          /\ faults \in 0..MaxFaults
          /\ loggedOut \in 0..MaxLogouts
          /\ excused \in BOOLEAN

Fresh(mem) == [phase |-> "idle", mem |-> mem, asked |-> NoToken, before |-> NoToken,
               kept |-> NoToken, stale |-> FALSE]

FreeCall == [at |-> "free", to |-> NoTab, old |-> NoToken, new |-> NoToken]

\* A device that has just been signed in: every tab has the same tokens.
Init == /\ row = [k \in Tokens |-> IF k = 1 THEN "live" ELSE "unused"]
        /\ grace = [k \in Tokens |-> NoToken]
        /\ call = [c \in Calls |-> FreeCall]
        /\ stored = 1
        /\ holder = NoTab
        /\ tab = [b \in Tabs |-> Fresh(1)]
        /\ events = [b \in Tabs |-> <<>>]
        /\ logouts = {}
        /\ faults = 0 /\ loggedOut = 0 /\ excused = FALSE

Made == {k \in Tokens : row[k] # "unused"}

NextToken == Cardinality(Made) + 1

\* Bound: a token is left for every refresh that may still need one.
Unserved == {c \in Calls : call[c].at \in {"arrived", "missed", "found", "revoked"}}
Refreshing == {b \in Tabs : tab[b].phase \in {"waiting", "locked"}}
TokenToSpare == Cardinality(Made) + Cardinality(Unserved) + Cardinality(Refreshing) < MaxTokens

Goes(b, r) == tab' = [tab EXCEPT ![b] = r]
Fault == faults < MaxFaults /\ faults' = faults + 1
To(b, phase) == [tab[b] EXCEPT !.phase = phase]

\* localStorage.setItem or removeItem by tab b: the others hear of a change.
Writes(b, v) ==
    /\ stored' = v
    /\ events' = [o \in Tabs |-> IF o # b /\ v # stored THEN Append(events[o], v)
                                                        ELSE events[o]]

-----------------------------------------------------------------------------
(* A tab: performTokenRefresh and refreshAuthTokens.                       *)

\* A request came back 401.  The token is the one in memory or else the one stored.
StartRefresh(b) ==
    LET asked == IF tab[b].mem # NoToken THEN tab[b].mem ELSE stored
    IN /\ tab[b].phase = "idle"
       /\ asked # NoToken
       /\ TokenToSpare
       /\ Goes(b, [To(b, "waiting") EXCEPT !.asked = asked, !.before = tab[b].mem,
                                           !.stale = FALSE])
       /\ UNCHANGED <<server, stored, holder, events, logouts, faults, loggedOut, excused>>

\* navigator.locks.
Lock(b) == /\ tab[b].phase = "waiting"
           /\ holder = NoTab
           /\ holder' = b
           /\ Goes(b, To(b, "locked"))
           /\ UNCHANGED <<server, stored, events, logouts, faults, loggedOut, excused>>

\* Fault: a refresh that began before a Logout still writes.
OutdatedNever(b) == FALSE /\ b \in Tabs

\* isCurrentAuthSession, negated.
Outdated(b) == tab[b].stale

\* Fault: a refresh that is out of date keeps the lock.
SettlesHoldingLock(b, v) ==
    /\ holder' = IF Outdated(b) THEN holder ELSE NoTab
    /\ IF Outdated(b) THEN UNCHANGED <<stored, events>> ELSE Writes(b, v)
    /\ Goes(b, Fresh(IF Outdated(b) THEN tab[b].mem ELSE v))

\* The refresh came to v: the lock is given up and performTokenRefresh stores v.
Settles(b, v) ==
    /\ holder' = NoTab
    /\ IF Outdated(b) THEN UNCHANGED <<stored, events>> ELSE Writes(b, v)
    /\ Goes(b, Fresh(IF Outdated(b) THEN tab[b].mem ELSE v))

\* Fault: what another tab stored is not looked at.
OthersRefreshedNever(b) == FALSE /\ b \in Tabs

\* Another tab has refreshed while this one waited.
OthersRefreshed(b) == stored # NoToken /\ stored # tab[b].asked

Adopt(b) == /\ tab[b].phase = "locked"
            /\ OthersRefreshed(b)
            /\ Settles(b, stored)
            /\ UNCHANGED <<server, logouts, faults, loggedOut, excused>>

Fetch(b) ==
    /\ tab[b].phase = "locked"
    /\ ~OthersRefreshed(b)
    /\ \E c \in Calls :
          /\ call[c].at = "free"
          /\ call' = [call EXCEPT ![c] = [FreeCall EXCEPT !.at = "arrived", !.to = b,
                                                          !.old = tab[b].asked]]
    /\ Goes(b, [To(b, "fetching") EXCEPT !.kept = stored])
    /\ UNCHANGED <<row, grace, stored, holder, events, logouts, faults, loggedOut, excused>>

\* New tokens are stored; a definitive refusal (INVALID_TOKEN) clears the device.
Receive(b) ==
    \E c \in Calls :
       /\ tab[b].phase = "fetching"
       /\ call[c].to = b /\ call[c].at \in {"ok", "refused"}
       /\ Settles(b, call[c].new)
       /\ call' = [call EXCEPT ![c] = FreeCall]
       /\ UNCHANGED <<row, grace, logouts, faults, loggedOut, excused>>

\* What a tab keeps when the refresh failed for now.
Kept(b) == IF tab[b].kept # NoToken THEN tab[b].kept ELSE tab[b].before

\* Network error, 5xx, or a gateway that gave up: the tab keeps what there was.  The API
\* may go on with the call.
LoseAnswer(b) ==
    \E c \in Calls :
       /\ tab[b].phase = "fetching"
       /\ call[c].to = b
       /\ Fault
       /\ Settles(b, Kept(b))
       /\ call' = [call EXCEPT ![c].to = NoTab]
       /\ UNCHANGED <<row, grace, logouts, loggedOut, excused>>

\* The window's storage listener.
StorageEvent(b) ==
    /\ events[b] # <<>>
    /\ Goes(b, [tab[b] EXCEPT !.mem = Head(events[b])])
    /\ events' = [events EXCEPT ![b] = Tail(@)]
    /\ UNCHANGED <<server, stored, holder, logouts, faults, loggedOut, excused>>

\* The device first, then the server.
Logout(b) ==
    /\ tab[b].mem # NoToken
    /\ loggedOut < MaxLogouts
    /\ loggedOut' = loggedOut + 1
    /\ Writes(b, NoToken)
    /\ Goes(b, [tab[b] EXCEPT !.mem = NoToken, !.stale = (tab[b].phase # "idle")])
    /\ logouts' = logouts \cup {tab[b].mem}
    /\ excused' = TRUE
    /\ UNCHANGED <<server, holder, faults>>

\* The code was right: a new row, and the session is stored.
Login(b) ==
    /\ tab[b].mem = NoToken
    /\ TokenToSpare
    /\ row' = [row EXCEPT ![NextToken] = "live"]
    /\ Writes(b, NextToken)
    /\ Goes(b, [tab[b] EXCEPT !.mem = NextToken])
    /\ UNCHANGED <<grace, call, holder, logouts, faults, loggedOut, excused>>

\* The page is loaded anew, at any time: what it was doing is gone.
Reload(b) ==
    /\ Goes(b, Fresh(stored))
    /\ events' = [events EXCEPT ![b] = <<>>]
    /\ holder' = IF holder = b THEN NoTab ELSE holder
    /\ call' = [c \in Calls |-> IF call[c].to = b THEN [call[c] EXCEPT !.to = NoTab]
                                                  ELSE call[c]]
    /\ IF tab[b].phase = "fetching" THEN Fault ELSE UNCHANGED faults
    /\ UNCHANGED <<row, grace, stored, logouts, loggedOut, excused>>

-----------------------------------------------------------------------------
(* The API: TokenService.rotate and revoke.                                *)

At(c, step) == call[c].at = step
Turns(c, r) == call' = [call EXCEPT ![c] = r]

\* The call is over; an answer nobody waits for is gone.
Done(c, at, new) == IF call[c].to = NoTab THEN FreeCall
                    ELSE [call[c] EXCEPT !.at = at, !.new = new]

\* A retry may overtake the call whose answer was lost.
Overtakes(c) == \E d \in Calls : d # c /\ call[d].old = call[c].old /\ call[d].at \notin {"free", "ok", "refused"}

LookUp(c) ==
    LET known == grace[call[c].old]
    IN /\ At(c, "arrived")
       /\ Turns(c, IF known # NoToken THEN Done(c, "ok", known)
                                      ELSE [call[c] EXCEPT !.at = "missed"])
       /\ excused' = (excused \/ (known = NoToken /\ Overtakes(c)))
       /\ UNCHANGED <<row, grace, stored, holder, tab, events, logouts, faults, loggedOut>>

Usable(k) == row[k] = "live"

Find(c) ==
    /\ At(c, "missed")
    /\ Turns(c, IF Usable(call[c].old) THEN [call[c] EXCEPT !.at = "found"]
                ELSE Done(c, "refused", NoToken))
    /\ UNCHANGED <<row, grace, stored, holder, tab, events, logouts, faults, loggedOut, excused>>

\* Fault: the row is left for a later clean-up.
RevokeOldLater(c) ==
    /\ At(c, "found")
    /\ Turns(c, [call[c] EXCEPT !.at = "revoked"])
    /\ UNCHANGED <<row, grace, stored, holder, tab, events, logouts, faults, loggedOut, excused>>

RevokeOld(c) ==
    /\ At(c, "found")
    /\ row' = [row EXCEPT ![call[c].old] = "revoked"]
    /\ Turns(c, [call[c] EXCEPT !.at = "revoked"])
    /\ UNCHANGED <<grace, stored, holder, tab, events, logouts, faults, loggedOut, excused>>

IssueNew(c) ==
    /\ At(c, "revoked")
    /\ row' = [row EXCEPT ![NextToken] = "live"]
    /\ Turns(c, [call[c] EXCEPT !.at = "issued", !.new = NextToken])
    /\ UNCHANGED <<grace, stored, holder, tab, events, logouts, faults, loggedOut, excused>>

Remember(c) ==
    /\ At(c, "issued")
    /\ grace' = [grace EXCEPT ![call[c].old] = call[c].new]
    /\ Turns(c, Done(c, "ok", call[c].new))
    /\ UNCHANGED <<row, stored, holder, tab, events, logouts, faults, loggedOut, excused>>

\* REFRESH_GRACE_MS has passed.  A minute outlasts a call; it may pass while the device
\* still has only the old token.
GraceExpires(k) ==
    /\ grace[k] # NoToken
    /\ \A c \in Calls : At(c, "free") \/ call[c].old # k
    /\ grace' = [grace EXCEPT ![k] = NoToken]
    /\ excused' = (excused \/ stored = k)
    /\ UNCHANGED <<row, call, stored, holder, tab, events, logouts, faults, loggedOut>>

RevokeLoggedOut(k) ==
    /\ k \in logouts
    /\ row' = [row EXCEPT ![k] = IF row[k] = "live" THEN "revoked" ELSE row[k]]
    /\ logouts' = logouts \ {k}
    /\ UNCHANGED <<grace, call, stored, holder, tab, events, faults, loggedOut, excused>>

\* Best effort: POST /auth/logout may fail.
LoseLogout(k) ==
    /\ k \in logouts
    /\ logouts' = logouts \ {k}
    /\ UNCHANGED <<server, stored, holder, tab, events, faults, loggedOut, excused>>

\* The process restarts: the grace map and the calls are gone, and their tabs see a failure.
Restart ==
    /\ Fault
    /\ grace' = [k \in Tokens |-> NoToken]
    /\ call' = [c \in Calls |-> FreeCall]
    /\ \E b \in Tabs :
          IF tab[b].phase = "fetching" THEN Settles(b, Kept(b))
          ELSE /\ \A o \in Tabs : tab[o].phase # "fetching"
               /\ UNCHANGED <<stored, holder, tab, events>>
    /\ excused' = TRUE
    /\ UNCHANGED <<row, logouts, loggedOut>>


-----------------------------------------------------------------------------
Refresh(b) == StartRefresh(b) \/ Lock(b) \/ Adopt(b) \/ Fetch(b) \/ Receive(b)
              \/ LoseAnswer(b)

Rotate(c) == LookUp(c) \/ Find(c) \/ RevokeOld(c) \/ IssueNew(c) \/ Remember(c)

Next == \/ \E b \in Tabs : Refresh(b) \/ StorageEvent(b) \/ Logout(b) \/ Login(b) \/ Reload(b)
        \/ \E c \in Calls : Rotate(c)
        \/ \E k \in Tokens : GraceExpires(k) \/ RevokeLoggedOut(k) \/ LoseLogout(k)
        \/ Restart

Spec == Init /\ [][Next]_vars

\* The API and the code of a tab run on; navigator.locks is first come, first served.
Fairness == /\ \A b \in Tabs : /\ WF_vars(Adopt(b) \/ Fetch(b))
                               /\ WF_vars(Receive(b))
                               /\ SF_vars(Lock(b))
            /\ \A c \in Calls : WF_vars(Rotate(c))

FairSpec == Spec /\ Fairness

-----------------------------------------------------------------------------
(* Correctness.                                                            *)

\* "Multi-tab safe", and "transient failures must not clear the session": however the tabs
\* refresh and whatever answer is lost, the device is signed out only after a Logout, a
\* restart of the API, a minute without a retry, or a retry that overtakes its call.
StaysSignedIn == stored = NoToken => excused

\* Rotation leaves no second session behind: one row of the device is live at most.
OneLiveRow == ~excused => Cardinality({k \in Tokens : row[k] = "live"}) <= 1

\* A tab's own refresh never writes tokens after Logout was pressed in that tab.
OwnRefreshIsDropped ==
    [][\A b \in Tabs : tab[b].stale /\ tab'[b].phase # tab[b].phase /\ tab'[b].phase = "idle"
                        => stored' = stored]_vars

\* Every refresh comes to an end, whatever is lost and whoever logs out.
RefreshEnds == \A b \in Tabs : tab[b].phase = "waiting" ~> tab[b].phase = "idle"

-----------------------------------------------------------------------------
(* What the repository says and the code does not keep.                    *)

\* "A late token refresh cannot put the old shop back": only signing in, which makes a
\* new row, brings tokens back.  The generation is counted per tab.
LogoutSticks == [][stored = NoToken /\ stored' # NoToken => row[stored'] = "unused"]_vars

\* "Never on network blips": no answer clears the tokens of the device while the API still
\* works on the call of the same token whose own answer was lost.  rotate() revokes the row
\* before it stores the grace entry, and a retry that comes in between is refused.
BlipsKeepSession ==
    [][stored # NoToken /\ stored' = NoToken /\ loggedOut' = loggedOut
         => \A c \in Calls : call[c].old = stored => call[c].at \notin {"revoked", "issued"}]_vars
=============================================================================
