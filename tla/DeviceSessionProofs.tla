------------------------- MODULE DeviceSessionProofs -------------------------
(***************************************************************************)
(* Proofs about DeviceSession, for any number of tabs, of calls at the API *)
(* and of tokens, and for any bound on faults and Logouts: type            *)
(* correctness; that nobody is signed out by refreshing; that rotation     *)
(* leaves one live row; and that a refresh from before a Logout writes     *)
(* nothing.                                                                *)
(***************************************************************************)
EXTENDS DeviceSession, FiniteSetTheorems, TLAPS

-----------------------------------------------------------------------------
(* What holds whatever is lost and whoever logs out.                       *)

\* The lock is with the tab that is under it.
LockHeld == \A b \in Tabs : holder = b <=> tab[b].phase \in {"locked", "fetching"}

\* A refresh knows what it asks for.
Asked == \A b \in Tabs : tab[b].phase # "idle" => tab[b].asked # NoToken

\* A call has a token; one that found its row, a row; one that issued, the new one.
Sound(c) == /\ call[c].at # "free" => call[c].old \in Tokens
            /\ call[c].at = "found" => call[c].old \in Made
            /\ call[c].at = "issued" => call[c].new \in Tokens

\* A tab waits for one call, and only while it fetches.
Awaited(c) == call[c].to # NoTab =>
                /\ tab[call[c].to].phase = "fetching"
                /\ call[c].at # "free"
                /\ \A d \in Calls : call[d].to = call[c].to => d = c

\* Tokens are made up in order, and one is left for each refresh that needs one.
Numbered == \E n \in Nat : Made = 1..n
Spared == Cardinality(Made) + Cardinality(Unserved) + Cardinality(Refreshing) <= MaxTokens

CallsInv == \A c \in Calls : Sound(c) /\ Awaited(c)
Form == TypeOK /\ LockHeld /\ Asked /\ CallsInv /\ Numbered /\ Spared

-----------------------------------------------------------------------------
(* Tokens to spare.                                                        *)

LEMMA NoMore ==
  ASSUME NEW S, IsFiniteSet(S), NEW T \in SUBSET S
  PROVE  IsFiniteSet(T) /\ Cardinality(T) \in Nat /\ Cardinality(T) <= Cardinality(S)
  BY FS_Subset, FS_CardinalityType

LEMMA OneMore ==
  ASSUME NEW S, IsFiniteSet(S), NEW x, NEW T \in SUBSET (S \cup {x})
  PROVE  Cardinality(T) \in Nat /\ Cardinality(T) <= Cardinality(S) + 1
<1>1. /\ IsFiniteSet(S \cup {x}) /\ Cardinality(S) \in Nat
      /\ Cardinality(S \cup {x}) \in {Cardinality(S), Cardinality(S) + 1}
  BY FS_AddElement, FS_CardinalityType
<1>2. Cardinality(T) \in Nat /\ Cardinality(T) <= Cardinality(S \cup {x})
  BY <1>1, NoMore
<1> QED BY <1>1, <1>2

LEMMA OneLess ==
  ASSUME NEW S, IsFiniteSet(S), NEW x \in S, NEW T \in SUBSET (S \ {x})
  PROVE  Cardinality(T) \in Nat /\ Cardinality(T) + 1 <= Cardinality(S)
<1>1. /\ IsFiniteSet(S \ {x}) /\ Cardinality(S) \in Nat
      /\ Cardinality(S \ {x}) = Cardinality(S) - 1
  BY FS_RemoveElement, FS_CardinalityType
<1>2. Cardinality(T) \in Nat /\ Cardinality(T) <= Cardinality(S \ {x})
  BY <1>1, NoMore
<1> QED BY <1>1, <1>2

LEMMA Finite ==
  /\ IsFiniteSet(Made) /\ IsFiniteSet(Unserved) /\ IsFiniteSet(Refreshing)
  /\ Cardinality(Made) \in Nat /\ Cardinality(Unserved) \in Nat /\ Cardinality(Refreshing) \in Nat
<1>1. IsFiniteSet(Tokens)
  BY BoundsAssumption, FS_Interval DEF Tokens
<1> QED BY <1>1, FiniteAssumption, NoMore DEF Made, Unserved, Refreshing

\* The next token is the first that has not been made up.
LEMMA Next1 ==
  ASSUME Numbered, Cardinality(Made) < MaxTokens
  PROVE  /\ NextToken \in Tokens \ Made
         /\ Made \cup {NextToken} = 1..NextToken /\ NextToken \in Nat
<1>1. PICK n \in Nat : Made = 1..n
  BY DEF Numbered
<1>2. Cardinality(Made) = n
  BY <1>1, FS_Interval
<1>3. NextToken = n + 1
  BY <1>2 DEF NextToken
<1>4. n + 1 \in 1..MaxTokens
  BY <1>2, BoundsAssumption
<1> QED BY <1>1, <1>3, <1>4 DEF Tokens

\* No row is made, no call comes and no refresh begins.
LEMMA NothingMade ==
  ASSUME Numbered, Spared, Made' = Made, Unserved' \subseteq Unserved, Refreshing' \subseteq Refreshing
  PROVE  Numbered' /\ Spared'
<1>1. /\ Cardinality(Unserved') \in Nat /\ Cardinality(Unserved') <= Cardinality(Unserved)
      /\ Cardinality(Refreshing') \in Nat /\ Cardinality(Refreshing') <= Cardinality(Refreshing)
  BY Finite, NoMore
<1>2. Cardinality(Made)' = Cardinality(Made) /\ Cardinality(Made) \in Nat
  BY Finite
<1>3. Spared'
  BY <1>1, <1>2, Finite, BoundsAssumption DEF Spared
<1> QED BY <1>3 DEF Numbered

\* One token is made up.
LEMMA OneMade ==
  ASSUME Numbered, Cardinality(Made) < MaxTokens, row \in [Tokens -> RowState],
         row' = [row EXCEPT ![NextToken] = "live"]
  PROVE  /\ NextToken \in Tokens \ Made /\ row' \in [Tokens -> RowState]
         /\ Made' = Made \cup {NextToken} /\ Numbered'
         /\ Cardinality(Made') = Cardinality(Made) + 1
<1>1. /\ NextToken \in Tokens \ Made
      /\ Made \cup {NextToken} = 1..NextToken /\ NextToken \in Nat
  BY Next1
<1>2. row' \in [Tokens -> RowState]
  BY <1>1 DEF RowState
<1>3. Made' = Made \cup {NextToken}
  BY <1>1 DEF Made
<1>4. Numbered'
  BY <1>1, <1>3 DEF Numbered
<1>5. Cardinality(Made \cup {NextToken}) = Cardinality(Made) + 1
  BY <1>1, Finite, FS_AddElement
<1> QED BY <1>1, <1>2, <1>3, <1>4, <1>5

-----------------------------------------------------------------------------
(* The parts of the invariant, one kind of step at a time.                 *)

\* Calls keep their tokens, and who is waited for is still fetched for.
LEMMA CallsFollow ==
  ASSUME Form, Made \subseteq Made',
         \A i \in Calls : /\ \/ call'[i].at = "free"
                             \/ /\ call'[i].at = call[i].at
                                /\ call'[i].old = call[i].old /\ call'[i].new = call[i].new
                          /\ call'[i].to # NoTab => /\ call'[i].to = call[i].to
                                                    /\ call'[i].at # "free"
                                                    /\ tab'[call[i].to].phase = "fetching"
  PROVE  CallsInv'
<1>1. SUFFICES ASSUME NEW c \in Calls PROVE Sound(c)' /\ Awaited(c)'
  BY DEF CallsInv
<1>2. Sound(c)'
  BY <1>1 DEF Form, CallsInv, Sound
<1>3. Awaited(c)'
  <2>1. SUFFICES ASSUME call'[c].to # NoTab, NEW d \in Calls, call'[d].to = call'[c].to PROVE d = c
    BY <1>1 DEF Awaited
  <2> QED BY <1>1, <2>1 DEF Form, CallsInv, Awaited
<1> QED BY <1>2, <1>3

\* The API goes on with call c.
LEMMA TurnsFollow ==
  ASSUME Form, NEW c \in Calls, NEW k \in Call, Turns(c, k), Made \subseteq Made', UNCHANGED tab,
         k.at # "free" => k.old = call[c].old /\ call[c].at # "free",
         k.at = "found" => call[c].old \in Made,
         k.at = "issued" => k.new \in Tokens,
         k.to # NoTab => k.to = call[c].to /\ k.at # "free"
  PROVE  CallsInv' /\ call' \in [Calls -> Call]
<1>1. /\ call' \in [Calls -> Call] /\ call'[c] = k
      /\ \A i \in Calls : i # c => call'[i] = call[i]
  BY DEF Turns, Form, TypeOK
<1>2. SUFFICES ASSUME NEW i \in Calls PROVE Sound(i)' /\ Awaited(i)'
  BY <1>1 DEF CallsInv
<1>3. Sound(i)'
  BY <1>1, <1>2 DEF Form, CallsInv, Sound
<1>4. Awaited(i)'
  <2>1. /\ call'[i].to # NoTab => call'[i].to = call[i].to /\ call'[i].at # "free"
        /\ \A d \in Calls : call'[d].to # NoTab => call'[d].to = call[d].to
    BY <1>1, <1>2 DEF Form, CallsInv, Awaited
  <2> QED BY <1>2, <2>1 DEF Form, CallsInv, Awaited
<1> QED BY <1>3, <1>4

\* No tab does anything but read or write.
LEMMA TabsStay ==
  ASSUME Form, UNCHANGED holder,
         \A b \in Tabs : tab'[b].phase = tab[b].phase /\ tab'[b].asked = tab[b].asked
  PROVE  LockHeld' /\ Asked' /\ Refreshing' = Refreshing
  BY DEF Form, LockHeld, Asked, Refreshing

\* What tab b writes to localStorage.
LEMMA WritesType ==
  ASSUME TypeOK, NEW b \in Tabs, NEW v \in MaybeToken, Writes(b, v)
  PROVE  stored' \in MaybeToken /\ events' \in [Tabs -> Seq(MaybeToken)]
<1>1. \A o \in Tabs : Append(events[o], v) \in Seq(MaybeToken) /\ events[o] \in Seq(MaybeToken)
  BY DEF TypeOK
<1> QED BY <1>1 DEF Writes

LEMMA FreshType == ASSUME NEW v \in MaybeToken
                   PROVE  Fresh(v) \in Tab /\ Fresh(v).phase = "idle" /\ Fresh(v).mem = v
  BY DEF Fresh, Tab, Phases, MaybeToken

\* A refresh of the tab under the lock ends.
LEMMA SettlesForm ==
  ASSUME Form, NEW b \in Tabs, NEW v \in MaybeToken, Settles(b, v),
         tab[b].phase \in {"locked", "fetching"}
  PROVE  /\ stored' \in MaybeToken /\ holder' \in Tabs \cup {NoTab}
         /\ tab' \in [Tabs -> Tab] /\ events' \in [Tabs -> Seq(MaybeToken)]
         /\ LockHeld' /\ Asked' /\ Refreshing' \subseteq Refreshing
         /\ tab'[b].phase = "idle" /\ \A o \in Tabs : o # b => tab'[o] = tab[o]
<1> DEFINE m == IF Outdated(b) THEN tab[b].mem ELSE v
<1>1. m \in MaybeToken
  BY DEF Form, TypeOK, Tab
<1>2. /\ tab' \in [Tabs -> Tab] /\ tab'[b] = Fresh(m) /\ tab'[b].phase = "idle"
      /\ \A o \in Tabs : o # b => tab'[o] = tab[o]
  BY <1>1, FreshType DEF Settles, Goes, Form, TypeOK
<1>3. stored' \in MaybeToken /\ events' \in [Tabs -> Seq(MaybeToken)]
  BY WritesType DEF Settles, Form, TypeOK
<1>4. holder' = NoTab /\ holder = b
  BY DEF Settles, Form, LockHeld
<1>5. LockHeld'
  BY <1>2, <1>4, NobodyAssumption DEF Form, LockHeld
<1>6. Asked' /\ Refreshing' \subseteq Refreshing
  BY <1>2 DEF Form, Asked, Refreshing
<1> QED BY <1>2, <1>3, <1>4, <1>5, <1>6

\* The call it waited for, if there is one, has nobody to answer from now on.
LEMMA LeftCalls ==
  ASSUME Form, NEW b \in Tabs, Made \subseteq Made',
         \A o \in Tabs : o # b => tab'[o] = tab[o],
         call' \in [Calls -> Call],
         \A i \in Calls : \/ call'[i] = FreeCall
                          \/ call[i].to # b /\ call'[i] = call[i]
                          \/ call'[i] = [call[i] EXCEPT !.to = NoTab]
  PROVE  CallsInv' /\ Unserved' \subseteq Unserved
<1>1. \A i \in Calls : call[i] \in Call /\ call'[i] \in Call
  BY DEF Form, TypeOK
<1>2. \A i \in Calls : /\ \/ call'[i].at = "free"
                          \/ /\ call'[i].at = call[i].at
                             /\ call'[i].old = call[i].old /\ call'[i].new = call[i].new
                       /\ call'[i].to # NoTab => /\ call'[i].to = call[i].to /\ call[i].to # b
                                                 /\ call'[i].at = call[i].at
  BY <1>1 DEF FreeCall, Call
<1>3. \A i \in Calls : call'[i].to # NoTab => /\ call'[i].to = call[i].to
                                              /\ call'[i].at # "free"
                                              /\ tab'[call[i].to].phase = "fetching"
  BY <1>1, <1>2 DEF Form, CallsInv, Awaited, Call
<1>4. CallsInv'
  BY <1>2, <1>3, CallsFollow
<1>5. Unserved' \subseteq Unserved
  BY <1>2 DEF Unserved
<1> QED BY <1>4, <1>5

-----------------------------------------------------------------------------
(* The tabs.                                                               *)

LEMMA InitForm == Init => Form
<1> SUFFICES ASSUME Init PROVE Form
  OBVIOUS
<1>1. 1 \in Tokens /\ Tokens \subseteq Nat /\ 0 \notin Tokens
  BY BoundsAssumption DEF Tokens
<1>2. Fresh(1) \in Tab /\ Fresh(1).phase = "idle"
  BY <1>1, FreshType DEF MaybeToken
<1>3. FreeCall \in Call /\ FreeCall.at = "free" /\ FreeCall.to = NoTab
  BY DEF FreeCall, Call, Steps, MaybeToken
<1>4. TypeOK
  <2>1. /\ row \in [Tokens -> RowState] /\ grace \in [Tokens -> MaybeToken] /\ stored \in MaybeToken
    BY <1>1 DEF Init, RowState, MaybeToken
  <2>2. call \in [Calls -> Call] /\ tab \in [Tabs -> Tab]
    BY <1>2, <1>3 DEF Init
  <2>3. events \in [Tabs -> Seq(MaybeToken)]
    <3>1. << >> \in Seq(MaybeToken)
      OBVIOUS
    <3> QED BY <3>1 DEF Init
  <2>4. /\ holder \in Tabs \cup {NoTab} /\ logouts \in SUBSET Tokens
        /\ faults \in 0..MaxFaults /\ loggedOut \in 0..MaxLogouts
    BY BoundsAssumption DEF Init
  <2>5. excused \in BOOLEAN
    BY DEF Init
  <2> QED BY <2>1, <2>2, <2>3, <2>4, <2>5 DEF TypeOK
<1>5. LockHeld /\ Asked
  BY <1>2, NobodyAssumption DEF Init, LockHeld, Asked
<1>6. CallsInv
  BY <1>3 DEF Init, CallsInv, Sound, Awaited
<1>7. Made = 1..1
  <2>1. Made = {1}
    BY <1>1 DEF Init, Made
  <2> QED BY <2>1
<1>8. Unserved = {} /\ Refreshing = {}
  BY <1>2, <1>3 DEF Init, Unserved, Refreshing
<1>9. Numbered /\ Spared
  <2>1. Cardinality(Made) = 1
    <3>1. Made = {1}
      BY <1>7
    <3> QED BY <3>1, FS_Singleton
  <2>2. Cardinality(Unserved) = 0 /\ Cardinality(Refreshing) = 0
    BY <1>8, FS_EmptySet
  <2> QED BY <1>7, <2>1, <2>2, BoundsAssumption DEF Numbered, Spared
<1> QED BY <1>4, <1>5, <1>6, <1>9 DEF Form

LEMMA StartRefreshForm == ASSUME Form, NEW b \in Tabs, StartRefresh(b) PROVE Form'
<1> DEFINE asked == IF tab[b].mem # NoToken THEN tab[b].mem ELSE stored
           k == [To(b, "waiting") EXCEPT !.asked = asked, !.before = tab[b].mem, !.stale = FALSE]
<1>1. /\ tab[b].phase = "idle" /\ asked # NoToken /\ TokenToSpare /\ Goes(b, k)
      /\ UNCHANGED <<row, grace, call, stored, holder, events, logouts, faults, loggedOut, excused>>
  BY DEF StartRefresh, server
<1>2. tab[b] \in Tab /\ tab \in [Tabs -> Tab] /\ asked \in MaybeToken
  BY DEF Form, TypeOK, Tab
<1>3. k \in Tab /\ k.phase = "waiting" /\ k.asked = asked
  BY <1>2 DEF To, Tab, Phases
<1> HIDE DEF k
<1>4. tab' \in [Tabs -> Tab] /\ tab'[b] = k /\ \A o \in Tabs : o # b => tab'[o] = tab[o]
  BY <1>1, <1>2, <1>3 DEF Goes
<1>5. TypeOK'
  BY <1>1, <1>4 DEF Form, TypeOK
<1>6. LockHeld' /\ Asked'
  BY <1>1, <1>3, <1>4 DEF Form, LockHeld, Asked
<1>7. Made' = Made /\ Unserved' = Unserved
  BY <1>1 DEF Made, Unserved
<1>8. CallsInv'
  BY <1>1, <1>4, <1>7 DEF Form, TypeOK, CallsInv, Sound, Awaited, Call
<1>9. Refreshing' \subseteq Refreshing \cup {b}
  BY <1>4 DEF Refreshing
<1>10. Numbered' /\ Spared'
  <2>1. Cardinality(Refreshing') \in Nat /\ Cardinality(Refreshing') <= Cardinality(Refreshing) + 1
    BY <1>9, Finite, OneMore
  <2>2. Cardinality(Made') = Cardinality(Made) /\ Cardinality(Unserved') = Cardinality(Unserved)
    BY <1>7
  <2>3. Cardinality(Made) + Cardinality(Unserved) + Cardinality(Refreshing) < MaxTokens
    BY <1>1 DEF TokenToSpare
  <2>4. Cardinality(Made') + Cardinality(Unserved') + Cardinality(Refreshing') <= MaxTokens
    BY <2>1, <2>2, <2>3, Finite, BoundsAssumption
  <2> QED BY <1>7, <2>4 DEF Form, Numbered, Spared
<1> QED BY <1>5, <1>6, <1>8, <1>10 DEF Form

LEMMA LockForm == ASSUME Form, NEW b \in Tabs, Lock(b) PROVE Form'
<1>1. /\ tab[b].phase = "waiting" /\ holder = NoTab /\ holder' = b /\ Goes(b, To(b, "locked"))
      /\ UNCHANGED <<row, grace, call, stored, events, logouts, faults, loggedOut, excused>>
  BY DEF Lock, server
<1>2. tab[b] \in Tab /\ tab \in [Tabs -> Tab]
  BY DEF Form, TypeOK
<1>3. To(b, "locked") \in Tab /\ To(b, "locked").phase = "locked"
      /\ To(b, "locked").asked = tab[b].asked
  BY <1>2 DEF To, Tab, Phases
<1>4. tab' \in [Tabs -> Tab] /\ tab'[b].phase = "locked" /\ tab'[b].asked = tab[b].asked
      /\ \A o \in Tabs : o # b => tab'[o] = tab[o]
  BY <1>1, <1>2, <1>3 DEF Goes
<1>5. TypeOK'
  BY <1>1, <1>4 DEF Form, TypeOK
<1>6. LockHeld' /\ Asked'
  BY <1>1, <1>4, NobodyAssumption DEF Form, LockHeld, Asked
<1>7. Made' = Made /\ Unserved' = Unserved /\ Refreshing' \subseteq Refreshing
  BY <1>1, <1>4 DEF Made, Unserved, Refreshing
<1>8. CallsInv'
  BY <1>1, <1>4, <1>7 DEF Form, TypeOK, CallsInv, Sound, Awaited, Call
<1>9. Numbered' /\ Spared'
  BY <1>7, NothingMade DEF Form
<1> QED BY <1>5, <1>6, <1>8, <1>9 DEF Form

LEMMA AdoptForm == ASSUME Form, NEW b \in Tabs, Adopt(b) PROVE Form'
<1>1. /\ tab[b].phase = "locked" /\ Settles(b, stored)
      /\ UNCHANGED <<row, grace, call, logouts, faults, loggedOut, excused>>
  BY DEF Adopt, server
<1>2. stored \in MaybeToken
  BY DEF Form, TypeOK
<1>3. /\ stored' \in MaybeToken /\ holder' \in Tabs \cup {NoTab}
      /\ tab' \in [Tabs -> Tab] /\ events' \in [Tabs -> Seq(MaybeToken)]
      /\ LockHeld' /\ Asked' /\ Refreshing' \subseteq Refreshing
      /\ \A o \in Tabs : o # b => tab'[o] = tab[o]
  BY <1>1, <1>2, SettlesForm
<1>4. TypeOK'
  BY <1>1, <1>3 DEF Form, TypeOK
<1>5. Made' = Made
  BY <1>1 DEF Made
<1>6. \A i \in Calls : call[i].to # b
  BY <1>1, NobodyAssumption DEF Form, CallsInv, Awaited
<1>7. CallsInv' /\ Unserved' \subseteq Unserved
  BY <1>1, <1>3, <1>5, <1>6, LeftCalls DEF Form, TypeOK
<1>8. Numbered' /\ Spared'
  BY <1>3, <1>5, <1>7, NothingMade DEF Form
<1> QED BY <1>3, <1>4, <1>7, <1>8 DEF Form

LEMMA FetchForm == ASSUME Form, NEW b \in Tabs, Fetch(b) PROVE Form'
<1> DEFINE k == [FreeCall EXCEPT !.at = "arrived", !.to = b, !.old = tab[b].asked]
           g == [To(b, "fetching") EXCEPT !.kept = stored]
<1>1. /\ tab[b].phase = "locked" /\ Goes(b, g)
      /\ UNCHANGED <<row, grace, stored, holder, events, logouts, faults, loggedOut, excused>>
  BY DEF Fetch
<1>2. PICK c \in Calls : call[c].at = "free" /\ call' = [call EXCEPT ![c] = k]
  BY DEF Fetch
<1>3. tab[b] \in Tab /\ tab \in [Tabs -> Tab] /\ stored \in MaybeToken
  BY DEF Form, TypeOK
<1>4. tab[b].asked \in Tokens
  BY <1>1, <1>3 DEF Form, Asked, Tab, MaybeToken
<1>5. k \in Call /\ k.at = "arrived" /\ k.to = b /\ k.old = tab[b].asked
  BY <1>3 DEF FreeCall, Call, Steps, MaybeToken, Tab
<1>6. g \in Tab /\ g.phase = "fetching" /\ g.asked = tab[b].asked
  BY <1>3 DEF To, Tab, Phases
<1> HIDE DEF k, g
<1>7. tab' \in [Tabs -> Tab] /\ tab'[b] = g /\ \A o \in Tabs : o # b => tab'[o] = tab[o]
  BY <1>1, <1>3, <1>6 DEF Goes
<1>8. /\ call' \in [Calls -> Call] /\ call'[c] = k
      /\ \A i \in Calls : i # c => call'[i] = call[i]
  BY <1>2, <1>5 DEF Form, TypeOK
<1>9. TypeOK'
  BY <1>1, <1>7, <1>8 DEF Form, TypeOK
<1>10. LockHeld' /\ Asked'
  BY <1>1, <1>4, <1>6, <1>7 DEF Form, LockHeld, Asked
<1>11. Made' = Made
  BY <1>1 DEF Made
<1>12. CallsInv'
  <2>1. \A i \in Calls : call[i].to # b
    BY <1>1, NobodyAssumption DEF Form, CallsInv, Awaited
  <2>2. SUFFICES ASSUME NEW i \in Calls PROVE Sound(i)' /\ Awaited(i)'
    BY DEF CallsInv
  <2>3. Sound(i)'
    BY <1>4, <1>5, <1>8, <1>11 DEF Form, CallsInv, Sound
  <2>4. Awaited(i)'
    <3>1. CASE i = c
      BY <1>5, <1>6, <1>7, <1>8, <2>1, <3>1 DEF Awaited
    <3>2. CASE i # c
      <4>1. call[i].to \in Tabs \cup {NoTab}
        BY DEF Form, TypeOK, Call
      <4> QED BY <1>5, <1>7, <1>8, <2>1, <3>2, <4>1 DEF Form, CallsInv, Awaited
    <3> QED BY <3>1, <3>2
  <2> QED BY <2>3, <2>4
<1>13. Unserved' \subseteq Unserved \cup {c}
  BY <1>8 DEF Unserved
<1>14. b \in Refreshing /\ Refreshing' \subseteq Refreshing \ {b}
  BY <1>1, <1>6, <1>7 DEF Refreshing
<1>15. Numbered' /\ Spared'
  <2>1. Cardinality(Unserved') \in Nat /\ Cardinality(Unserved') <= Cardinality(Unserved) + 1
    BY <1>13, Finite, OneMore
  <2>2. Cardinality(Refreshing') \in Nat /\ Cardinality(Refreshing') + 1 <= Cardinality(Refreshing)
    BY <1>14, Finite, OneLess
  <2>3. Cardinality(Made') = Cardinality(Made)
    BY <1>11
  <2>4. Cardinality(Made') + Cardinality(Unserved') + Cardinality(Refreshing') <= MaxTokens
    BY <2>1, <2>2, <2>3, Finite, BoundsAssumption DEF Form, Spared
  <2> QED BY <1>11, <2>4 DEF Form, Numbered, Spared
<1> QED BY <1>9, <1>10, <1>12, <1>15 DEF Form

\* The answer came, or was lost.
LEMMA ReceiveForm == ASSUME Form, NEW b \in Tabs, Receive(b) \/ LoseAnswer(b) PROVE Form'
<1>1. PICK c \in Calls, v \in MaybeToken, k \in Call :
        /\ tab[b].phase = "fetching" /\ call[c].to = b /\ Settles(b, v)
        /\ call' = [call EXCEPT ![c] = k]
        /\ k = FreeCall \/ k = [call[c] EXCEPT !.to = NoTab]
        /\ faults' \in 0..MaxFaults
        /\ UNCHANGED <<row, grace, logouts, loggedOut, excused>>
  <2>1. CASE Receive(b)
    <3>1. PICK c \in Calls : /\ tab[b].phase = "fetching" /\ call[c].to = b
                             /\ Settles(b, call[c].new) /\ call' = [call EXCEPT ![c] = FreeCall]
                             /\ UNCHANGED <<row, grace, logouts, faults, loggedOut, excused>>
      BY <2>1 DEF Receive
    <3>2. call[c].new \in MaybeToken /\ FreeCall \in Call /\ faults \in 0..MaxFaults
      BY DEF Form, TypeOK, Call, FreeCall, Steps, MaybeToken
    <3> QED BY <3>1, <3>2
  <2>2. CASE LoseAnswer(b)
    <3>1. PICK c \in Calls : /\ tab[b].phase = "fetching" /\ call[c].to = b /\ Fault
                             /\ Settles(b, Kept(b)) /\ call' = [call EXCEPT ![c].to = NoTab]
                             /\ UNCHANGED <<row, grace, logouts, loggedOut, excused>>
      BY <2>2 DEF LoseAnswer
    <3> DEFINE k == [call[c] EXCEPT !.to = NoTab]
    <3>2. Kept(b) \in MaybeToken
      BY DEF Kept, Form, TypeOK, Tab
    <3>3. k \in Call
      BY DEF Form, TypeOK, Call
    <3>4. call' = [call EXCEPT ![c] = k]
      BY <3>1
    <3>5. faults' \in 0..MaxFaults
      BY <3>1, BoundsAssumption DEF Fault, Form, TypeOK
    <3> QED BY <3>1, <3>2, <3>3, <3>4, <3>5
  <2> QED BY <2>1, <2>2
<1>2. /\ stored' \in MaybeToken /\ holder' \in Tabs \cup {NoTab}
      /\ tab' \in [Tabs -> Tab] /\ events' \in [Tabs -> Seq(MaybeToken)]
      /\ LockHeld' /\ Asked' /\ Refreshing' \subseteq Refreshing
      /\ \A o \in Tabs : o # b => tab'[o] = tab[o]
  BY <1>1, SettlesForm
<1>3. /\ call' \in [Calls -> Call] /\ call'[c] = k
      /\ \A i \in Calls : i # c => call'[i] = call[i] /\ call[i].to # b
  BY <1>1, NobodyAssumption DEF Form, TypeOK, CallsInv, Awaited
<1>4. TypeOK'
  BY <1>1, <1>2, <1>3 DEF Form, TypeOK
<1>5. Made' = Made
  BY <1>1 DEF Made
<1>6. CallsInv' /\ Unserved' \subseteq Unserved
  BY <1>1, <1>2, <1>3, <1>5, LeftCalls
<1>7. Numbered' /\ Spared'
  BY <1>2, <1>5, <1>6, NothingMade DEF Form
<1> QED BY <1>2, <1>4, <1>6, <1>7 DEF Form

\* A storage event, or a Logout: the tab goes on with what it was doing.
LEMMA ListensForm == ASSUME Form, NEW b \in Tabs, StorageEvent(b) \/ Logout(b) PROVE Form'
<1>1. /\ UNCHANGED <<row, grace, call, holder, faults>>
      /\ \E k \in Tab : /\ Goes(b, k)
                        /\ k.phase = tab[b].phase /\ k.asked = tab[b].asked
      /\ stored' \in MaybeToken /\ events' \in [Tabs -> Seq(MaybeToken)]
      /\ logouts' \in SUBSET Tokens /\ loggedOut' \in 0..MaxLogouts /\ excused' \in BOOLEAN
  <2>1. tab[b] \in Tab
    BY DEF Form, TypeOK
  <2>2. CASE StorageEvent(b)
    <3>1. /\ events[b] # << >> /\ events' = [events EXCEPT ![b] = Tail(@)]
          /\ Goes(b, [tab[b] EXCEPT !.mem = Head(events[b])])
          /\ UNCHANGED <<row, grace, call, stored, holder, logouts, faults, loggedOut, excused>>
      BY <2>2 DEF StorageEvent, server
    <3>2. events[b] \in Seq(MaybeToken) /\ events \in [Tabs -> Seq(MaybeToken)]
      BY DEF Form, TypeOK
    <3>3. Head(events[b]) \in MaybeToken /\ Tail(events[b]) \in Seq(MaybeToken)
      BY <3>1, <3>2
    <3>4. events' \in [Tabs -> Seq(MaybeToken)]
      BY <3>1, <3>2, <3>3
    <3> DEFINE k == [tab[b] EXCEPT !.mem = Head(events[b])]
    <3>5. k \in Tab /\ k.phase = tab[b].phase /\ k.asked = tab[b].asked
      BY <2>1, <3>3 DEF Tab
    <3>6. Goes(b, k)
      BY <3>1
    <3> HIDE DEF k
    <3> QED BY <3>1, <3>4, <3>5, <3>6 DEF Form, TypeOK
  <2>3. CASE Logout(b)
    <3> DEFINE k == [tab[b] EXCEPT !.mem = NoToken, !.stale = (tab[b].phase # "idle")]
    <3>1. /\ tab[b].mem # NoToken /\ loggedOut < MaxLogouts /\ loggedOut' = loggedOut + 1
          /\ Writes(b, NoToken) /\ Goes(b, k) /\ logouts' = logouts \cup {tab[b].mem}
          /\ excused' = TRUE /\ UNCHANGED <<row, grace, call, holder, faults>>
      BY <2>3 DEF Logout, server
    <3>2. NoToken \in MaybeToken
      BY DEF MaybeToken
    <3>3. stored' \in MaybeToken /\ events' \in [Tabs -> Seq(MaybeToken)]
      BY <3>1, <3>2, WritesType DEF Form
    <3>4. k \in Tab /\ k.phase = tab[b].phase /\ k.asked = tab[b].asked
      BY <2>1, <3>2 DEF Tab
    <3> HIDE DEF k
    <3>5. logouts' \in SUBSET Tokens /\ loggedOut' \in 0..MaxLogouts /\ excused' \in BOOLEAN
      BY <2>1, <3>1, BoundsAssumption DEF Form, TypeOK, Tab, MaybeToken
    <3> QED BY <3>1, <3>3, <3>4, <3>5
  <2> QED BY <2>2, <2>3
<1>2. /\ tab' \in [Tabs -> Tab]
      /\ \A o \in Tabs : tab'[o].phase = tab[o].phase /\ tab'[o].asked = tab[o].asked
  BY <1>1 DEF Goes, Form, TypeOK
<1>3. TypeOK'
  BY <1>1, <1>2 DEF Form, TypeOK
<1>4. LockHeld' /\ Asked' /\ Refreshing' = Refreshing
  BY <1>1, <1>2, TabsStay
<1>5. Made' = Made /\ Unserved' = Unserved
  BY <1>1 DEF Made, Unserved
<1>6. CallsInv'
  BY <1>1, <1>2, <1>5 DEF Form, TypeOK, CallsInv, Sound, Awaited, Call
<1>7. Numbered' /\ Spared'
  BY <1>4, <1>5, NothingMade DEF Form
<1> QED BY <1>3, <1>4, <1>6, <1>7 DEF Form

LEMMA LoginForm == ASSUME Form, NEW b \in Tabs, Login(b) PROVE Form'
<1> DEFINE k == [tab[b] EXCEPT !.mem = NextToken]
<1>1. /\ TokenToSpare /\ row' = [row EXCEPT ![NextToken] = "live"] /\ Writes(b, NextToken)
      /\ Goes(b, k) /\ UNCHANGED <<grace, call, holder, logouts, faults, loggedOut, excused>>
  BY DEF Login
<1>2. Cardinality(Made) < MaxTokens
  BY <1>1, Finite, BoundsAssumption DEF TokenToSpare
<1>3. /\ NextToken \in Tokens \ Made /\ row' \in [Tokens -> RowState]
      /\ Made' = Made \cup {NextToken} /\ Numbered'
      /\ Cardinality(Made') = Cardinality(Made) + 1
  BY <1>1, <1>2, OneMade DEF Form, TypeOK
<1>4. stored' \in MaybeToken /\ events' \in [Tabs -> Seq(MaybeToken)]
  BY <1>1, <1>3, WritesType DEF Form, MaybeToken
<1>5. k \in Tab /\ k.phase = tab[b].phase /\ k.asked = tab[b].asked
  BY <1>3 DEF Form, TypeOK, Tab, MaybeToken
<1> HIDE DEF k
<1>6. /\ tab' \in [Tabs -> Tab]
      /\ \A o \in Tabs : tab'[o].phase = tab[o].phase /\ tab'[o].asked = tab[o].asked
  BY <1>1, <1>5 DEF Goes, Form, TypeOK
<1>7. TypeOK'
  BY <1>1, <1>3, <1>4, <1>6 DEF Form, TypeOK
<1>8. LockHeld' /\ Asked' /\ Refreshing' = Refreshing
  BY <1>1, <1>6, TabsStay
<1>9. Unserved' = Unserved
  BY <1>1 DEF Unserved
<1>10. CallsInv'
  BY <1>1, <1>3, <1>6 DEF Form, TypeOK, CallsInv, Sound, Awaited, Call
<1>11. Spared'
  <2>1. Cardinality(Unserved)' = Cardinality(Unserved) /\ Cardinality(Refreshing)' = Cardinality(Refreshing)
    BY <1>8, <1>9
  <2> QED BY <1>1, <1>3, <2>1, Finite, BoundsAssumption DEF Spared, TokenToSpare
<1> QED BY <1>3, <1>7, <1>8, <1>10, <1>11 DEF Form

LEMMA ReloadForm == ASSUME Form, NEW b \in Tabs, Reload(b) PROVE Form'
<1>1. /\ Goes(b, Fresh(stored)) /\ events' = [events EXCEPT ![b] = << >>]
      /\ holder' = (IF holder = b THEN NoTab ELSE holder)
      /\ call' = [c \in Calls |-> IF call[c].to = b THEN [call[c] EXCEPT !.to = NoTab] ELSE call[c]]
      /\ UNCHANGED <<row, grace, stored, logouts, loggedOut, excused>>
  BY DEF Reload
<1>2. faults' \in 0..MaxFaults
  BY BoundsAssumption DEF Reload, Fault, Form, TypeOK
<1>3. Fresh(stored) \in Tab /\ Fresh(stored).phase = "idle"
  BY FreshType DEF Form, TypeOK
<1>4. /\ tab' \in [Tabs -> Tab] /\ tab'[b].phase = "idle"
      /\ \A o \in Tabs : o # b => tab'[o] = tab[o]
  BY <1>1, <1>3 DEF Goes, Form, TypeOK
<1>5. events' \in [Tabs -> Seq(MaybeToken)]
  <2>1. << >> \in Seq(MaybeToken)
    OBVIOUS
  <2> QED BY <1>1, <2>1 DEF Form, TypeOK
<1>6. call' \in [Calls -> Call]
  <2>1. \A c \in Calls : call[c] \in Call /\ [call[c] EXCEPT !.to = NoTab] \in Call
    BY DEF Form, TypeOK, Call
  <2> QED BY <1>1, <2>1
<1>7. TypeOK'
  BY <1>1, <1>2, <1>4, <1>5, <1>6 DEF Form, TypeOK
<1>8. LockHeld' /\ Asked' /\ Refreshing' \subseteq Refreshing
  BY <1>1, <1>4, NobodyAssumption DEF Form, TypeOK, LockHeld, Asked, Refreshing
<1>9. Made' = Made
  BY <1>1 DEF Made
<1>10. \A i \in Calls : \/ call[i].to # b /\ call'[i] = call[i]
                        \/ call'[i] = [call[i] EXCEPT !.to = NoTab]
  BY <1>1
<1>11. CallsInv' /\ Unserved' \subseteq Unserved
  BY <1>4, <1>6, <1>9, <1>10, LeftCalls
<1>12. Numbered' /\ Spared'
  BY <1>8, <1>9, <1>11, NothingMade DEF Form
<1> QED BY <1>7, <1>8, <1>11, <1>12 DEF Form

-----------------------------------------------------------------------------
(* The API.                                                                *)

\* What is left of a call that is over.
LEMMA DoneType ==
  ASSUME Form, NEW c \in Calls, NEW at \in {"ok", "refused"}, NEW new \in MaybeToken
  PROVE  /\ Done(c, at, new) \in Call
         /\ Done(c, at, new).at \in {at, "free"}
         /\ Done(c, at, new).at # "free" => /\ Done(c, at, new).old = call[c].old
                                            /\ Done(c, at, new).new = new
                                            /\ Done(c, at, new).to = call[c].to
                                            /\ call[c].to # NoTab
         /\ Done(c, at, new).to # NoTab => Done(c, at, new).to = call[c].to /\ Done(c, at, new).at # "free"
<1>1. call[c] \in Call
  BY DEF Form, TypeOK
<1>2. CASE call[c].to = NoTab
  BY <1>2 DEF Done, FreeCall, Call, Steps, MaybeToken
<1>3. CASE call[c].to # NoTab
  BY <1>1, <1>3 DEF Done, Call, Steps
<1> QED BY <1>2, <1>3

\* The API goes on with a call and makes no row.
LEMMA TurnsForm ==
  ASSUME Form, NEW c \in Calls, NEW k \in Call, Turns(c, k),
         UNCHANGED <<stored, holder, tab, events, logouts, faults, loggedOut>>,
         row' \in [Tokens -> RowState], Made' = Made,
         grace' \in [Tokens -> MaybeToken], excused' \in BOOLEAN,
         k.at # "free" => k.old = call[c].old /\ call[c].at # "free",
         k.at = "found" => call[c].old \in Made,
         k.at = "issued" => k.new \in Tokens,
         k.to # NoTab => k.to = call[c].to /\ k.at # "free",
         k.at \in {"arrived", "missed", "found", "revoked"} => c \in Unserved
  PROVE  Form'
<1>1. CallsInv' /\ call' \in [Calls -> Call]
  BY TurnsFollow
<1>2. TypeOK'
  BY <1>1 DEF Form, TypeOK
<1>3. LockHeld' /\ Asked' /\ Refreshing' = Refreshing
  BY DEF Form, LockHeld, Asked, Refreshing
<1>4. Unserved' \subseteq Unserved
  BY DEF Turns, Unserved, Form, TypeOK
<1>5. Numbered' /\ Spared'
  BY <1>3, <1>4, NothingMade DEF Form
<1> QED BY <1>1, <1>2, <1>3, <1>5 DEF Form

LEMMA LookUpForm == ASSUME Form, NEW c \in Calls, LookUp(c) PROVE Form'
<1> DEFINE known == grace[call[c].old]
           k == IF known # NoToken THEN Done(c, "ok", known) ELSE [call[c] EXCEPT !.at = "missed"]
<1>1. /\ call[c].at = "arrived" /\ Turns(c, k)
      /\ excused' = (excused \/ (known = NoToken /\ Overtakes(c)))
      /\ UNCHANGED <<row, grace, stored, holder, tab, events, logouts, faults, loggedOut>>
  BY DEF LookUp, At
<1>2. /\ call[c] \in Call /\ call[c].old \in Tokens /\ known \in MaybeToken /\ c \in Unserved
      /\ call[c].to # NoTab => call[c].at # "free"
  BY <1>1 DEF Form, TypeOK, CallsInv, Sound, Awaited, Unserved
<1>3. /\ k \in Call /\ k.at \in {"ok", "free", "missed"}
      /\ k.at # "free" => k.old = call[c].old
      /\ k.to # NoTab => k.to = call[c].to /\ k.at # "free"
  BY <1>2, DoneType DEF Call, Steps
<1> HIDE DEF k
<1>4. /\ row' \in [Tokens -> RowState] /\ grace' \in [Tokens -> MaybeToken]
      /\ excused' \in BOOLEAN /\ Made' = Made
  BY <1>1 DEF Form, TypeOK, Made, Overtakes
<1> QED BY <1>1, <1>2, <1>3, <1>4, TurnsForm

LEMMA FindForm == ASSUME Form, NEW c \in Calls, Find(c) PROVE Form'
<1> DEFINE k == IF Usable(call[c].old) THEN [call[c] EXCEPT !.at = "found"]
                ELSE Done(c, "refused", NoToken)
<1>1. /\ call[c].at = "missed" /\ Turns(c, k)
      /\ UNCHANGED <<row, grace, stored, holder, tab, events, logouts, faults, loggedOut, excused>>
  BY DEF Find, At
<1>2. /\ call[c] \in Call /\ call[c].old \in Tokens /\ c \in Unserved /\ NoToken \in MaybeToken
      /\ call[c].to # NoTab => call[c].at # "free"
  BY <1>1 DEF Form, TypeOK, CallsInv, Sound, Awaited, Unserved, MaybeToken
<1>3. /\ k \in Call /\ k.at \in {"refused", "free", "found"}
      /\ k.at # "free" => k.old = call[c].old
      /\ k.to # NoTab => k.to = call[c].to /\ k.at # "free"
      /\ k.at = "found" => call[c].old \in Made
  BY <1>2, DoneType DEF Call, Steps, Usable, Made
<1> HIDE DEF k
<1>4. /\ row' \in [Tokens -> RowState] /\ grace' \in [Tokens -> MaybeToken]
      /\ excused' \in BOOLEAN /\ Made' = Made
  BY <1>1 DEF Form, TypeOK, Made
<1> QED BY <1>1, <1>2, <1>3, <1>4, TurnsForm

LEMMA RevokeOldForm == ASSUME Form, NEW c \in Calls, RevokeOld(c) PROVE Form'
<1> DEFINE k == [call[c] EXCEPT !.at = "revoked"]
<1>1. /\ call[c].at = "found" /\ Turns(c, k) /\ row' = [row EXCEPT ![call[c].old] = "revoked"]
      /\ UNCHANGED <<grace, stored, holder, tab, events, logouts, faults, loggedOut, excused>>
  BY DEF RevokeOld, At
<1>2. /\ call[c] \in Call /\ call[c].old \in Made /\ c \in Unserved
      /\ call[c].to # NoTab => call[c].at # "free"
  BY <1>1 DEF Form, TypeOK, CallsInv, Sound, Awaited, Unserved
<1>3. /\ k \in Call /\ k.at = "revoked" /\ k.old = call[c].old /\ k.to = call[c].to
  BY <1>2 DEF Call, Steps
<1> HIDE DEF k
<1>4. /\ row' \in [Tokens -> RowState] /\ grace' \in [Tokens -> MaybeToken]
      /\ excused' \in BOOLEAN /\ Made' = Made
  BY <1>1, <1>2 DEF Form, TypeOK, Made, RowState
<1> QED BY <1>1, <1>2, <1>3, <1>4, TurnsForm

LEMMA IssueNewForm == ASSUME Form, NEW c \in Calls, IssueNew(c)
                      PROVE Form' /\ NextToken \in Tokens \ Made
<1> DEFINE k == [call[c] EXCEPT !.at = "issued", !.new = NextToken]
<1>1. /\ call[c].at = "revoked" /\ Turns(c, k) /\ row' = [row EXCEPT ![NextToken] = "live"]
      /\ UNCHANGED <<grace, stored, holder, tab, events, logouts, faults, loggedOut, excused>>
  BY DEF IssueNew, At
<1>2. /\ call[c] \in Call /\ c \in Unserved
      /\ call[c].to # NoTab => call[c].at # "free"
  BY <1>1 DEF Form, TypeOK, CallsInv, Awaited, Unserved
<1>3. Cardinality({}) \in Nat /\ Cardinality({}) + 1 <= Cardinality(Unserved)
  BY <1>2, Finite, OneLess
<1>4. Cardinality(Made) < MaxTokens
  BY <1>3, Finite, FS_EmptySet, BoundsAssumption DEF Form, Spared
<1>5. /\ NextToken \in Tokens \ Made /\ row' \in [Tokens -> RowState]
      /\ Made' = Made \cup {NextToken} /\ Numbered'
      /\ Cardinality(Made') = Cardinality(Made) + 1
  BY <1>1, <1>4, OneMade DEF Form, TypeOK
<1>6. k \in Call /\ k.at = "issued" /\ k.old = call[c].old /\ k.to = call[c].to /\ k.new = NextToken
  BY <1>2, <1>5 DEF Call, Steps, MaybeToken
<1> HIDE DEF k
<1>7. CallsInv' /\ call' \in [Calls -> Call]
  BY <1>1, <1>2, <1>5, <1>6, TurnsFollow
<1>8. TypeOK'
  BY <1>1, <1>5, <1>7 DEF Form, TypeOK
<1>9. LockHeld' /\ Asked' /\ Refreshing' = Refreshing
  BY <1>1 DEF Form, LockHeld, Asked, Refreshing
<1>10. Unserved' \subseteq Unserved \ {c}
  BY <1>1, <1>6 DEF Turns, Unserved, Form, TypeOK
<1>11. Spared'
  <2>1. Cardinality(Unserved') \in Nat /\ Cardinality(Unserved') + 1 <= Cardinality(Unserved)
    BY <1>2, <1>10, Finite, OneLess
  <2>2. Cardinality(Refreshing)' = Cardinality(Refreshing)
    BY <1>9
  <2> QED BY <1>5, <2>1, <2>2, Finite, BoundsAssumption DEF Form, Spared
<1> QED BY <1>5, <1>7, <1>8, <1>9, <1>11 DEF Form

LEMMA RememberForm == ASSUME Form, NEW c \in Calls, Remember(c) PROVE Form'
<1> DEFINE k == Done(c, "ok", call[c].new)
<1>1. /\ call[c].at = "issued" /\ Turns(c, k) /\ grace' = [grace EXCEPT ![call[c].old] = call[c].new]
      /\ UNCHANGED <<row, stored, holder, tab, events, logouts, faults, loggedOut, excused>>
  BY DEF Remember, At
<1>2. /\ call[c] \in Call /\ call[c].old \in Tokens /\ call[c].new \in Tokens
      /\ call[c].new \in MaybeToken
  BY <1>1 DEF Form, TypeOK, CallsInv, Sound, MaybeToken
<1>3. /\ k \in Call /\ k.at \in {"ok", "free"}
      /\ k.at # "free" => k.old = call[c].old
      /\ k.to # NoTab => k.to = call[c].to /\ k.at # "free"
  BY <1>2, DoneType
<1> HIDE DEF k
<1>4. /\ row' \in [Tokens -> RowState] /\ grace' \in [Tokens -> MaybeToken]
      /\ excused' \in BOOLEAN /\ Made' = Made
  BY <1>1, <1>2 DEF Form, TypeOK, Made
<1> QED BY <1>1, <1>2, <1>3, <1>4, TurnsForm

LEMMA AsideForm ==
  ASSUME Form, NEW k \in Tokens, GraceExpires(k) \/ RevokeLoggedOut(k) \/ LoseLogout(k)
  PROVE  Form'
<1>1. UNCHANGED <<call, stored, holder, tab, events, faults, loggedOut>>
  BY DEF GraceExpires, RevokeLoggedOut, LoseLogout, server
<1>2. /\ row' \in [Tokens -> RowState] /\ Made' = Made
      /\ grace' \in [Tokens -> MaybeToken] /\ logouts' \in SUBSET Tokens /\ excused' \in BOOLEAN
  <2>1. NoToken \in MaybeToken
    BY DEF MaybeToken
  <2>2. CASE GraceExpires(k)
    BY <2>1, <2>2 DEF GraceExpires, Form, TypeOK, Made
  <2>3. CASE RevokeLoggedOut(k)
    BY <2>3 DEF RevokeLoggedOut, Form, TypeOK, Made, RowState
  <2>4. CASE LoseLogout(k)
    BY <2>4 DEF LoseLogout, server, Form, TypeOK, Made
  <2> QED BY <2>2, <2>3, <2>4
<1>3. TypeOK'
  BY <1>1, <1>2 DEF Form, TypeOK
<1>4. LockHeld' /\ Asked' /\ Refreshing' = Refreshing /\ Unserved' = Unserved
  BY <1>1 DEF Form, LockHeld, Asked, Refreshing, Unserved
<1>5. CallsInv'
  BY <1>1, <1>2 DEF Form, CallsInv, Sound, Awaited
<1>6. Numbered' /\ Spared'
  BY <1>2, <1>4, NothingMade DEF Form
<1> QED BY <1>3, <1>4, <1>5, <1>6 DEF Form

LEMMA RestartForm == ASSUME Form, Restart PROVE Form'
<1>1. /\ grace' = [k \in Tokens |-> NoToken] /\ call' = [c \in Calls |-> FreeCall]
      /\ excused' = TRUE /\ UNCHANGED <<row, logouts, loggedOut>>
  BY DEF Restart
<1>2. faults' \in 0..MaxFaults
  BY BoundsAssumption DEF Restart, Fault, Form, TypeOK
<1>3. /\ stored' \in MaybeToken /\ holder' \in Tabs \cup {NoTab}
      /\ tab' \in [Tabs -> Tab] /\ events' \in [Tabs -> Seq(MaybeToken)]
      /\ LockHeld' /\ Asked' /\ Refreshing' \subseteq Refreshing
  <2>1. PICK b \in Tabs : IF tab[b].phase = "fetching" THEN Settles(b, Kept(b))
                          ELSE UNCHANGED <<stored, holder, tab, events>>
    BY DEF Restart
  <2>2. CASE tab[b].phase = "fetching"
    <3>1. Kept(b) \in MaybeToken
      BY DEF Kept, Form, TypeOK, Tab
    <3> QED BY <2>1, <2>2, <3>1, SettlesForm
  <2>3. CASE tab[b].phase # "fetching"
    BY <2>1, <2>3 DEF Form, TypeOK, LockHeld, Asked, Refreshing
  <2> QED BY <2>2, <2>3
<1>4. FreeCall \in Call /\ FreeCall.at = "free" /\ FreeCall.to = NoTab
  BY DEF FreeCall, Call, Steps, MaybeToken
<1>5. TypeOK'
  <2>1. NoToken \in MaybeToken
    BY DEF MaybeToken
  <2> QED BY <1>1, <1>2, <1>3, <1>4, <2>1 DEF Form, TypeOK
<1>6. CallsInv'
  BY <1>1, <1>4 DEF CallsInv, Sound, Awaited
<1>7. Made' = Made /\ Unserved' \subseteq Unserved
  BY <1>1, <1>4 DEF Made, Unserved
<1>8. Numbered' /\ Spared'
  BY <1>3, <1>7, NothingMade DEF Form
<1> QED BY <1>3, <1>5, <1>6, <1>8 DEF Form

LEMMA FormNext == ASSUME Form, [Next]_vars PROVE Form'
<1>1. CASE \E b \in Tabs : Refresh(b) \/ StorageEvent(b) \/ Logout(b) \/ Login(b) \/ Reload(b)
  BY <1>1, StartRefreshForm, LockForm, AdoptForm, FetchForm, ReceiveForm, ListensForm, LoginForm,
     ReloadForm DEF Refresh
<1>2. CASE \E c \in Calls : Rotate(c)
  BY <1>2, LookUpForm, FindForm, RevokeOldForm, IssueNewForm, RememberForm DEF Rotate
<1>3. CASE \E k \in Tokens : GraceExpires(k) \/ RevokeLoggedOut(k) \/ LoseLogout(k)
  BY <1>3, AsideForm
<1>4. CASE Restart
  BY <1>4, RestartForm
<1>5. CASE UNCHANGED vars
  BY <1>5 DEF vars, server, Form, TypeOK, LockHeld, Asked, CallsInv, Sound, Awaited, Numbered, Spared,
              Made, Unserved, Refreshing
<1> QED BY <1>1, <1>2, <1>3, <1>4, <1>5 DEF Next

-----------------------------------------------------------------------------
(* The session, as long as nothing has happened that may end it.  One call *)
(* at most is at work on the stored token; the live row is that token's,   *)
(* or its successor's once the API has issued one, and the grace map leads *)
(* from the one to the other.                                              *)

InWork(c) == call[c].at \in {"missed", "found", "revoked", "issued"}

\* Every tab has tokens, and will be told of tokens.
TabsSignedIn == /\ stored \in Tokens /\ logouts = {}
                /\ events \in [Tabs -> Seq(Tokens)]
                /\ \A b \in Tabs : /\ tab[b].mem \in Tokens
                                   /\ tab[b].phase = "fetching" => tab[b].kept = stored

\* A token with a successor is used up.
Graced == \A k \in Tokens : grace[k] # NoToken => row[k] = "revoked"

\* What a call can be about.
Placed(c) == /\ call[c].to # NoTab => call[c].old = stored
             /\ InWork(c) => call[c].old = stored /\ grace[stored] = NoToken
             /\ call[c].at \in {"missed", "found"} => row[stored] = "live"
             /\ call[c].at \in {"revoked", "issued"} => row[stored] = "revoked"
             /\ call[c].at = "arrived" => call[c].old = stored \/ grace[call[c].old] # NoToken
             /\ call[c].at # "refused"
             /\ call[c].at = "ok" /\ call[c].to # NoTab =>
                  call[c].new = grace[stored] /\ grace[stored] # NoToken

OneInWork == \A c, d \in Calls : InWork(c) /\ InWork(d) => c = d

\* Whose row is live.
Heir(k) == \/ grace[stored] # NoToken /\ k = grace[stored]
           \/ /\ grace[stored] = NoToken
              /\ \/ k = stored /\ \A c \in Calls : call[c].at \notin {"revoked", "issued"}
                 \/ \E c \in Calls : call[c].at = "issued" /\ call[c].new = k

Inherited == \A k \in Tokens : row[k] = "live" <=> Heir(k)

Session == /\ TabsSignedIn /\ Graced /\ OneInWork /\ Inherited
           /\ \A c \in Calls : Placed(c)

SessionInv == ~excused => Session

LEMMA InitSession == Init => SessionInv
<1> SUFFICES ASSUME Init PROVE Session
  BY DEF SessionInv
<1>1. 1 \in Tokens /\ 0 \notin Tokens
  BY BoundsAssumption DEF Tokens
<1>2. \A c \in Calls : call[c].at = "free" /\ call[c].to = NoTab
  BY DEF Init, FreeCall
<1>3. Fresh(1).mem = 1 /\ Fresh(1).phase = "idle"
  BY DEF Fresh
<1>4. << >> \in Seq(Tokens)
  OBVIOUS
<1>5. TabsSignedIn
  BY <1>1, <1>3, <1>4 DEF Init, TabsSignedIn
<1>6. Graced /\ OneInWork /\ Inherited /\ \A c \in Calls : Placed(c)
  BY <1>1, <1>2 DEF Init, Graced, OneInWork, InWork, Inherited, Heir, Placed
<1> QED BY <1>5, <1>6 DEF Session

-----------------------------------------------------------------------------
(* The tabs.                                                               *)

\* The API stays as it is, but for calls that have answered and for who waits.
LEMMA ApiStays ==
  ASSUME Form, Session, UNCHANGED <<row, grace, stored, logouts>>,
         events' \in [Tabs -> Seq(Tokens)],
         \A b \in Tabs : /\ tab'[b].mem \in Tokens
                         /\ tab'[b].phase = "fetching" => tab'[b].kept = stored,
         \A i \in Calls : \/ call[i].at = "ok" /\ call'[i] = FreeCall
                          \/ /\ call'[i].at = call[i].at /\ call'[i].old = call[i].old
                             /\ call'[i].new = call[i].new /\ call'[i].to \in {call[i].to, NoTab}
  PROVE  Session'
<1>1. FreeCall.at = "free" /\ FreeCall.to = NoTab
  BY DEF FreeCall
<1>2. TabsSignedIn' /\ Graced'
  BY DEF Session, TabsSignedIn, Graced
<1>3. OneInWork'
  BY <1>1 DEF Session, OneInWork, InWork
<1>4. \A k : Heir(k)' <=> Heir(k)
  BY <1>1 DEF Heir
<1>5. Inherited'
  BY <1>4 DEF Session, Inherited
<1>6. \A c \in Calls : Placed(c)'
  BY <1>1 DEF Session, Placed, InWork
<1> QED BY <1>2, <1>3, <1>5, <1>6 DEF Session

\* A tab that neither writes nor sends.
LEMMA QuietTabSession ==
  ASSUME Form, Session, NEW b \in Tabs, StartRefresh(b) \/ Lock(b) \/ StorageEvent(b)
  PROVE  Session'
<1>1. UNCHANGED <<row, grace, call, stored, logouts>>
  BY DEF StartRefresh, Lock, StorageEvent, server
<1>2. /\ \A o \in Tabs : tab[o] \in Tab /\ tab[o].mem \in Tokens
      /\ tab \in [Tabs -> Tab] /\ events \in [Tabs -> Seq(Tokens)]
  BY DEF Form, TypeOK, Session, TabsSignedIn
<1>3. events' \in [Tabs -> Seq(Tokens)]
  <2>1. CASE StorageEvent(b)
    <3>1. events[b] # << >> /\ events' = [events EXCEPT ![b] = Tail(@)]
      BY <2>1 DEF StorageEvent
    <3>2. events[b] \in Seq(Tokens)
      BY <1>2
    <3>3. Tail(events[b]) \in Seq(Tokens)
      BY <3>1, <3>2
    <3> QED BY <1>2, <3>1, <3>3
  <2>2. CASE StartRefresh(b) \/ Lock(b)
    BY <1>2, <2>2 DEF StartRefresh, Lock
  <2> QED BY <2>1, <2>2
<1>4. \A o \in Tabs : o # b => tab'[o] = tab[o]
  BY <1>2 DEF StartRefresh, Lock, StorageEvent, Goes
<1>5. tab'[b].mem \in Tokens /\ (tab'[b].phase = "fetching" => tab'[b].kept = stored)
  <2>1. CASE StorageEvent(b)
    <3>1. events[b] # << >> /\ Goes(b, [tab[b] EXCEPT !.mem = Head(events[b])])
      BY <2>1 DEF StorageEvent
    <3>2. events[b] \in Seq(Tokens)
      BY <1>2
    <3>3. Head(events[b]) \in Tokens
      BY <3>1, <3>2
    <3>4. tab'[b] = [tab[b] EXCEPT !.mem = Head(events[b])]
      BY <1>2, <3>1 DEF Goes
    <3>5. tab'[b].mem = Head(events[b]) /\ tab'[b].phase = tab[b].phase /\ tab'[b].kept = tab[b].kept
      BY <1>2, <3>4 DEF Tab
    <3> QED BY <3>3, <3>5 DEF Session, TabsSignedIn
  <2>2. CASE StartRefresh(b)
    <3> DEFINE asked == IF tab[b].mem # NoToken THEN tab[b].mem ELSE stored
    <3>1. tab'[b] = [To(b, "waiting") EXCEPT !.asked = asked, !.before = tab[b].mem, !.stale = FALSE]
      BY <1>2, <2>2 DEF StartRefresh, Goes
    <3>2. tab'[b].mem = tab[b].mem /\ tab'[b].phase = "waiting"
      BY <1>2, <3>1 DEF To, Tab
    <3> QED BY <1>2, <3>2
  <2>3. CASE Lock(b)
    <3>1. tab'[b] = To(b, "locked")
      BY <1>2, <2>3 DEF Lock, Goes
    <3>2. tab'[b].mem = tab[b].mem /\ tab'[b].phase = "locked"
      BY <1>2, <3>1 DEF To, Tab
    <3> QED BY <1>2, <3>2
  <2> QED BY <2>1, <2>2, <2>3
<1>6. \A o \in Tabs : /\ tab'[o].mem \in Tokens
                      /\ tab'[o].phase = "fetching" => tab'[o].kept = stored
  BY <1>4, <1>5 DEF Session, TabsSignedIn
<1>7. \A i \in Calls : /\ call'[i].at = call[i].at /\ call'[i].old = call[i].old
                       /\ call'[i].new = call[i].new /\ call'[i].to \in {call[i].to, NoTab}
  BY <1>1
<1> QED BY <1>1, <1>3, <1>6, <1>7, ApiStays

\* A refresh that ends where it began, or with a token it is told of.
LEMMA SettlesSession ==
  ASSUME Form, Session, NEW b \in Tabs, NEW v \in Tokens, Settles(b, v)
  PROVE  /\ stored' \in {stored, v} /\ events' \in [Tabs -> Seq(Tokens)]
         /\ \A o \in Tabs : /\ tab'[o].mem \in Tokens
                            /\ o # b => tab'[o] = tab[o]
         /\ tab'[b].phase = "idle"
         /\ Outdated(b) => stored' = stored
         /\ ~Outdated(b) => stored' = v
<1>1. /\ \A o \in Tabs : tab[o].mem \in Tokens /\ events[o] \in Seq(Tokens)
      /\ tab \in [Tabs -> Tab] /\ events \in [Tabs -> Seq(Tokens)]
  BY DEF Form, TypeOK, Session, TabsSignedIn
<1>2. /\ tab'[b] = Fresh(IF Outdated(b) THEN tab[b].mem ELSE v)
      /\ \A o \in Tabs : o # b => tab'[o] = tab[o]
  BY <1>1 DEF Settles, Goes
<1>3. tab'[b].mem \in Tokens /\ tab'[b].phase = "idle"
  BY <1>1, <1>2 DEF Fresh
<1>4. /\ stored' \in {stored, v} /\ (Outdated(b) => stored' = stored)
      /\ ~Outdated(b) => stored' = v
  BY DEF Settles, Writes
<1>5. events' \in [Tabs -> Seq(Tokens)]
  <2>1. \A o \in Tabs : Append(events[o], v) \in Seq(Tokens)
    BY <1>1
  <2> QED BY <1>1, <2>1 DEF Settles, Writes
<1> QED BY <1>1, <1>2, <1>3, <1>4, <1>5

\* Only the tab under the lock fetches.
LEMMA OneFetches ==
  ASSUME Form, NEW b \in Tabs, tab[b].phase \in {"locked", "fetching"}
  PROVE  /\ \A o \in Tabs : o # b => tab[o].phase # "fetching"
         /\ \A i \in Calls : call[i].to \in {b, NoTab}
         /\ tab[b].phase = "locked" => \A i \in Calls : call[i].to = NoTab
<1>1. \A o \in Tabs : o # b => tab[o].phase # "fetching"
  BY NobodyAssumption DEF Form, LockHeld
<1>2. \A i \in Calls : call[i].to \in Tabs \cup {NoTab}
  BY DEF Form, TypeOK, Call
<1> QED BY <1>1, <1>2 DEF Form, CallsInv, Awaited

LEMMA AdoptSession == ASSUME Form, Session, NEW b \in Tabs, Adopt(b) PROVE Session'
<1>1. tab[b].phase = "locked" /\ Settles(b, stored) /\ UNCHANGED <<row, grace, call, logouts>>
  BY DEF Adopt, server
<1>2. stored \in Tokens
  BY DEF Session, TabsSignedIn
<1>3. /\ stored' = stored /\ events' \in [Tabs -> Seq(Tokens)]
      /\ \A o \in Tabs : /\ tab'[o].mem \in Tokens
                         /\ o # b => tab'[o] = tab[o]
      /\ tab'[b].phase = "idle"
  BY <1>1, <1>2, SettlesSession
<1>4. \A o \in Tabs : tab'[o].phase = "fetching" => tab'[o].kept = stored
  BY <1>3 DEF Session, TabsSignedIn
<1>5. \A i \in Calls : /\ call'[i].at = call[i].at /\ call'[i].old = call[i].old
                       /\ call'[i].new = call[i].new /\ call'[i].to \in {call[i].to, NoTab}
  BY <1>1
<1> QED BY <1>1, <1>3, <1>4, <1>5, ApiStays

LEMMA FetchSession == ASSUME Form, Session, NEW b \in Tabs, Fetch(b) PROVE Session'
<1> DEFINE k == [FreeCall EXCEPT !.at = "arrived", !.to = b, !.old = tab[b].asked]
           g == [To(b, "fetching") EXCEPT !.kept = stored]
<1>1. /\ tab[b].phase = "locked" /\ ~OthersRefreshed(b) /\ Goes(b, g)
      /\ UNCHANGED <<row, grace, stored, events, logouts>>
  BY DEF Fetch
<1>2. PICK c \in Calls : call[c].at = "free" /\ call' = [call EXCEPT ![c] = k]
  BY DEF Fetch
<1>3. /\ tab[b] \in Tab /\ tab \in [Tabs -> Tab] /\ stored \in Tokens /\ 0 \notin Tokens
  BY DEF Form, TypeOK, Session, TabsSignedIn, Tokens
<1>4. tab[b].asked = stored
  BY <1>1, <1>3 DEF OthersRefreshed, NoToken
<1>5. k.at = "arrived" /\ k.to = b /\ k.old = stored
  BY <1>4 DEF FreeCall
<1>6. g.phase = "fetching" /\ g.kept = stored /\ g.mem = tab[b].mem
  BY <1>3 DEF To, Tab
<1> HIDE DEF k, g
<1>7. tab'[b] = g /\ \A o \in Tabs : o # b => tab'[o] = tab[o]
  BY <1>1, <1>3 DEF Goes
<1>8. call'[c] = k /\ \A i \in Calls : i # c => call'[i] = call[i]
  BY <1>2 DEF Form, TypeOK
<1>9. TabsSignedIn' /\ Graced'
  BY <1>1, <1>6, <1>7 DEF Session, TabsSignedIn, Graced
<1>10. OneInWork'
  BY <1>5, <1>8 DEF Session, OneInWork, InWork
<1>11. \A t : Heir(t)' <=> Heir(t)
  BY <1>1, <1>2, <1>5, <1>8 DEF Heir
<1>12. Inherited'
  BY <1>1, <1>11 DEF Session, Inherited
<1>13. \A i \in Calls : Placed(i)'
  BY <1>1, <1>5, <1>8 DEF Session, Placed, InWork
<1> QED BY <1>9, <1>10, <1>12, <1>13 DEF Session

\* The tab stores the successor, whose row is the live one.
LEMMA ReceiveSession == ASSUME Form, Session, NEW b \in Tabs, Receive(b) PROVE Session'
<1> DEFINE n == grace[stored]
<1>1. PICK c \in Calls :
        /\ tab[b].phase = "fetching" /\ call[c].to = b /\ call[c].at \in {"ok", "refused"}
        /\ Settles(b, call[c].new) /\ call' = [call EXCEPT ![c] = FreeCall]
        /\ UNCHANGED <<row, grace, logouts>>
  BY DEF Receive
<1>2. b # NoTab /\ stored \in Tokens
  BY NobodyAssumption DEF Session, TabsSignedIn
<1>3. call[c].at = "ok" /\ call[c].new = n /\ n # NoToken
  BY <1>1, <1>2 DEF Session, Placed
<1>4. n \in Tokens
  BY <1>2, <1>3 DEF Form, TypeOK, MaybeToken
<1>5. row[n] = "live" /\ grace[n] = NoToken
  BY <1>3, <1>4 DEF Session, Inherited, Heir, Graced
<1>6. /\ call'[c] = FreeCall
      /\ \A i \in Calls : i # c => call'[i] = call[i] /\ call[i].to = NoTab
  BY <1>1, <1>2, OneFetches DEF Form, TypeOK, CallsInv, Awaited
<1>7. Settles(b, n)
  BY <1>1, <1>3
<1>8. /\ stored' \in {stored, n} /\ events' \in [Tabs -> Seq(Tokens)]
      /\ \A o \in Tabs : /\ tab'[o].mem \in Tokens
                         /\ o # b => tab'[o] = tab[o]
      /\ tab'[b].phase = "idle"
  BY <1>4, <1>7, SettlesSession
<1>9. \A o \in Tabs : tab'[o].phase # "fetching"
  BY <1>1, <1>8, OneFetches
<1>10. CASE stored' = stored
  BY <1>1, <1>3, <1>6, <1>8, <1>9, <1>10, ApiStays
<1>11. CASE stored' = n
  <2> HIDE DEF n
  <2>1. FreeCall.at = "free" /\ FreeCall.to = NoTab
    BY DEF FreeCall
  <2>2. \A i \in Calls : ~InWork(i)
    BY <1>3 DEF Session, Placed, n
  <2>3. \A i \in Calls : ~InWork(i)' /\ call'[i].to = NoTab
    BY <1>6, <2>1, <2>2 DEF InWork
  <2>4. TabsSignedIn' /\ Graced' /\ OneInWork'
    BY <1>1, <1>4, <1>8, <1>9, <1>11, <2>3 DEF Session, TabsSignedIn, Graced, OneInWork
  <2>5. Inherited'
    <3>1. \A k \in Tokens : row[k] = "live" <=> k = n
      BY <1>3 DEF Session, Inherited, Heir, n
    <3>2. grace'[stored'] = NoToken
      BY <1>1, <1>5, <1>11
    <3>3. \A i \in Calls : call'[i].at \notin {"revoked", "issued"}
      BY <2>3 DEF InWork
    <3> QED BY <1>1, <1>11, <3>1, <3>2, <3>3 DEF Inherited, Heir
  <2>6. \A i \in Calls : Placed(i)'
    <3>1. SUFFICES ASSUME NEW i \in Calls PROVE Placed(i)'
      OBVIOUS
    <3>2. CASE i = c
      BY <1>6, <2>1, <3>2 DEF Placed, InWork
    <3>3. CASE i # c
      <4>1. call'[i] = call[i] /\ Placed(i) /\ ~InWork(i)' /\ call'[i].to = NoTab
        BY <1>6, <2>3, <3>3 DEF Session
      <4>2. call[i].at = "arrived" => grace[call[i].old] # NoToken
        BY <1>3, <4>1 DEF Placed, n
      <4> QED BY <1>1, <4>1, <4>2 DEF Placed, InWork
    <3> QED BY <3>2, <3>3
  <2> QED BY <2>4, <2>5, <2>6 DEF Session
<1> QED BY <1>8, <1>10, <1>11

\* The tab keeps what there was, and that is what is stored.
LEMMA LoseAnswerSession == ASSUME Form, Session, NEW b \in Tabs, LoseAnswer(b) PROVE Session'
<1>1. PICK c \in Calls : /\ tab[b].phase = "fetching" /\ call[c].to = b
                         /\ Settles(b, Kept(b)) /\ call' = [call EXCEPT ![c].to = NoTab]
                         /\ UNCHANGED <<row, grace, logouts>>
  BY DEF LoseAnswer
<1>2. stored \in Tokens /\ 0 \notin Tokens /\ tab[b].kept = stored
  BY <1>1 DEF Session, TabsSignedIn, Tokens
<1>3. Kept(b) = stored
  BY <1>2 DEF Kept, NoToken
<1>4. Settles(b, stored)
  BY <1>1, <1>3
<1>5. /\ stored' = stored /\ events' \in [Tabs -> Seq(Tokens)]
      /\ \A o \in Tabs : /\ tab'[o].mem \in Tokens
                         /\ o # b => tab'[o] = tab[o]
      /\ tab'[b].phase = "idle"
  BY <1>2, <1>4, SettlesSession
<1>6. \A o \in Tabs : tab'[o].phase = "fetching" => tab'[o].kept = stored
  BY <1>5 DEF Session, TabsSignedIn
<1>7. \A i \in Calls : /\ call'[i].at = call[i].at /\ call'[i].old = call[i].old
                       /\ call'[i].new = call[i].new /\ call'[i].to \in {call[i].to, NoTab}
  BY <1>1 DEF Form, TypeOK, Call
<1> QED BY <1>1, <1>5, <1>6, <1>7, ApiStays

LEMMA ReloadSession == ASSUME Form, Session, NEW b \in Tabs, Reload(b) PROVE Session'
<1>1. /\ Goes(b, Fresh(stored)) /\ events' = [events EXCEPT ![b] = << >>]
      /\ call' = [c \in Calls |-> IF call[c].to = b THEN [call[c] EXCEPT !.to = NoTab] ELSE call[c]]
      /\ UNCHANGED <<row, grace, stored, logouts>>
  BY DEF Reload
<1>2. stored \in Tokens /\ events \in [Tabs -> Seq(Tokens)] /\ << >> \in Seq(Tokens)
  BY DEF Session, TabsSignedIn
<1>3. events' \in [Tabs -> Seq(Tokens)]
  BY <1>1, <1>2
<1>4. /\ tab'[b].mem = stored /\ tab'[b].phase = "idle"
      /\ \A o \in Tabs : o # b => tab'[o] = tab[o]
  BY <1>1 DEF Goes, Fresh, Form, TypeOK
<1>5. \A o \in Tabs : /\ tab'[o].mem \in Tokens
                      /\ tab'[o].phase = "fetching" => tab'[o].kept = stored
  BY <1>2, <1>4 DEF Session, TabsSignedIn
<1>6. \A i \in Calls : /\ call'[i].at = call[i].at /\ call'[i].old = call[i].old
                       /\ call'[i].new = call[i].new /\ call'[i].to \in {call[i].to, NoTab}
  BY <1>1 DEF Form, TypeOK, Call
<1> QED BY <1>1, <1>3, <1>5, <1>6, ApiStays

-----------------------------------------------------------------------------
(* The API.                                                                *)

\* A call that a rotation moves on; the device does nothing.
LEMMA TurnedCall ==
  ASSUME Form, NEW c \in Calls, NEW k, Turns(c, k)
  PROVE  call'[c] = k /\ \A i \in Calls : i # c => call'[i] = call[i]
  BY DEF Turns, Form, TypeOK

LEMMA DeviceStays ==
  ASSUME Session, UNCHANGED <<stored, tab, events, logouts>>
  PROVE  TabsSignedIn'
  BY DEF Session, TabsSignedIn

\* A call looks at the grace map; if it goes on, no other is at work on its token.
LEMMA LookUpSession ==
  ASSUME Form, Session, NEW c \in Calls, LookUp(c), ~excused'
  PROVE  Session'
<1> DEFINE known == grace[call[c].old]
           k == IF known # NoToken THEN Done(c, "ok", known) ELSE [call[c] EXCEPT !.at = "missed"]
<1>1. /\ call[c].at = "arrived" /\ Turns(c, k)
      /\ UNCHANGED <<row, grace, stored, holder, tab, events, logouts>>
      /\ known # NoToken \/ ~Overtakes(c)
  BY DEF LookUp, At
<1>2. Placed(c) /\ call[c] \in Call /\ stored \in Tokens
  BY DEF Form, TypeOK, Session, TabsSignedIn
<1>3. call'[c] = k /\ \A i \in Calls : i # c => call'[i] = call[i]
  BY <1>1, TurnedCall
<1>4. TabsSignedIn' /\ Graced'
  BY <1>1, DeviceStays DEF Session, Graced
<1>5. CASE known # NoToken
  <2>1. k \in {FreeCall, [call[c] EXCEPT !.at = "ok", !.new = known]}
    BY <1>5 DEF Done
  <2> HIDE DEF k, known
  <2>2. /\ k.at \in {"free", "ok"}
        /\ k.to # NoTab => k.to = call[c].to /\ k.old = call[c].old /\ k.new = known
    <3>1. CASE k = FreeCall
      BY <3>1 DEF FreeCall
    <3>2. CASE k = [call[c] EXCEPT !.at = "ok", !.new = known]
      BY <1>2, <3>2 DEF Call
    <3> QED BY <2>1, <3>1, <3>2
  <2> USE DEF known
  <2>3. OneInWork'
    BY <1>3, <2>2 DEF Session, OneInWork, InWork
  <2>4. \A t : Heir(t)' <=> Heir(t)
    BY <1>1, <1>3, <2>2 DEF Heir
  <2>5. Inherited'
    BY <1>1, <2>4 DEF Session, Inherited
  <2>6. \A i \in Calls : Placed(i)'
    <3>1. SUFFICES ASSUME NEW i \in Calls PROVE Placed(i)'
      OBVIOUS
    <3>2. CASE i = c
      BY <1>1, <1>2, <1>3, <1>5, <2>2, <3>2 DEF Placed, InWork
    <3>3. CASE i # c
      BY <1>1, <1>3, <3>3 DEF Session, Placed, InWork
    <3> QED BY <3>2, <3>3
  <2> QED BY <1>4, <2>3, <2>5, <2>6 DEF Session
<1>6. CASE known = NoToken
  <2>1. k = [call[c] EXCEPT !.at = "missed"]
    BY <1>6
  <2>2. k.at = "missed" /\ k.to = call[c].to /\ k.old = call[c].old
    BY <1>2, <2>1 DEF Call
  <2>3. call[c].old = stored /\ grace[stored] = NoToken
    BY <1>1, <1>2, <1>6 DEF Placed
  <2> HIDE DEF k, known
  <2>4. \A i \in Calls : ~InWork(i)
    <3>1. SUFFICES ASSUME NEW i \in Calls, InWork(i) PROVE FALSE
      OBVIOUS
    <3>2. i # c /\ call[i].old = call[c].old
      BY <1>1, <2>3, <3>1 DEF Session, Placed, InWork
    <3>3. Overtakes(c)
      BY <3>1, <3>2 DEF Overtakes, InWork
    <3> QED BY <1>1, <1>6, <3>3
  <2>5. OneInWork'
    BY <1>3, <2>4 DEF OneInWork, InWork
  <2>6. \A t : Heir(t)' <=> Heir(t)
    BY <1>1, <1>3, <2>2 DEF Heir
  <2>7. Inherited'
    BY <1>1, <2>6 DEF Session, Inherited
  <2>8. row[stored] = "live"
    BY <1>2, <2>3, <2>4 DEF Session, Inherited, Heir, InWork
  <2>9. \A i \in Calls : Placed(i)'
    <3>1. SUFFICES ASSUME NEW i \in Calls PROVE Placed(i)'
      OBVIOUS
    <3>2. CASE i = c
      BY <1>1, <1>3, <2>2, <2>3, <2>8, <3>2 DEF Placed, InWork
    <3>3. CASE i # c
      BY <1>1, <1>3, <3>3 DEF Session, Placed, InWork
    <3> QED BY <3>2, <3>3
  <2> QED BY <1>4, <2>5, <2>7, <2>9 DEF Session
<1> QED BY <1>5, <1>6

\* The only call at work moves on: what it then is about, and whose row is live.
LEMMA WorkGoesOn ==
  ASSUME Form, Session, NEW c \in Calls, InWork(c), NEW k, Turns(c, k),
         UNCHANGED <<stored, holder, tab, events, logouts>>,
         k.to \in {call[c].to, NoTab}, k.to # NoTab => k.old = call[c].old,
         Graced', Inherited', Placed(c)',
         \A i \in Calls : call[i].at = "arrived" => grace'[call[i].old] = grace[call[i].old] \/ call[i].old = stored
  PROVE  Session'
<1>1. call'[c] = k /\ \A i \in Calls : i # c => call'[i] = call[i]
  BY TurnedCall
<1>2. \A i \in Calls : i # c => ~InWork(i)
  BY DEF Session, OneInWork
<1>3. OneInWork'
  BY <1>1, <1>2 DEF OneInWork, InWork
<1>4. grace[stored] = NoToken
  BY DEF Session, Placed
<1>5. \A i \in Calls : i # c => Placed(i)'
  <2>1. SUFFICES ASSUME NEW i \in Calls, i # c PROVE Placed(i)'
    OBVIOUS
  <2>2. call'[i] = call[i] /\ ~InWork(i) /\ Placed(i)
    BY <1>1, <1>2, <2>1 DEF Session
  <2> QED BY <1>4, <2>2 DEF Placed, InWork
<1>6. TabsSignedIn'
  BY DeviceStays
<1> QED BY <1>3, <1>5, <1>6 DEF Session

LEMMA FindSession == ASSUME Form, Session, NEW c \in Calls, Find(c) PROVE Session'
<1> DEFINE k == [call[c] EXCEPT !.at = "found"]
<1>1. /\ call[c].at = "missed" /\ UNCHANGED <<row, grace, stored, holder, tab, events, logouts>>
      /\ Turns(c, IF Usable(call[c].old) THEN k ELSE Done(c, "refused", NoToken))
  BY DEF Find, At
<1>2. InWork(c) /\ Placed(c) /\ call[c] \in Call
  BY <1>1 DEF InWork, Form, TypeOK, Session
<1>3. Usable(call[c].old)
  BY <1>1, <1>2 DEF Placed, Usable
<1>4. Turns(c, k)
  BY <1>1, <1>3
<1>5. k.at = "found" /\ k.to = call[c].to /\ k.old = call[c].old
  BY <1>2 DEF Call
<1> HIDE DEF k
<1>6. call'[c] = k /\ \A i \in Calls : i # c => call'[i] = call[i]
  BY <1>4, TurnedCall
<1>7. \A t : Heir(t)' <=> Heir(t)
  BY <1>1, <1>5, <1>6 DEF Heir
<1>8. Inherited' /\ Graced'
  BY <1>1, <1>7 DEF Session, Inherited, Graced
<1>9. Placed(c)'
  BY <1>1, <1>2, <1>5, <1>6 DEF Placed, InWork
<1> QED BY <1>1, <1>2, <1>4, <1>5, <1>8, <1>9, WorkGoesOn

LEMMA RevokeOldSession == ASSUME Form, Session, NEW c \in Calls, RevokeOld(c) PROVE Session'
<1> DEFINE k == [call[c] EXCEPT !.at = "revoked"]
<1>1. /\ call[c].at = "found" /\ Turns(c, k) /\ row' = [row EXCEPT ![call[c].old] = "revoked"]
      /\ UNCHANGED <<grace, stored, holder, tab, events, logouts>>
  BY DEF RevokeOld, At
<1>2. InWork(c) /\ Placed(c) /\ call[c] \in Call /\ stored \in Tokens
  BY <1>1 DEF InWork, Form, TypeOK, Session, TabsSignedIn
<1>3. call[c].old = stored /\ grace[stored] = NoToken
  BY <1>2 DEF Placed
<1>4. k.at = "revoked" /\ k.to = call[c].to /\ k.old = call[c].old
  BY <1>2 DEF Call
<1> HIDE DEF k
<1>5. call'[c] = k /\ \A i \in Calls : i # c => call'[i] = call[i]
  BY <1>1, TurnedCall
<1>6. row'[stored] = "revoked" /\ \A t \in Tokens : t # stored => row'[t] = row[t]
  BY <1>1, <1>2, <1>3 DEF Form, TypeOK
<1>7. \A i \in Calls : i # c => call[i].at \notin {"revoked", "issued"}
  BY <1>2 DEF Session, OneInWork, InWork
<1>8. \A t \in Tokens : row[t] = "live" => t = stored
  BY <1>1, <1>3, <1>7 DEF Session, Inherited, Heir
<1>9. \A t : ~Heir(t)'
  BY <1>1, <1>3, <1>4, <1>5, <1>7 DEF Heir
<1>10. Inherited'
  BY <1>6, <1>8, <1>9 DEF Inherited
<1>11. Graced'
  BY <1>1, <1>6 DEF Session, Graced
<1>12. Placed(c)'
  BY <1>1, <1>2, <1>3, <1>4, <1>5, <1>6 DEF Placed, InWork
<1> QED BY <1>1, <1>2, <1>4, <1>10, <1>11, <1>12, WorkGoesOn

LEMMA IssueNewSession == ASSUME Form, Session, NEW c \in Calls, IssueNew(c) PROVE Session'
<1> DEFINE n == NextToken
           k == [call[c] EXCEPT !.at = "issued", !.new = n]
<1>1. /\ call[c].at = "revoked" /\ Turns(c, k) /\ row' = [row EXCEPT ![n] = "live"]
      /\ UNCHANGED <<grace, stored, holder, tab, events, logouts>>
  BY DEF IssueNew, At
<1>2. InWork(c) /\ Placed(c) /\ call[c] \in Call /\ stored \in Tokens
  BY <1>1 DEF InWork, Form, TypeOK, Session, TabsSignedIn
<1>3. call[c].old = stored /\ grace[stored] = NoToken /\ row[stored] = "revoked"
  BY <1>1, <1>2 DEF Placed
<1>4. n \in Tokens /\ row[n] = "unused"
  BY IssueNewForm DEF Made
<1>5. k.at = "issued" /\ k.to = call[c].to /\ k.old = call[c].old /\ k.new = n
  BY <1>2 DEF Call
<1> HIDE DEF k, n
<1>6. call'[c] = k /\ \A i \in Calls : i # c => call'[i] = call[i]
  BY <1>1, TurnedCall
<1>7. row'[n] = "live" /\ \A t \in Tokens : t # n => row'[t] = row[t]
  BY <1>1, <1>4 DEF Form, TypeOK
<1>8. \A i \in Calls : i # c => call[i].at \notin {"revoked", "issued"}
  BY <1>2 DEF Session, OneInWork, InWork
<1>9. \A t \in Tokens : row[t] # "live"
  BY <1>1, <1>3, <1>8 DEF Session, Inherited, Heir
<1>10. \A t : Heir(t)' <=> t = n
  BY <1>1, <1>3, <1>5, <1>6, <1>8 DEF Heir
<1>11. Inherited'
  BY <1>7, <1>9, <1>10 DEF Inherited
<1>12. Graced'
  BY <1>1, <1>4, <1>7 DEF Session, Graced
<1>13. Placed(c)'
  BY <1>1, <1>2, <1>3, <1>4, <1>5, <1>6, <1>7 DEF Placed, InWork
<1> QED BY <1>1, <1>2, <1>5, <1>11, <1>12, <1>13, WorkGoesOn

LEMMA RememberSession == ASSUME Form, Session, NEW c \in Calls, Remember(c) PROVE Session'
<1> DEFINE n == call[c].new
           k == Done(c, "ok", n)
<1>1. /\ call[c].at = "issued" /\ Turns(c, k) /\ grace' = [grace EXCEPT ![call[c].old] = n]
      /\ UNCHANGED <<row, stored, holder, tab, events, logouts>>
  BY DEF Remember, At
<1>2. InWork(c) /\ Placed(c) /\ call[c] \in Call /\ stored \in Tokens /\ n \in Tokens /\ 0 \notin Tokens
  BY <1>1 DEF InWork, Form, TypeOK, CallsInv, Sound, Session, TabsSignedIn, Tokens
<1>3. call[c].old = stored /\ grace[stored] = NoToken /\ row[stored] = "revoked"
  BY <1>1, <1>2 DEF Placed
<1>4. k \in {FreeCall, [call[c] EXCEPT !.at = "ok", !.new = n]}
  BY DEF Done
<1> HIDE DEF k
<1>5. /\ k.at \in {"free", "ok"} /\ k.to \in {call[c].to, NoTab}
      /\ k.to # NoTab => k.old = call[c].old /\ k.new = n
  <2>1. CASE k = FreeCall
    BY <2>1 DEF FreeCall
  <2>2. CASE k = [call[c] EXCEPT !.at = "ok", !.new = n]
    BY <1>2, <2>2 DEF Call
  <2> QED BY <1>4, <2>1, <2>2
<1>6. call'[c] = k /\ \A i \in Calls : i # c => call'[i] = call[i]
  BY <1>1, TurnedCall
<1>7. grace'[stored] = n /\ \A t \in Tokens : t # stored => grace'[t] = grace[t]
  BY <1>1, <1>2, <1>3 DEF Form, TypeOK
<1>8. \A i \in Calls : call[i].at = "issued" => i = c
  BY <1>2 DEF Session, OneInWork, InWork
<1>9. \A t \in Tokens : row[t] = "live" <=> t = n
  BY <1>1, <1>3, <1>8 DEF Session, Inherited, Heir
<1>10. \A t : Heir(t)' <=> t = n
  BY <1>1, <1>2, <1>7 DEF Heir, NoToken
<1>11. Inherited'
  BY <1>1, <1>9, <1>10 DEF Inherited
<1>12. Graced'
  BY <1>1, <1>3, <1>7 DEF Session, Graced
<1>13. Placed(c)'
  BY <1>1, <1>2, <1>3, <1>5, <1>6, <1>7 DEF Placed, InWork, NoToken
<1>14. \A i \in Calls : call[i].at = "arrived" => grace'[call[i].old] = grace[call[i].old] \/ call[i].old = stored
  BY <1>7 DEF Form, CallsInv, Sound
<1> QED BY <1>1, <1>2, <1>5, <1>11, <1>12, <1>13, <1>14, WorkGoesOn

\* A minute has passed over a token that is not the stored one.
LEMMA GraceExpiresSession ==
  ASSUME Form, Session, NEW k \in Tokens, GraceExpires(k), ~excused'
  PROVE  Session'
<1>1. /\ \A c \in Calls : call[c].at = "free" \/ call[c].old # k
      /\ grace' = [grace EXCEPT ![k] = NoToken] /\ stored # k
      /\ UNCHANGED <<row, call, stored, holder, tab, events, logouts>>
  BY DEF GraceExpires, At
<1>2. grace'[k] = NoToken /\ \A t \in Tokens : t # k => grace'[t] = grace[t]
  BY <1>1 DEF Form, TypeOK
<1>3. stored \in Tokens /\ grace'[stored] = grace[stored]
  BY <1>1, <1>2 DEF Session, TabsSignedIn
<1>4. TabsSignedIn' /\ Graced' /\ OneInWork'
  BY <1>1, <1>2, DeviceStays DEF Session, Graced, OneInWork, InWork
<1>5. \A t : Heir(t)' <=> Heir(t)
  BY <1>1, <1>3 DEF Heir
<1>6. Inherited'
  BY <1>1, <1>5 DEF Session, Inherited
<1>7. \A c \in Calls : Placed(c)'
  <2>1. SUFFICES ASSUME NEW c \in Calls PROVE Placed(c)'
    OBVIOUS
  <2>2. call[c].at = "arrived" => grace'[call[c].old] = grace[call[c].old]
    BY <1>1, <1>2 DEF Form, CallsInv, Sound
  <2> QED BY <1>1, <1>3, <2>2 DEF Session, Placed, InWork
<1> QED BY <1>4, <1>6, <1>7 DEF Session

\* What excuses is not forgotten.
LEMMA ExcusedStays == ASSUME [Next]_vars, excused, excused \in BOOLEAN PROVE excused'
<1>1. CASE \E b \in Tabs : Refresh(b) \/ StorageEvent(b) \/ Logout(b) \/ Login(b) \/ Reload(b)
  BY <1>1 DEF Refresh, StartRefresh, Lock, Adopt, Fetch, Receive, LoseAnswer, StorageEvent, Logout,
              Login, Reload
<1>2. CASE \E c \in Calls : Rotate(c)
  BY <1>2 DEF Rotate, LookUp, Find, RevokeOld, IssueNew, Remember
<1>3. CASE \E k \in Tokens : GraceExpires(k) \/ RevokeLoggedOut(k) \/ LoseLogout(k)
  BY <1>3 DEF GraceExpires, RevokeLoggedOut, LoseLogout
<1>4. CASE Restart
  BY <1>4 DEF Restart
<1>5. CASE UNCHANGED vars
  BY <1>5 DEF vars
<1> QED BY <1>1, <1>2, <1>3, <1>4, <1>5 DEF Next

LEMMA SessionNext == ASSUME Form, SessionInv, [Next]_vars PROVE SessionInv'
<1>1. SUFFICES ASSUME ~excused' PROVE Session'
  BY DEF SessionInv
<1>2. Session
  BY <1>1, ExcusedStays DEF SessionInv, Form, TypeOK
<1>3. CASE \E b \in Tabs : Refresh(b) \/ StorageEvent(b) \/ Logout(b) \/ Login(b) \/ Reload(b)
  <2>1. PICK b \in Tabs : Refresh(b) \/ StorageEvent(b) \/ Logout(b) \/ Login(b) \/ Reload(b)
    BY <1>3
  <2>2. ~Logout(b)
    BY <1>1 DEF Logout
  <2>3. ~Login(b)
    BY <1>2 DEF Login, Session, TabsSignedIn, Tokens, NoToken
  <2> QED BY <1>2, <2>1, <2>2, <2>3, QuietTabSession, AdoptSession, FetchSession, ReceiveSession,
             LoseAnswerSession, ReloadSession DEF Refresh
<1>4. CASE \E c \in Calls : Rotate(c)
  BY <1>1, <1>2, <1>4, LookUpSession, FindSession, RevokeOldSession, IssueNewSession,
     RememberSession DEF Rotate
<1>5. CASE \E k \in Tokens : GraceExpires(k) \/ RevokeLoggedOut(k) \/ LoseLogout(k)
  <2>1. \A k \in Tokens : ~RevokeLoggedOut(k) /\ ~LoseLogout(k)
    BY <1>2 DEF RevokeLoggedOut, LoseLogout, Session, TabsSignedIn
  <2> QED BY <1>1, <1>2, <1>5, <2>1, GraceExpiresSession
<1>6. CASE Restart
  BY <1>1, <1>6 DEF Restart
<1>7. CASE UNCHANGED vars
  BY <1>2, <1>7 DEF vars, server, Session, TabsSignedIn, Graced, OneInWork, InWork, Inherited, Heir, Placed
<1> QED BY <1>3, <1>4, <1>5, <1>6, <1>7 DEF Next

-----------------------------------------------------------------------------
(* The theorems.                                                           *)

LEMMA InvAlways == Spec => []Form /\ []SessionInv
  BY InitForm, FormNext, InitSession, SessionNext, PTL DEF Spec

\* Type correctness of the tabs, of the calls at the API and of the rows: no token is made
\* up beyond the bound, because one is left for every refresh that needs it.
THEOREM TypeCorrect == Spec => []TypeOK
<1>1. Form => TypeOK
  BY DEF Form
<1> QED BY <1>1, InvAlways, PTL

\* However many tabs refresh at once, however they are reloaded and whatever answers are
\* lost: a device is signed out only after one of the four things that may end a session.
THEOREM StaysSignedInAlways == Spec => []StaysSignedIn
<1>1. SessionInv => StaysSignedIn
  BY DEF SessionInv, Session, TabsSignedIn, StaysSignedIn, Tokens, NoToken
<1> QED BY <1>1, InvAlways, PTL

\* And the API keeps one live row at most for it.
THEOREM OneLiveRowAlways == Spec => []OneLiveRow
<1>1. Form /\ SessionInv => OneLiveRow
  <2>1. SUFFICES ASSUME Form, Session
                 PROVE  Cardinality({k \in Tokens : row[k] = "live"}) <= 1
    BY DEF SessionInv, OneLiveRow
  <2>2. \A k, l \in Tokens : row[k] = "live" /\ row[l] = "live" => k = l
    <3>1. SUFFICES ASSUME NEW k \in Tokens, NEW l \in Tokens, Heir(k), Heir(l) PROVE k = l
      BY <2>1 DEF Session, Inherited
    <3> QED BY <2>1, <3>1 DEF Heir, Session, OneInWork, InWork
  <2>3. CASE {k \in Tokens : row[k] = "live"} = {}
    BY <2>3, FS_EmptySet
  <2>4. CASE {k \in Tokens : row[k] = "live"} # {}
    <3>1. PICK k \in Tokens : row[k] = "live"
      BY <2>4
    <3>2. {l \in Tokens : row[l] = "live"} = {k}
      BY <2>2, <3>1
    <3>3. Cardinality({k}) = 1
      BY FS_Singleton
    <3> QED BY <3>2, <3>3
  <2> QED BY <2>3, <2>4
<1> QED BY <1>1, InvAlways, PTL

\* A tab in which Logout was pressed never writes the tokens its refresh came back with.
THEOREM OwnRefreshDropped == Spec => OwnRefreshIsDropped
<1>1. ASSUME Form, [Next]_vars, NEW b \in Tabs, tab[b].stale, tab'[b].phase # tab[b].phase,
             tab'[b].phase = "idle"
      PROVE  stored' = stored
  <2>1. \A o \in Tabs : \A v :
          Settles(o, v) => \/ o = b /\ stored' = stored
                           \/ o # b /\ tab'[b] = tab[b]
    BY <1>1 DEF Settles, Outdated, Goes, Form, TypeOK
  <2>2. \A o \in Tabs : \A k : Goes(o, k) => tab'[b] = IF o = b THEN k ELSE tab[b]
    BY <1>1 DEF Goes, Form, TypeOK
  <2>3. CASE \E o \in Tabs : Adopt(o) \/ Receive(o) \/ LoseAnswer(o)
    BY <1>1, <2>1, <2>3 DEF Adopt, Receive, LoseAnswer
  <2>4. CASE Restart
    BY <1>1, <2>1, <2>4 DEF Restart
  <2>5. CASE \E o \in Tabs : Logout(o) \/ Login(o)
    <3>1. tab[b] \in Tab
      BY <1>1 DEF Form, TypeOK
    <3>2. PICK o \in Tabs : Logout(o) \/ Login(o)
      BY <2>5
    <3>3. CASE Logout(o)
      <4> DEFINE k == [tab[o] EXCEPT !.mem = NoToken, !.stale = (tab[o].phase # "idle")]
      <4>1. tab[o] \in Tab /\ Goes(o, k)
        BY <1>1, <3>3 DEF Logout, Form, TypeOK
      <4>2. k.phase = tab[o].phase
        BY <4>1 DEF Tab
      <4> HIDE DEF k
      <4>3. tab'[b] = IF o = b THEN k ELSE tab[b]
        BY <2>2, <4>1
      <4>4. tab'[b].phase = tab[b].phase
        BY <4>2, <4>3
      <4> QED BY <1>1, <4>4
    <3>4. CASE Login(o)
      BY <1>1, <2>2, <3>1, <3>4 DEF Login, Tab
    <3> QED BY <3>2, <3>3, <3>4
  <2>6. CASE UNCHANGED stored
    BY <2>6
  <2> QED BY <1>1, <2>3, <2>4, <2>5, <2>6
          DEF Next, Refresh, StartRefresh, Lock, Fetch, StorageEvent, Reload, Rotate, LookUp, Find,
              RevokeOld, IssueNew, Remember, GraceExpires, RevokeLoggedOut, LoseLogout, vars
<1>2. Form /\ [Next]_vars =>
        [\A b \in Tabs : tab[b].stale /\ tab'[b].phase # tab[b].phase /\ tab'[b].phase = "idle"
                           => stored' = stored]_vars
  BY <1>1
<1> QED BY <1>2, InvAlways, PTL DEF Spec, OwnRefreshIsDropped
=============================================================================
