---------------------------- MODULE RelistGrants ----------------------------
(***************************************************************************)
(* The right to put another company's design in a collection of one's own, *)
(* as apps/api/src/catalog/relist-request.service.ts hands it out and as   *)
(* collection.service.ts asks for it.                                      *)
(*                                                                         *)
(* A company asks the supplier of some designs, or the company in whose    *)
(* collection it saw them; the company asked allows (a grant per design    *)
(* that remembers who gave it) or denies; a grant is withdrawn by the      *)
(* supplier or by the company that gave it.  Every request is a sequence   *)
(* of database calls, and other requests run between any two of them; none *)
(* of the sequences is a transaction, so a request can also stop half way. *)
(***************************************************************************)
EXTENDS FiniteSets, TLC

CONSTANTS
  Companies,   \* the companies that ask, allow and withdraw
  Curators,    \* those of them that have a collection
  Designs,     \* published designs
  Supplier,    \* the company of each design
  Asks,        \* identities of the asks that can be created
  Calls,       \* requests being served at once
  Nobody       \* no company, no ask

ASSUME CuratorsAssumption == Curators \subseteq Companies
ASSUME SupplierAssumption == Supplier \in [Designs -> Companies]
ASSUME NobodyAssumption == Nobody \notin Companies \cup Asks

VARIABLES
  open,        \* Product.allowForward of each design
  grants,      \* who gave each company its right on each design, or Nobody
  packs,       \* each curator's collection
  asks,        \* the RelistRequest rows
  calls,       \* how far each request being served has come
  withdrawn    \* history: the rights some revocation has deleted

vars == <<open, grants, packs, asks, calls, withdrawn>>

-----------------------------------------------------------------------------
Stages == {"idle", "asking", "allowing", "granting", "denying",
           "revoking", "cascading", "curating", "publishing"}

Call == [at : Stages, who : Companies \cup {Nobody}, ask : Asks \cup {Nobody},
         over : SUBSET Designs, peer : Companies \cup {Nobody}, wide : BOOLEAN]

Resting == [at |-> "idle", who |-> Nobody, ask |-> Nobody,
            over |-> {}, peer |-> Nobody, wide |-> FALSE]

\* `wide` of an ask: it went to the company of a collection, not to the supplier.
Ask == [status : {"none", "pending", "allowed", "denied"},
        from : Companies \cup {Nobody}, to : Companies \cup {Nobody},
        designs : SUBSET Designs, wide : BOOLEAN]

NoAsk == [status |-> "none", from |-> Nobody, to |-> Nobody,
          designs |-> {}, wide |-> FALSE]

Pack == [live : BOOLEAN, open : BOOLEAN, designs : SUBSET Designs]

TypeOK ==
  /\ open \in [Designs -> BOOLEAN]
  /\ grants \in [Designs -> [Companies -> Companies \cup {Nobody}]]
  /\ packs \in [Curators -> Pack]
  /\ asks \in [Asks -> Ask]
  /\ calls \in [Calls -> Call]
  /\ withdrawn \in SUBSET (Designs \X Companies)

Holds(c, d) == grants[d][c] # Nobody

OpenPack(p, d) == packs[p].live /\ packs[p].open /\ d \in packs[p].designs

\* The ceiling of a curator: its own design, an open one, one it was granted,
\* or one that another company's collection leaves open.
MayCarry(c, d) ==
  \/ Supplier[d] = c
  \/ open[d]
  \/ Holds(c, d)
  \/ \E p \in Curators \ {c} : OpenPack(p, d)

Init ==
  /\ open = [d \in Designs |-> FALSE]
  /\ grants = [d \in Designs |-> [c \in Companies |-> Nobody]]
  /\ packs = [p \in Curators |-> [live |-> FALSE, open |-> FALSE, designs |-> {}]]
  /\ asks = [q \in Asks |-> NoAsk]
  /\ calls = [k \in Calls |-> Resting]
  /\ withdrawn = {}

\* What a request does next, in the calls of one request only.
Goes(k, call) == calls' = [calls EXCEPT ![k] = call]

-----------------------------------------------------------------------------
(* The ask. *)

\* The designs come from one collection that keeps them closed, and its company
\* is asked; or they have one supplier, who keeps every one of them closed.
Asked(S, t, wide) ==
  IF wide
    THEN t \in Curators /\ packs[t].live /\ ~packs[t].open /\ S \subseteq packs[t].designs
    ELSE \A d \in S : Supplier[d] = t /\ ~open[d]

\* Every check of create(), the last of them that the same ask is not pending.
AskCheck(k, c, t, S, wide) ==
  /\ calls[k] = Resting
  /\ S # {} /\ Asked(S, t, wide) /\ t # c
  /\ \A d \in S : ~Holds(c, d)
  /\ \A q \in Asks : asks[q] # [status |-> "pending", from |-> c, to |-> t,
                                designs |-> S, wide |-> wide]
  /\ Goes(k, [Resting EXCEPT !.at = "asking", !.who = c, !.peer = t,
                             !.over = S, !.wide = wide])
  /\ UNCHANGED <<open, grants, packs, asks, withdrawn>>

AskInsert(k, q) ==
  /\ calls[k].at = "asking"
  /\ asks[q] = NoAsk
  /\ asks' = [asks EXCEPT ![q] =
       [status |-> "pending", from |-> calls[k].who, to |-> calls[k].peer,
        designs |-> calls[k].over, wide |-> calls[k].wide]]
  /\ Goes(k, Resting)
  /\ UNCHANGED <<open, grants, packs, withdrawn>>

-----------------------------------------------------------------------------
(* The answer. *)

\* The designs of the ask that its company needs a right of its own for.
Locked(q) == {d \in asks[q].designs : Supplier[d] # asks[q].to /\ ~open[d]}

\* allow() reads the pending ask and its designs ...
AllowLoad(k, q) ==
  /\ calls[k] = Resting
  /\ asks[q].status = "pending"
  /\ Goes(k, [Resting EXCEPT !.at = "allowing", !.who = asks[q].to,
                             !.ask = q, !.over = Locked(q)])
  /\ UNCHANGED <<open, grants, packs, asks, withdrawn>>

\* Fault: who owns the collection may allow what is in it.
AllowCheckPackOwner(k) ==
  /\ calls[k].at = "allowing"
  /\ IF asks[calls[k].ask].wide \/ \A d \in calls[k].over : Holds(calls[k].who, d)
       THEN Goes(k, [calls[k] EXCEPT !.at = "granting",
                                     !.over = asks[calls[k].ask].designs])
       ELSE Goes(k, Resting)
  /\ UNCHANGED <<open, grants, packs, asks, withdrawn>>

\* ... then its own grants: without one for each locked design it is refused ...
AllowCheck(k) ==
  /\ calls[k].at = "allowing"
  /\ IF \A d \in calls[k].over : Holds(calls[k].who, d)
       THEN Goes(k, [calls[k] EXCEPT !.at = "granting",
                                     !.over = asks[calls[k].ask].designs])
       ELSE Goes(k, Resting)
  /\ UNCHANGED <<open, grants, packs, asks, withdrawn>>

\* ... then writes the grants one by one, over any the asker has by then ...
AllowGrant(k, d) ==
  /\ calls[k].at = "granting"
  /\ d \in calls[k].over
  /\ grants' = [grants EXCEPT ![d][asks[calls[k].ask].from] = calls[k].who]
  /\ Goes(k, [calls[k] EXCEPT !.over = @ \ {d}])
  /\ UNCHANGED <<open, packs, asks, withdrawn>>

\* Fault: the answer does not wait for the last grant.
AllowSettleEarly(k) ==
  /\ calls[k].at = "granting"
  /\ asks' = [asks EXCEPT ![calls[k].ask].status = "allowed"]
  /\ Goes(k, Resting)
  /\ UNCHANGED <<open, grants, packs, withdrawn>>

\* ... and last the answer, by the ask's id alone.
AllowSettle(k) ==
  /\ calls[k].at = "granting"
  /\ calls[k].over = {}
  /\ asks' = [asks EXCEPT ![calls[k].ask].status = "allowed"]
  /\ Goes(k, Resting)
  /\ UNCHANGED <<open, grants, packs, withdrawn>>

DenyLoad(k, q) ==
  /\ calls[k] = Resting
  /\ asks[q].status = "pending"
  /\ Goes(k, [Resting EXCEPT !.at = "denying", !.who = asks[q].to, !.ask = q])
  /\ UNCHANGED <<open, grants, packs, asks, withdrawn>>

DenySettle(k) ==
  /\ calls[k].at = "denying"
  /\ asks' = [asks EXCEPT ![calls[k].ask].status = "denied"]
  /\ Goes(k, Resting)
  /\ UNCHANGED <<open, grants, packs, withdrawn>>

-----------------------------------------------------------------------------
(* The withdrawal: one right, then the rights its holder gave on. *)

RevokeCheck(k, a, d, c) ==
  /\ calls[k] = Resting
  /\ Supplier[d] = a \/ grants[d][c] = a
  /\ Goes(k, [Resting EXCEPT !.at = "revoking", !.who = a, !.over = {d}, !.peer = c])
  /\ UNCHANGED <<open, grants, packs, asks, withdrawn>>

\* Deleting the rights on d of the companies in C.
Withdraw(d, C) ==
  /\ grants' = [grants EXCEPT ![d] = [c \in Companies |-> IF c \in C THEN Nobody ELSE @[c]]]
  /\ withdrawn' = withdrawn \cup {<<d, c>> : c \in {x \in C : Holds(x, d)}}

RevokeDelete(k, d) ==
  /\ calls[k].at = "revoking" /\ calls[k].over = {d}
  /\ Withdraw(d, {calls[k].peer})
  /\ Goes(k, [calls[k] EXCEPT !.at = "cascading"])
  /\ UNCHANGED <<open, packs, asks>>

GivenBy(c, d) == {x \in Companies : grants[d][x] = c}

RevokeCascade(k, d) ==
  /\ calls[k].at = "cascading" /\ calls[k].over = {d}
  /\ Withdraw(d, GivenBy(calls[k].peer, d))
  /\ Goes(k, Resting)
  /\ UNCHANGED <<open, packs, asks>>

-----------------------------------------------------------------------------
(* The collections. *)

\* setProducts(): only what the list adds is held to the ceiling.
CurateCheck(k, c, S) ==
  /\ calls[k] = Resting
  /\ S # packs[c].designs
  /\ \A d \in S \ packs[c].designs : MayCarry(c, d)
  /\ Goes(k, [Resting EXCEPT !.at = "curating", !.who = c, !.over = S])
  /\ UNCHANGED <<open, grants, packs, asks, withdrawn>>

CurateWrite(k) ==
  /\ calls[k].at = "curating"
  /\ packs' = [packs EXCEPT ![calls[k].who].designs = calls[k].over]
  /\ Goes(k, Resting)
  /\ UNCHANGED <<open, grants, asks, withdrawn>>

\* publish(): every member is held to it, and the publisher says whether the
\* collection leaves its designs open.
PublishCheck(k, c, wide) ==
  /\ calls[k] = Resting
  /\ packs[c].designs # {}
  /\ \A d \in packs[c].designs : MayCarry(c, d)
  /\ Goes(k, [Resting EXCEPT !.at = "publishing", !.who = c, !.wide = wide])
  /\ UNCHANGED <<open, grants, packs, asks, withdrawn>>

PublishWrite(k) ==
  /\ calls[k].at = "publishing"
  /\ packs' = [packs EXCEPT ![calls[k].who].live = TRUE,
                            ![calls[k].who].open = calls[k].wide]
  /\ Goes(k, Resting)
  /\ UNCHANGED <<open, grants, asks, withdrawn>>

Hide(c) ==
  /\ packs[c].live
  /\ packs' = [packs EXCEPT ![c].live = FALSE]
  /\ UNCHANGED <<open, grants, asks, calls, withdrawn>>

\* The supplier publishes the design again with the other allowForward.
Reopen(d) ==
  /\ open' = [open EXCEPT ![d] = ~@]
  /\ UNCHANGED <<grants, packs, asks, calls, withdrawn>>

-----------------------------------------------------------------------------
\* A database call throws, or the process stops: what was written stays.
Dies(k) ==
  /\ calls[k] # Resting
  /\ Goes(k, Resting)
  /\ UNCHANGED <<open, grants, packs, asks, withdrawn>>

AskSteps(k) ==
  \/ \E c, t \in Companies, S \in SUBSET Designs, wide \in BOOLEAN : AskCheck(k, c, t, S, wide)
  \/ \E q \in Asks : AskInsert(k, q)

AnswerSteps(k) ==
  \/ \E q \in Asks : AllowLoad(k, q) \/ DenyLoad(k, q)
  \/ AllowCheck(k)
  \/ \E d \in Designs : AllowGrant(k, d)
  \/ AllowSettle(k)
  \/ DenySettle(k)

RevokeSteps(k) ==
  \/ \E a, c \in Companies, d \in Designs : RevokeCheck(k, a, d, c)
  \/ \E d \in Designs : RevokeDelete(k, d) \/ RevokeCascade(k, d)

PackSteps(k) ==
  \/ \E c \in Curators, S \in SUBSET Designs : CurateCheck(k, c, S)
  \/ CurateWrite(k)
  \/ \E c \in Curators, wide \in BOOLEAN : PublishCheck(k, c, wide)
  \/ PublishWrite(k)

Next ==
  \/ \E k \in Calls : AskSteps(k) \/ AnswerSteps(k) \/ RevokeSteps(k) \/ PackSteps(k) \/ Dies(k)
  \/ \E c \in Curators : Hide(c)
  \/ \E d \in Designs : Reopen(d)

Spec == Init /\ [][Next]_vars

-----------------------------------------------------------------------------
\* A request that already has what it needs to spread the right to d, given to
\* somebody other than the supplier of d.
Passed(k, d) ==
  /\ calls[k].who # Supplier[d]
  /\ \/ calls[k].at = "allowing" /\ d \in asks[calls[k].ask].designs \ calls[k].over
     \/ calls[k].at \in {"granting", "curating"} /\ d \in calls[k].over

\* The right to d is out: the design is open, some company holds it, a
\* collection carries it, or a request on its way is past its check.
Spread(d) ==
  \/ open[d]
  \/ \E c \in Companies : Holds(c, d)
  \/ \E p \in Curators : OpenPack(p, d) \/ (p # Supplier[d] /\ d \in packs[p].designs)
  \/ \E k \in Calls : Passed(k, d)

\* What the supplier of d did to let it out.
LetOut(d) ==
  \/ open[d]
  \/ \E c \in Companies : grants[d][c] = Supplier[d]
  \/ Supplier[d] \in Curators /\ OpenPack(Supplier[d], d)

\* Once the right to a design is nowhere left, it comes back through its
\* supplier only, however the requests of the others interleave or stop half
\* way: allow() and the collection ceiling never make a right out of nothing
\* (assertActorMayGrant, relistGrantedProductIds).
OnlyTheSupplierLetsOut == [][\A d \in Designs : ~Spread(d) /\ Spread(d)' => LetOut(d)']_vars

\* An ask marked allowed was honoured in full: its asker holds every design of
\* it, but for those a revocation took away.  allow() writes the answer after
\* the last grant, so one that stops half way, or that runs against a second
\* answer or a revocation, never says more than it gave.
AllowedMeansGranted ==
  \A q \in Asks : asks[q].status = "allowed" =>
    \A d \in asks[q].designs :
      Holds(asks[q].from, d) \/ <<d, asks[q].from>> \in withdrawn

-----------------------------------------------------------------------------
(* What the repository says and the code does not keep.                    *)

\* "Pack owner without a live mill grant cannot mint new rights": a company
\* whose right was withdrawn gives it no further unless it has it anew or the
\* design is open.  allow() checks its own grants first and writes later.
OnlyHoldersGrant ==
  [][\A k \in Calls, d \in Designs :
       AllowGrant(k, d) /\ <<d, calls[k].who>> \in withdrawn
         => Supplier[d] = calls[k].who \/ open[d] \/ Holds(calls[k].who, d)]_vars

\* "Mill revoke of your grant -> your downstream grants on that design drop":
\* nobody keeps a right from a company that has lost its own, unless a request
\* is being served.  revokeGrant() follows the chain for one hop.
DownstreamDrops ==
  (\A k \in Calls : calls[k] = Resting) =>
    \A d \in Designs, c, x \in Companies :
      grants[d][x] = c /\ c # Supplier[d] /\ <<d, c>> \in withdrawn => Holds(c, d)
=============================================================================
