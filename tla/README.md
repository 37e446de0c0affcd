# Ekum: a verified model of orders, links, sessions and background jobs

Ekum is a B2B trading platform for textile companies: a React PWA over a NestJS
API and PostgreSQL. This directory models, checks and proves the parts
whose correctness is hard to see from tests: the trade ticket (order) with its
lines and shipments, what happens to it when two requests are in flight, the
orders a trader passes on to mills, the job queue behind the timed steps, the
packs that follow a supplier's collection, the right to carry another company's
design, a pair of companies between connection and block, and the session of a device.

Paths below are relative to `src/` of the repository; `order.service.ts` is
`apps/api/src/orders/order.service.ts`.

## Inventory

The API is one NestJS process type; every replica holds only caches and the job
runner in memory, everything else is PostgreSQL through Prisma. Handlers are
asynchronous functions: each `await` of a query is a point where any other request
may commit. Nearly all of them read a row, check it, and update it by id; only a few
group their writes in `$transaction`, and none repeats its check inside it or takes a lock.

| Component | State it keeps | Operations | Interacts with | Hard part |
|---|---|---|---|---|
| Order ticket (`orders/order.service.ts`) | `Order.status`, `closedAt`, `returnWindowClosesAt`, intent; per `OrderItem` status, quantity, requested and confirmed quantity, rate; shipment rows (LRs) | create, amend, quote, confirm, acceptQuote, decideLines, decline, cancel, setLineSupply, setLineQuantity, dispatch, editShipment, settle, deliver, flipTicket, takeControl | posts order cards in chat (a seller's card closes the buyer's edit), schedules `return_window.expire` | order status, line states and shipped totals are three records of one fact, rolled up by five handlers; stale reads |
| I-handle desk (`orders/i-handle-desk.ts` and the pass-through half of `order.service.ts`) | a buyer's order (parent), one linked order per mill (hop), `upstreamReleasedAt`, `passHeldAt` | sendUp, millDecline, millPassHold/Resume, passMill*ToParent, healing on read | every mill operation on a hop re-enters the parent | the parent is written by hops that see only their own lines |
| Returns, complaints, samples, payments | rows with a status of their own | raise, approve, decline, resolve, escalate; convert | read the order's status and window | check-then-write, quantities per return |
| Job queue (`jobs/*`) | `Job` rows; the claimed batch in memory | enqueue, ensureDaily, ensureOnce, claim, process, retry, give up | handlers: digest, return window, thumbnails, propagate, expire | several processes, crash after the claim, failing updates, self re-arming jobs |
| Trade lanes (`orders/trade-lane*.ts`) | trader, mill, buyer triples, a group thread | create, remove, revoke | follow, mill share, repost audience | revoked by block and unfollow elsewhere |
| Connections, access requests, follow | one row per company pair, request rows | request, approve, decline, block, unblock, follow, allow | chat opens them, lanes depend on them | block racing approve |
| Visibility | none | predicates over audience, connection, follow | catalog, explore | many callers |
| Sign-in (`auth/*`) | one-time codes, refresh tokens, an in-memory grace map | issue, verify, rotate, revoke | every request | two tabs refreshing, several processes |
| Threads and messages | participants, members, roster, messages, read markers | open, request, accept, invite, remove, mute, react | orders and access post into them | one thread per pair, roster changes |
| Collections, designs, relist and view requests, share links | albums, designs, audiences, lineage, grants | publish, hide, repost, relist ask/decide, share | propagation job, explore activity | chains of reposts, watermarks |
| Companies and teams | memberships, invites | invite, join, update, remove | tokens, threads | last owner, invite used twice |
| Notifications, broadcast, referral, saved, settings | rows | create, read, save | listeners on domain events | fire and forget |
| Media, admin, audit, explore, search | files and read models | upload, derive, tag, query | jobs | I/O |
| Web app, e2e, docker, release gate | none | presentation and shipping | API | not modelled |

What makes each of the modelled ones correct:

- **Ticket**: a locked order has no undecided line; `closedAt` says exactly whether it
  is over; status, lines and totals agree; nothing leaves unlocked; ended orders stay
  as they are; the first confirmation is kept; a return window has its job.
- **Ticket under races**: no order reads complete while something is still owed on it, nothing ships on an order
  still being asked for, ended orders are marked ended, complete orders have sent something.
- **Mill hops**: the buyer sees nothing of a mill that was not sent its hop or is held; the buyer's
  order never counts more than left the mills; it settles only when all of them are done.
- **Job queue**: one holder per job, bounded attempts, nothing finished without work,
  nothing finished touched again, every job ends, the daily sweep never dies out.
- **Packs behind Direct links**: once the queue is empty every follower carries the last revision
  of its source; an automatic pack is shown to the linked buyers and nobody else, however many
  requests are adding and removing them.
- **Relist grants**: an ask that reads "allowed" was honoured for every design; a right that is
  nowhere left comes back only through the supplier of the design.
- **Company pair**: a block stands until the company that set it lifts it, and is silent; who is
  shown a chat can open it.
- **Session**: a device is signed out only for a reason, a rotation leaves no second live token
  behind, every refresh ends, and a refresh outlived by a Logout writes nothing.

`PROJECT.json` lists all components with what is and is not modelled, and the hazards
(lines where the code could go wrong in ways a test would hardly reach) with the
properties that watch them.

## Modules

| Module | Models | Builds on |
|---|---|---|
| `OrderRules` | the ticket and, for every operation, a guard over the ticket as read (`s`) and its writes on the ticket as stored (`o`) | |
| `OrderLifecycle` | one ticket, operations run to completion; the return window and its job | `OrderRules` |
| `OrderLifecycleProofs` | the inductive invariant, the theorems about states and steps, and the return window | `OrderLifecycle` |
| `OrderRaces` | several requests in flight on one ticket, one action per database round trip | `OrderRules` |
| `OrderRacesProofs` | what holds for any number of requests in flight | `OrderRaces` |
| `JobPromise` | what a queue promises of each job (abstract) | |
| `JobQueue` | Job rows, polling processes, failures, crashes, daily seeding | refines `JobPromise` |
| `JobQueueProofs` | the inductive invariant, the refinement proof | `JobQueue` |
| `MillHops` | a buyer's order a trader handles and the orders (hops) of its mills: Send, Hold, pass-through, settle, heal | `OrderRules` |
| `MillHopsProofs` | the inductive invariant and the theorems, for any mills and lines | `MillHops` |
| `DirectLinkPacks` | a supplier's collection, the packs of traders behind Direct links, the requests that make and remove the links and the `collection.propagate` worker, both step by step | |
| `DirectLinkPacksProofs` | who is shown the packs, with any requests and workers; that one worker leaves none behind | `DirectLinkPacks` |
| `RelistGrants` | asks, grants, revocations and collections of other companies' designs, split at every database call | |
| `RelistGrantsProofs` | the inductive invariant and the theorems | `RelistGrants` |
| `CompanyPair` | connection, access requests, follow and direct chat of two companies, calls of six services in flight | |
| `CompanyPairProofs` | the inductive invariants of a block and of the chats, and the theorems | `CompanyPair` |
| `DeviceSession` | the tabs of one device, their shared storage and lock, and the rotation of refresh tokens at the API | |
| `DeviceSessionProofs` | the invariants of a session and the theorems | `DeviceSession` |
| `MC*` | TLC instances: symmetry, sets and state constraints | |

### How state and actions correspond to the code

`OrderRules.Ticket` is the `Order` row with its items and shipments. A field stands for
each column the handlers decide on; `lineStatus` `"none"` is an identity without a row,
`confirmedQuantity` 0 is null, and `shipped[l]` is the sum of the line's shipment rows,
which is all the service computes from them (`shippedTotals`). `quoted` and
`sellerMoved` are the two questions the service asks of the chat (`hasSellerQuote`,
`buyerCanAmend`). Quantities are whole units: the code's decimals are compared and
added, never divided, in these paths.

Each handler gave a guard (its early returns and `throw`s) and writes in their order:
`CanDispatch`, `DispatchShipment`, `DispatchLines`, `DispatchStatus` are the four parts
of `dispatch()`. `OrderLifecycle` composes the parts with both arguments the
current ticket. `OrderRaces` puts each database round trip in an action of its own, the
snapshot kept in `inflight[r].s`; a reload of the code is a `Reload` there. `left` is a history of the goods that ever left,
`raised` of a request having been begun that can make a line owe more (`NeverOweMore` names the others). So the two
modules share every line of business logic, and what differs is only when it happens.

Definitions that start with the comment "Fault:" are the same definition with a
plausible bug. They are not used by any specification; `PROJECT.json` lists, for every
property, one that breaks it.

`JobQueue` keeps the `Job` table in `state`, `attempts`, `due` (runAt has come) and each
process in `runner[r]`: the step of `tick()`/`process()` it is at, the rest of its claimed
batch, the job in hand. `faults` and `crashes` count the failing database calls and the
deaths allowed. The claim is one statement with `SKIP LOCKED`: any subset of the due rows
up to the batch size. Polls of one process never overlap (`ticking`), so a process is
in one place.

`MillHops` has two levels of the same ticket: `parent`, the buyer's order, and `hop[h]`, one
linked order per mill with the lines it owns (`Owner`); a line and its copy on the hop
(`sourceItemId`) share an identity. `released` and `held` are the hops with `upstreamReleasedAt`
and `passHeldAt`; `everHeld` is a history of the latter. Every step of a mill on its hop
is the `OrderRules` operation followed, in the same action, by what the handler calls next:
`passMillLinesToParent` (`PassLines`), `passMillDispatchToParent` (`PassDispatch`),
`passMillEditShipmentToParent` (`PassEdit`) or `syncManageParentFromMillSettle`
(`SyncFromHops`). The desk's requests end in the healing that every GET of the buyer's
order runs (`Heal`). On hold the passes return early, so they are dropped and not queued; settling
passes all the same. The trader's own lines of a mixed order are a hop too (`OwnHops`),
released from the start. The LRs a hop passed are told from the others by the lines on
them, so `Rebuild` replaces the shipped sum of the hop's lines. Left out: quotes and amends on the hops, the
return window's job of either order, direct work on the buyer's order beyond cancel,
decline and deliver.

`DirectLinkPacks`: `pack[c]` is company c's `Collection` row of one lineage (the supplier's
own, or the trader's with `repostOrigin`, `repostSyncedSourceAt` and `repostSyncedProductIds`),
`lane[t][b]` a `TradeLane` row with whether it is older than the source. `Publish`, `Edit`,
`SetStatus`, `Create` are the calls of `collection.service.ts`, each whole; `Expire` is the expiry handler.
`call[k]` is a request about a link: `LinkLane` upserts the lane, `LinkReads` reads the pack and `LinkWrites` writes
back the whole `audienceCompanyIds`, each an await of its own without a transaction; a removal deletes the
lane and reads the pack (`UnlinkReads`) and commits the list without the buyer (`UnlinkWrites`), in a transaction that
holds the row of the lane and not that of the pack. `worker[w]`
walks through `collection-propagate.service.ts`, one action between two reads or writes that
another request can come between. `clock` stands for the timestamps that the watermark compares.
`owed`, `trimmed` and `strayed` are histories: they tell what the code did on purpose
(a trader's own trimming, a hand-made audience) from what it must not do. A pack strays when its audience is written
from a list or from links that are not those of the moment of the write, when it is published or deleted by hand, and when
its last buyer is removed; a link that changes while a worker or a request is under way is no excuse by itself.

`RelistGrants`: `grants[d][c]` is who gave company c its `DesignRelistGrant` on d, `asks` the
`RelistRequest` rows, `packs` the collections that carry the designs, `open` is
`allowForward`. `calls[k]` is a request being served, between two database calls; `Dies` ends it at any of
them, with what was written staying written. Folded: `allow()`'s read of the ask with the read
of its designs (`AllowLoad`), and the checks of `create()`, which are reads only and
followed by one insert. `withdrawn` remembers which rights a revocation deleted.

`CompanyPair`: `connection` is the one row of the pair with `statusSetByCompanyId`, `request` the access requests,
`follow` the follow rows, `thread` the direct chats with each side's inbox state and whether
its people are on the roster. `call[r].at` names the await a call is at: `"approving"` is between
the block check of `activateOnApproval` and its transaction. `blockers` is the history of who
has blocked and not lifted it; `crossed` says that a block met a call which had already looked at the
connection, or the other side's block. Folded: the rows of the
roster (`seedOwnersAndStaff`), which follow the participant row in awaits of their own, are written with it in `CreateThread` and
`NudgeWrite`; the gap closes by itself unless the call dies in it.

`DeviceSession`: `tab[b]` is the module state of `tokenRefresh.ts`, `apiClient.ts` and
`authSessionGate.ts` in one tab, `stored` the tokens in localStorage, `events` the storage events on
their way, `holder` the holder of `navigator.locks`. `row` is the `RefreshToken` table, `grace` the in-memory map and
`call[c].at` the step of `TokenService.rotate`. `excused` is a history of what may end the
session without tab or API doing anything against its own steps: Logout, a restart of the API, a grace minute without a retry, a
retry that overtakes the call it repeats. The last is against the documentation and stated as `BlipsKeepSession` (see Findings).
`Settles` folds the release of the lock with the `setTokens` that follows it; a tab that takes the lock in between
asks with the old token, which the grace map answers. A call whose answer is lost after it was given keeps its slot of
`Calls`; with one fault there is always another.

## Runs

| Run | Instance | Shows |
|---|---|---|
| `order_lifecycle` | 2 lines, quantities 1 and 2, at most 2 units shipped per line, 2 jobs | all safety and step properties of the ticket |
| `order_races` | 1 line, quantities 1 and 2, 2 requests, all twelve operations | what survives missing locks: ended is marked ended, complete has sent something and owes nothing, nothing out goes back to being asked for |
| `job_queue` | 2 processes, 1 thumbnail job, 3 digests, 2 attempts, batch 2, 1 failing call or 2 crashes | one holder, nothing written off early, refinement of `JobPromise`, jobs end unless a process dies or a call fails, the sweep is not lost and comes back after crashes |
| `mill_hops` | a mill's line and a line of the trader's own hop, quantities 1 and 2, at most 2 units on the LRs of a line, 1 hop ever held | nothing of a waiting mill shows, a held hop is quiet, the order settles only when all are done; passes, corrected LRs and settlements agree with the hop |
| `direct_link_packs` | 1 supplier, 1 trader, 2 buyers, 1 design, 2 requests at once, 1 worker, 3 ticks, 1 waiting job | packs that follow are in line once the queue is empty, and are shown to the linked buyers, while links are made and removed |
| `relist_grants` | 3 companies, 1 collection, 1 design, 2 asks, 2 calls in flight | allowed means granted; only the supplier lets a design out |
| `company_pair` | 2 companies, one of which follows, 2 calls, 2 access requests, 1 chat | a block stands and is silent; who is shown a chat is on it |
| `device_session` | 2 tabs, 2 calls at the API, 3 tokens, 1 lost answer or restart, 1 Logout | signed out only for a reason, one live row, refreshes end, a stale refresh writes nothing |
| `mill_hops_terminal` | one mill, one line | expected violation, see Findings |
| `direct_link_lost_buyer` | 2 requests about links, 3 buyers | expected violation |
| `company_pair_block` | as `company_pair` with one call | expected violation |
| `device_session_logout` | as `device_session` | expected violation |

**Bounds.** Two lines are enough for every roll-up: one line that decides and one
that keeps the order from being complete; no handler relates three lines. Quantities 1 and 2 give
a part and a whole, and 0 where a sheet allows it. `MaxShipped` 2 allows shipping exactly,
partly, and (a quantity of 1) too much; in `MillHops` it bounds the LRs of a line on the hop and on
the buyer's order, which differ after a hold. `MaxHeld` 1 lets one hop be held and resumed any number of
times; with one hop per mill, holding a second adds no new order of passes. Two hops are
the smallest mixed order: one that waits while the other finishes. `MaxJobs` 2 covers dispatch followed by deliver,
the longest chain of window settings. Two requests suffice for a stale read; two are what
every counterexample needs. `order_races` has one line, so that all twelve operations fit: there a dispatch goes stale under
another, a settle or a quantity edit of the same line; the proofs cover what several lines do to each other. Two attempts give a retry and an exhaustion; a batch of 2
gives a rest that can be dropped. `Digests` bounds the identities of sweep rows; a digest
becomes due only while a row is left for its successor (`RowForSuccessor`), otherwise a full table,
which the database does not have, would look like a lost sweep. `OneTrouble` stops where a call has failed
and a process has died: past both, the properties that are not proved claim nothing.

In `CompanyPair` two companies are the whole world of a connection; `MaxThreads` 1 leaves out the second chat that
two first messages can create (`OneDirectThread` below), and `MaxRequests` 2 is one request
of either side or a request repeated after its decision. The state constraint `Uncrossed`
prunes what follows a block that crossed a call, where the properties claim nothing anyway. In `DirectLinkPacks`
`MaxClock` bounds the changes people make, `MaxJobs` the jobs waiting when they do, and
`HandPicked` the lists an owner may choose; the worker's own jobs are not bounded. One design is enough to be added and to be
trimmed, which is what the watermark is about; two buyers and two requests let one be written over by the other, which is what the
audience is about. In `DeviceSession` three tokens
are two rotations in a row; `TokenToSpare` keeps one back for every refresh that may need it, so the
bound never refuses an answer. In `RelistGrants` two calls make every
check-then-write race, and the third company a right passed on; the proofs cover any number.
`MillHops` works with quantities 1 and 2 on the mill's line; `PlainOwn` keeps the trader's own
line at one unit, which only serves to keep the order mixed, and stops at a buyer's order that was cancelled or declined: what
the hops do to it then is what `mill_hops_terminal` shows.

**Deadlock** is not checked (`CHECK_DEADLOCK FALSE`): a finished ticket has nothing left to
do, a queue whose jobs are all done rests, and so does a pair, a pack or a device
nobody touches.

**Fairness.** `OrderLifecycle.FairSpec` is fair to time and to the job, never to a buyer
or a seller, who owe nothing. `JobQueue.FairSpec` is fair to the restart, the boot,
the polls and the handlers of each process and to the clock: `docker-compose.yml` restarts the
API (`restart: unless-stopped`), `setInterval` keeps polling, and each handler is a
finite sequence of awaits. A process is at one thing at a time, so one weak condition covers it. Fairness is per process, so a process need not be
given the job another one takes. There is no fairness on enqueueing, failures or crashes.

The liveness of the queue is conditional, as the code is: `EveryJobEndsOrCrash` holds unless a process dies
or a database call fails (a claimed row then stays `running`), `SweepComesBack` as long as no
database call fails. `DeviceSession.FairSpec` is weakly fair to the code of a tab under the lock, to the answer it waits for and to
the calls at the API, and strongly fair to `Lock`, because `navigator.locks` serves its queue
first come, first served; there is none on people, on storage events or on faults. Safety there
assumes that a grace minute outlasts one call of the API (`GraceExpires`).

## Proofs

`OrderLifecycleProofs` proves, for all sets of lines and all sets of positive
quantities (`QuantitiesAssumption`), with or without a return window:
`TypeCorrect`, `LockDecidesEveryLine`, `ClosedFollowsStatus`, `StatusFollowsLines`,
`OutLinesAreCovered`, `ShipsOnlyLocked`, `PartShippedIsExact`. None of the invariants
is inductive alone. `Good(o)` strengthens them: whether acceptQuote leaves an open line depends
on every open line being rated once a quote was sent (`QuoteInv`, which in turn needs that a
quote closes the amend path); whether a status roll-up is right depends on every line that
says it is out being covered (`LineInv`), and settle and deliver on positive quantities of
what was never shipped (`RequestedInv`). Each operation has one lemma, from a good ticket
to a good ticket, and `NextGood` assembles them.

The same module proves what a step of the ticket may do: `FirstConfirmationStands`,
`FinishedTicketsStand`, `ReopeningHasACause`, and `WindowsAreEnded`. The first needs that a line
with a confirmed quantity was spoken of by the seller (`NoStampUnspoken`), so that no amend reaches it.
For a reopening, a complete order has every supplied line out; a roll-up that comes back
incomplete has then changed what a line owes, what it has sent, or whether it is supplied.
`WindowsAreEnded` follows from `WindowStep`: a step that sets the window adds a job, and when the instant of the
last waiting job comes the window lapses with it.

`OrderRacesProofs` takes any number of requests, of lines and of quantities. `StepKind` shows that each of the
38 actions is one of five things: a load, a second load, a throw, a write of the ticket, or goods leaving.
The theorems then look at the writes only once. `TypeInv` adds to the types what a call in flight knows because
its guard let it in (`RequestOK`): lines of the order, quantities off the sheet, something to send. On it rest
`FinishedCarriesClosed`, `AskedForSendsNothing` (a dispatch let in earlier keeps the
order locked: `NoEarlyGoods`) and `CompleteHasSent`. That one needs `UnsentInv`: as long as nothing has left, neither
the ticket nor any copy that a request holds has a line that is out or owes nothing, so no roll-up of any copy
reads complete and nobody is let in to settle or deliver.

`CompleteOrdersOweNothing` is about the totals themselves: `dispatch()` decides from those it loaded before its transaction,
plus its own parcel. Its invariant `OwedInv` joins to the property what each request in flight knows (`EarnedCall`): its copy is
`Behind` the ticket, with no more shipped on any line and no less asked for than the ticket has by now unless the line is covered;
a dispatch past its LR finds its own parcel in the ticket on top of its copy, so what it takes for covered is covered
(`DispatchRowsEarned`); a settle writes only quantities that its copy had already sent, a deliver meets a covered ticket.
`Keeps` is what every such step makes of the ticket, and `CallStays` that the other requests' knowledge survives it. All of it
holds as long as `raised` is false, and the property claims nothing after: a quantity raised once the totals were looked at is not seen.

`JobQueueProofs` proves, for any number of processes, jobs, attempts, failures and crashes:
`OneHolderAlways`, `WrittenOffAlways`, `QueueTypes`, `SweepIsCarriedOn` and `ImplementsPromise`
(`Spec => KeepsPromise`). The invariant `IInv` adds what a process knows at each step of
`process()` (`HandOK`: a job in hand is running and its work not counted beyond its
attempts, at "good" its work was done) and that a pending job has an attempt left
(`JobOK`). The refinement maps the table and the history of returned handlers to the
abstract variables; each step is an abstract step or a stutter. `SweepIsCarriedOn` needs that a process between two
polls holds nothing (`EmptyBetweenPolls`), so that a sweep is in sight wherever it is.

`MillHopsProofs` proves every property of `mill_hops`, and `FinishedIsClosed`, for any number of mills and
lines, any owner of a line, any positive quantities and without the constraint of the run. It has three layers.
`Mill` is what the tickets of a hop keep under each `OrderRules` operation: rows of its own lines only, each asking
for something until the hop is settled. `Passed` says what a pass makes of the buyer's order and `Synced` what a settlement
or a heal does; both leave the lines of other owners alone (`Elsewhere`) and the confirmed snapshots standing
(`SnapshotKept`). `Steps` then shows that each step is one of five: a hop written and passed (`Passing`), written
and not passed (`Keeping`), settled (`Settling`), a desk request or read that ends in a heal (`Deskwork`), or an end of
the buyer's order (`Ending`). The invariant `Fits` adds to the properties that the lines of a waiting hop are open or
dropped (`Silent`), without which a hop would not fit the buyer's order at the moment it is sent, and positive
quantities of hops not settled, without which a delivered hop could turn an agreed line into a declined one.

`RelistGrantsProofs` proves, for any companies, designs, collections, asks and calls in flight, and
with calls dying anywhere: `TypeCorrect`, `AllowedIsGranted` and `SupplierLetsOut`. The first
rests on `GrantingFits`: a call of `allow()` that still has designs to write covers, together with what the
asker holds or lost to a revocation, every design of its ask; this stays true under
another answer to the same ask, because a grant is only ever overwritten by a grant or
deleted by a revocation that is remembered (`HonouredStays`). `AsksFit` and `CallsFit`
say what an ask and a call refer to. `SupplierLetsOut` is a property of steps: each action has a
lemma that it makes no right to a design out of nothing, and the two that can (the supplier's own
grant and the supplier's own collection or `allowForward`) are the cases of `LetOut`.

`CompanyPairProofs` proves, for any number of calls, requests and chats: `TypeCorrect`, `BlockStandsAlways` and
`BlockIsSilent`. The invariant joins `BlockHolds` to two facts: at most one company has a block that has not
been lifted (`OneBlocker`), and while a block stands that crossed nothing, every call in flight is at a step that
leaves it alone (`CallsInv`, by `Harmless`): none is between its check and a write that would connect the pair. A pair has exactly two
companies (`PairAssumption`), which is what makes "the other" a company (`PairOfTwo`).

`ShownToSomebodyAlways` needs its own invariant, `ShownInv`. A chat started in silence, with one side not on
its roster, exists only where no access request does and nobody is asking (`SilencedUnasked`, `BlockedUnasked`);
a request always has its chat, or a call that is about to open it (`AskedHasChat`), and a call that decides a request
knows that there is one (`DecidingAsked`). So whatever a decision brings back up has both companies on
board (`OnBoard`).

`DirectLinkPacksProofs` proves `TypeCorrect` and `ShownToLinkedBuyersAlways` for any traders, shops, designs, jobs
and workers, and any chain of suppliers. As long as nothing about a pack has strayed, it is Selected only through the
worker, is then automatic, and its list is that of the linked buyers but for those whose request has made the link and is still
to add them (`LinksOnly`, `Joining`). Nothing is known of a list that a request or a worker has read: each write is judged when it
happens. One that strays claims nothing; one that does not was made from the list and the links as they still are, so it adds
its own buyer (`LinkWritesKeeps`), takes its own buyer off (`UnlinkWritesKeeps`), or adds nobody (`UnionBuyersKeeps`), and
`PublishRow` publishes to the buyers linked at that moment. `CallOK` says what a request knows of its pack,
`WorkerOK` what the worker knows of
the row: it is there, and automatic before it goes out.

`QuietPacksFollowAlone` proves that no pack is left behind, under `Alone`: one worker, and traders that all take from the
supplier. Both are needed: two workers and a chain break it (see Findings). The invariant `Follow` says where what is
owed to a trader is (`Caught`): a job for the source waits, or the pack carries the revision, or the worker will come to
the trader or has its pack in hand and has not stamped it; and a trader for whom the worker makes a row is owed nothing
unless a job waits. That a worker which finds a pack not behind may leave it rests on `Clocked` (no pack carries a
revision the source has not had) and on `Known` (as long as no job for it waits, the source is what the worker read, and
the designs it is about to write contain the source's). A row that is made starts blank (`Blank`).

`DeviceSessionProofs` proves, for any tabs, calls and tokens: `TypeCorrect`, `StaysSignedInAlways`, `OneLiveRowAlways`
and `OwnRefreshDropped`. `Form` holds whatever is lost and whoever logs out: the lock is with the tab under it, a tab
waits for one call, and a token is kept for every refresh that needs one (`Spared`). `Session` holds until
the session is excused. Every tab has tokens and a refresh under the lock asks for the stored one (`TabsSignedIn`); a call that is at work rotates the stored token, whose successor nobody
knows yet (`Placed`), and there is one such call at most (`OneInWork`); a token with a successor is used up
(`Graced`). At most one token is then live (`Inherited`, by `Heir`): the successor that the grace map knows for
the stored token, or the one a call has just issued, or the stored token itself as long as no call has
revoked it. So no call of this device is refused, and no tab is signed out by one.

The assumptions are the named `ASSUME`s of the modules, which TLC evaluates in the
runs: positive quantities, an existing supplier for each design, curators among the companies, hand-picked
lists of companies, finitely many tabs, calls and traders, bounds that are naturals. `Alone` is the hypothesis of one
theorem and not an assumption of its module; the run `direct_link_packs` satisfies it.

Only model-checked: all liveness (fairness and ENABLED are outside the proof system's reach). Every safety
property of the passing runs is proved, for every value of the constants but in `QuietPacksFollowAlone`, which has a hypothesis of
its own (`Alone`). `TypeOK`
of most modules is proved and not a property of a run: the runs spend their time on the others.

## Findings

Runs marked "violation" state what a doc or a comment says and exhibit what the code
does instead:

- `direct_link_lost_buyer`: two links made at once, and the second write of the audience drops the buyer of the first.
- `company_pair_block`: a block written over the other side's block is lifted by the other side.
- `device_session_logout`: a refresh in one tab writes tokens back after Logout in another.
- `mill_hops_terminal`: a mill's parcel takes a cancelled order back to `dispatched`; cancelling
  the buyer's order leaves the hops as they are and the pass does not look at its status.

What the runs of `MillHops` also taught shaped its properties. A hop whose LR is edited
down while it is held leaves the larger parcel on the buyer's order, and parcels after Resume are added
to it: `NeverMoreThanLeft` and `AgreedIsPassed` speak of hops never held. A lone hop that settles
with one of its lines declined makes that line `dispatched` on the buyer's order
(`TakeFinal` does not read the hop's line status), which
leaves it short and `part_shipped`; so no property says that the order is complete once
every hop has settled. Two statements of the repository that the code does not
keep stand in the module without a run: `DeclineSparesAgreed` (dropping the last waiting mill declines an
order another mill has agreed to; docs/superpowers/reviews/completeness/2026-09-23-mill-decline-beside-send-completeness.md:38
says "Only before Send; other mills stay") and `CancelledHasNotLeft` (a pass of lines rolls only a
`requested` order, so after a line is given up, its LR corrected and its supply restored the order reads
`confirmed` with goods on the road, and the buyer can cancel it).

Other divergences are stated in the modules without a run of their own; put the formula
in the place of the property of a neighbouring configuration to see the trace. Each of them TLC refutes.

- `OrderRaces`: `PartShippedHasMoreToShip` (two dispatches that each send half of a line leave the order `part_shipped` with
  nothing left to dispatch or settle; docs/features/orders.md calls it "some qty out, some still open"),
  `BuyerEditsOnlyUnconfirmed` (an amend in flight rewrites the quantities of an order confirmed meanwhile; orders.md: "**Buyer
  cannot** change qty after supplier confirm"), `FirstConfirmStays` (two deciders in flight overwrite the first
  confirmed quantity), `TerminalStatusStays` (a request in flight writes over an ended order).
- `OrderLifecycle`: `LapsedWindowIsAnnounced` (the expiry job of the return window announces nothing, because its order always
  carries `closedAt` already; return-window.handler.ts:9 says it "tells the buyer their window ended"), `ConfirmedHasNothingOut`
  (Can't supply after a dispatch takes a part-shipped
  order back to `confirmed`), `CompleteHasWindow` (an order completed by an edit has no return window).
- `JobQueue`: `EveryJobEnds` (a job claimed by a process that dies stays `running` for ever; job-queue.service.ts:8 says "the job
  outlives a process restart"), `OneSweepScheduled` (two processes booting at once, or a failing digest, double the daily sweep;
  job-queue.service.ts:33 says "Ensures a single pending job").
- `DirectLinkPacks`: `LinkedBuyersSee` (a link made while the worker makes the pack is left out of it, and nothing adds it later),
  `RevokedBuyersLeave` (the last buyer stays on the list of the pack that its removal drafts, and the next link shows it to them
  again).
- `RelistGrants`: `OnlyHoldersGrant` (an Allow past its check outruns the revocation of the right it rests on;
  relist-request.service.ts says "Pack owner without a live mill grant cannot mint new rights"), `DownstreamDrops` (a revocation
  takes what its holder gave on, but not what was given on from there; a chain of three rights, so it needs four companies, two of
  them with collections, and three asks).
- `CompanyPair`: `ApproveKeepsBlock` (a block that lands after an Allow or an Approve has looked is written over;
  docs/features/00-concepts.md: "Approve never reactivates a block"), `OneDirectThread` (two first messages at once create two
  chats, with `MaxThreads` 2; docs/features/chat.md: "One direct thread per company pair").
- `DeviceSession`: `BlipsKeepSession` (an answer is lost, the retry reaches the API between the revocation of the row and the
  grace entry, is refused with INVALID_TOKEN, and the client clears the tokens; docs/features/auth.md:24-27: "multi-tab safe",
  cleared "never on network blips", "Transient API/network failures must **not** clear the session").
- `MillHops`: `DeclineSparesAgreed`, `CancelledHasNotLeft` (above).

Met while modelling, and told apart by a history or a bound rather than by a property: two workers break
`QuietPacksFollow`, since the watermark is read early and written late (the run has one worker); with a chain of traders,
the pack that `LinkWrites` restores enqueues no propagation of its own; the expiry handler drafts a
collection without enqueuing the propagation that Hide enqueues; `setProducts` throwing in the worker skips the trader
and loses the revision; `publish` acts on archived rows; a revocation leaves the design in
the collections that carry it, and an open one keeps it relistable; unblocking a pair that was
never connected makes it active; an ask can read "denied" though its grants were given, when an
allow and a deny meet.

## Plan

The order followed the weight of the behaviour in the product. Done:

1. Ticket rules, lifecycle and its proof; races on a ticket and their proof; job queue, its refinement and its proof.
2. Mill hops: parent and hops, pass-through, settle and healing, and their proof.
3. One company pair: connection, access requests, follow, direct chat.
4. Sign-in: refresh rotation with two tabs, the shared storage, the grace map.
5. Collections: propagation to packs behind Direct links; relist grants and their proof.

Left, in this order:

1. Quotes and the amend sync on the desk; a pass split in its round trips, so that two mills race on one
   buyer's order.
2. Propagation along a chain of traders with two workers (the `Line` instance of `MCDirectLinkPacks`), whose
   divergences are known, and what repairs them.
3. Returns and samples against the ticket, teams and group threads: each is one read, one check and one
   write; their races are listed as hazards.
4. Further theorems: propagation of one hop among several (`QuietPacksFollow` without `Alone`, for the packs of a source
   that only one worker serves).

## Not modelled

Presentation, explore ranking and search (read-only), the reference resolver and the visibility predicates (pure
functions of rows, modelled where a module needs them), media files, admin tags, and notifications beyond
the return window notice; the wording of trails and cards. The web app is most of the repository's lines; it
draws what the API decides, and keeps state of its own only in the session, which is modelled.

- Ticket: flipTicket, takeControl and millReveal (who handles an order), notes, and the failure of a
  handler between two of its writes. Buy for buyer, invites and repairs.
- Desk: quotes, amends, trader work on the parent, two desk requests at once.
- Returns, complaints, samples, teams and invites: single rows, read, checked and updated; what two
  requests can do to them is listed as hazards.
- Queue: `ensureOnce`, the `runAt` order in which due jobs are
  taken, and the length of the backoff (a retried job becomes due again at some time).
- Packs: own designs of traders, draft designs, follow changes, curation rank, several collections per mill,
  a job that fails and is retried, requests that come between the calls of publish or setProducts.
- Grants: discoverability, look-only and audience rank in the ceiling, chat cards, view requests, share links.
- Pair: requests to see one collection and what follows them (`packAskPending`, requestShare, setAccess), the backfill,
  `ensureTradeThread`, groups and the people on a roster beyond "somebody is on it".
- Session: one-time codes, registration, expiry of a refresh token, several devices, and the lock kept in localStorage that
  stands in for `navigator.locks` where a browser has none (`tokenRefresh.ts:92-105`): a tab that cannot get it
  waits a while and goes on without.
