--------------------------- MODULE DirectLinkPacks ---------------------------
(***************************************************************************)
(* One collection of a supplier and the packs that follow it through       *)
(* Direct links.  A trader with a link supplier x buyer gets a pack of its *)
(* own, shown to the linked buyers only; a trader that is itself a linked  *)
(* buyer passes it on.                                                     *)
(*                                                                         *)
(* Owners publish, edit, hide and delete through the API; each change puts *)
(* a collection.propagate job on the queue, and a worker brings the packs  *)
(* one hop down in line, reading the source once and the rest on the way.  *)
(***************************************************************************)
EXTENDS Naturals, Sequences, FiniteSets, SequencesExt

CONSTANTS Mill,
          Traders,
          Shops,        \* buyers that pass nothing on
          Supplier,     \* trader -> the company whose pack it gets
          Designs,      \* the supplier's published designs
          HandPicked,   \* bound: the lists an owner may publish Selected to
          Calls,        \* bound: requests about Direct links at work at once
          Workers,      \* job runners
          MaxClock,     \* bound: ticks that people may cause
          MaxJobs       \* bound: jobs waiting when people act

Sources == {Mill} \cup Traders
Companies == Sources \cup Shops

ASSUME HopAssumption == /\ Mill \notin Traders \cup Shops
                        /\ Traders \cap Shops = {}
                        /\ IsFiniteSet(Traders)
                        /\ Supplier \in [Traders -> Sources]
                        /\ \A t \in Traders : Supplier[t] # t
ASSUME BoundsAssumption == /\ MaxClock \in Nat /\ MaxJobs \in Nat
                           /\ HandPicked \subseteq SUBSET Companies

VARIABLES pack,     \* company -> its collection of this lineage
          lane,     \* trader -> buyer -> its Direct link, and if it is older than the source
          call,     \* requests that make or remove a Direct link
          jobs,     \* collection.propagate jobs that wait, oldest first
          worker,   \* the job runners
          clock,
          owed,     \* history: the source was revised while the trader's pack followed it
          trimmed,  \* history: the trader took designs out of its pack by hand
          strayed   \* history: somebody wrote the audience of the trader's pack from what
                    \* no longer held, by hand, or took its last buyer

rows == <<pack, lane, call>>
history == <<owed, trimmed, strayed>>
vars == <<pack, lane, call, jobs, worker, clock, history>>

Pack == [status : {"absent", "draft", "published", "archived"},
         wide : BOOLEAN,              \* audience Followers; otherwise Selected
         to : SUBSET Companies,       \* audienceCompanyIds
         designs : SUBSET Designs,
         explore : Nat,               \* exploreActivityAt, 0 for null
         automatic : BOOLEAN,         \* repostOrigin
         mark : Nat,                  \* repostSyncedSourceAt, 0 for null
         synced : SUBSET Designs]     \* repostSyncedProductIds

NoPack == [status |-> "absent", wide |-> TRUE, to |-> {}, designs |-> {}, explore |-> 0,
           automatic |-> FALSE, mark |-> 0, synced |-> {}]

\* TradeLane.createdAt against createdAt of the trader's source.
Lane == {"none", "early", "late"}

\* What a request about a link reads of the trader's pack.
Seen == [follows : BOOLEAN, to : SUBSET Companies, live : BOOLEAN]
Call == [at : {"idle", "reading", "writing", "removing"},
         t : Sources, b : Companies, seen : Seen]

Steps == {"idle", "hiding", "choosing", "reading", "setting", "stamping", "auditing",
          "unioning", "creating", "filling", "tracing", "publishing"}

\* row: the source as the job read it; next, seen: the designs the pack is to get
\* and those the source had; to: the audience that was read; changed: the live pack
\* gets other designs; again: the job lost a race for the row and queues no next hop.
Row == [explore : Nat, wide : BOOLEAN, to : SUBSET Companies]
Worker == [at : Steps, of : Sources, row : Row, todo : SUBSET Traders, t : Sources,
           buyers : SUBSET Companies, seen : SUBSET Designs, next : SUBSET Designs,
           to : SUBSET Companies, changed : BOOLEAN, again : BOOLEAN]

RowOf(p) == [explore |-> p.explore, wide |-> p.wide, to |-> p.to]

TypeOK == /\ pack \in [Sources -> Pack]
          /\ lane \in [Traders -> [Companies -> Lane]]
          /\ call \in [Calls -> Call]
          /\ jobs \in Seq(Sources)
          /\ worker \in [Workers -> Worker]
          /\ clock \in Nat
          /\ owed \in [Traders -> BOOLEAN]
          /\ trimmed \in [Traders -> BOOLEAN]
          /\ strayed \in [Traders -> BOOLEAN]

Resting == [at |-> "idle", of |-> Mill, row |-> RowOf(NoPack), todo |-> {}, t |-> Mill,
            buyers |-> {}, seen |-> {}, next |-> {}, to |-> {}, changed |-> FALSE, again |-> FALSE]

NothingSeen == [follows |-> FALSE, to |-> {}, live |-> FALSE]
NoCall == [at |-> "idle", t |-> Mill, b |-> Mill, seen |-> NothingSeen]

Init == /\ pack = [c \in Sources |-> NoPack]
        /\ lane = [t \in Traders |-> [b \in Companies |-> "none"]]
        /\ call = [k \in Calls |-> NoCall]
        /\ jobs = <<>>
        /\ worker = [w \in Workers |-> Resting]
        /\ clock = 1
        /\ owed = [t \in Traders |-> FALSE]
        /\ trimmed = [t \in Traders |-> FALSE]
        /\ strayed = [t \in Traders |-> FALSE]

-----------------------------------------------------------------------------
(* What the code reads.                                                    *)

Exists(c) == pack[c].status # "absent"
Alive(c) == pack[c].status \in {"draft", "published"}
Buyers(t) == Companies \ {t, Supplier[t]}
Linked(t) == {b \in Buyers(t) : lane[t][b] # "none"}

\* Every trader follows its supplier, so Followers is everybody not yet delivered to.
CanDiscover(c, p) == IF p.wide THEN c \notin p.to ELSE c \in p.to

\* The source's designs that t may put in a pack of its own now.
Discoverable(t) == LET p == pack[Supplier[t]]
                   IN IF p.status = "published" /\ CanDiscover(t, p) THEN p.designs ELSE {}

MayCurate(c, S) == c # Mill => S \subseteq Discoverable(c)

\* A publication that puts a pack on top of Explore again.
BumpsOnPublish(p, wide) == \/ p.status # "published"
                           \/ p.explore = 0
                           \/ ~p.wide /\ wide

\* Buyers a pack was delivered to are kept when it goes to Followers.
AudienceFor(p, wide, ids) ==
    IF ~wide THEN ids
    ELSE IF p.automatic /\ (~p.wide \/ p.to # {}) THEN p.to ELSE {}

\* Fault: the pack's own place on Explore stands in for the revision it carries.
BehindOwnPlace(p, revision, changed) ==
    p.explore # 0 /\ (revision < p.explore \/ (revision = p.explore /\ ~changed))

\* An older revision, or the same one with nothing to copy.
Behind(p, revision, changed) ==
    p.mark # 0 /\ (revision < p.mark \/ (revision = p.mark /\ ~changed))

\* Every link is younger than the source: an old post is not brought over.
OldPost(t) == \A b \in Linked(t) : lane[t][b] = "late"

Enqueue(c) == jobs' = Append(jobs, c)
Tick == clock' = clock + 1
PeopleMayAct == clock < MaxClock /\ Len(jobs) < MaxJobs

\* A trader's pack is carried along: linked, alive, its source live and open to it.
Carried(t) == LET p == pack[Supplier[t]]
              IN Linked(t) # {} /\ Alive(t) /\ p.status = "published" /\ CanDiscover(t, p)
Revised(t) == pack'[Supplier[t]].explore # pack[Supplier[t]].explore
Watch(refused) == owed' = [t \in Traders |-> /\ Carried(t)' /\ t \notin refused
                                            /\ (owed[t] \/ Revised(t))]

-----------------------------------------------------------------------------
(* What owners do.                                                         *)

NewPack == [NoPack EXCEPT !.status = "draft"]

\* A company starts its collection; a trader does so to repost its supplier's.
Create(c) == /\ PeopleMayAct
             /\ pack[c].status = "absent"
             /\ c \in Traders => pack[Supplier[c]].status = "published"
             /\ pack' = [pack EXCEPT ![c] = NewPack]
             /\ UNCHANGED <<lane, call, jobs, worker, clock, trimmed, strayed>>
             /\ Watch({})

\* A live pack comes up again when designs are added, not when some are taken out.
Surfaces(p, S) == p.status = "published" /\ ~(S \subseteq p.designs)
WithDesigns(p, S) == [p EXCEPT !.designs = S,
                               !.explore = IF Surfaces(p, S) THEN clock + 1 ELSE @]

SetProducts(c, S) == /\ MayCurate(c, S \ pack[c].designs)
                     /\ pack' = [pack EXCEPT ![c] = WithDesigns(@, S)]
                     /\ IF Surfaces(pack[c], S)
                        THEN Enqueue(c) /\ Tick
                        ELSE UNCHANGED <<jobs, clock>>

Edit(c, S) == /\ PeopleMayAct
              /\ Exists(c)
              /\ SetProducts(c, S)
              /\ trimmed' = [t \in Traders |-> trimmed[t] \/ (t = c /\ ~(pack[c].designs \subseteq S))]
              /\ UNCHANGED <<lane, call, worker, strayed>>
              /\ Watch({})

\* The row after a publication; it is queued for the next hop.
Published(p, wide, ids) ==
    [p EXCEPT !.status = "published", !.wide = wide, !.to = AudienceFor(p, wide, ids),
              !.explore = IF BumpsOnPublish(p, wide) THEN clock + 1 ELSE @]

PublishPack(c, wide, ids) ==
    /\ pack[c].designs # {}
    /\ MayCurate(c, pack[c].designs)
    /\ pack' = [pack EXCEPT ![c] = Published(@, wide, ids)]
    /\ Tick
    /\ Enqueue(c)

Publish(c, wide, ids) == /\ PeopleMayAct
                         /\ Exists(c)
                         /\ PublishPack(c, wide, ids)
                         /\ strayed' = [t \in Traders |-> strayed[t] \/ t = c]
                         /\ UNCHANGED <<lane, call, worker, trimmed>>
                         /\ Watch({})

\* Hide from Explore, or Delete.
SetStatus(c, status) == /\ PeopleMayAct
                        /\ Exists(c)
                        /\ pack' = [pack EXCEPT ![c].status = status, ![c].explore = 0]
                        /\ Enqueue(c)
                        /\ strayed' = [t \in Traders |-> strayed[t] \/ (t = c /\ status = "archived")]
                        /\ UNCHANGED <<lane, call, worker, clock, trimmed>>
                        /\ Watch({})

\* The live window of the source ends: its own job takes the post down.
Expire(c) == /\ pack[c].status = "published"
             /\ pack' = [pack EXCEPT ![c].status = "draft", ![c].explore = 0]
             /\ UNCHANGED <<lane, call, jobs, worker, clock, trimmed, strayed>>
             /\ Watch({})

-----------------------------------------------------------------------------
(* Direct links: a request is several calls to the database.               *)

\* Only an automatic pack that is still Selected follows the links.
FollowsLinks(p) == p.automatic /\ ~p.wide /\ p.status \in {"draft", "published"}

See(p) == IF FollowsLinks(p)
          THEN [follows |-> TRUE, to |-> p.to, live |-> p.status = "published"]
          ELSE NothingSeen

\* The list that is written over is not the one that was read.
Overtaken(k) == LET now == See(pack[call[k].t])
                IN now.follows # call[k].seen.follows \/ now.to # call[k].seen.to

\* A removal holds the row of its link until it is done.
Held(t, b) == \E k \in Calls : call[k].at = "removing" /\ call[k].t = t /\ call[k].b = b

\* Buyers whose request has made the link and is still to put them on the pack.
Joining(t) == {call[k].b : k \in {j \in Calls : call[j].at \in {"reading", "writing"}
                                              /\ call[j].t = t}}

Asks(k, at, t, b, seen) ==
    call' = [call EXCEPT ![k] = [at |-> at, t |-> t, b |-> b, seen |-> seen]]
Done(k) == call' = [call EXCEPT ![k] = NoCall]

\* create: the link first ...
LinkLane(k, t, b) ==
    /\ PeopleMayAct
    /\ call[k].at = "idle" /\ b \in Buyers(t) /\ ~Held(t, b)
    /\ lane' = [lane EXCEPT ![t][b] = IF @ # "none" THEN @
                                     ELSE IF Exists(Supplier[t]) THEN "late" ELSE "early"]
    /\ Asks(k, "reading", t, b, NothingSeen)
    /\ UNCHANGED <<pack, jobs, worker, clock, trimmed, strayed>>
    /\ Watch({})

\* ... then the pack is read, and left alone when the buyer is on it and it is live ...
LinkReads(k) ==
    /\ call[k].at = "reading"
    /\ LET seen == See(pack[call[k].t])
       IN IF seen.follows /\ ~(seen.live /\ call[k].b \in seen.to)
          THEN Asks(k, "writing", call[k].t, call[k].b, seen)
          ELSE Done(k)
    /\ UNCHANGED <<pack, lane, jobs, worker, clock, trimmed, strayed>>
    /\ Watch({})

\* Fault: the buyer takes the place of the others.
WithBuyerAlone(p, seen, b) ==
    [p EXCEPT !.to = {b},
              !.status = IF seen.live THEN @ ELSE "published",
              !.explore = IF seen.live THEN @ ELSE clock + 1]

\* The buyer joins those that were read, and a pack read as a draft comes back.
WithBuyer(p, seen, b) ==
    [p EXCEPT !.to = seen.to \cup {b},
              !.status = IF seen.live THEN @ ELSE "published",
              !.explore = IF seen.live THEN @ ELSE clock + 1]

\* ... and written from what was read.
LinkWrites(k) ==
    /\ call[k].at = "writing"
    /\ LET t == call[k].t
           b == call[k].b
           seen == call[k].seen
       IN /\ pack' = [pack EXCEPT ![t] = WithBuyer(@, seen, b)]
          /\ strayed' = [strayed EXCEPT ![t] = @ \/ Overtaken(k) \/ b \notin Linked(t)]
          /\ IF seen.live THEN UNCHANGED clock ELSE Tick
    /\ Done(k)
    /\ UNCHANGED <<lane, jobs, worker, trimmed>>
    /\ Watch({})

\* remove: a transaction deletes the link and reads the pack ...
UnlinkReads(k, t, b) ==
    /\ call[k].at = "idle" /\ b \in Linked(t) /\ ~Held(t, b)
    /\ Asks(k, "removing", t, b, See(pack[t]))
    /\ UNCHANGED <<pack, lane, jobs, worker, clock, trimmed, strayed>>
    /\ Watch({})

\* The buyer leaves those that were read; the last one takes the pack off Explore
\* and stays on its list.
WithoutBuyer(p, seen, b) ==
    IF seen.to = {b} THEN [p EXCEPT !.status = "draft", !.explore = 0]
    ELSE [p EXCEPT !.to = seen.to \ {b}]

\* ... and commits what follows from it, if the buyer was on the list.
UnlinkWrites(k) ==
    /\ call[k].at = "removing"
    /\ LET t == call[k].t
           b == call[k].b
           seen == call[k].seen
       IN /\ lane' = [lane EXCEPT ![t][b] = "none"]
          /\ pack' = IF b \in seen.to
                     THEN [pack EXCEPT ![t] = WithoutBuyer(@, seen, b)] ELSE pack
          /\ strayed' = [strayed EXCEPT ![t] = @ \/ Overtaken(k) \/ seen.to = {b}]
    /\ Done(k)
    /\ UNCHANGED <<jobs, worker, clock, trimmed>>
    /\ Watch({})

-----------------------------------------------------------------------------
(* A collection.propagate job.                                             *)

At(w, step) == worker[w].at = step
Trader(w) == worker[w].t
Source(w) == worker[w].of
Goes(w, step) == worker' = [worker EXCEPT ![w].at = step]

\* The job has the traders S left to turn to, or ends.
Choosing(c, row, S) == IF S = {} THEN Resting
                       ELSE [Resting EXCEPT !.at = "choosing", !.of = c, !.row = row, !.todo = S]
NextTrader(w) == worker' = [worker EXCEPT ![w] = Choosing(@.of, @.row, @.todo)]

\* The worker reads the source; the traders that have a link to it are its list.
Take(w) ==
    /\ At(w, "idle") /\ jobs # <<>>
    /\ jobs' = Tail(jobs)
    /\ LET c == Head(jobs)
           traders == {t \in Traders : Supplier[t] = c /\ Linked(t) # {}}
       IN worker' = [worker EXCEPT ![w] =
             IF pack[c].status = "published"
             THEN Choosing(c, RowOf(pack[c]), traders)
             ELSE [Resting EXCEPT !.at = "hiding", !.of = c]]
    /\ UNCHANGED <<rows, clock, trimmed, strayed>>
    /\ Watch({})

\* A source that is not published takes the packs of the next hop down.
HideChildren(w) ==
    /\ At(w, "hiding")
    /\ LET children == {t \in Traders : Supplier[t] = Source(w) /\ pack[t].status = "published"}
       IN /\ pack' = [c \in Sources |-> IF c \in children
                                        THEN [pack[c] EXCEPT !.status = "draft", !.explore = 0]
                                        ELSE pack[c]]
          /\ jobs' = jobs \o SetToSeq(children)
    /\ worker' = [worker EXCEPT ![w] = Resting]
    /\ UNCHANGED <<lane, call, clock, trimmed, strayed>>
    /\ Watch({})

\* One trader: a pack it has is synced, a new one is made for a newer post.
DeliverToTrader(w, t) ==
    /\ At(w, "choosing") /\ t \in worker[w].todo
    /\ LET row == worker[w].row
           rest == worker[w].todo \ {t}
           wanted == Linked(t) # {} /\ CanDiscover(t, row) /\ (Alive(t) \/ ~OldPost(t))
       IN worker' = [worker EXCEPT ![w] =
             IF wanted THEN [@ EXCEPT !.at = IF Alive(t) THEN "reading" ELSE "creating",
                                      !.todo = rest, !.t = t, !.buyers = Linked(t)]
             ELSE Choosing(Source(w), row, rest)]
    /\ UNCHANGED <<rows, jobs, clock, trimmed, strayed>>
    /\ Watch({})

\* The pack and the source's designs as they are now: designs of its own stay,
\* those the source had at the last sync and has no more go.
Read(w) ==
    /\ At(w, "reading")
    /\ LET dest == pack[Trader(w)]
           seen == pack[Source(w)].designs
           next == seen \cup (dest.designs \ dest.synced)
           changed == next # dest.designs
       IN IF Behind(dest, worker[w].row.explore, changed)
          THEN Goes(w, "auditing")
          ELSE worker' = [worker EXCEPT
                 ![w].at = IF changed THEN "setting" ELSE "stamping",
                 ![w].seen = seen, ![w].next = IF changed THEN next ELSE {},
                 ![w].changed = changed /\ dest.status = "published"]
    /\ UNCHANGED <<rows, jobs, clock, trimmed, strayed>>
    /\ Watch({})

\* The trader's pack gets the designs, or the curation ceiling throws and the trader is skipped.
SetMembers(w) ==
    /\ At(w, "setting")
    /\ LET t == Trader(w)
           allowed == MayCurate(t, worker[w].next \ pack[t].designs)
       IN /\ IF allowed
             THEN /\ SetProducts(t, worker[w].next)
                  /\ worker' = [worker EXCEPT ![w].at = "stamping", ![w].next = {}]
                  /\ trimmed' = [trimmed EXCEPT ![t] = FALSE]
             ELSE NextTrader(w) /\ UNCHANGED <<pack, jobs, clock, trimmed>>
          /\ UNCHANGED <<lane, call, strayed>>
          /\ Watch(IF allowed THEN {} ELSE {t})

Stamped(p, revision, k) == [p EXCEPT !.mark = revision, !.synced = k.seen,
                                     !.explore = IF k.changed THEN revision ELSE @]

Stamp(w) ==
    /\ At(w, "stamping")
    /\ pack' = [pack EXCEPT ![Trader(w)] = Stamped(@, worker[w].row.explore, worker[w])]
    /\ worker' = [worker EXCEPT ![w].at = "auditing", ![w].seen = {}]
    /\ UNCHANGED <<lane, call, jobs, clock, trimmed, strayed>>
    /\ Watch({})

\* The next hop is queued when the live pack changed.
Ends(w) == IF worker[w].changed /\ ~worker[w].again
           THEN Enqueue(Trader(w)) /\ NextTrader(w)
           ELSE NextTrader(w) /\ UNCHANGED jobs

ReadAudience(w) ==
    /\ At(w, "auditing")
    /\ LET dest == pack[Trader(w)]
       IN IF dest.automatic /\ ~dest.wide /\ ~(worker[w].buyers \subseteq dest.to)
          THEN /\ worker' = [worker EXCEPT ![w].at = "unioning", ![w].to = dest.to]
               /\ UNCHANGED jobs
          ELSE Ends(w)
    /\ UNCHANGED <<rows, clock, trimmed, strayed>>
    /\ Watch({})

UnionBuyers(w) ==
    /\ At(w, "unioning")
    /\ LET t == Trader(w)
       IN /\ pack' = [pack EXCEPT ![t].to = worker[w].to \cup worker[w].buyers]
          /\ strayed' = [strayed EXCEPT ![t] = @ \/ pack[t].to # worker[w].to
                                                \/ Linked(t) # worker[w].buyers]
    /\ Ends(w)
    /\ UNCHANGED <<lane, call, clock, trimmed>>
    /\ Watch({})

\* A row for the trader.  One that appeared meanwhile is used if it is a draft or
\* automatic and Selected, and synced otherwise; a deleted one stays in the way.
CreateRow(w) ==
    /\ At(w, "creating")
    /\ LET t == Trader(w)
           reused == Alive(t) /\ (pack[t].status = "draft" \/ FollowsLinks(pack[t]))
       IN IF pack[Source(w)].status # "published" \/ pack[t].status = "archived"
          THEN NextTrader(w) /\ UNCHANGED pack
          ELSE IF reused
               THEN Goes(w, "filling") /\ UNCHANGED pack
               ELSE IF Alive(t)
                    THEN /\ worker' = [worker EXCEPT ![w].at = "reading", ![w].again = TRUE]
                         /\ UNCHANGED pack
                    ELSE pack' = [pack EXCEPT ![t] = NewPack] /\ Goes(w, "filling")
    /\ UNCHANGED <<lane, call, jobs, clock, trimmed, strayed>>
    /\ Watch({})

FillRow(w) ==
    /\ At(w, "filling")
    /\ LET t == Trader(w)
           seen == pack[Source(w)].designs
           allowed == MayCurate(t, seen \ pack[t].designs)
       IN /\ IF allowed
             THEN /\ worker' = [worker EXCEPT ![w].at = "tracing", ![w].seen = seen]
                  /\ IF seen # {} THEN SetProducts(t, seen) ELSE UNCHANGED <<pack, jobs, clock>>
             ELSE NextTrader(w) /\ UNCHANGED <<pack, jobs, clock>>
          /\ UNCHANGED <<lane, call, trimmed, strayed>>
          /\ Watch(IF allowed THEN {} ELSE {t})

StampLineage(w) ==
    /\ At(w, "tracing")
    /\ pack' = [pack EXCEPT ![Trader(w)] = [@ EXCEPT !.automatic = TRUE,
                                                    !.mark = worker[w].row.explore,
                                                    !.synced = worker[w].seen]]
    /\ worker' = [worker EXCEPT ![w].at = "publishing", ![w].seen = {}]
    /\ UNCHANGED <<lane, call, jobs, clock, trimmed, strayed>>
    /\ Watch({})

\* The pack goes out to the buyers the worker read.
PublishRow(w) ==
    /\ At(w, "publishing")
    /\ LET t == Trader(w)
       IN IF pack[t].designs # {} /\ MayCurate(t, pack[t].designs)
          THEN /\ PublishPack(t, FALSE, worker[w].buyers)
               /\ strayed' = [strayed EXCEPT ![t] = @ \/ Linked(t) # worker[w].buyers]
          ELSE UNCHANGED <<pack, jobs, clock, strayed>>
    /\ NextTrader(w)
    /\ UNCHANGED <<lane, call, trimmed>>
    /\ Watch({})

-----------------------------------------------------------------------------
Own(c) == IF c = Mill THEN Designs ELSE pack[c].designs \cup pack[Supplier[c]].designs

Owners == \E c \in Sources :
             \/ Create(c)
             \/ \E S \in SUBSET Own(c) : Edit(c, S)
             \/ Publish(c, TRUE, {})
             \/ \E ids \in HandPicked : Publish(c, FALSE, ids)
             \/ SetStatus(c, "draft")
             \/ SetStatus(c, "archived")

Links == \E k \in Calls :
            \/ \E t \in Traders, b \in Companies : LinkLane(k, t, b) \/ UnlinkReads(k, t, b)
            \/ LinkReads(k) \/ LinkWrites(k) \/ UnlinkWrites(k)

Work(w) == \/ Take(w) \/ HideChildren(w)
           \/ \E t \in Traders : DeliverToTrader(w, t)
           \/ Read(w) \/ SetMembers(w) \/ Stamp(w)
           \/ ReadAudience(w) \/ UnionBuyers(w)
           \/ CreateRow(w) \/ FillRow(w) \/ StampLineage(w) \/ PublishRow(w)

Next == Owners \/ Expire(Mill) \/ Links \/ \E w \in Workers : Work(w)

Spec == Init /\ [][Next]_vars

-----------------------------------------------------------------------------
(* Properties.                                                             *)

Quiet == jobs = <<>> /\ \A w \in Workers : worker[w].at = "idle"

\* When the queue is empty, every pack that could follow its source since the source
\* last came up on Explore carries that revision (propagate stamps it), and all of the
\* source's designs unless its own trader took some out by hand.
QuietPacksFollow ==
    Quiet => \A t \in Traders :
                LET p == pack[Supplier[t]]
                IN owed[t] => /\ pack[t].mark = p.explore
                              /\ ~trimmed[t] => p.designs \subseteq pack[t].designs

\* An automatic pack on Explore that nobody published by hand is shown to exactly the
\* buyers its trader has a link for, but for those whose request is still to add them,
\* however many requests and jobs are under way: only a write made from a list or from
\* links that have changed since they were read, and the removal of the last buyer,
\* lead it astray (unionDirectLinkBuyer, removeDirectLinkBuyer, syncSelectedBuyers).
ShownToLinkedBuyers ==
    \A t \in Traders :
       FollowsLinks(pack[t]) /\ pack[t].status = "published" /\ ~strayed[t]
       => /\ pack[t].to \subseteq Linked(t)
          /\ Linked(t) \subseteq pack[t].to \cup Joining(t)

-----------------------------------------------------------------------------
(* What the repository says and the code does not keep.                    *)

Settled == Quiet /\ \A k \in Calls : call[k].at = "idle"

\* "Direct Link create unions the buyer": when no request and no job is left, every
\* linked buyer is on the live automatic pack.
LinkedBuyersSee ==
    Settled => \A t \in Traders : FollowsLinks(pack[t]) /\ pack[t].status = "published"
                                   => Linked(t) \subseteq pack[t].to

\* The same words of one request: the buyers that are linked and on the pack stay on it.
LinkKeepsOthers ==
    [][\A k \in Calls : LET t == call[k].t
                        IN call[k].at = "writing" /\ call'[k].at = "idle"
                           => pack[t].to \cap Linked(t) \subseteq pack'[t].to]_vars

\* "Revoke.  Remove buyer from automatic Selected lists": a removal that found the buyer
\* on the list leaves a list without them, or the next link shows them the pack again.
RevokedBuyersLeave ==
    [][\A k \in Calls : call[k].at = "removing" /\ call'[k].at = "idle"
                        /\ call[k].b \in call[k].seen.to
                        => call[k].b \notin pack'[call[k].t].to]_vars
=============================================================================
