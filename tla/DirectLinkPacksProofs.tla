------------------------ MODULE DirectLinkPacksProofs ------------------------
(***************************************************************************)
(* Who is shown the packs behind Direct links, for any number of traders,  *)
(* shops, designs, waiting jobs and workers, and any chain of suppliers;   *)
(* and that one worker, serving one hop, leaves no pack behind its source. *)
(***************************************************************************)
EXTENDS DirectLinkPacks, FiniteSetTheorems, TLAPS

\* The worker has a trader in hand, whose buyers it has read.
Hand(w) == worker[w].at \notin {"idle", "hiding", "choosing"}

\* What a worker knows of the pack it has in hand.
WorkerOK(w) ==
    /\ Hand(w) <=> Trader(w) \in Traders
    /\ Hand(w) /\ ~At(w, "creating") => Exists(Trader(w))
    /\ At(w, "publishing") => pack[Trader(w)].automatic

\* A request about a link knows a trader and one of its possible buyers, and has found
\* a pack if it is to write one.
CallOK(k) ==
    /\ call[k].at # "idle" => call[k].t \in Traders /\ call[k].b \in Buyers(call[k].t)
    /\ call[k].at = "writing" \/ call[k].seen.to # {} => Exists(call[k].t)

PackOK(c) == pack[c].automatic => Exists(c)

\* A pack that nobody published by hand went Selected through the worker only, and its
\* audience is the linked buyers', but for those whose request is under way.
LinksOnly(t) ==
    /\ pack[t].status # "archived"
    /\ ~pack[t].wide => /\ pack[t].automatic
                        /\ pack[t].to \subseteq Linked(t)
                        /\ Linked(t) \subseteq pack[t].to \cup Joining(t)

Inv == /\ TypeOK
       /\ \A c \in Sources : PackOK(c)
       /\ \A w \in Workers : WorkerOK(w)
       /\ \A k \in Calls : CallOK(k)
       /\ \A t \in Traders : ~strayed[t] => LinksOnly(t)

-----------------------------------------------------------------------------
(* Types.                                                                  *)

LEMMA MillIsNoTrader == Mill \in Sources /\ Mill \notin Traders /\ Traders \subseteq Sources
  BY HopAssumption DEF Sources

LEMMA SuppliersAreSources == ASSUME NEW t \in Traders PROVE Supplier[t] \in Sources
  BY HopAssumption

\* What the code writes in place of a row is a row.
LEMMA RowTypes ==
    ASSUME NEW p \in Pack
    PROVE  /\ NoPack \in Pack /\ NewPack \in Pack
           /\ RowOf(p) \in Row
           /\ \A s \in {"draft", "published", "archived"} :
                [p EXCEPT !.status = s, !.explore = 0] \in Pack
  BY DEF NewPack, NoPack, Pack, RowOf, Row, Companies, Sources

LEMMA SetRow ==
    ASSUME pack \in [Sources -> Pack], NEW c \in Sources, NEW p \in Pack,
           pack' = [pack EXCEPT ![c] = p]
    PROVE  /\ pack' \in [Sources -> Pack]
           /\ pack'[c] = p
           /\ \A d \in Sources : d # c => pack'[d] = pack[d]
  BY Zenon

LEMMA SetWorker ==
    ASSUME worker \in [Workers -> Worker], NEW w \in Workers, NEW k \in Worker,
           worker' = [worker EXCEPT ![w] = k]
    PROVE  /\ worker' \in [Workers -> Worker]
           /\ worker'[w] = k
           /\ \A v \in Workers : v # w => worker'[v] = worker[v]
  BY Zenon

LEMMA RestingType ==
    ASSUME NEW c \in Sources, NEW row \in Row, NEW S \in SUBSET Traders
    PROVE  /\ Resting \in Worker
           /\ Choosing(c, row, S) \in Worker
           /\ Choosing(c, row, S).at \in {"idle", "choosing"}
           /\ Choosing(c, row, S).t = Mill
<1>1. Resting \in Worker
  BY MillIsNoTrader DEF Resting, Worker, Steps, RowOf, Row, NoPack, Companies, Sources
<1>2. [Resting EXCEPT !.at = "choosing", !.of = c, !.row = row, !.todo = S] \in Worker
  BY <1>1 DEF Worker, Steps
<1> QED BY <1>1, <1>2 DEF Choosing, Resting

LEMMA WatchType ==
    ASSUME NEW refused, Watch(refused)
    PROVE  owed' \in [Traders -> BOOLEAN]
  BY DEF Watch

\* The packs of the next hop, in whatever order the rows come.
LEMMA SeqOfSet ==
    ASSUME NEW S, S \subseteq Traders
    PROVE  SetToSeq(S) \in Seq(Sources)
<1>1. IsFiniteSet(S)
  BY HopAssumption, FS_Subset
<1>2. Cardinality(S) \in Nat /\ ExistsBijection(1..Cardinality(S), S)
  BY <1>1, FS_CardinalityType
<1>3. PICK f \in [1..Cardinality(S) -> S] : IsInjective(f)
  BY <1>2 DEF ExistsBijection, Bijection, Injection, IsInjective
<1>4. SetToSeq(S) \in [1..Cardinality(S) -> S]
  BY <1>3 DEF SetToSeq
<1>5. SetToSeq(S) \in [1..Cardinality(S) -> Sources]
  BY <1>4, MillIsNoTrader
<1> QED BY <1>2, <1>5

-----------------------------------------------------------------------------
(* Steps.                                                                  *)

\* Status and audience of a row are left alone.
SameAudience(c) == /\ pack'[c].status = pack[c].status
                   /\ pack'[c].wide = pack[c].wide
                   /\ pack'[c].to = pack[c].to
                   /\ pack'[c].automatic = pack[c].automatic

\* A row stays, and automatic if it was.
RowStays(c) == /\ Exists(c) => Exists(c)'
               /\ pack[c].automatic => pack'[c].automatic
               /\ pack'[c].automatic => Exists(c)'

\* A pack is not opened to anybody but by hand.
AudienceStays(t) ==
    /\ pack'[t].status # "archived"
    /\ ~pack'[t].wide => /\ ~pack[t].wide /\ pack'[t].to = pack[t].to
                         /\ pack'[t].automatic = pack[t].automatic

LEMMA QueueTypes ==
    ASSUME TypeOK, NEW c \in Sources
    PROVE  /\ Enqueue(c) /\ Tick => jobs' \in Seq(Sources) /\ clock' \in Nat
           /\ Enqueue(c) => jobs' \in Seq(Sources)
           /\ UNCHANGED <<jobs, clock>> => jobs' \in Seq(Sources) /\ clock' \in Nat
<1>1. jobs \in Seq(Sources) /\ clock \in Nat
  BY DEF TypeOK
<1>2. Enqueue(c) => jobs' \in Seq(Sources)
  BY <1>1 DEF Enqueue
<1>3. Tick => clock' \in Nat
  BY <1>1 DEF Tick
<1>4. UNCHANGED <<jobs, clock>> => jobs' \in Seq(Sources) /\ clock' \in Nat
  BY <1>1
<1> QED BY <1>2, <1>3, <1>4

LEMMA SetProductsWrites ==
    ASSUME TypeOK, NEW c \in Sources, NEW S \in SUBSET Designs, SetProducts(c, S)
    PROVE  /\ pack' \in [Sources -> Pack]
           /\ \A d \in Sources : SameAudience(d)
           /\ \A d \in Sources : d # c => pack'[d] = pack[d]
           /\ pack'[c].designs = S /\ pack'[c].mark = pack[c].mark
           /\ \/ Enqueue(c) /\ Tick /\ pack'[c].explore = clock + 1
              \/ /\ UNCHANGED <<jobs, clock>> /\ pack'[c].explore = pack[c].explore
                 /\ pack[c].status = "published" => S \subseteq pack[c].designs
           /\ jobs' \in Seq(Sources) /\ clock' \in Nat
<1> DEFINE n == IF Surfaces(pack[c], S) THEN clock + 1 ELSE pack[c].explore
           p == WithDesigns(pack[c], S)
<1>1. pack[c] \in Pack /\ clock \in Nat
  BY DEF TypeOK
<1>2. /\ p \in Pack
      /\ p.status = pack[c].status /\ p.wide = pack[c].wide
      /\ p.to = pack[c].to /\ p.automatic = pack[c].automatic
      /\ p.designs = S /\ p.mark = pack[c].mark /\ p.explore = n
  <2>1. n \in Nat /\ p = [pack[c] EXCEPT !.designs = S, !.explore = n]
    BY <1>1 DEF WithDesigns, Pack
  <2> HIDE DEF n, p
  <2> QED BY <1>1, <2>1 DEF Pack
<1>3. pack \in [Sources -> Pack] /\ pack' = [pack EXCEPT ![c] = p]
  BY DEF TypeOK, SetProducts
<1> HIDE DEF p, n
<1>4. /\ pack' \in [Sources -> Pack] /\ pack'[c] = p
      /\ \A d \in Sources : d # c => pack'[d] = pack[d]
  BY <1>2, <1>3, SetRow
<1>5. \/ Enqueue(c) /\ Tick /\ n = clock + 1
      \/ /\ UNCHANGED <<jobs, clock>> /\ n = pack[c].explore
         /\ pack[c].status = "published" => S \subseteq pack[c].designs
  BY DEF SetProducts, n, Surfaces
<1>6. jobs' \in Seq(Sources) /\ clock' \in Nat
  BY <1>5, QueueTypes
<1> QED BY <1>2, <1>4, <1>5, <1>6 DEF SameAudience

LEMMA PublishWrites ==
    ASSUME TypeOK, NEW c \in Sources, NEW wide \in BOOLEAN, NEW ids \in SUBSET Companies,
           PublishPack(c, wide, ids)
    PROVE  /\ pack' \in [Sources -> Pack]
           /\ pack'[c].status = "published" /\ pack'[c].wide = wide
           /\ pack'[c].automatic = pack[c].automatic
           /\ ~wide => pack'[c].to = ids
           /\ pack'[c].designs = pack[c].designs /\ pack'[c].mark = pack[c].mark
           /\ \/ pack'[c].explore = clock + 1
              \/ pack[c].status = "published" /\ pack'[c].explore = pack[c].explore
           /\ Enqueue(c) /\ Tick
           /\ \A d \in Sources : d # c => pack'[d] = pack[d]
           /\ jobs' \in Seq(Sources) /\ clock' \in Nat
<1> DEFINE to == AudienceFor(pack[c], wide, ids)
           n == IF BumpsOnPublish(pack[c], wide) THEN clock + 1 ELSE pack[c].explore
           p == Published(pack[c], wide, ids)
<1>1. pack[c] \in Pack /\ clock \in Nat
  BY DEF TypeOK
<1>2. /\ to \in SUBSET Companies /\ (~wide => to = ids) /\ n \in Nat
      /\ n = clock + 1 \/ (pack[c].status = "published" /\ n = pack[c].explore)
  BY <1>1 DEF AudienceFor, Pack, BumpsOnPublish
<1>3. pack \in [Sources -> Pack] /\ pack' = [pack EXCEPT ![c] = p]
  BY DEF TypeOK, PublishPack
<1> HIDE DEF to, n
<1>4. /\ p \in Pack /\ p.status = "published" /\ p.wide = wide /\ p.to = to
      /\ p.automatic = pack[c].automatic /\ p.explore = n
      /\ p.designs = pack[c].designs /\ p.mark = pack[c].mark
  <2>1. p = [pack[c] EXCEPT !.status = "published", !.wide = wide, !.to = to, !.explore = n]
    BY DEF Published, to, n
  <2> HIDE DEF p
  <2> QED BY <1>1, <1>2, <2>1 DEF Pack
<1> HIDE DEF p
<1>5. /\ pack' \in [Sources -> Pack] /\ pack'[c] = p
      /\ \A d \in Sources : d # c => pack'[d] = pack[d]
  BY <1>3, <1>4, SetRow
<1>6. jobs' \in Seq(Sources) /\ clock' \in Nat
  BY QueueTypes DEF PublishPack
<1> QED BY <1>2, <1>4, <1>5, <1>6 DEF PublishPack

\* What is known of the workers and the requests holds on when they do nothing.
LEMMA OthersKeep ==
    ASSUME Inv, \A c \in Sources : RowStays(c)
    PROVE  /\ \A c \in Sources : PackOK(c)'
           /\ \A w \in Workers : worker'[w] = worker[w] => WorkerOK(w)'
           /\ \A k \in Calls : call'[k] = call[k] => CallOK(k)'
<1>1. \A c \in Sources : PackOK(c)'
  BY DEF RowStays, PackOK
<1>2. ASSUME NEW w \in Workers, worker'[w] = worker[w] PROVE WorkerOK(w)'
  <2>1. WorkerOK(w) /\ RowStays(Trader(w))
    BY DEF Inv, TypeOK, Worker, Trader
  <2> QED BY <1>2, <2>1 DEF WorkerOK, Hand, At, Trader, RowStays
<1>3. ASSUME NEW k \in Calls, call'[k] = call[k] PROVE CallOK(k)'
  <2>1. CallOK(k) /\ RowStays(call[k].t)
    BY DEF Inv, TypeOK, Call
  <2> QED BY <1>3, <2>1 DEF CallOK, RowStays, Buyers
<1> QED BY <1>1, <1>2, <1>3

\* Whose audience is left alone is shown to the same buyers as long as links and
\* requests stay.
LEMMA AudienceKept ==
    ASSUME NEW t \in Traders, LinksOnly(t), AudienceStays(t),
           lane'[t] = lane[t], Joining(t)' = Joining(t)
    PROVE  LinksOnly(t)'
<1>1. Linked(t)' = Linked(t)
  BY DEF Linked, Buyers
<1> QED BY <1>1 DEF LinksOnly, AudienceStays

\* Owners change rows; workers and links stay as they are.
LEMMA OwnersKeep ==
    ASSUME Inv, TypeOK', worker' = worker, lane' = lane, call' = call,
           \A t \in Traders : strayed[t] => strayed'[t],
           \A c \in Sources : RowStays(c),
           \A t \in Traders : ~strayed'[t] => AudienceStays(t)
    PROVE  Inv'
<1>1. ASSUME NEW t \in Traders, ~strayed'[t] PROVE LinksOnly(t)'
  <2>1. LinksOnly(t) /\ AudienceStays(t) /\ Joining(t)' = Joining(t)
    BY <1>1 DEF Inv, Joining
  <2> QED BY <2>1, AudienceKept
<1> QED BY <1>1, OthersKeep DEF Inv

\* A worker turns to the next trader or goes on with the one in hand.
GoesOn(w) ==
    \/ ~Hand(w)' /\ Trader(w)' = Mill
    \/ /\ Hand(w)' /\ Trader(w)' = Trader(w) /\ Trader(w) \in Traders
       /\ ~At(w, "creating")' => Exists(Trader(w))'
       /\ At(w, "publishing")' => pack'[Trader(w)].automatic

LEMMA RowsUnchanged ==
    ASSUME Inv, pack' = pack
    PROVE  /\ \A c \in Sources : RowStays(c)
           /\ \A t \in Traders : ~strayed[t] => AudienceStays(t)
  BY DEF Inv, PackOK, RowStays, Exists, AudienceStays, LinksOnly

\* A worker at work, which may write an audience ...
LEMMA WorkAstray ==
    ASSUME Inv, TypeOK', NEW w \in Workers, lane' = lane, call' = call,
           \A t \in Traders : strayed[t] => strayed'[t],
           \A v \in Workers : v # w => worker'[v] = worker[v],
           \A c \in Sources : RowStays(c),
           \A t \in Traders : ~strayed'[t] => AudienceStays(t) \/ LinksOnly(t)',
           GoesOn(w) \/ WorkerOK(w)'
    PROVE  Inv'
<1>1. WorkerOK(w)'
  <2>1. CASE ~Hand(w)' /\ Trader(w)' = Mill
    BY <2>1, MillIsNoTrader DEF WorkerOK, Hand, At
  <2>2. CASE /\ Hand(w)' /\ Trader(w)' = Trader(w) /\ Trader(w) \in Traders
             /\ ~At(w, "creating")' => Exists(Trader(w))'
             /\ At(w, "publishing")' => pack'[Trader(w)].automatic
    BY <2>2 DEF WorkerOK, At
  <2> QED BY <2>1, <2>2 DEF GoesOn
<1>2. \A v \in Workers : WorkerOK(v)'
  BY <1>1, OthersKeep
<1>3. ASSUME NEW t \in Traders, ~strayed'[t] PROVE LinksOnly(t)'
  <2>1. LinksOnly(t) /\ Joining(t)' = Joining(t)
    BY <1>3 DEF Inv, Joining
  <2> QED BY <1>3, <2>1, AudienceKept
<1> QED BY <1>2, <1>3, OthersKeep DEF Inv

\* ... and one that does not.
LEMMA WorkKeeps ==
    ASSUME Inv, TypeOK', NEW w \in Workers, lane' = lane, call' = call, strayed' = strayed,
           \A v \in Workers : v # w => worker'[v] = worker[v],
           \A c \in Sources : RowStays(c),
           \A t \in Traders : ~strayed[t] => AudienceStays(t),
           GoesOn(w) \/ WorkerOK(w)'
    PROVE  Inv'
  BY WorkAstray

-----------------------------------------------------------------------------
(* What people do.                                                         *)

LEMMA CreateKeeps ==
    ASSUME Inv, NEW c \in Sources, Create(c)
    PROVE  Inv'
<1>1. pack \in [Sources -> Pack] /\ NewPack \in Pack /\ pack' = [pack EXCEPT ![c] = NewPack]
  BY RowTypes DEF Inv, TypeOK, Create
<1>2. /\ pack' \in [Sources -> Pack] /\ pack'[c] = NewPack
      /\ \A d \in Sources : d # c => pack'[d] = pack[d]
  BY <1>1, SetRow
<1>3. TypeOK'
  BY <1>2, WatchType DEF Inv, TypeOK, Create
<1>4. RowStays(c)
  BY <1>2 DEF Inv, PackOK, Create, RowStays, Exists, NewPack, NoPack
<1>5. \A d \in Sources : RowStays(d)
  BY <1>2, <1>4 DEF Inv, RowStays, PackOK, Exists
<1>6. ASSUME NEW t \in Traders, ~strayed'[t] PROVE AudienceStays(t)
  <2>1. LinksOnly(t) /\ t \in Sources
    BY <1>6, MillIsNoTrader DEF Inv, Create
  <2> QED BY <2>1, <1>2 DEF AudienceStays, LinksOnly, NewPack, NoPack
<1> QED BY <1>3, <1>5, <1>6, OwnersKeep DEF Create

LEMMA OwnDesigns == ASSUME TypeOK, NEW c \in Sources PROVE Own(c) \subseteq Designs
<1>1. \A d \in Sources : pack[d].designs \subseteq Designs
  BY DEF TypeOK, Pack
<1>2. c # Mill => Supplier[c] \in Sources
  BY SuppliersAreSources DEF Sources
<1> QED BY <1>1, <1>2 DEF Own

LEMMA EditKeeps ==
    ASSUME Inv, NEW c \in Sources, NEW S \in SUBSET Own(c), Edit(c, S)
    PROVE  Inv'
<1>1. /\ pack' \in [Sources -> Pack] /\ \A d \in Sources : SameAudience(d)
      /\ jobs' \in Seq(Sources) /\ clock' \in Nat
  BY OwnDesigns, SetProductsWrites DEF Inv, Edit
<1>2. TypeOK'
  BY <1>1, WatchType DEF Inv, TypeOK, Edit
<1>3. \A d \in Sources : RowStays(d)
  BY <1>1 DEF Inv, PackOK, RowStays, SameAudience, Exists
<1>4. ASSUME NEW t \in Traders, ~strayed'[t] PROVE AudienceStays(t)
  <2>1. LinksOnly(t) /\ SameAudience(t)
    BY <1>1, <1>4, MillIsNoTrader DEF Inv, Edit
  <2> QED BY <2>1 DEF AudienceStays, LinksOnly, SameAudience
<1> QED BY <1>2, <1>3, <1>4, OwnersKeep DEF Edit

LEMMA PublishKeeps ==
    ASSUME Inv, NEW c \in Sources, NEW wide \in BOOLEAN, NEW ids \in SUBSET Companies,
           Publish(c, wide, ids)
    PROVE  Inv'
<1>1. /\ pack' \in [Sources -> Pack]
      /\ pack'[c].status = "published" /\ pack'[c].automatic = pack[c].automatic
      /\ \A d \in Sources : d # c => pack'[d] = pack[d]
      /\ jobs' \in Seq(Sources) /\ clock' \in Nat
  BY PublishWrites DEF Inv, Publish
<1>2. strayed' = [t \in Traders |-> strayed[t] \/ t = c]
  BY DEF Publish
<1>3. strayed' \in [Traders -> BOOLEAN]
  BY <1>2
<1>4. TypeOK'
  BY <1>1, <1>3, WatchType DEF Inv, TypeOK, Publish
<1>5. \A d \in Sources : RowStays(d)
  BY <1>1 DEF Inv, PackOK, RowStays, Exists
<1>6. \A t \in Traders : strayed[t] => strayed'[t]
  BY <1>2
<1>7. ASSUME NEW t \in Traders, ~strayed'[t] PROVE AudienceStays(t)
  <2>1. LinksOnly(t) /\ pack'[t] = pack[t]
    BY <1>1, <1>2, <1>7, MillIsNoTrader DEF Inv
  <2> QED BY <2>1 DEF AudienceStays, LinksOnly
<1> QED BY <1>4, <1>5, <1>6, <1>7, OwnersKeep DEF Publish

LEMMA SetStatusKeeps ==
    ASSUME Inv, NEW c \in Sources, NEW st \in {"draft", "archived"}, SetStatus(c, st)
    PROVE  Inv'
<1> DEFINE p == [pack[c] EXCEPT !.status = st, !.explore = 0]
<1>1. pack \in [Sources -> Pack] /\ pack[c] \in Pack /\ p \in Pack
  BY RowTypes DEF Inv, TypeOK
<1>2. /\ p.status = st /\ p.wide = pack[c].wide /\ p.to = pack[c].to
      /\ p.automatic = pack[c].automatic
  BY <1>1 DEF Pack
<1>3. pack' = [pack EXCEPT ![c] = p]
  BY <1>1 DEF SetStatus
<1> HIDE DEF p
<1>4. /\ pack' \in [Sources -> Pack] /\ pack'[c] = p
      /\ \A d \in Sources : d # c => pack'[d] = pack[d]
  BY <1>1, <1>3, SetRow
<1>5. strayed' = [t \in Traders |-> strayed[t] \/ (t = c /\ st = "archived")]
  BY DEF SetStatus
<1>6. strayed' \in [Traders -> BOOLEAN] /\ jobs' \in Seq(Sources)
  BY <1>5, QueueTypes DEF Inv, SetStatus
<1>7. TypeOK'
  BY <1>4, <1>6, WatchType DEF Inv, TypeOK, SetStatus
<1>8. \A d \in Sources : RowStays(d)
  BY <1>2, <1>4 DEF Inv, PackOK, RowStays, Exists
<1>9. \A t \in Traders : strayed[t] => strayed'[t]
  BY <1>5
<1>10. ASSUME NEW t \in Traders, ~strayed'[t] PROVE AudienceStays(t)
  <2>1. LinksOnly(t) /\ t \in Sources /\ (t = c => st # "archived")
    BY <1>5, <1>10, MillIsNoTrader DEF Inv
  <2> QED BY <2>1, <1>2, <1>4 DEF AudienceStays, LinksOnly
<1> QED BY <1>7, <1>8, <1>9, <1>10, OwnersKeep DEF SetStatus

LEMMA ExpireKeeps ==
    ASSUME Inv, Expire(Mill)
    PROVE  Inv'
<1> DEFINE p == [pack[Mill] EXCEPT !.status = "draft", !.explore = 0]
<1>1. pack \in [Sources -> Pack] /\ pack[Mill] \in Pack /\ p \in Pack /\ Mill \in Sources
  BY RowTypes, MillIsNoTrader DEF Inv, TypeOK
<1>2. p.status = "draft" /\ p.automatic = pack[Mill].automatic
  BY <1>1 DEF Pack
<1>3. pack' = [pack EXCEPT ![Mill] = p]
  BY <1>1 DEF Expire
<1> HIDE DEF p
<1>4. /\ pack' \in [Sources -> Pack] /\ pack'[Mill] = p
      /\ \A d \in Sources : d # Mill => pack'[d] = pack[d]
  BY <1>1, <1>3, SetRow
<1>5. TypeOK'
  BY <1>4, WatchType DEF Inv, TypeOK, Expire
<1>6. \A d \in Sources : RowStays(d)
  BY <1>2, <1>4 DEF Inv, PackOK, RowStays, Exists
<1>7. ASSUME NEW t \in Traders, ~strayed'[t] PROVE AudienceStays(t)
  <2>1. LinksOnly(t) /\ pack'[t] = pack[t]
    BY <1>4, <1>7, MillIsNoTrader DEF Inv, Expire
  <2> QED BY <2>1 DEF AudienceStays, LinksOnly
<1> QED BY <1>5, <1>6, <1>7, OwnersKeep DEF Expire

-----------------------------------------------------------------------------
(* Links.                                                                  *)

LEMMA NoCallType == NoCall \in Call /\ NoCall.at = "idle" /\ NoCall.seen.to = {}
  BY MillIsNoTrader DEF NoCall, NothingSeen, Call, Seen, Companies, Sources

LEMMA SeeType == ASSUME NEW p \in Pack PROVE See(p) \in Seen
  BY DEF See, NothingSeen, Seen, Pack, FollowsLinks

LEMMA SetCall ==
    ASSUME TypeOK, NEW k \in Calls, NEW new \in Call, call' = [call EXCEPT ![k] = new]
    PROVE  /\ call' \in [Calls -> Call] /\ call'[k] = new
           /\ \A j \in Calls : j # k => call'[j] = call[j]
<1>1. call \in [Calls -> Call]
  BY DEF TypeOK
<1> QED BY <1>1, Zenon

\* The buyer a request c is still to add to the pack of t.
Adds(c, t) == IF c.at \in {"reading", "writing"} /\ c.t = t THEN {c.b} ELSE {}

\* The buyers that are joining change by those of the request that goes on.
LEMMA JoiningStep ==
    ASSUME NEW k \in Calls, \A j \in Calls : j # k => call'[j] = call[j], NEW t \in Traders
    PROVE  /\ Joining(t) \subseteq Joining(t)' \cup Adds(call[k], t)
           /\ Joining(t)' \subseteq Joining(t) \cup Adds(call'[k], t)
           /\ Adds(call[k], t) \subseteq Joining(t)
           /\ Adds(call'[k], t) \subseteq Joining(t)'
  BY DEF Joining, Adds

LEMMA LinksKeep ==
    ASSUME Inv, TypeOK', worker' = worker, NEW k \in Calls, NEW t \in Traders,
           \A j \in Calls : j # k => call'[j] = call[j],
           \A u \in Traders : u # t => /\ lane'[u] = lane[u] /\ strayed'[u] = strayed[u]
                                       /\ Adds(call[k], u) = {} /\ Adds(call'[k], u) = {},
           \A c \in Sources : c # t => pack'[c] = pack[c],
           CallOK(k)', RowStays(t),
           ~strayed'[t] => LinksOnly(t)'
    PROVE  Inv'
<1>1. \A c \in Sources : RowStays(c)
  BY DEF Inv, PackOK, RowStays, Exists
<1>2. ASSUME NEW u \in Traders, ~strayed'[u] PROVE LinksOnly(u)'
  <2>1. CASE u = t
    BY <1>2, <2>1
  <2>2. CASE u # t
    <3>1. LinksOnly(u) /\ pack'[u] = pack[u] /\ lane'[u] = lane[u]
      BY <1>2, <2>2, MillIsNoTrader DEF Inv
    <3>2. Joining(u)' = Joining(u)
      <4>1. Adds(call[k], u) = {} /\ Adds(call'[k], u) = {}
        BY <2>2
      <4>2. Joining(u) \subseteq Joining(u)' \cup {} /\ Joining(u)' \subseteq Joining(u) \cup {}
        BY <4>1, JoiningStep
      <4> QED BY <4>2
    <3>3. AudienceStays(u)
      BY <3>1 DEF AudienceStays, LinksOnly
    <3> QED BY <3>1, <3>2, <3>3, AudienceKept
  <2> QED BY <2>1, <2>2
<1>3. \A j \in Calls : CallOK(j)'
  BY <1>1, OthersKeep
<1> QED BY <1>1, <1>2, <1>3, OthersKeep DEF Inv

LEMMA SetLane ==
    ASSUME TypeOK, NEW t \in Traders, NEW b \in Buyers(t), NEW v \in Lane,
           lane' = [lane EXCEPT ![t][b] = v]
    PROVE  /\ lane' \in [Traders -> [Companies -> Lane]]
           /\ \A u \in Traders : u # t => lane'[u] = lane[u]
           /\ Linked(t)' = IF v = "none" THEN Linked(t) \ {b} ELSE Linked(t) \cup {b}
<1>1. lane \in [Traders -> [Companies -> Lane]] /\ b \in Companies
  BY DEF TypeOK, Buyers
<1>2. lane' \in [Traders -> [Companies -> Lane]] /\ \A u \in Traders : u # t => lane'[u] = lane[u]
  BY <1>1
<1>3. lane'[t][b] = v /\ \A d \in Companies : d # b => lane'[t][d] = lane[t][d]
  BY <1>1
<1>4. Buyers(t) \subseteq Companies
  BY DEF Buyers
<1> QED BY <1>2, <1>3, <1>4 DEF Linked

\* A pack that nobody published by hand either follows the links or is open to Followers.
LEMMA FollowsOrWide ==
    ASSUME Inv, NEW t \in Traders, LinksOnly(t), ~pack[t].wide
    PROVE  FollowsLinks(pack[t]) /\ See(pack[t]).follows /\ See(pack[t]).to = pack[t].to
           /\ See(pack[t]).live = (pack[t].status = "published")
<1>1. PackOK(t) /\ pack[t] \in Pack
  BY MillIsNoTrader DEF Inv, TypeOK
<1>2. pack[t].status \in {"absent", "draft", "published", "archived"}
  BY <1>1 DEF Pack
<1>3. FollowsLinks(pack[t])
  BY <1>1, <1>2 DEF LinksOnly, PackOK, Exists, FollowsLinks
<1> QED BY <1>3 DEF See

\* A request at work, whose trader and buyer it knows.
LEMMA AtWork ==
    ASSUME Inv, NEW k \in Calls, call[k].at # "idle"
    PROVE  /\ call[k].t \in Traders /\ call[k].t \in Sources /\ call[k].b \in Buyers(call[k].t)
           /\ call[k] \in Call /\ call[k].b \in Companies /\ call[k].seen \in Seen
           /\ pack[call[k].t] \in Pack
           /\ \A u \in Traders : u # call[k].t => Adds(call[k], u) = {}
<1>1. /\ call[k].t \in Traders /\ call[k].b \in Buyers(call[k].t)
  BY DEF Inv, CallOK
<1> QED BY <1>1, MillIsNoTrader DEF Inv, TypeOK, Call, Buyers, Adds

LEMMA LinkLaneKeeps ==
    ASSUME Inv, NEW k \in Calls, NEW t \in Traders, NEW b \in Companies, LinkLane(k, t, b)
    PROVE  Inv'
<1> DEFINE v == IF lane[t][b] # "none" THEN lane[t][b]
                ELSE IF Exists(Supplier[t]) THEN "late" ELSE "early"
           new == [at |-> "reading", t |-> t, b |-> b, seen |-> NothingSeen]
<1>1. TypeOK /\ t \in Sources /\ lane[t][b] \in Lane /\ b \in Buyers(t)
  BY MillIsNoTrader DEF Inv, TypeOK, LinkLane
<1>2. v \in Lane /\ v # "none"
  BY <1>1 DEF Lane
<1>3. lane' = [lane EXCEPT ![t][b] = v]
  BY DEF LinkLane
<1> HIDE DEF v
<1>4. /\ lane' \in [Traders -> [Companies -> Lane]]
      /\ \A u \in Traders : u # t => lane'[u] = lane[u]
      /\ Linked(t)' = Linked(t) \cup {b}
  BY <1>1, <1>2, <1>3, SetLane
<1>5. new \in Call /\ new.at = "reading" /\ new.t = t /\ new.b = b /\ new.seen.to = {}
  BY <1>1 DEF Call, Seen, NothingSeen
<1>6. call' = [call EXCEPT ![k] = new] /\ call[k].at = "idle"
  BY DEF LinkLane, Asks
<1> HIDE DEF new
<1>7. /\ call' \in [Calls -> Call] /\ call'[k] = new
      /\ \A j \in Calls : j # k => call'[j] = call[j]
  BY <1>1, <1>5, <1>6, SetCall
<1>8. /\ \A u \in Traders : Adds(call[k], u) = {}
      /\ Adds(call'[k], t) = {b} /\ \A u \in Traders : u # t => Adds(call'[k], u) = {}
  BY <1>5, <1>6, <1>7 DEF Adds
<1>9. TypeOK'
  BY <1>4, <1>7, WatchType DEF Inv, TypeOK, LinkLane
<1>10. CallOK(k)'
  BY <1>1, <1>5, <1>7 DEF CallOK, Buyers
<1>11. pack' = pack /\ strayed' = strayed /\ worker' = worker
  BY DEF LinkLane
<1>12. RowStays(t)
  BY <1>1, <1>11, RowsUnchanged
<1>13. ASSUME ~strayed'[t] PROVE LinksOnly(t)'
  <2>1. LinksOnly(t)
    BY <1>11, <1>13 DEF Inv
  <2>2. Joining(t) \subseteq Joining(t)' /\ b \in Joining(t)'
    BY <1>7, <1>8, JoiningStep
  <2> QED BY <2>1, <2>2, <1>4, <1>11 DEF LinksOnly
<1> QED BY <1>4, <1>7, <1>8, <1>9, <1>10, <1>11, <1>12, <1>13, LinksKeep

LEMMA LinkReadsKeeps ==
    ASSUME Inv, NEW k \in Calls, NEW t \in Traders, NEW b \in Companies,
           call[k].t = t, call[k].b = b, LinkReads(k)
    PROVE  Inv'
<1> DEFINE seen == See(pack[t])
           goes == seen.follows /\ ~(seen.live /\ b \in seen.to)
           new == IF goes THEN [at |-> "writing", t |-> t, b |-> b, seen |-> seen] ELSE NoCall
<1>1. call[k].at = "reading"
  BY DEF LinkReads
<1>2. /\ TypeOK /\ t \in Traders /\ t \in Sources /\ b \in Buyers(t) /\ b \in Companies
      /\ pack[t] \in Pack /\ \A u \in Traders : u # t => Adds(call[k], u) = {}
  BY <1>1, AtWork DEF Inv
<1>3. seen \in Seen /\ (seen.follows => Exists(t)) /\ (seen.to # {} => Exists(t))
  BY <1>2, SeeType DEF See, NothingSeen, FollowsLinks, Exists
<1>4. Adds(call[k], t) = {b}
  BY <1>1 DEF Adds
<1>5. /\ new \in Call
      /\ new.at # "idle" => new.t = t /\ new.b = b
      /\ new.at = "writing" \/ new.seen.to # {} => Exists(t) /\ new.t = t
      /\ goes => Adds(new, t) = {b}
      /\ \A u \in Traders : u # t => Adds(new, u) = {}
  <2>1. CASE goes
    <3>1. new = [at |-> "writing", t |-> t, b |-> b, seen |-> seen]
      BY <2>1
    <3> HIDE DEF new, seen, goes
    <3> QED BY <1>2, <1>3, <2>1, <3>1 DEF Call, Adds, goes
  <2>2. CASE ~goes
    <3>1. new = NoCall
      BY <2>2
    <3> HIDE DEF new, goes
    <3> QED BY <2>2, <3>1, NoCallType DEF Adds
  <2> QED BY <2>1, <2>2
<1>6. call' = [call EXCEPT ![k] = new]
  BY DEF LinkReads, Asks, Done
<1> HIDE DEF new
<1>7. /\ call' \in [Calls -> Call] /\ call'[k] = new
      /\ \A j \in Calls : j # k => call'[j] = call[j]
  BY <1>2, <1>5, <1>6, SetCall
<1>8. pack' = pack /\ lane' = lane /\ strayed' = strayed /\ worker' = worker
  BY DEF LinkReads
<1>9. TypeOK'
  BY <1>7, <1>8, WatchType DEF Inv, TypeOK, LinkReads
<1>10. CallOK(k)'
  <2> HIDE DEF seen, goes
  <2> QED BY <1>2, <1>5, <1>7, <1>8 DEF CallOK, Exists, Buyers
<1>11. RowStays(t)
  BY <1>2, <1>8, RowsUnchanged
<1>12. ASSUME ~strayed'[t] PROVE LinksOnly(t)'
  <2>1. LinksOnly(t)
    BY <1>2, <1>8, <1>12 DEF Inv
  <2>2. Linked(t)' = Linked(t)
    BY <1>8 DEF Linked, Buyers
  <2>3. Joining(t) \subseteq Joining(t)' \cup {b} /\ (goes => b \in Joining(t)')
    <3> HIDE DEF goes
    <3> QED BY <1>2, <1>4, <1>5, <1>7, JoiningStep
  <2>4. ~pack[t].wide /\ ~goes => b \in pack[t].to
    BY <1>2, <2>1, FollowsOrWide
  <2> HIDE DEF goes, seen
  <2> QED BY <2>1, <2>2, <2>3, <2>4, <1>8 DEF LinksOnly
<1> QED BY <1>2, <1>5, <1>7, <1>8, <1>9, <1>10, <1>11, <1>12, LinksKeep

\* What a request writes is a row, whose audience alone is another one.
LEMMA WithBuyerRow ==
    ASSUME NEW p \in Pack, NEW seen \in Seen, NEW b \in Companies, clock \in Nat
    PROVE  LET q == WithBuyer(p, seen, b)
           IN /\ q \in Pack /\ q.wide = p.wide /\ q.automatic = p.automatic
              /\ q.status \in {"published", p.status} /\ q.to = seen.to \cup {b}
              /\ q.designs = p.designs /\ q.mark = p.mark
<1> DEFINE q == WithBuyer(p, seen, b)
           to == seen.to \cup {b}
           st == IF seen.live THEN p.status ELSE "published"
           n == IF seen.live THEN p.explore ELSE clock + 1
<1>1. q = [p EXCEPT !.to = to, !.status = st, !.explore = n]
  BY DEF WithBuyer
<1>2. to \in SUBSET Companies /\ n \in Nat /\ st \in {"published", p.status}
  BY DEF Seen, Pack
<1> HIDE DEF q, st, n, to
<1>3. /\ q \in Pack /\ q.wide = p.wide /\ q.automatic = p.automatic /\ q.status = st
      /\ q.to = to /\ q.designs = p.designs /\ q.mark = p.mark
  BY <1>1, <1>2 DEF Pack
<1> QED BY <1>2, <1>3 DEF q, to

LEMMA WithoutBuyerRow ==
    ASSUME NEW p \in Pack, NEW seen \in Seen, NEW b \in Companies
    PROVE  LET q == WithoutBuyer(p, seen, b)
           IN /\ q \in Pack /\ q.wide = p.wide /\ q.automatic = p.automatic
              /\ q.status \in {"draft", p.status}
              /\ seen.to # {b} => q.to = seen.to \ {b}
              /\ q.designs = p.designs /\ q.mark = p.mark
<1> DEFINE q == WithoutBuyer(p, seen, b)
           to == seen.to \ {b}
<1>0. to \in SUBSET Companies
  BY DEF Seen
<1>1. CASE seen.to = {b}
  <2>1. q = [p EXCEPT !.status = "draft", !.explore = 0]
    BY <1>1 DEF WithoutBuyer
  <2> HIDE DEF q
  <2>2. /\ q \in Pack /\ q.wide = p.wide /\ q.automatic = p.automatic
        /\ q.status = "draft" /\ q.designs = p.designs /\ q.mark = p.mark
    BY <2>1 DEF Pack
  <2> QED BY <1>1, <2>2 DEF q
<1>2. CASE seen.to # {b}
  <2>1. q = [p EXCEPT !.to = to]
    BY <1>2 DEF WithoutBuyer
  <2> HIDE DEF q, to
  <2>2. /\ q \in Pack /\ q.wide = p.wide /\ q.automatic = p.automatic /\ q.to = to
        /\ q.status = p.status /\ q.designs = p.designs /\ q.mark = p.mark
    BY <1>0, <2>1 DEF Pack
  <2> QED BY <2>2 DEF q, to
<1> QED BY <1>1, <1>2

\* One more reason to count the pack of t as led astray.
LEMMA Strays ==
    ASSUME TypeOK, NEW t \in Traders, NEW why \in BOOLEAN,
           strayed' = [strayed EXCEPT ![t] = strayed[t] \/ why]
    PROVE  /\ strayed' \in [Traders -> BOOLEAN]
           /\ \A u \in Traders : strayed[u] => strayed'[u]
           /\ \A u \in Traders : u # t => strayed'[u] = strayed[u]
           /\ ~strayed'[t] => ~strayed[t] /\ ~why
<1> DEFINE st == strayed[t] \/ why
<1>1. strayed \in [Traders -> BOOLEAN] /\ st \in BOOLEAN /\ (~st => ~strayed[t] /\ ~why)
  BY DEF TypeOK
<1>2. strayed' = [strayed EXCEPT ![t] = st]
  OBVIOUS
<1> HIDE DEF st
<1>3. /\ strayed' \in [Traders -> BOOLEAN] /\ strayed'[t] = st
      /\ \A u \in Traders : u # t => strayed'[u] = strayed[u]
  BY <1>1, <1>2, Zenon
<1> QED BY <1>1, <1>3 DEF st

LEMMA LinkWritesKeeps ==
    ASSUME Inv, NEW k \in Calls, NEW t \in Traders, NEW b \in Companies,
           call[k].t = t, call[k].b = b, LinkWrites(k)
    PROVE  Inv'
<1> DEFINE seen == call[k].seen
           p == WithBuyer(pack[t], seen, b)
           why == Overtaken(k) \/ b \notin Linked(t)
<1>1. call[k].at = "writing"
  BY DEF LinkWrites
<1>2. /\ TypeOK /\ t \in Traders /\ t \in Sources /\ b \in Companies /\ seen \in Seen
      /\ pack[t] \in Pack /\ \A u \in Traders : u # t => Adds(call[k], u) = {}
      /\ pack \in [Sources -> Pack] /\ clock \in Nat /\ Exists(t)
  BY <1>1, AtWork DEF Inv, TypeOK, CallOK
<1>3. /\ p \in Pack /\ p.wide = pack[t].wide /\ p.automatic = pack[t].automatic
      /\ p.status \in {"published", pack[t].status} /\ p.to = seen.to \cup {b}
  BY <1>2, WithBuyerRow
<1>4. /\ pack' = [pack EXCEPT ![t] = p] /\ lane' = lane /\ worker' = worker
      /\ strayed' = [strayed EXCEPT ![t] = strayed[t] \/ why]
      /\ clock' = clock \/ Tick
  BY DEF LinkWrites
<1>5. why \in BOOLEAN
  BY DEF Overtaken
<1>6. /\ call' \in [Calls -> Call] /\ call'[k] = NoCall
      /\ \A j \in Calls : j # k => call'[j] = call[j]
  <2>1. call' = [call EXCEPT ![k] = NoCall]
    BY DEF LinkWrites, Done
  <2> QED BY <2>1, <1>2, NoCallType, SetCall
<1>7. \A u \in Traders : Adds(call'[k], u) = {}
  BY <1>6, NoCallType DEF Adds
<1>8. ~why => /\ b \in Linked(t)
              /\ See(pack[t]).follows = seen.follows /\ See(pack[t]).to = seen.to
  BY DEF Overtaken
<1> HIDE DEF p, why
<1>9. /\ pack' \in [Sources -> Pack] /\ pack'[t] = p
      /\ \A c \in Sources : c # t => pack'[c] = pack[c]
  BY <1>2, <1>3, <1>4, SetRow
<1>10. /\ strayed' \in [Traders -> BOOLEAN]
       /\ \A u \in Traders : u # t => strayed'[u] = strayed[u]
       /\ ~strayed'[t] => ~strayed[t] /\ ~why
  BY <1>2, <1>4, <1>5, Strays
<1>11. TypeOK'
  <2>1. clock' \in Nat
    BY <1>2, <1>4 DEF Tick
  <2> QED BY <1>4, <1>6, <1>9, <1>10, <2>1, WatchType DEF Inv, TypeOK, LinkWrites
<1>12. CallOK(k)'
  BY <1>6, NoCallType DEF CallOK
<1>13. RowStays(t)
  BY <1>2, <1>3, <1>9 DEF RowStays, Exists
<1>14. ASSUME ~strayed'[t] PROVE LinksOnly(t)'
  <2>1. LinksOnly(t) /\ ~why
    BY <1>2, <1>10, <1>14 DEF Inv
  <2>2. Linked(t)' = Linked(t)
    BY <1>4 DEF Linked, Buyers
  <2>3. Joining(t) \subseteq Joining(t)' \cup {b}
    <3>1. Adds(call[k], t) = {b}
      BY <1>1 DEF Adds
    <3> QED BY <1>2, <1>6, <3>1, JoiningStep
  <2>4. ~pack[t].wide => seen.to = pack[t].to /\ b \in Linked(t)
    BY <1>2, <1>8, <2>1, FollowsOrWide
  <2> HIDE DEF seen
  <2> QED BY <1>3, <1>9, <2>1, <2>2, <2>3, <2>4 DEF LinksOnly
<1> QED BY <1>2, <1>4, <1>6, <1>7, <1>9, <1>10, <1>11, <1>12, <1>13, <1>14, LinksKeep

LEMMA UnlinkReadsKeeps ==
    ASSUME Inv, NEW k \in Calls, NEW t \in Traders, NEW b \in Companies, UnlinkReads(k, t, b)
    PROVE  Inv'
<1> DEFINE seen == See(pack[t])
           new == [at |-> "removing", t |-> t, b |-> b, seen |-> seen]
<1>1. TypeOK /\ t \in Sources /\ b \in Buyers(t) /\ pack[t] \in Pack
  BY MillIsNoTrader DEF Inv, TypeOK, UnlinkReads, Linked
<1>2. seen \in Seen /\ (seen.to # {} => Exists(t))
  BY <1>1, SeeType DEF See, NothingSeen, FollowsLinks, Exists
<1>3. call' = [call EXCEPT ![k] = new] /\ call[k].at = "idle"
  BY DEF UnlinkReads, Asks
<1> HIDE DEF seen
<1>4. new \in Call /\ new.at = "removing" /\ new.t = t /\ new.b = b /\ new.seen = seen
  BY <1>1, <1>2 DEF Call
<1> HIDE DEF new
<1>5. /\ call' \in [Calls -> Call] /\ call'[k] = new
      /\ \A j \in Calls : j # k => call'[j] = call[j]
  BY <1>1, <1>3, <1>4, SetCall
<1>6. \A u \in Traders : Adds(call[k], u) = {} /\ Adds(call'[k], u) = {}
  BY <1>3, <1>4, <1>5 DEF Adds
<1>7. pack' = pack /\ lane' = lane /\ strayed' = strayed /\ worker' = worker
  BY DEF UnlinkReads
<1>8. TypeOK'
  BY <1>5, <1>7, WatchType DEF Inv, TypeOK, UnlinkReads
<1>9. CallOK(k)'
  BY <1>1, <1>2, <1>4, <1>5, <1>7 DEF CallOK, Exists, Buyers
<1>10. RowStays(t)
  BY <1>1, <1>7, RowsUnchanged
<1>11. ASSUME ~strayed'[t] PROVE LinksOnly(t)'
  <2>1. LinksOnly(t) /\ Joining(t)' = Joining(t)
    BY <1>5, <1>6, <1>7, <1>11, JoiningStep DEF Inv
  <2>2. AudienceStays(t)
    BY <2>1, <1>7 DEF AudienceStays, LinksOnly
  <2> QED BY <2>1, <2>2, <1>7, AudienceKept
<1> QED BY <1>5, <1>6, <1>7, <1>8, <1>9, <1>10, <1>11, LinksKeep

LEMMA UnlinkWritesKeeps ==
    ASSUME Inv, NEW k \in Calls, NEW t \in Traders, NEW b \in Companies,
           call[k].t = t, call[k].b = b, UnlinkWrites(k)
    PROVE  Inv'
<1> DEFINE seen == call[k].seen
           p == WithoutBuyer(pack[t], seen, b)
           why == Overtaken(k) \/ seen.to = {b}
<1>1. call[k].at = "removing"
  BY DEF UnlinkWrites
<1>2. /\ TypeOK /\ t \in Traders /\ t \in Sources /\ b \in Companies /\ b \in Buyers(t)
      /\ seen \in Seen /\ pack[t] \in Pack /\ "none" \in Lane
      /\ \A u \in Traders : Adds(call[k], u) = {}
      /\ pack \in [Sources -> Pack] /\ (b \in seen.to => Exists(t))
  BY <1>1, AtWork DEF Inv, TypeOK, CallOK, Lane, Adds
<1>3. /\ p \in Pack /\ p.wide = pack[t].wide /\ p.automatic = pack[t].automatic
      /\ p.status \in {"draft", pack[t].status}
      /\ seen.to # {b} => p.to = seen.to \ {b}
  BY <1>2, WithoutBuyerRow
<1>4. /\ pack' = IF b \in seen.to THEN [pack EXCEPT ![t] = p] ELSE pack
      /\ lane' = [lane EXCEPT ![t][b] = "none"] /\ worker' = worker
      /\ strayed' = [strayed EXCEPT ![t] = strayed[t] \/ why]
  BY DEF UnlinkWrites
<1>5. why \in BOOLEAN
  BY DEF Overtaken
<1>6. /\ call' \in [Calls -> Call] /\ call'[k] = NoCall
      /\ \A j \in Calls : j # k => call'[j] = call[j]
  <2>1. call' = [call EXCEPT ![k] = NoCall]
    BY DEF UnlinkWrites, Done
  <2> QED BY <2>1, <1>2, NoCallType, SetCall
<1>7. \A u \in Traders : Adds(call'[k], u) = {}
  BY <1>6, NoCallType DEF Adds
<1>8. ~why => /\ seen.to # {b}
              /\ See(pack[t]).follows = seen.follows /\ See(pack[t]).to = seen.to
  BY DEF Overtaken
<1> HIDE DEF p, why
<1>9. /\ pack' \in [Sources -> Pack]
      /\ pack'[t] = IF b \in seen.to THEN p ELSE pack[t]
      /\ \A c \in Sources : c # t => pack'[c] = pack[c]
  <2>1. CASE b \in seen.to
    <3>1. pack' = [pack EXCEPT ![t] = p]
      BY <1>4, <2>1
    <3>2. /\ pack' \in [Sources -> Pack] /\ pack'[t] = p
          /\ \A c \in Sources : c # t => pack'[c] = pack[c]
      BY <1>2, <1>3, <3>1, SetRow
    <3> QED BY <2>1, <3>2
  <2>2. CASE b \notin seen.to
    BY <1>2, <1>4, <2>2
  <2> QED BY <2>1, <2>2
<1>10. /\ strayed' \in [Traders -> BOOLEAN]
       /\ \A u \in Traders : u # t => strayed'[u] = strayed[u]
       /\ ~strayed'[t] => ~strayed[t] /\ ~why
  BY <1>2, <1>4, <1>5, Strays
<1>11. /\ lane' \in [Traders -> [Companies -> Lane]]
       /\ \A u \in Traders : u # t => lane'[u] = lane[u]
       /\ Linked(t)' = Linked(t) \ {b}
  BY <1>2, <1>4, SetLane
<1>12. TypeOK'
  BY <1>6, <1>9, <1>10, <1>11, WatchType DEF Inv, TypeOK, UnlinkWrites
<1>13. CallOK(k)'
  BY <1>6, NoCallType DEF CallOK
<1>14. RowStays(t)
  BY <1>2, <1>3, <1>9 DEF Inv, PackOK, RowStays, Exists
<1>15. ASSUME ~strayed'[t] PROVE LinksOnly(t)'
  <2>1. LinksOnly(t) /\ ~why
    BY <1>2, <1>10, <1>15 DEF Inv
  <2>2. Joining(t)' = Joining(t)
    <3> QED BY <1>2, <1>6, <1>7, JoiningStep
  <2>3. ~pack[t].wide => seen.to = pack[t].to /\ seen.to # {b}
    BY <1>2, <1>8, <2>1, FollowsOrWide
  <2> HIDE DEF seen
  <2> QED BY <1>3, <1>9, <1>11, <2>1, <2>2, <2>3 DEF LinksOnly
<1> QED BY <1>2, <1>4, <1>6, <1>7, <1>9, <1>10, <1>11, <1>12, <1>13, <1>14, <1>15, LinksKeep

-----------------------------------------------------------------------------
(* What a worker does.                                                     *)

\* Rows whose status and audience are left alone.
LEMMA AudiencesUnchanged ==
    ASSUME Inv, \A c \in Sources : SameAudience(c)
    PROVE  /\ \A c \in Sources : RowStays(c)
           /\ \A t \in Traders : ~strayed[t] => AudienceStays(t)
<1>1. \A c \in Sources : RowStays(c)
  BY DEF Inv, PackOK, RowStays, SameAudience, Exists
<1>2. ASSUME NEW t \in Traders, ~strayed[t] PROVE AudienceStays(t)
  <2>1. LinksOnly(t) /\ SameAudience(t)
    BY <1>2, MillIsNoTrader DEF Inv
  <2> QED BY <2>1 DEF AudienceStays, LinksOnly, SameAudience
<1> QED BY <1>1, <1>2

\* The worker leaves the trader it had in hand.
LEMMA LetsGo ==
    ASSUME TypeOK, NEW w \in Workers, NEW c \in Sources, NEW row \in Row,
           NEW S \in SUBSET Traders,
           worker' = [worker EXCEPT ![w] = Choosing(c, row, S)]
    PROVE  /\ worker' \in [Workers -> Worker] /\ GoesOn(w)
           /\ \A v \in Workers : v # w => worker'[v] = worker[v]
<1>1. /\ worker' \in [Workers -> Worker] /\ worker'[w] = Choosing(c, row, S)
      /\ \A v \in Workers : v # w => worker'[v] = worker[v]
  BY RestingType, SetWorker DEF TypeOK
<1>2. worker'[w].at \in {"idle", "choosing"} /\ worker'[w].t = Mill
  BY <1>1, RestingType
<1> QED BY <1>1, <1>2 DEF GoesOn, Hand, Trader

LEMMA TurnsToNext ==
    ASSUME TypeOK, NEW w \in Workers, NextTrader(w)
    PROVE  /\ worker' \in [Workers -> Worker] /\ GoesOn(w)
           /\ \A v \in Workers : v # w => worker'[v] = worker[v]
<1>1. /\ worker[w].of \in Sources /\ worker[w].row \in Row /\ worker[w].todo \in SUBSET Traders
  BY DEF TypeOK, Worker
<1>2. worker' = [worker EXCEPT ![w] = Choosing(worker[w].of, worker[w].row, worker[w].todo)]
  BY DEF NextTrader
<1> QED BY <1>1, <1>2, LetsGo

LEMMA TakeKeeps ==
    ASSUME Inv, NEW w \in Workers, Take(w)
    PROVE  Inv'
<1> DEFINE c == Head(jobs)
           traders == {t \in Traders : Supplier[t] = c /\ Linked(t) # {}}
           k == IF pack[c].status = "published" THEN Choosing(c, RowOf(pack[c]), traders)
                ELSE [Resting EXCEPT !.at = "hiding", !.of = c]
<1>1. c \in Sources /\ jobs' \in Seq(Sources) /\ pack[c] \in Pack
  BY DEF Inv, TypeOK, Take
<1>2. RowOf(pack[c]) \in Row /\ traders \in SUBSET Traders
  BY <1>1, RowTypes
<1>3. k \in Worker /\ k.at \in {"idle", "hiding", "choosing"} /\ k.t = Mill
  <2>1. CASE pack[c].status = "published"
    BY <1>1, <1>2, <2>1, RestingType
  <2>2. CASE pack[c].status # "published"
    <3>1. k = [Resting EXCEPT !.at = "hiding", !.of = c] /\ Resting \in Worker /\ Resting.t = Mill
      BY <1>1, <1>2, <2>2, RestingType DEF Resting
    <3> HIDE DEF k, c
    <3> QED BY <1>1, <3>1 DEF Worker, Steps
  <2> QED BY <2>1, <2>2
<1>4. worker' = [worker EXCEPT ![w] = k] /\ worker \in [Workers -> Worker]
  BY DEF Inv, TypeOK, Take
<1> HIDE DEF k
<1>5. /\ worker' \in [Workers -> Worker] /\ worker'[w] = k
      /\ \A v \in Workers : v # w => worker'[v] = worker[v]
  BY <1>3, <1>4, SetWorker
<1>6. TypeOK'
  BY <1>1, <1>5, WatchType DEF Inv, TypeOK, Take, rows
<1>7. GoesOn(w)
  BY <1>3, <1>5 DEF GoesOn, Hand, Trader
<1> QED BY <1>5, <1>6, <1>7, RowsUnchanged, WorkKeeps DEF Take, rows

LEMMA HideChildrenKeeps ==
    ASSUME Inv, NEW w \in Workers, HideChildren(w)
    PROVE  Inv'
<1> DEFINE children == {t \in Traders : Supplier[t] = Source(w) /\ pack[t].status = "published"}
           Hidden(c) == [pack[c] EXCEPT !.status = "draft", !.explore = 0]
<1>1. pack' = [c \in Sources |-> IF c \in children THEN Hidden(c) ELSE pack[c]]
  BY DEF HideChildren
<1>2. ASSUME NEW c \in Sources
      PROVE  /\ pack[c] \in Pack /\ Hidden(c) \in Pack
             /\ Hidden(c).status = "draft" /\ Hidden(c).wide = pack[c].wide
             /\ Hidden(c).to = pack[c].to /\ Hidden(c).automatic = pack[c].automatic
  <2>1. pack[c] \in Pack
    BY DEF Inv, TypeOK
  <2>2. Hidden(c) \in Pack
    BY <2>1, RowTypes
  <2> QED BY <2>1, <2>2 DEF Pack
<1>3. SetToSeq(children) \in Seq(Sources)
  BY SeqOfSet
<1>4. jobs' \in Seq(Sources)
  <2>1. jobs' = jobs \o SetToSeq(children) /\ jobs \in Seq(Sources)
    BY DEF Inv, TypeOK, HideChildren
  <2> HIDE DEF children
  <2> QED BY <2>1, <1>3
<1> HIDE DEF Hidden
<1>5. ASSUME NEW c \in Sources
      PROVE  /\ pack'[c] \in Pack
             /\ pack'[c].wide = pack[c].wide /\ pack'[c].to = pack[c].to
             /\ pack'[c].automatic = pack[c].automatic
             /\ \/ pack'[c].status = pack[c].status
                \/ pack'[c].status = "draft" /\ pack[c].status = "published"
  BY <1>1, <1>2, MillIsNoTrader
<1>6. pack' \in [Sources -> Pack]
  BY <1>1, <1>2
<1>7. worker' = [worker EXCEPT ![w] = Resting] /\ worker \in [Workers -> Worker]
  BY DEF Inv, TypeOK, HideChildren
<1>8. Resting \in Worker /\ Resting.at = "idle" /\ Resting.t = Mill
  BY MillIsNoTrader DEF Resting, Worker, Steps, RowOf, Row, NoPack, Companies, Sources
<1>9. /\ worker' \in [Workers -> Worker] /\ worker'[w] = Resting
      /\ \A v \in Workers : v # w => worker'[v] = worker[v]
  BY <1>7, <1>8, SetWorker
<1>10. TypeOK'
  BY <1>4, <1>6, <1>9, WatchType DEF Inv, TypeOK, HideChildren
<1>11. GoesOn(w)
  BY <1>8, <1>9 DEF GoesOn, Hand, Trader
<1>12. \A c \in Sources : RowStays(c)
  BY <1>5 DEF Inv, PackOK, RowStays, Exists
<1>13. ASSUME NEW t \in Traders, ~strayed[t] PROVE AudienceStays(t)
  <2>1. LinksOnly(t) /\ t \in Sources
    BY <1>13, MillIsNoTrader DEF Inv
  <2> QED BY <2>1, <1>5 DEF AudienceStays, LinksOnly
<1> QED BY <1>9, <1>10, <1>11, <1>12, <1>13, WorkKeeps DEF HideChildren

LEMMA DeliverKeeps ==
    ASSUME Inv, NEW w \in Workers, NEW t \in Traders, DeliverToTrader(w, t)
    PROVE  Inv'
<1> DEFINE rest == worker[w].todo \ {t}
           next == IF Alive(t) THEN "reading" ELSE "creating"
           k == [worker[w] EXCEPT !.at = next, !.todo = rest, !.t = t, !.buyers = Linked(t)]
<1>1. worker[w] \in Worker /\ worker \in [Workers -> Worker]
  BY DEF Inv, TypeOK
<1>2. /\ Source(w) \in Sources /\ worker[w].row \in Row /\ rest \in SUBSET Traders
  BY <1>1 DEF Worker, Source
<1>3. \/ worker' = [worker EXCEPT ![w] = k]
      \/ worker' = [worker EXCEPT ![w] = Choosing(Source(w), worker[w].row, rest)]
  BY DEF DeliverToTrader
<1>4. pack' = pack /\ lane' = lane /\ call' = call /\ strayed' = strayed
  BY DEF DeliverToTrader, rows
<1>5. CASE worker' = [worker EXCEPT ![w] = k]
  <2>1. next \in {"reading", "creating"} /\ Linked(t) \subseteq Companies /\ t \in Sources
        /\ (next = "creating" \/ pack[t].status # "absent")
    BY MillIsNoTrader DEF Linked, Buyers, Alive
  <2> HIDE DEF next, rest
  <2>2. /\ k \in Worker /\ k.at = next /\ k.t = t /\ k.buyers = Linked(t)
    BY <1>1, <1>2, <2>1 DEF Worker, Steps
  <2> HIDE DEF k
  <2>3. /\ worker' \in [Workers -> Worker] /\ worker'[w] = k
        /\ \A v \in Workers : v # w => worker'[v] = worker[v]
    BY <1>1, <1>5, <2>2, SetWorker
  <2>4. TypeOK'
    BY <2>3, <1>4, WatchType DEF Inv, TypeOK, DeliverToTrader
  <2>5. WorkerOK(w)'
    BY <1>4, <2>1, <2>2, <2>3 DEF WorkerOK, Hand, Trader, At, Exists
  <2> QED BY <2>3, <2>4, <2>5, <1>4, RowsUnchanged, WorkKeeps
<1>6. CASE worker' = [worker EXCEPT ![w] = Choosing(Source(w), worker[w].row, rest)]
  <2>1. /\ worker' \in [Workers -> Worker] /\ GoesOn(w)
        /\ \A v \in Workers : v # w => worker'[v] = worker[v]
    BY <1>2, <1>6, LetsGo DEF Inv
  <2>2. TypeOK'
    BY <2>1, <1>4, WatchType DEF Inv, TypeOK, DeliverToTrader
  <2> QED BY <2>1, <2>2, <1>4, RowsUnchanged, WorkKeeps
<1> QED BY <1>3, <1>5, <1>6

\* The worker at a trader's pack: what it knows, and what it may become.
LEMMA InHand ==
    ASSUME Inv, NEW w \in Workers, Hand(w)
    PROVE  /\ worker[w] \in Worker /\ Trader(w) \in Traders /\ Trader(w) \in Sources
           /\ Source(w) \in Sources /\ pack[Trader(w)] \in Pack /\ pack[Source(w)] \in Pack
           /\ worker[w].seen \in SUBSET Designs /\ worker[w].next \in SUBSET Designs
           /\ worker[w].buyers \in SUBSET Companies /\ worker[w].to \in SUBSET Companies
           /\ worker[w].row.explore \in Nat
           /\ At(w, "creating") \/ pack[Trader(w)].status # "absent"
<1>1. worker[w] \in Worker /\ Trader(w) \in Traders
      /\ (At(w, "creating") \/ pack[Trader(w)].status # "absent")
  BY DEF Inv, TypeOK, WorkerOK, Exists
<1> QED BY <1>1, MillIsNoTrader DEF Inv, TypeOK, Worker, Row, Trader, Source

LEMMA StaysInHand ==
    ASSUME Inv, NEW w \in Workers, Hand(w), NEW k \in Worker,
           worker' = [worker EXCEPT ![w] = k],
           k.at \in {"reading", "setting", "stamping", "auditing", "unioning", "filling",
                     "tracing", "publishing"},
           k.t = worker[w].t,
           pack'[Trader(w)].status # "absent",
           k.at = "publishing" => pack'[Trader(w)].automatic
    PROVE  /\ worker' \in [Workers -> Worker] /\ GoesOn(w)
           /\ \A v \in Workers : v # w => worker'[v] = worker[v]
<1>1. /\ worker' \in [Workers -> Worker] /\ worker'[w] = k
      /\ \A v \in Workers : v # w => worker'[v] = worker[v]
  BY SetWorker DEF Inv, TypeOK
<1>2. Trader(w) \in Traders
  BY InHand
<1> QED BY <1>1, <1>2 DEF GoesOn, Hand, Trader, At, Exists

LEMMA ReadKeeps ==
    ASSUME Inv, NEW w \in Workers, Read(w)
    PROVE  Inv'
<1> DEFINE dest == pack[Trader(w)]
           seen == pack[Source(w)].designs
           next == seen \cup (dest.designs \ dest.synced)
           changed == next # dest.designs
           at == IF changed THEN "setting" ELSE "stamping"
           then == IF changed THEN next ELSE {}
           live == changed /\ dest.status = "published"
           k == [worker[w] EXCEPT !.at = at, !.seen = seen, !.next = then, !.changed = live]
           a == [worker[w] EXCEPT !.at = "auditing"]
<1>1. Hand(w) /\ At(w, "reading")
  BY DEF Read, At, Hand
<1>2. worker[w] \in Worker /\ dest \in Pack /\ pack[Source(w)] \in Pack
  BY <1>1, InHand
<1>3. seen \in SUBSET Designs /\ then \in SUBSET Designs /\ live \in BOOLEAN
      /\ at \in {"setting", "stamping"}
  BY <1>2 DEF Pack
<1>4. worker' = [worker EXCEPT ![w] = a] \/ worker' = [worker EXCEPT ![w] = k]
  <2>0. worker \in [Workers -> Worker]
    BY DEF Inv, TypeOK
  <2>1. \/ Goes(w, "auditing")
        \/ worker' = [worker EXCEPT ![w].at = at, ![w].seen = seen, ![w].next = then,
                                    ![w].changed = live]
    BY DEF Read
  <2> HIDE DEF at, seen, then, live
  <2>2. CASE Goes(w, "auditing")
    BY <2>0, <2>2 DEF Goes
  <2>3. CASE worker' = [worker EXCEPT ![w].at = at, ![w].seen = seen, ![w].next = then,
                                      ![w].changed = live]
    BY <2>0, <2>3
  <2> QED BY <2>1, <2>2, <2>3
<1>5. pack' = pack /\ lane' = lane /\ call' = call /\ strayed' = strayed /\ pack'[Trader(w)].status # "absent"
  BY <1>1, InHand DEF Read, rows, At
<1> HIDE DEF at, seen, then, live
<1>6. /\ a \in Worker /\ a.at = "auditing" /\ a.t = worker[w].t
      /\ k \in Worker /\ k.at = at /\ k.t = worker[w].t
  BY <1>2, <1>3 DEF Worker, Steps
<1> HIDE DEF a, k
<1>7. /\ worker' \in [Workers -> Worker] /\ GoesOn(w)
      /\ \A v \in Workers : v # w => worker'[v] = worker[v]
  BY <1>1, <1>3, <1>4, <1>5, <1>6, StaysInHand
<1>8. TypeOK'
  BY <1>5, <1>7, WatchType DEF Inv, TypeOK, Read
<1> QED BY <1>5, <1>7, <1>8, RowsUnchanged, WorkKeeps

LEMMA SetMembersKeeps ==
    ASSUME Inv, NEW w \in Workers, SetMembers(w)
    PROVE  Inv'
<1> DEFINE k == [worker[w] EXCEPT !.at = "stamping", !.next = {}]
           t == Trader(w)
<1>1. Hand(w)
  BY DEF SetMembers, At, Hand
<1>2. /\ worker[w] \in Worker /\ t \in Traders /\ t \in Sources
      /\ worker[w].next \in SUBSET Designs /\ TypeOK
  BY <1>1, InHand DEF Inv
<1>3. \/ /\ SetProducts(t, worker[w].next)
         /\ worker' = [worker EXCEPT ![w].at = "stamping", ![w].next = {}]
         /\ trimmed' = [trimmed EXCEPT ![t] = FALSE]
      \/ NextTrader(w) /\ UNCHANGED <<pack, jobs, clock, trimmed>>
  BY DEF SetMembers
<1>4. lane' = lane /\ call' = call /\ strayed' = strayed /\ owed' \in [Traders -> BOOLEAN]
  BY WatchType DEF SetMembers
<1>5. CASE /\ SetProducts(t, worker[w].next)
           /\ worker' = [worker EXCEPT ![w].at = "stamping", ![w].next = {}]
           /\ trimmed' = [trimmed EXCEPT ![t] = FALSE]
  <2>1. /\ pack' \in [Sources -> Pack] /\ \A d \in Sources : SameAudience(d)
        /\ jobs' \in Seq(Sources) /\ clock' \in Nat
    BY <1>2, <1>5, SetProductsWrites
  <2>2. worker' = [worker EXCEPT ![w] = k]
    BY <1>2, <1>5 DEF TypeOK
  <2>3. k \in Worker /\ k.at = "stamping" /\ k.t = worker[w].t
    BY <1>2 DEF Worker, Steps
  <2> HIDE DEF k
  <2>4. /\ worker' \in [Workers -> Worker] /\ GoesOn(w)
        /\ \A v \in Workers : v # w => worker'[v] = worker[v]
    <3>1. pack'[t].status # "absent"
      BY <1>1, <1>2, <2>1, InHand DEF SetMembers, At, SameAudience
    <3> QED BY <1>1, <2>2, <2>3, <3>1, StaysInHand
  <2>5. trimmed' \in [Traders -> BOOLEAN]
    BY <1>2, <1>5 DEF TypeOK
  <2>6. TypeOK'
    BY <1>2, <1>4, <2>1, <2>4, <2>5 DEF TypeOK
  <2> QED BY <1>4, <2>1, <2>4, <2>6, AudiencesUnchanged, WorkKeeps
<1>6. CASE NextTrader(w) /\ UNCHANGED <<pack, jobs, clock, trimmed>>
  <2>1. /\ worker' \in [Workers -> Worker] /\ GoesOn(w)
        /\ \A v \in Workers : v # w => worker'[v] = worker[v]
    BY <1>2, <1>6, TurnsToNext
  <2>2. TypeOK'
    BY <1>2, <1>4, <1>6, <2>1 DEF TypeOK
  <2> QED BY <1>4, <1>6, <2>1, <2>2, RowsUnchanged, WorkKeeps
<1> QED BY <1>3, <1>5, <1>6

LEMMA StampKeeps ==
    ASSUME Inv, NEW w \in Workers, Stamp(w)
    PROVE  Inv'
<1> DEFINE t == Trader(w)
           k == [worker[w] EXCEPT !.at = "auditing", !.seen = {}]
           p == Stamped(pack[t], worker[w].row.explore, worker[w])
           n == IF worker[w].changed THEN worker[w].row.explore ELSE pack[t].explore
<1>1. Hand(w)
  BY DEF Stamp, At, Hand
<1>2. /\ worker[w] \in Worker /\ t \in Traders /\ t \in Sources /\ pack[t] \in Pack
      /\ worker[w].seen \in SUBSET Designs /\ worker[w].row.explore \in Nat /\ TypeOK
      /\ pack \in [Sources -> Pack]
  BY <1>1, InHand DEF Inv, TypeOK
<1>3. n \in Nat
  BY <1>2 DEF Pack
<1>4. p = [pack[t] EXCEPT !.mark = worker[w].row.explore, !.synced = worker[w].seen, !.explore = n]
  BY DEF Stamped
<1> HIDE DEF n
<1>5. /\ p \in Pack /\ p.status = pack[t].status /\ p.wide = pack[t].wide
      /\ p.to = pack[t].to /\ p.automatic = pack[t].automatic
  <2> HIDE DEF p
  <2> QED BY <1>2, <1>3, <1>4 DEF Pack
<1>6. pack' = [pack EXCEPT ![t] = p]
  BY DEF Stamp
<1> HIDE DEF p
<1>7. pack' \in [Sources -> Pack] /\ \A d \in Sources : SameAudience(d)
  <2>1. /\ pack' \in [Sources -> Pack] /\ pack'[t] = p
        /\ \A d \in Sources : d # t => pack'[d] = pack[d]
    BY <1>2, <1>5, <1>6, SetRow
  <2> QED BY <2>1, <1>5 DEF SameAudience
<1>8. worker' = [worker EXCEPT ![w] = k]
  BY <1>2 DEF Stamp, TypeOK
<1>9. k \in Worker /\ k.at = "auditing" /\ k.t = worker[w].t
  BY <1>2 DEF Worker, Steps
<1> HIDE DEF k
<1>10. /\ worker' \in [Workers -> Worker] /\ GoesOn(w)
       /\ \A v \in Workers : v # w => worker'[v] = worker[v]
  <2>1. pack'[t].status # "absent"
    BY <1>1, <1>2, <1>7, InHand DEF Stamp, At, SameAudience
  <2> QED BY <1>1, <1>8, <1>9, <2>1, StaysInHand
<1>11. TypeOK'
  BY <1>2, <1>7, <1>10, WatchType DEF TypeOK, Stamp
<1> QED BY <1>7, <1>10, <1>11, AudiencesUnchanged, WorkKeeps DEF Stamp

LEMMA Ending ==
    ASSUME Inv, NEW w \in Workers, Hand(w), Ends(w)
    PROVE  /\ worker' \in [Workers -> Worker] /\ GoesOn(w)
           /\ \A v \in Workers : v # w => worker'[v] = worker[v]
           /\ jobs' \in Seq(Sources)
<1>1. NextTrader(w) /\ (Enqueue(Trader(w)) \/ jobs' = jobs)
  BY DEF Ends
<1>2. jobs' \in Seq(Sources)
  BY <1>1, InHand, QueueTypes DEF Inv, TypeOK
<1> QED BY <1>1, <1>2, TurnsToNext DEF Inv

LEMMA ReadAudienceKeeps ==
    ASSUME Inv, NEW w \in Workers, ReadAudience(w)
    PROVE  Inv'
<1> DEFINE t == Trader(w)
           dest == pack[t]
           lacks == dest.automatic /\ ~dest.wide /\ ~(worker[w].buyers \subseteq dest.to)
           k == [worker[w] EXCEPT !.at = "unioning", !.to = dest.to]
<1>1. Hand(w)
  BY DEF ReadAudience, At, Hand
<1>2. /\ worker[w] \in Worker /\ t \in Traders /\ dest \in Pack /\ TypeOK
  BY <1>1, InHand DEF Inv
<1>3. \/ /\ lacks
         /\ worker' = [worker EXCEPT ![w].at = "unioning", ![w].to = dest.to]
         /\ UNCHANGED jobs
      \/ Ends(w)
  BY DEF ReadAudience
<1>4. pack' = pack /\ lane' = lane /\ call' = call /\ strayed' = strayed
  BY DEF ReadAudience, rows
<1> HIDE DEF lacks
<1>5. /\ worker' \in [Workers -> Worker] /\ GoesOn(w)
      /\ \A v \in Workers : v # w => worker'[v] = worker[v]
      /\ jobs' \in Seq(Sources)
  <2>1. CASE /\ lacks
             /\ worker' = [worker EXCEPT ![w].at = "unioning", ![w].to = dest.to]
             /\ UNCHANGED jobs
    <3>1. worker' = [worker EXCEPT ![w] = k]
      BY <1>2, <2>1 DEF TypeOK
    <3>2. k \in Worker /\ k.at = "unioning" /\ k.t = worker[w].t
      BY <1>2 DEF Worker, Steps, Pack
    <3> HIDE DEF k
    <3>3. jobs' \in Seq(Sources)
      BY <1>2, <2>1 DEF TypeOK
    <3>4. pack'[t].status # "absent"
      BY <1>1, <1>4, InHand DEF ReadAudience, At
    <3> QED BY <1>1, <2>1, <3>1, <3>2, <3>3, <3>4, StaysInHand
  <2>2. CASE Ends(w)
    BY <1>1, <2>2, Ending
  <2> QED BY <1>3, <2>1, <2>2
<1>6. TypeOK'
  BY <1>2, <1>4, <1>5, WatchType DEF TypeOK, ReadAudience
<1> QED BY <1>4, <1>5, <1>6, RowsUnchanged, WorkKeeps

LEMMA UnionBuyersKeeps ==
    ASSUME Inv, NEW w \in Workers, UnionBuyers(w)
    PROVE  Inv'
<1> DEFINE t == Trader(w)
           to == worker[w].to \cup worker[w].buyers
           p == [pack[t] EXCEPT !.to = to]
<1>1. Hand(w) /\ At(w, "unioning")
  BY DEF UnionBuyers, At, Hand
<1>2. /\ t \in Traders /\ t \in Sources /\ pack[t] \in Pack /\ to \in SUBSET Companies
      /\ pack \in [Sources -> Pack] /\ TypeOK
  BY <1>1, InHand DEF Inv, TypeOK
<1>3. strayed' = [strayed EXCEPT ![t] = \/ strayed[t] \/ pack[t].to # worker[w].to
                                        \/ Linked(t) # worker[w].buyers]
  BY DEF UnionBuyers
<1>4. pack' = [pack EXCEPT ![t] = p]
  BY <1>2 DEF UnionBuyers
<1> HIDE DEF to
<1>5. /\ p \in Pack /\ p.status = pack[t].status /\ p.automatic = pack[t].automatic
      /\ p.wide = pack[t].wide /\ p.to = to
  BY <1>2 DEF Pack
<1> HIDE DEF p
<1>6. /\ pack' \in [Sources -> Pack] /\ pack'[t] = p
      /\ \A d \in Sources : d # t => pack'[d] = pack[d]
  BY <1>2, <1>4, <1>5, SetRow
<1>7. /\ worker' \in [Workers -> Worker] /\ GoesOn(w)
      /\ \A v \in Workers : v # w => worker'[v] = worker[v]
      /\ jobs' \in Seq(Sources)
  BY <1>1, Ending DEF UnionBuyers
<1>8. /\ strayed' \in [Traders -> BOOLEAN]
      /\ \A u \in Traders : strayed[u] => strayed'[u]
      /\ ~strayed'[t] => pack[t].to = worker[w].to /\ Linked(t) = worker[w].buyers
  <2> DEFINE st == \/ strayed[t] \/ pack[t].to # worker[w].to
                   \/ Linked(t) # worker[w].buyers
  <2>1. st \in BOOLEAN /\ strayed \in [Traders -> BOOLEAN]
    BY <1>2 DEF TypeOK
  <2>2. strayed' = [strayed EXCEPT ![t] = st]
    BY <1>3
  <2>3. ~st => ~strayed[t] /\ pack[t].to = worker[w].to /\ Linked(t) = worker[w].buyers
    OBVIOUS
  <2> HIDE DEF st
  <2>4. strayed' \in [Traders -> BOOLEAN] /\ strayed'[t] = st
        /\ \A u \in Traders : u # t => strayed'[u] = strayed[u]
    BY <1>2, <2>1, <2>2, Zenon
  <2> QED BY <2>1, <2>3, <2>4
<1>9. TypeOK'
  BY <1>2, <1>6, <1>7, <1>8, WatchType DEF TypeOK, UnionBuyers
<1>10. \A c \in Sources : RowStays(c)
  BY <1>5, <1>6 DEF Inv, PackOK, RowStays, Exists
<1>11. ASSUME NEW u \in Traders, ~strayed'[u] PROVE AudienceStays(u) \/ LinksOnly(u)'
  <2>1. LinksOnly(u)
    BY <1>8, <1>11 DEF Inv
  <2>2. CASE u # t
    <3>1. pack'[u] = pack[u]
      BY <1>6, <2>2, MillIsNoTrader
    <3> QED BY <2>1, <3>1 DEF AudienceStays, LinksOnly
  <2>3. CASE u = t
    <3>1. pack[t].to = worker[w].to /\ Linked(t) = worker[w].buyers
      BY <1>8, <1>11, <2>3
    <3>2. pack'[u] = p /\ p.to = pack[u].to \cup Linked(u)
      BY <2>3, <3>1, <1>5, <1>6 DEF to
    <3>3. Linked(u)' = Linked(u) /\ Joining(u)' = Joining(u)
      BY DEF UnionBuyers, Linked, Joining, Buyers
    <3> QED BY <2>1, <2>3, <3>2, <3>3, <1>5 DEF LinksOnly
  <2> QED BY <2>2, <2>3
<1> QED BY <1>7, <1>8, <1>9, <1>10, <1>11, WorkAstray DEF UnionBuyers

\* The row that a worker makes takes the place of no other.
LEMMA CreateRowKeeps ==
    ASSUME Inv, NEW w \in Workers, CreateRow(w)
    PROVE  Inv'
<1> DEFINE t == Trader(w)
           f == [worker[w] EXCEPT !.at = "filling"]
           a == [worker[w] EXCEPT !.at = "reading", !.again = TRUE]
<1>1. Hand(w)
  BY DEF CreateRow, At, Hand
<1>2. /\ worker[w] \in Worker /\ t \in Traders /\ t \in Sources /\ pack[t] \in Pack /\ TypeOK
      /\ pack \in [Sources -> Pack]
  BY <1>1, InHand DEF Inv, TypeOK
<1>3. \/ NextTrader(w) /\ pack' = pack
      \/ Alive(t) /\ Goes(w, "filling") /\ pack' = pack
      \/ /\ Alive(t) /\ pack' = pack
         /\ worker' = [worker EXCEPT ![w].at = "reading", ![w].again = TRUE]
      \/ /\ ~Alive(t) /\ pack[t].status # "archived"
         /\ pack' = [pack EXCEPT ![t] = NewPack] /\ Goes(w, "filling")
  BY DEF CreateRow
<1>4. lane' = lane /\ call' = call /\ strayed' = strayed /\ jobs' = jobs /\ clock' = clock
      /\ trimmed' = trimmed /\ owed' \in [Traders -> BOOLEAN]
  BY WatchType DEF CreateRow
<1>5. /\ f \in Worker /\ f.at = "filling" /\ f.t = worker[w].t
      /\ a \in Worker /\ a.at = "reading" /\ a.t = worker[w].t
  BY <1>2 DEF Worker, Steps
<1>6. /\ Goes(w, "filling") => worker' = [worker EXCEPT ![w] = f]
      /\ worker' = [worker EXCEPT ![w].at = "reading", ![w].again = TRUE]
         => worker' = [worker EXCEPT ![w] = a]
  BY <1>2 DEF Goes, TypeOK
<1> HIDE DEF f, a
<1>7. CASE NextTrader(w) /\ pack' = pack
  <2>1. /\ worker' \in [Workers -> Worker] /\ GoesOn(w)
        /\ \A v \in Workers : v # w => worker'[v] = worker[v]
    BY <1>2, <1>7, TurnsToNext
  <2>2. TypeOK'
    BY <1>2, <1>4, <1>7, <2>1 DEF TypeOK
  <2> QED BY <1>4, <1>7, <2>1, <2>2, RowsUnchanged, WorkKeeps
<1>8. CASE Alive(t) /\ Goes(w, "filling") /\ pack' = pack
  <2>1. pack'[t].status # "absent"
    BY <1>8 DEF Alive, Exists
  <2>2. /\ worker' \in [Workers -> Worker] /\ GoesOn(w)
        /\ \A v \in Workers : v # w => worker'[v] = worker[v]
    BY <1>1, <1>5, <1>6, <1>8, <2>1, StaysInHand
  <2>3. TypeOK'
    BY <1>2, <1>4, <1>8, <2>2 DEF TypeOK
  <2> QED BY <1>4, <1>8, <2>2, <2>3, RowsUnchanged, WorkKeeps
<1>9. CASE /\ Alive(t) /\ pack' = pack
           /\ worker' = [worker EXCEPT ![w].at = "reading", ![w].again = TRUE]
  <2>0. pack'[t].status # "absent"
    BY <1>9 DEF Alive
  <2>1. /\ worker' \in [Workers -> Worker] /\ GoesOn(w)
        /\ \A v \in Workers : v # w => worker'[v] = worker[v]
    BY <1>1, <1>5, <1>6, <1>9, <2>0, StaysInHand
  <2>2. TypeOK'
    BY <1>2, <1>4, <1>9, <2>1 DEF TypeOK
  <2> QED BY <1>4, <1>9, <2>1, <2>2, RowsUnchanged, WorkKeeps
<1>10. CASE /\ ~Alive(t) /\ pack[t].status # "archived"
            /\ pack' = [pack EXCEPT ![t] = NewPack] /\ Goes(w, "filling")
  <2>1. ~Exists(t) /\ ~pack[t].automatic
    BY <1>2, <1>10 DEF Inv, PackOK, Alive, Exists, Pack
  <2>2. NewPack \in Pack /\ NewPack.status = "draft" /\ NewPack.wide /\ ~NewPack.automatic
    BY <1>2, RowTypes DEF NewPack, NoPack
  <2>3. /\ pack' \in [Sources -> Pack] /\ pack'[t] = NewPack
        /\ \A d \in Sources : d # t => pack'[d] = pack[d]
    BY <1>2, <1>10, <2>2, SetRow
  <2>4. pack'[t].status # "absent"
    BY <2>2, <2>3 DEF Exists
  <2>5. /\ worker' \in [Workers -> Worker] /\ GoesOn(w)
        /\ \A v \in Workers : v # w => worker'[v] = worker[v]
    BY <1>1, <1>5, <1>6, <1>10, <2>4, StaysInHand
  <2>6. TypeOK'
    BY <1>2, <1>4, <2>3, <2>5 DEF TypeOK
  <2>7. \A c \in Sources : RowStays(c)
    BY <2>1, <2>2, <2>3 DEF Inv, PackOK, RowStays, Exists
  <2>8. ASSUME NEW u \in Traders, ~strayed[u] PROVE AudienceStays(u)
    <3>1. LinksOnly(u) /\ u \in Sources
      BY <2>8, MillIsNoTrader DEF Inv
    <3> QED BY <3>1, <2>2, <2>3 DEF AudienceStays, LinksOnly
  <2> QED BY <1>4, <2>5, <2>6, <2>7, <2>8, WorkKeeps
<1> QED BY <1>3, <1>7, <1>8, <1>9, <1>10

LEMMA FillRowKeeps ==
    ASSUME Inv, NEW w \in Workers, FillRow(w)
    PROVE  Inv'
<1> DEFINE t == Trader(w)
           seen == pack[Source(w)].designs
           k == [worker[w] EXCEPT !.at = "tracing", !.seen = seen]
<1>1. Hand(w)
  BY DEF FillRow, At, Hand
<1>2. /\ worker[w] \in Worker /\ t \in Traders /\ t \in Sources /\ TypeOK
      /\ seen \in SUBSET Designs /\ Exists(t)
  BY <1>1, InHand DEF Inv, WorkerOK, FillRow, At, Pack
<1>3. \/ /\ worker' = [worker EXCEPT ![w].at = "tracing", ![w].seen = seen]
         /\ SetProducts(t, seen) \/ UNCHANGED <<pack, jobs, clock>>
      \/ NextTrader(w) /\ UNCHANGED <<pack, jobs, clock>>
  BY DEF FillRow
<1>4. lane' = lane /\ call' = call /\ strayed' = strayed /\ trimmed' = trimmed /\ owed' \in [Traders -> BOOLEAN]
  BY WatchType DEF FillRow
<1>5. CASE /\ worker' = [worker EXCEPT ![w].at = "tracing", ![w].seen = seen]
           /\ SetProducts(t, seen) \/ UNCHANGED <<pack, jobs, clock>>
  <2>1. /\ pack' \in [Sources -> Pack] /\ \A d \in Sources : SameAudience(d)
        /\ jobs' \in Seq(Sources) /\ clock' \in Nat
    <3>1. CASE SetProducts(t, seen)
      BY <1>2, <3>1, SetProductsWrites
    <3>2. CASE UNCHANGED <<pack, jobs, clock>>
      BY <1>2, <3>2, QueueTypes DEF TypeOK, SameAudience
    <3> QED BY <1>5, <3>1, <3>2
  <2>2. worker' = [worker EXCEPT ![w] = k]
    BY <1>2, <1>5 DEF TypeOK
  <2> HIDE DEF seen
  <2>3. k \in Worker /\ k.at = "tracing" /\ k.t = worker[w].t
    BY <1>2 DEF Worker, Steps
  <2> HIDE DEF k
  <2>4. pack'[t].status # "absent"
    BY <1>2, <2>1 DEF Exists, SameAudience
  <2>5. /\ worker' \in [Workers -> Worker] /\ GoesOn(w)
        /\ \A v \in Workers : v # w => worker'[v] = worker[v]
    BY <1>1, <2>2, <2>3, <2>4, StaysInHand
  <2>6. TypeOK'
    BY <1>2, <1>4, <2>1, <2>5 DEF TypeOK
  <2> QED BY <1>4, <2>1, <2>5, <2>6, AudiencesUnchanged, WorkKeeps
<1>6. CASE NextTrader(w) /\ UNCHANGED <<pack, jobs, clock>>
  <2>1. /\ worker' \in [Workers -> Worker] /\ GoesOn(w)
        /\ \A v \in Workers : v # w => worker'[v] = worker[v]
    BY <1>2, <1>6, TurnsToNext
  <2>2. TypeOK'
    BY <1>2, <1>4, <1>6, <2>1 DEF TypeOK
  <2> QED BY <1>4, <1>6, <2>1, <2>2, RowsUnchanged, WorkKeeps
<1> QED BY <1>3, <1>5, <1>6

LEMMA StampLineageKeeps ==
    ASSUME Inv, NEW w \in Workers, StampLineage(w)
    PROVE  Inv'
<1> DEFINE t == Trader(w)
           n == worker[w].row.explore
           seen == worker[w].seen
           p == [pack[t] EXCEPT !.automatic = TRUE, !.mark = n, !.synced = seen]
           k == [worker[w] EXCEPT !.at = "publishing", !.seen = {}]
<1>1. Hand(w)
  BY DEF StampLineage, At, Hand
<1>2. /\ worker[w] \in Worker /\ t \in Traders /\ t \in Sources /\ pack[t] \in Pack /\ TypeOK
      /\ n \in Nat /\ seen \in SUBSET Designs /\ pack \in [Sources -> Pack]
  BY <1>1, InHand DEF Inv, TypeOK
<1>3. Exists(t)
  BY <1>1, InHand DEF StampLineage, At, Exists
<1>4. pack' = [pack EXCEPT ![t] = p] /\ worker' = [worker EXCEPT ![w] = k]
  BY <1>2 DEF StampLineage, TypeOK
<1>5. k \in Worker /\ k.at = "publishing" /\ k.t = worker[w].t
  BY <1>2 DEF Worker, Steps
<1> HIDE DEF n, seen, k
<1>6. /\ p \in Pack /\ p.status = pack[t].status /\ p.wide = pack[t].wide
      /\ p.to = pack[t].to /\ p.automatic
  BY <1>2 DEF Pack
<1> HIDE DEF p
<1>7. /\ pack' \in [Sources -> Pack] /\ pack'[t] = p
      /\ \A d \in Sources : d # t => pack'[d] = pack[d]
  BY <1>2, <1>4, <1>6, SetRow
<1>8. pack'[t].status # "absent" /\ pack'[t].automatic
  BY <1>3, <1>6, <1>7 DEF Exists
<1>9. /\ worker' \in [Workers -> Worker] /\ GoesOn(w)
      /\ \A v \in Workers : v # w => worker'[v] = worker[v]
  BY <1>1, <1>4, <1>5, <1>8, StaysInHand
<1>10. TypeOK'
  BY <1>2, <1>7, <1>9, WatchType DEF TypeOK, StampLineage
<1>11. \A c \in Sources : RowStays(c)
  BY <1>6, <1>7, <1>8 DEF Inv, PackOK, RowStays, Exists
<1>12. ASSUME NEW u \in Traders, ~strayed[u] PROVE AudienceStays(u)
  <2>1. LinksOnly(u) /\ u \in Sources
    BY <1>12, MillIsNoTrader DEF Inv
  <2> QED BY <2>1, <1>6, <1>7 DEF AudienceStays, LinksOnly
<1> QED BY <1>9, <1>10, <1>11, <1>12, WorkKeeps DEF StampLineage

\* The pack goes out to the buyers the worker has read, or is led astray.
LEMMA PublishRowKeeps ==
    ASSUME Inv, NEW w \in Workers, PublishRow(w)
    PROVE  Inv'
<1> DEFINE t == Trader(w)
<1>1. Hand(w)
  BY DEF PublishRow, At, Hand
<1>2. /\ t \in Traders /\ t \in Sources /\ worker[w].buyers \in SUBSET Companies /\ TypeOK
      /\ pack[t].automatic
  BY <1>1, InHand DEF Inv, WorkerOK, PublishRow, At
<1>3. \/ /\ PublishPack(t, FALSE, worker[w].buyers)
         /\ strayed' = [strayed EXCEPT ![t] = strayed[t] \/ Linked(t) # worker[w].buyers]
      \/ UNCHANGED <<pack, jobs, clock, strayed>>
  BY DEF PublishRow
<1>4. /\ lane' = lane /\ call' = call /\ trimmed' = trimmed
      /\ owed' \in [Traders -> BOOLEAN] /\ NextTrader(w)
  BY WatchType DEF PublishRow
<1>5. /\ worker' \in [Workers -> Worker] /\ GoesOn(w)
      /\ \A v \in Workers : v # w => worker'[v] = worker[v]
  BY <1>2, <1>4, TurnsToNext
<1>6. CASE /\ PublishPack(t, FALSE, worker[w].buyers)
           /\ strayed' = [strayed EXCEPT ![t] = strayed[t] \/ Linked(t) # worker[w].buyers]
  <2>0. /\ strayed' \in [Traders -> BOOLEAN]
        /\ \A u \in Traders : strayed[u] => strayed'[u]
        /\ ~strayed'[t] => Linked(t) = worker[w].buyers
    <3> DEFINE st == strayed[t] \/ Linked(t) # worker[w].buyers
    <3>1. st \in BOOLEAN /\ strayed \in [Traders -> BOOLEAN]
          /\ (~st => ~strayed[t] /\ Linked(t) = worker[w].buyers)
      BY <1>2 DEF TypeOK
    <3>2. strayed' = [strayed EXCEPT ![t] = st]
      BY <1>6
    <3> HIDE DEF st
    <3>3. strayed' \in [Traders -> BOOLEAN] /\ strayed'[t] = st
          /\ \A u \in Traders : u # t => strayed'[u] = strayed[u]
      BY <1>2, <3>1, <3>2, Zenon
    <3> QED BY <3>1, <3>3
  <2>1. /\ pack' \in [Sources -> Pack]
        /\ pack'[t].status = "published" /\ pack'[t].automatic = pack[t].automatic
        /\ pack'[t].to = worker[w].buyers
        /\ \A d \in Sources : d # t => pack'[d] = pack[d]
        /\ jobs' \in Seq(Sources) /\ clock' \in Nat
    BY <1>2, <1>6, PublishWrites
  <2>2. TypeOK'
    BY <1>2, <1>4, <1>5, <2>0, <2>1 DEF TypeOK
  <2>3. \A c \in Sources : RowStays(c)
    BY <2>1 DEF Inv, PackOK, RowStays, Exists
  <2>4. ASSUME NEW u \in Traders, ~strayed'[u] PROVE AudienceStays(u) \/ LinksOnly(u)'
    <3>1. CASE u # t
      <4>1. LinksOnly(u) /\ pack'[u] = pack[u]
        BY <2>0, <2>1, <2>4, <3>1, MillIsNoTrader DEF Inv
      <4> QED BY <4>1 DEF AudienceStays, LinksOnly
    <3>2. CASE u = t
      <4>1. worker[w].buyers = Linked(u)
        BY <2>0, <2>4, <3>2
      <4>2. Linked(u)' = Linked(u)
        BY <1>4 DEF Linked
      <4>3. pack'[u].status = "published" /\ pack'[u].automatic /\ pack'[u].to = Linked(u)
        BY <1>2, <2>1, <3>2, <4>1
      <4> QED BY <4>2, <4>3 DEF LinksOnly
    <3> QED BY <3>1, <3>2
  <2> QED BY <1>4, <1>5, <2>0, <2>2, <2>3, <2>4, WorkAstray
<1>7. CASE UNCHANGED <<pack, jobs, clock, strayed>>
  <2>1. TypeOK'
    BY <1>2, <1>4, <1>5, <1>7 DEF TypeOK
  <2> QED BY <1>4, <1>5, <1>7, <2>1, RowsUnchanged, WorkKeeps
<1> QED BY <1>3, <1>6, <1>7

-----------------------------------------------------------------------------
LEMMA InitInv == ASSUME Init PROVE Inv
<1>1. NoPack \in Pack /\ ~NoPack.automatic /\ NoPack.wide /\ NoPack.status = "absent"
  BY DEF NoPack, Pack
<1>2. Resting \in Worker /\ Resting.at = "idle" /\ Resting.t = Mill
  BY MillIsNoTrader DEF Resting, Worker, Steps, RowOf, Row, NoPack, Companies, Sources
<1>3. TypeOK
  BY <1>1, <1>2, NoCallType DEF Init, TypeOK, Lane
<1>4. \A c \in Sources : PackOK(c)
  BY <1>1 DEF Init, PackOK
<1>5. \A w \in Workers : WorkerOK(w)
  BY <1>2, MillIsNoTrader DEF Init, WorkerOK, Hand, Trader, At
<1>6. \A k \in Calls : CallOK(k)
  BY DEF Init, CallOK, NoCall, NothingSeen
<1>7. \A t \in Traders : LinksOnly(t)
  BY <1>1, MillIsNoTrader DEF Init, LinksOnly
<1> QED BY <1>3, <1>4, <1>5, <1>6, <1>7 DEF Inv

LEMMA NextInv == ASSUME Inv, [Next]_vars PROVE Inv'
<1>1. CASE Owners
  <2>1. PICK c \in Sources :
             \/ Create(c)
             \/ \E S \in SUBSET Own(c) : Edit(c, S)
             \/ Publish(c, TRUE, {})
             \/ \E ids \in HandPicked : Publish(c, FALSE, ids)
             \/ SetStatus(c, "draft")
             \/ SetStatus(c, "archived")
    BY <1>1 DEF Owners
  <2>2. \A ids \in HandPicked : ids \in SUBSET Companies
    BY BoundsAssumption
  <2> QED BY <2>1, <2>2, CreateKeeps, EditKeeps, PublishKeeps, SetStatusKeeps
<1>2. CASE Expire(Mill)
  BY <1>2, ExpireKeeps
<1>3. CASE Links
  <2>1. PICK k \in Calls :
             \/ \E t \in Traders, b \in Companies : LinkLane(k, t, b) \/ UnlinkReads(k, t, b)
             \/ LinkReads(k) \/ LinkWrites(k) \/ UnlinkWrites(k)
    BY <1>3 DEF Links
  <2>2. ASSUME LinkReads(k) \/ LinkWrites(k) \/ UnlinkWrites(k) PROVE Inv'
    <3>1. call[k].t \in Traders /\ call[k].b \in Companies
      BY <2>2, AtWork DEF LinkReads, LinkWrites, UnlinkWrites
    <3> QED BY <2>2, <3>1, LinkReadsKeeps, LinkWritesKeeps, UnlinkWritesKeeps
  <2> QED BY <2>1, <2>2, LinkLaneKeeps, UnlinkReadsKeeps
<1>4. ASSUME NEW w \in Workers, Work(w) PROVE Inv'
  BY <1>4, TakeKeeps, HideChildrenKeeps, DeliverKeeps, ReadKeeps, SetMembersKeeps, StampKeeps,
     ReadAudienceKeeps, UnionBuyersKeeps, CreateRowKeeps, FillRowKeeps, StampLineageKeeps,
     PublishRowKeeps DEF Work
<1>5. CASE UNCHANGED vars
  <2>1. pack' = pack /\ lane' = lane /\ call' = call /\ worker' = worker /\ strayed' = strayed
    BY <1>5 DEF vars, history
  <2>2. TypeOK'
    BY <1>5 DEF Inv, TypeOK, vars, history
  <2> QED BY <2>1, <2>2, RowsUnchanged, OwnersKeep
<1> QED BY <1>1, <1>2, <1>3, <1>4, <1>5 DEF Next

\* Inv is an inductive invariant of the packs, their links and the workers.
THEOREM AlwaysInv == Spec => []Inv
  BY InitInv, NextInv, PTL DEF Spec

\* Type correctness of the rows, the links, the queue and the workers.
THEOREM TypeCorrect == Spec => []TypeOK
<1>1. Inv => TypeOK
  BY DEF Inv
<1> QED BY <1>1, AlwaysInv, PTL

\* An automatic pack on Explore that nobody published by hand is shown to exactly the linked
\* buyers, but for those whose request is under way: deliverToTrader, unionDirectLinkBuyer and
\* removeDirectLinkBuyer agree about it, with any number of requests and workers at once and along
\* any chain of traders, as long as none of them has written from a list or from links that had
\* changed since it read them, and the pack has not run out of buyers.
THEOREM ShownToLinkedBuyersAlways == Spec => []ShownToLinkedBuyers
<1>1. ASSUME Inv PROVE ShownToLinkedBuyers
  BY <1>1, MillIsNoTrader DEF Inv, LinksOnly, ShownToLinkedBuyers, FollowsLinks
<1> QED BY <1>1, AlwaysInv, PTL

-----------------------------------------------------------------------------
(* With one worker, and traders that all have the same supplier, no pack   *)
(* that could follow its source is left behind.  Two workers read the mark *)
(* early and write it late, and a pack that a link restores queues nothing   *)
(* for the next hop: neither assumption can be dropped.                    *)

Alone == /\ \E w : Workers = {w}
         /\ \A t \in Traders : Supplier[t] = Mill

Waits(c) == \E i \in 1..Len(jobs) : jobs[i] = c
Serves(w) == worker[w].at \notin {"idle", "hiding"}

\* No pack carries a revision the source has not had, and a new row carries none.
Clocked == /\ pack[Mill].explore <= clock
           /\ \A t \in Traders :
                 /\ pack[t].mark <= clock
                 /\ pack[Mill].status = "published" => pack[t].mark <= pack[Mill].explore

Blank(c) == pack[c].status = "absent" => pack[c].designs = {} /\ pack[c].mark = 0

\* A worker that turns to traders has read the source, and no later revision of it.
DutyOK(w) ==
    /\ IF Serves(w) THEN Source(w) = Mill ELSE worker[w].todo = {}
    /\ worker[w].row.explore <= clock
    /\ pack[Mill].status = "published" => worker[w].row.explore <= pack[Mill].explore

\* As long as no job for it waits, the source is what the worker has read.
Known(w) ==
    Serves(w) /\ ~Waits(Mill) /\ pack[Mill].status = "published"
    => /\ worker[w].row = RowOf(pack[Mill])
       /\ At(w, "setting") => pack[Mill].designs \subseteq worker[w].next
       /\ At(w, "stamping") /\ ~trimmed[Trader(w)]
          => pack[Mill].designs \subseteq pack[Trader(w)].designs

InSync(t) == /\ pack[t].mark = pack[Mill].explore
             /\ ~trimmed[t] => pack[Mill].designs \subseteq pack[t].designs

\* The worker will come to t, or has t's pack in hand and has not stamped it yet.
Coming(w, t) == \/ t \in worker[w].todo
                \/ Trader(w) = t /\ worker[w].at \in {"reading", "setting", "stamping"}

\* The worker makes a row for t, which had none when the worker turned to it.
Making(w, t) == /\ Trader(w) = t
                /\ worker[w].at \in {"creating", "filling", "tracing", "publishing"}

Caught(t) == /\ Waits(Mill) \/ InSync(t) \/ \E w \in Workers : Coming(w, t)
             /\ \A w \in Workers : Making(w, t) => Waits(Mill)

OwedOK(t) == owed[t] => Carried(t) /\ Caught(t)

Follow == /\ Inv
          /\ Clocked
          /\ \A c \in Sources : Blank(c)
          /\ \A w \in Workers : DutyOK(w) /\ Known(w)
          /\ \A t \in Traders : OwedOK(t)

\* A job that waits goes on waiting when others are queued.
LEMMA WaitsOn ==
    ASSUME TypeOK, NEW c \in Sources
    PROVE  /\ jobs' = jobs => (Waits(Mill) => Waits(Mill)')
           /\ Enqueue(c) => Waits(c)' /\ (Waits(Mill) => Waits(Mill)')
           /\ \A q \in Seq(Sources) : jobs' = jobs \o q => (Waits(Mill) => Waits(Mill)')
<1>1. jobs \in Seq(Sources)
  BY DEF TypeOK
<1>2. jobs' = jobs => (Waits(Mill) => Waits(Mill)')
  BY DEF Waits
<1>3. ASSUME Enqueue(c) PROVE Waits(c)' /\ (Waits(Mill) => Waits(Mill)')
  <2>1. /\ Len(jobs') = Len(jobs) + 1 /\ jobs'[Len(jobs) + 1] = c /\ Len(jobs) \in Nat
        /\ \A i \in 1..Len(jobs) : jobs'[i] = jobs[i]
    BY <1>1, <1>3 DEF Enqueue
  <2> QED BY <2>1 DEF Waits
<1>4. ASSUME NEW q \in Seq(Sources), jobs' = jobs \o q
      PROVE  Waits(Mill) => Waits(Mill)'
  <2>1. /\ Len(jobs') = Len(jobs) + Len(q) /\ Len(jobs) \in Nat /\ Len(q) \in Nat
        /\ \A i \in 1..Len(jobs) : jobs'[i] = jobs[i]
    BY <1>1, <1>4
  <2> QED BY <2>1 DEF Waits
<1> QED BY <1>2, <1>3, <1>4

\* What is owed was owed before, unless the source was revised.
LEMMA StillOwed ==
    ASSUME Follow, Alone, NEW refused, Watch(refused), NEW t \in Traders, owed'[t],
           pack'[Mill].explore = pack[Mill].explore
    PROVE  owed[t] /\ t \notin refused /\ Carried(t)' /\ Carried(t) /\ Caught(t)
<1>1. Supplier[t] = Mill
  BY DEF Alone
<1>2. Carried(t)' /\ t \notin refused /\ (owed[t] \/ Revised(t))
  BY DEF Watch
<1>3. owed[t]
  BY <1>1, <1>2 DEF Revised
<1> QED BY <1>2, <1>3 DEF Follow, OwedOK

\* The designs and the mark of a trader's pack are left alone, but for what its trader takes out.
Holds(t) == /\ pack'[t].mark = pack[t].mark
            /\ trimmed[t] => trimmed'[t]
            /\ ~trimmed'[t] => pack[t].designs \subseteq pack'[t].designs

LEMMA InSyncHolds ==
    ASSUME NEW t \in Traders, InSync(t), Holds(t), pack'[Mill] = pack[Mill]
    PROVE  InSync(t)'
  BY DEF InSync, Holds

\* Steps of people that leave the source alone.
LEMMA OutsideFollows ==
    ASSUME Follow, Alone, Inv', worker' = worker, pack'[Mill] = pack[Mill],
           Waits(Mill) => Waits(Mill)', clock' = clock \/ clock' = clock + 1,
           Watch({}), \A t \in Traders : Holds(t), \A c \in Sources : Blank(c)'
    PROVE  Follow'
<1>0. /\ clock \in Nat /\ clock' \in Nat /\ pack[Mill] \in Pack
      /\ \A t \in Traders : pack[t] \in Pack /\ pack'[t] \in Pack
      /\ \A w \in Workers : worker[w] \in Worker
  BY MillIsNoTrader DEF Follow, Inv, TypeOK
<1>1. Clocked'
  BY <1>0 DEF Follow, Clocked, Holds, Pack
<1>2. ASSUME NEW w \in Workers PROVE DutyOK(w)' /\ Known(w)'
  <2>1. DutyOK(w) /\ Known(w) /\ worker[w].row.explore \in Nat /\ WorkerOK(w)
    BY <1>0 DEF Follow, Inv, Worker, Row
  <2>2. DutyOK(w)'
    BY <1>0, <2>1 DEF DutyOK, Serves, Source
  <2>3. Known(w)'
    <3>1. At(w, "stamping") => Trader(w) \in Traders
      BY <2>1 DEF WorkerOK, Hand, At
    <3>2. At(w, "stamping") => Holds(Trader(w))
      BY <3>1
    <3> QED BY <2>1, <3>2 DEF Known, Serves, At, Trader, Holds
  <2> QED BY <2>2, <2>3
<1>3. ASSUME NEW t \in Traders PROVE OwedOK(t)'
  <2> SUFFICES ASSUME owed'[t] PROVE Carried(t)' /\ Caught(t)'
    BY DEF OwedOK
  <2>1. Carried(t)' /\ Caught(t)
    BY StillOwed
  <2>2. InSync(t) => InSync(t)'
    BY InSyncHolds
  <2>3. Caught(t)'
    BY <2>1, <2>2 DEF Caught, Coming, Making, Trader
  <2> QED BY <2>1, <2>3
<1> QED BY <1>1, <1>2, <1>3 DEF Follow

\* Steps of people on the source: it is queued, it goes down, or it loses designs.
LEMMA SourceFollows ==
    ASSUME Follow, Alone, Inv', worker' = worker, \A t \in Traders : pack'[t] = pack[t],
           \A t \in Traders : trimmed'[t] = trimmed[t],
           clock' = clock \/ clock' = clock + 1, pack'[Mill].explore <= clock',
           Watch({}), \A c \in Sources : Blank(c)',
           \/ /\ Waits(Mill)'
              /\ pack'[Mill].status = "published"
                 => \/ pack'[Mill].explore = clock + 1
                    \/ pack[Mill].status = "published" /\ pack'[Mill].explore = pack[Mill].explore
           \/ pack'[Mill].status # "published"
           \/ /\ jobs' = jobs /\ pack'[Mill].status = pack[Mill].status
              /\ RowOf(pack'[Mill]) = RowOf(pack[Mill])
              /\ pack'[Mill].designs \subseteq pack[Mill].designs
    PROVE  Follow'
<1>0. /\ clock \in Nat /\ clock' \in Nat /\ pack[Mill] \in Pack /\ pack'[Mill] \in Pack
      /\ \A t \in Traders : pack[t] \in Pack
      /\ \A w \in Workers : worker[w] \in Worker
  BY MillIsNoTrader DEF Follow, Inv, TypeOK
<1>1. RowOf(pack'[Mill]) = RowOf(pack[Mill]) => pack'[Mill].explore = pack[Mill].explore
  BY DEF RowOf
<1>2. Clocked'
  BY <1>0, <1>1 DEF Follow, Clocked, Pack
<1>3. ASSUME NEW w \in Workers PROVE DutyOK(w)' /\ Known(w)'
  <2>1. DutyOK(w) /\ Known(w) /\ worker[w].row.explore \in Nat /\ WorkerOK(w)
    BY <1>0 DEF Follow, Inv, Worker, Row
  <2>2. DutyOK(w)'
    BY <1>0, <1>1, <2>1 DEF DutyOK, Serves, Source, Pack
  <2>3. Known(w)'
    <3>1. At(w, "stamping") => Trader(w) \in Traders
      BY <2>1 DEF WorkerOK, Hand, At
    <3>2. CASE jobs' = jobs /\ pack'[Mill].status = pack[Mill].status
               /\ RowOf(pack'[Mill]) = RowOf(pack[Mill])
               /\ pack'[Mill].designs \subseteq pack[Mill].designs
      BY <2>1, <3>1, <3>2 DEF Known, Serves, At, Trader, Waits
    <3>3. CASE Waits(Mill)' \/ pack'[Mill].status # "published"
      BY <3>3 DEF Known
    <3> QED BY <3>2, <3>3
  <2> QED BY <2>2, <2>3
<1>4. ASSUME NEW t \in Traders PROVE OwedOK(t)'
  <2> SUFFICES ASSUME owed'[t] PROVE Carried(t)' /\ Caught(t)'
    BY DEF OwedOK
  <2>1. Carried(t)'
    BY DEF Watch
  <2>2. pack'[Mill].status = "published"
    BY <2>1 DEF Carried, Alone
  <2>3. CASE Waits(Mill)'
    BY <2>1, <2>3 DEF Caught
  <2>4. CASE /\ jobs' = jobs /\ RowOf(pack'[Mill]) = RowOf(pack[Mill])
             /\ pack'[Mill].designs \subseteq pack[Mill].designs
    <3>1. Caught(t) /\ pack'[Mill].explore = pack[Mill].explore
      BY <1>1, <2>4, StillOwed
    <3>2. InSync(t) => InSync(t)'
      BY <2>4, <3>1 DEF InSync
    <3>3. Waits(Mill) => Waits(Mill)'
      BY <2>4 DEF Waits
    <3>4. Caught(t)'
      BY <3>1, <3>2, <3>3 DEF Caught, Coming, Making, Trader
    <3> QED BY <2>1, <3>4
  <2> QED BY <2>2, <2>3, <2>4
<1> QED BY <1>2, <1>3, <1>4 DEF Follow

\* Steps of the worker, which leave the source alone.
LEMMA WorkFollows ==
    ASSUME Follow, Alone, Inv', NEW w \in Workers, pack'[Mill] = pack[Mill],
           clock' = clock \/ clock' = clock + 1, NEW refused, Watch(refused),
           \A t \in Traders : \/ pack'[t].mark \in {0, pack[t].mark}
                              \/ pack'[t].mark = worker[w].row.explore,
           \A c \in Sources : Blank(c)', DutyOK(w)', Known(w)',
           \A t \in Traders : Caught(t) /\ owed[t] /\ t \notin refused => Caught(t)'
    PROVE  Follow'
<1>0. /\ clock \in Nat /\ clock' \in Nat /\ pack[Mill] \in Pack /\ worker[w] \in Worker
      /\ \A t \in Traders : pack[t] \in Pack /\ pack'[t] \in Pack
  BY MillIsNoTrader DEF Follow, Inv, TypeOK
<1>1. Clocked'
  <2>1. DutyOK(w) /\ worker[w].row.explore \in Nat /\ Clocked
    BY <1>0 DEF Follow, Worker, Row
  <2>2. ASSUME NEW t \in Traders
        PROVE  /\ pack'[t].mark <= clock
               /\ pack[Mill].status = "published" => pack'[t].mark <= pack[Mill].explore
    BY <1>0, <2>1 DEF Clocked, DutyOK, Pack
  <2>3. pack[Mill].explore <= clock /\ pack[Mill].explore \in Nat
    BY <1>0, <2>1 DEF Clocked, Pack
  <2> QED BY <1>0, <2>2, <2>3 DEF Clocked, Pack
<1>2. \A v \in Workers : v = w
  BY DEF Alone
<1>3. ASSUME NEW t \in Traders PROVE OwedOK(t)'
  <2> SUFFICES ASSUME owed'[t] PROVE Carried(t)' /\ Caught(t)'
    BY DEF OwedOK
  <2> QED BY StillOwed
<1> QED BY <1>1, <1>2, <1>3 DEF Follow

\* A step that writes the pack of one trader.
LEMMA OnePack ==
    ASSUME Follow, NEW t \in Traders, \A d \in Sources : d # t => pack'[d] = pack[d],
           \A u \in Traders : u # t => trimmed'[u] = trimmed[u],
           pack'[t].status # "absent" \/ pack'[t] = pack[t]
    PROVE  /\ pack'[Mill] = pack[Mill]
           /\ \A u \in Traders : u # t => Holds(u)
           /\ \A c \in Sources : Blank(c)'
<1>1. \A c \in Sources : Blank(c)'
  BY DEF Follow, Blank
<1> QED BY <1>1, MillIsNoTrader DEF Holds

LEMMA CreateFollows ==
    ASSUME Follow, Alone, Inv', NEW c \in Sources, Create(c)
    PROVE  Follow'
<1>1. pack \in [Sources -> Pack] /\ NewPack \in Pack /\ clock \in Nat /\ TypeOK
  BY RowTypes DEF Follow, Inv, TypeOK, Create
<1>2. /\ pack'[c] = NewPack /\ \A d \in Sources : d # c => pack'[d] = pack[d]
  BY <1>1, SetRow DEF Create
<1>3. NewPack.status = "draft" /\ NewPack.mark = 0 /\ NewPack.explore = 0
  BY DEF NewPack, NoPack
<1>4. jobs' = jobs /\ clock' = clock /\ worker' = worker /\ trimmed' = trimmed /\ Watch({})
  BY DEF Create
<1>5. pack[c].designs = {} /\ pack[c].mark = 0
  BY DEF Create, Follow, Blank
<1>6. CASE c \in Traders
  <2>1. /\ pack'[Mill] = pack[Mill] /\ \A u \in Traders : u # c => Holds(u)
        /\ \A d \in Sources : Blank(d)'
    BY <1>2, <1>3, <1>4, <1>6, OnePack
  <2>2. Holds(c)
    BY <1>2, <1>3, <1>4, <1>5 DEF Holds
  <2>3. Waits(Mill) => Waits(Mill)'
    BY <1>1, <1>4, WaitsOn, MillIsNoTrader
  <2> QED BY <2>1, <2>2, <2>3, <1>4, OutsideFollows
<1>7. CASE c = Mill
  <2>1. \A d \in Sources : Blank(d)'
    BY <1>2, <1>3, <1>7 DEF Follow, Blank
  <2>2. \A t \in Traders : pack'[t] = pack[t] /\ trimmed'[t] = trimmed[t]
    BY <1>2, <1>4, <1>7, MillIsNoTrader
  <2>3. pack'[Mill].status # "published" /\ pack'[Mill].explore <= clock'
    BY <1>1, <1>2, <1>3, <1>4, <1>7
  <2> QED BY <1>4, <2>1, <2>2, <2>3, SourceFollows
<1> QED BY <1>6, <1>7 DEF Sources

LEMMA EditFollows ==
    ASSUME Follow, Alone, Inv', NEW c \in Sources, NEW S \in SUBSET Own(c), Edit(c, S)
    PROVE  Follow'
<1>1. /\ TypeOK /\ clock \in Nat /\ S \in SUBSET Designs /\ SetProducts(c, S)
      /\ worker' = worker /\ Watch({}) /\ Exists(c)
      /\ trimmed' = [t \in Traders |-> trimmed[t] \/ (t = c /\ ~(pack[c].designs \subseteq S))]
  BY OwnDesigns DEF Follow, Inv, TypeOK, Edit
<1>2. /\ \A d \in Sources : SameAudience(d)
      /\ \A d \in Sources : d # c => pack'[d] = pack[d]
      /\ pack'[c].designs = S /\ pack'[c].mark = pack[c].mark
      /\ \/ Enqueue(c) /\ Tick /\ pack'[c].explore = clock + 1
         \/ /\ UNCHANGED <<jobs, clock>> /\ pack'[c].explore = pack[c].explore
            /\ pack[c].status = "published" => S \subseteq pack[c].designs
  BY <1>1, SetProductsWrites
<1>3. /\ Waits(Mill) => Waits(Mill)'
      /\ Enqueue(c) => Waits(c)'
      /\ clock' = clock \/ clock' = clock + 1
  BY <1>1, <1>2, WaitsOn DEF Tick
<1>4. pack'[c].status = pack[c].status /\ pack'[c].status # "absent"
  BY <1>1, <1>2 DEF SameAudience, Exists
<1>5. CASE c \in Traders
  <2>1. \A u \in Traders : u # c => trimmed'[u] = trimmed[u]
    BY <1>1 DEF TypeOK
  <2>2. /\ pack'[Mill] = pack[Mill] /\ \A u \in Traders : u # c => Holds(u)
        /\ \A d \in Sources : Blank(d)'
    BY <1>2, <1>4, <1>5, <2>1, OnePack
  <2>3. Holds(c)
    BY <1>1, <1>2, <1>5 DEF Holds
  <2> QED BY <2>2, <2>3, <1>1, <1>3, OutsideFollows
<1>6. CASE c = Mill
  <2>1. \A d \in Sources : Blank(d)'
    BY <1>2, <1>4, <1>6 DEF Follow, Blank
  <2>2. \A t \in Traders : pack'[t] = pack[t] /\ trimmed'[t] = trimmed[t]
    BY <1>1, <1>2, <1>6, MillIsNoTrader DEF TypeOK
  <2>3. pack[Mill].explore <= clock /\ pack[Mill].explore \in Nat
    BY <1>1, <1>6 DEF Follow, Clocked, TypeOK, Pack
  <2>4. CASE Enqueue(c) /\ Tick /\ pack'[c].explore = clock + 1
    <3>1. Waits(Mill)' /\ pack'[Mill].explore = clock + 1 /\ clock' = clock + 1
      BY <1>3, <1>6, <2>4 DEF Tick
    <3>2. pack'[Mill].explore <= clock'
      BY <1>1, <3>1
    <3> QED BY <1>1, <2>1, <2>2, <3>1, <3>2, SourceFollows
  <2>5. CASE /\ UNCHANGED <<jobs, clock>> /\ pack'[c].explore = pack[c].explore
             /\ pack[c].status = "published" => S \subseteq pack[c].designs
    <3>1. jobs' = jobs /\ clock' = clock /\ pack'[Mill].explore <= clock'
      BY <1>6, <2>3, <2>5
    <3>2. RowOf(pack'[Mill]) = RowOf(pack[Mill])
      BY <1>1, <1>2, <1>6, <2>5 DEF RowOf, SameAudience
    <3>3. pack'[Mill].status # "published" \/ pack'[Mill].designs \subseteq pack[Mill].designs
      BY <1>2, <1>4, <1>6, <2>5
    <3> QED BY <1>1, <1>4, <1>6, <2>1, <2>2, <3>1, <3>2, <3>3, SourceFollows
  <2> QED BY <1>2, <2>4, <2>5
<1> QED BY <1>5, <1>6 DEF Sources

LEMMA PublishFollows ==
    ASSUME Follow, Alone, Inv', NEW c \in Sources, NEW wide \in BOOLEAN,
           NEW ids \in SUBSET Companies, Publish(c, wide, ids)
    PROVE  Follow'
<1>1. /\ TypeOK /\ clock \in Nat /\ PublishPack(c, wide, ids) /\ trimmed' = trimmed
      /\ worker' = worker /\ Watch({})
  BY DEF Follow, Inv, TypeOK, Publish
<1>2. /\ pack'[c].status = "published"
      /\ pack'[c].designs = pack[c].designs /\ pack'[c].mark = pack[c].mark
      /\ \/ pack'[c].explore = clock + 1
         \/ pack[c].status = "published" /\ pack'[c].explore = pack[c].explore
      /\ Enqueue(c) /\ Tick
      /\ \A d \in Sources : d # c => pack'[d] = pack[d]
  BY <1>1, PublishWrites
<1>3. Waits(c)' /\ (Waits(Mill) => Waits(Mill)') /\ clock' = clock + 1
  BY <1>1, <1>2, WaitsOn DEF Tick
<1>4. CASE c \in Traders
  <2>1. /\ pack'[Mill] = pack[Mill] /\ \A u \in Traders : u # c => Holds(u)
        /\ \A d \in Sources : Blank(d)'
    BY <1>1, <1>2, <1>4, OnePack
  <2>2. Holds(c)
    BY <1>1, <1>2 DEF Holds
  <2> QED BY <2>1, <2>2, <1>1, <1>3, OutsideFollows
<1>5. CASE c = Mill
  <2>1. \A d \in Sources : Blank(d)'
    BY <1>2, <1>5 DEF Follow, Blank
  <2>2. \A t \in Traders : pack'[t] = pack[t] /\ trimmed'[t] = trimmed[t]
    BY <1>1, <1>2, <1>5, MillIsNoTrader
  <2>3. pack[Mill].explore <= clock /\ pack[Mill].explore \in Nat
    BY <1>1, <1>5 DEF Follow, Clocked, TypeOK, Pack
  <2>4. pack'[Mill].explore <= clock'
    BY <1>1, <1>2, <1>3, <1>5, <2>3
  <2> QED BY <1>1, <1>2, <1>3, <1>5, <2>1, <2>2, <2>4, SourceFollows
<1> QED BY <1>4, <1>5 DEF Sources

\* Hide from Explore, Delete, and the end of the live window.
LEMMA TakenDown ==
    ASSUME Follow, Alone, Inv', NEW c \in Sources, NEW st \in {"draft", "archived"},
           pack' = [pack EXCEPT ![c].status = st, ![c].explore = 0], Exists(c),
           Enqueue(c) \/ jobs' = jobs, clock' = clock, worker' = worker, trimmed' = trimmed,
           Watch({})
    PROVE  Follow'
<1> DEFINE p == [pack[c] EXCEPT !.status = st, !.explore = 0]
<1>1. /\ TypeOK /\ pack \in [Sources -> Pack] /\ pack[c] \in Pack /\ p \in Pack /\ clock \in Nat
  BY RowTypes DEF Follow, Inv, TypeOK
<1>2. /\ p.status = st /\ p.explore = 0 /\ p.designs = pack[c].designs /\ p.mark = pack[c].mark
  BY <1>1 DEF Pack
<1>3. pack' = [pack EXCEPT ![c] = p]
  BY <1>1
<1> HIDE DEF p
<1>4. /\ pack'[c] = p /\ \A d \in Sources : d # c => pack'[d] = pack[d]
  BY <1>1, <1>3, SetRow
<1>5. Waits(Mill) => Waits(Mill)'
  BY <1>1, WaitsOn
<1>6. CASE c \in Traders
  <2>1. /\ pack'[Mill] = pack[Mill] /\ \A u \in Traders : u # c => Holds(u)
        /\ \A d \in Sources : Blank(d)'
    BY <1>2, <1>4, <1>6, OnePack
  <2>2. Holds(c)
    BY <1>2, <1>4 DEF Holds
  <2> QED BY <2>1, <2>2, <1>5, OutsideFollows
<1>7. CASE c = Mill
  <2>1. \A d \in Sources : Blank(d)'
    BY <1>2, <1>4, <1>7 DEF Follow, Blank
  <2>2. \A t \in Traders : pack'[t] = pack[t] /\ trimmed'[t] = trimmed[t]
    BY <1>4, <1>7, MillIsNoTrader
  <2>3. pack'[Mill].status # "published" /\ pack'[Mill].explore <= clock'
    BY <1>1, <1>2, <1>4, <1>7
  <2> QED BY <2>1, <2>2, <2>3, SourceFollows
<1> QED BY <1>6, <1>7 DEF Sources

\* A request about a link changes who is shown the pack, and when it came up.
LEMMA LinksFollow ==
    ASSUME Follow, Alone, Inv', NEW k \in Calls,
           \/ \E t \in Traders, b \in Companies : LinkLane(k, t, b) \/ UnlinkReads(k, t, b)
           \/ LinkReads(k) \/ LinkWrites(k) \/ UnlinkWrites(k)
    PROVE  Follow'
<1>1. /\ TypeOK /\ pack \in [Sources -> Pack] /\ clock \in Nat /\ Inv
  BY DEF Follow, Inv, TypeOK
<1>2. /\ jobs' = jobs /\ worker' = worker /\ trimmed' = trimmed /\ Watch({})
      /\ clock' = clock \/ clock' = clock + 1
  BY DEF LinkLane, LinkReads, LinkWrites, UnlinkReads, UnlinkWrites, Tick
<1>3. \/ pack' = pack
      \/ LinkWrites(k) \/ UnlinkWrites(k)
  BY DEF LinkLane, LinkReads, UnlinkReads
<1>4. PICK t \in Traders :
         /\ \A d \in Sources : d # t => pack'[d] = pack[d]
         /\ pack'[t].designs = pack[t].designs /\ pack'[t].mark = pack[t].mark
         /\ pack'[t].status # "absent" \/ pack'[t] = pack[t]
  <2>1. CASE pack' = pack
    <3>1. call[k].t \in Traders \/ \E t \in Traders : TRUE
      BY AtWork, <1>1 DEF LinkReads, LinkWrites, UnlinkWrites
    <3> QED BY <2>1, <3>1
  <2>2. CASE LinkWrites(k)
    <3> DEFINE t == call[k].t
               p == WithBuyer(pack[t], call[k].seen, call[k].b)
    <3>1. /\ t \in Traders /\ t \in Sources /\ pack[t] \in Pack /\ Exists(t)
          /\ call[k].b \in Companies /\ call[k].seen \in Seen
      BY <1>1, <2>2, AtWork DEF Inv, CallOK, LinkWrites
    <3>2. /\ p \in Pack /\ p.designs = pack[t].designs /\ p.mark = pack[t].mark
          /\ p.status \in {"published", pack[t].status}
      BY <1>1, <3>1, WithBuyerRow
    <3>3. pack' = [pack EXCEPT ![t] = p]
      BY <2>2 DEF LinkWrites
    <3> HIDE DEF p, t
    <3>4. pack'[t] = p /\ \A d \in Sources : d # t => pack'[d] = pack[d]
      BY <1>1, <3>1, <3>2, <3>3, SetRow
    <3> QED BY <3>1, <3>2, <3>4 DEF Exists
  <2>3. CASE UnlinkWrites(k) /\ pack' # pack
    <3> DEFINE t == call[k].t
               p == WithoutBuyer(pack[t], call[k].seen, call[k].b)
    <3>1. pack' = [pack EXCEPT ![t] = p] /\ call[k].b \in call[k].seen.to
      BY <2>3 DEF UnlinkWrites
    <3>2. /\ t \in Traders /\ t \in Sources /\ pack[t] \in Pack /\ Exists(t)
          /\ call[k].b \in Companies /\ call[k].seen \in Seen
      BY <1>1, <2>3, <3>1, AtWork DEF Inv, CallOK, UnlinkWrites
    <3>3. /\ p \in Pack /\ p.designs = pack[t].designs /\ p.mark = pack[t].mark
          /\ p.status \in {"draft", pack[t].status}
      BY <3>2, WithoutBuyerRow
    <3> HIDE DEF p, t
    <3>4. pack'[t] = p /\ \A d \in Sources : d # t => pack'[d] = pack[d]
      BY <1>1, <3>1, <3>2, <3>3, SetRow
    <3> QED BY <3>2, <3>3, <3>4 DEF Exists
  <2> QED BY <1>3, <2>1, <2>2, <2>3
<1>5. /\ pack'[Mill] = pack[Mill] /\ \A u \in Traders : u # t => Holds(u)
      /\ \A d \in Sources : Blank(d)'
  BY <1>2, <1>4, OnePack
<1>6. Holds(t)
  BY <1>2, <1>4 DEF Holds
<1>7. Waits(Mill) => Waits(Mill)'
  BY <1>1, <1>2, WaitsOn, MillIsNoTrader
<1> QED BY <1>2, <1>5, <1>6, <1>7, OutsideFollows


\* With one worker there is one to come to a trader.
LEMMA CaughtByOne ==
    ASSUME Alone, NEW w \in Workers, NEW t \in Traders
    PROVE  /\ Caught(t) <=> /\ Waits(Mill) \/ InSync(t) \/ Coming(w, t)
                            /\ Making(w, t) => Waits(Mill)
           /\ Caught(t)' <=> /\ Waits(Mill)' \/ InSync(t)' \/ Coming(w, t)'
                             /\ Making(w, t)' => Waits(Mill)'
<1>1. \A v \in Workers : v = w
  BY DEF Alone
<1> QED BY <1>1 DEF Caught

\* What a worker's step writes, but for its own row.
Tidy(w, refused) ==
    /\ pack'[Mill] = pack[Mill]
    /\ clock' = clock \/ clock' = clock + 1
    /\ Waits(Mill) => Waits(Mill)'
    /\ Watch(refused)
    /\ \A t \in Traders : t # Trader(w) => Holds(t)
    /\ \A t \in Traders : \/ pack'[t].mark \in {0, pack[t].mark}
                          \/ pack'[t].mark = worker[w].row.explore
    /\ \A c \in Sources : Blank(c)'

LEMMA ChoosingFields ==
    ASSUME NEW c, NEW row, NEW S
    PROVE  /\ S = {} => Choosing(c, row, S) = Resting
           /\ S # {} => /\ Choosing(c, row, S).at = "choosing" /\ Choosing(c, row, S).of = c
                        /\ Choosing(c, row, S).row = row
           /\ Choosing(c, row, S).todo = S /\ Choosing(c, row, S).t = Mill
           /\ Resting.at = "idle" /\ Resting.todo = {} /\ Resting.t = Mill
           /\ Resting.row.explore = 0
  BY DEF Choosing, Resting, RowOf, NoPack

\* The worker turns to the traders S: whoever is owed something is among them, or its
\* pack carries the revision, or a job waits.
LEMMA TurnFollows ==
    ASSUME Follow, Alone, Inv', NEW w \in Workers, NEW refused, NEW S \in SUBSET Traders,
           Serves(w), Tidy(w, refused),
           worker' = [worker EXCEPT ![w] = Choosing(worker[w].of, worker[w].row, S)],
           \A t \in Traders : /\ owed[t] /\ t \notin refused /\ ~Waits(Mill)
                              /\ InSync(t) \/ Coming(w, t)
                              => t \in S \/ InSync(t)'
    PROVE  Follow'
<1>1. /\ worker \in [Workers -> Worker] /\ clock \in Nat /\ DutyOK(w) /\ Known(w)
      /\ pack[Mill] \in Pack
  BY MillIsNoTrader DEF Follow, Inv, TypeOK
<1>2. worker'[w] = Choosing(worker[w].of, worker[w].row, S)
  BY <1>1
<1>3. /\ S = {} => worker'[w].at = "idle" /\ worker'[w].row.explore = 0
      /\ S # {} => /\ worker'[w].at = "choosing" /\ worker'[w].of = worker[w].of
                   /\ worker'[w].row = worker[w].row
      /\ worker'[w].todo = S /\ worker'[w].t = Mill
  BY <1>2, ChoosingFields
<1>4. worker[w].row.explore \in Nat /\ pack[Mill].explore \in Nat /\ Source(w) = Mill
  BY <1>1 DEF Worker, Row, Pack, DutyOK
<1>5. DutyOK(w)'
  BY <1>1, <1>3, <1>4 DEF DutyOK, Serves, Source, Tidy
<1>6. Known(w)'
  BY <1>1, <1>3 DEF Known, Serves, At, Tidy
<1>7. ASSUME NEW t \in Traders, Caught(t), owed[t], t \notin refused
      PROVE  Caught(t)'
  <2>1. ~Making(w, t)'
    BY <1>3, MillIsNoTrader DEF Making, Trader
  <2>2. Waits(Mill)' \/ InSync(t)' \/ Coming(w, t)'
    BY <1>3, <1>7, CaughtByOne DEF Tidy, Coming
  <2> QED BY <2>1, <2>2, CaughtByOne
<1> QED BY <1>5, <1>6, <1>7, WorkFollows DEF Tidy

\* The worker goes on with the trader it has in hand.
LEMMA HandFollows ==
    ASSUME Follow, Alone, Inv', NEW w \in Workers, Hand(w), Tidy(w, {}),
           worker'[w].of = worker[w].of, worker'[w].row = worker[w].row,
           worker'[w].todo = worker[w].todo, worker'[w].t = worker[w].t,
           Hand(w)',
           At(w, "setting")' /\ ~Waits(Mill) => pack[Mill].designs \subseteq worker'[w].next,
           \A t \in Traders : Trader(w) = t =>
              /\ At(w, "stamping")' /\ ~Waits(Mill) /\ pack[Mill].status = "published"
                 /\ ~trimmed'[t] => pack[Mill].designs \subseteq pack'[t].designs
              /\ Making(w, t)' => Making(w, t)
              /\ owed[t] /\ ~Waits(Mill) /\ (InSync(t) \/ Coming(w, t))
                 => InSync(t)' \/ Coming(w, t)'
    PROVE  Follow'
<1>1. /\ clock \in Nat /\ DutyOK(w) /\ Known(w) /\ worker[w].row.explore \in Nat
      /\ Trader(w) \in Traders /\ pack[Mill] \in Pack
  BY InHand, MillIsNoTrader DEF Follow, Inv, TypeOK
<1>2. Serves(w) /\ Serves(w)' /\ Trader(w)' = Trader(w)
  BY DEF Serves, Hand, Trader
<1>3. DutyOK(w)'
  BY <1>1, <1>2 DEF DutyOK, Source, Tidy, Pack
<1>4. Known(w)'
  BY <1>1, <1>2 DEF Known, Tidy
<1>5. ASSUME NEW t \in Traders, Caught(t), owed[t] PROVE Caught(t)'
  <2>1. CASE t = Trader(w)
    BY <1>5, <2>1, CaughtByOne DEF Tidy
  <2>2. CASE t # Trader(w)
    <3>1. ~Making(w, t)'
      BY <1>2, <2>2 DEF Making
    <3>2. InSync(t) => InSync(t)'
      BY <2>2, InSyncHolds DEF Tidy
    <3>3. Coming(w, t) => Coming(w, t)'
      BY <2>2 DEF Coming
    <3> QED BY <1>5, <3>1, <3>2, <3>3, CaughtByOne DEF Tidy
  <2> QED BY <2>1, <2>2
<1> QED BY <1>3, <1>4, <1>5, WorkFollows DEF Tidy

LEMMA TakeFollows ==
    ASSUME Follow, Alone, Inv', NEW w \in Workers, Take(w)
    PROVE  Follow'
<1> DEFINE c == Head(jobs)
           traders == {t \in Traders : Supplier[t] = c /\ Linked(t) # {}}
<1>1. /\ worker \in [Workers -> Worker] /\ pack[Mill] \in Pack /\ clock \in Nat
      /\ jobs \in Seq(Sources) /\ jobs # <<>> /\ jobs' = Tail(jobs)
  BY MillIsNoTrader DEF Follow, Inv, TypeOK, Take
<1>2. At(w, "idle") /\ pack' = pack /\ clock' = clock /\ trimmed' = trimmed /\ Watch({})
  BY DEF Take, rows
<1>3. worker'[w] = IF pack[c].status = "published" THEN Choosing(c, RowOf(pack[c]), traders)
                   ELSE [Resting EXCEPT !.at = "hiding", !.of = c]
  BY <1>1 DEF Take
<1>4. /\ worker'[w].t = Mill
      /\ pack[c].status # "published" => /\ worker'[w].at = "hiding" /\ worker'[w].todo = {}
                                         /\ worker'[w].row.explore = 0
  BY <1>3, ChoosingFields DEF Resting
<1>5. c # Mill => traders = {}
  BY DEF Alone
<1>6. pack[c].status = "published"
      => /\ worker'[w].todo = traders
         /\ traders = {} => worker'[w].at = "idle" /\ worker'[w].row.explore = 0
         /\ traders # {} => /\ worker'[w].at = "choosing" /\ worker'[w].of = Mill
                            /\ c = Mill /\ worker'[w].row = RowOf(pack[Mill])
  BY <1>3, <1>5, ChoosingFields
<1>7. Clocked /\ pack[Mill].explore \in Nat /\ RowOf(pack[Mill]).explore = pack[Mill].explore
  BY <1>1 DEF Follow, Pack, RowOf
<1> HIDE DEF c, traders
<1>8. DutyOK(w)'
  BY <1>1, <1>2, <1>4, <1>6, <1>7 DEF DutyOK, Serves, Source, Clocked
<1>9. Known(w)'
  BY <1>2, <1>4, <1>6 DEF Known, Serves, At
<1>10. ASSUME NEW t \in Traders, Caught(t), owed[t] PROVE Caught(t)'
  <2>1. ~Making(w, t)'
    BY <1>4, MillIsNoTrader DEF Making, Trader
  <2>2. Carried(t) /\ DutyOK(w)
    BY <1>10 DEF Follow, OwedOK
  <2>3. CASE c = Mill
    <3>1. pack[Mill].status = "published" /\ Linked(t) # {}
      BY <2>2 DEF Carried, Alone
    <3>2. t \in traders
      BY <3>1, <2>3 DEF traders, Alone
    <3> QED BY <1>6, <2>1, <2>3, <3>1, <3>2, CaughtByOne DEF Coming
  <2>4. CASE c # Mill
    <3>1. ~Coming(w, t)
      BY <1>2, <2>2 DEF Coming, DutyOK, Serves, At
    <3>2. Waits(Mill) => Waits(Mill)'
      <4> SUFFICES ASSUME NEW i \in 1..Len(jobs), jobs[i] = Mill PROVE Waits(Mill)'
        BY DEF Waits
      <4>1. i # 1
        BY <1>1, <2>4 DEF c
      <4>2. i - 1 \in 1..Len(jobs') /\ jobs'[i - 1] = Mill
        BY <1>1, <4>1
      <4> QED BY <4>2 DEF Waits
    <3>3. InSync(t) => InSync(t)'
      BY <1>2 DEF InSync
    <3> QED BY <1>10, <2>1, <3>1, <3>2, <3>3, CaughtByOne
  <2> QED BY <2>3, <2>4
<1>11. \A d \in Sources : Blank(d)'
  BY <1>2 DEF Follow, Blank
<1> QED BY <1>2, <1>8, <1>9, <1>10, <1>11, WorkFollows

LEMMA HideChildrenFollows ==
    ASSUME Follow, Alone, Inv', NEW w \in Workers, HideChildren(w)
    PROVE  Follow'
<1> DEFINE children == {t \in Traders : Supplier[t] = Source(w) /\ pack[t].status = "published"}
           Hidden(c) == [pack[c] EXCEPT !.status = "draft", !.explore = 0]
<1>1. /\ worker \in [Workers -> Worker] /\ pack[Mill] \in Pack /\ clock \in Nat /\ TypeOK
      /\ DutyOK(w) /\ At(w, "hiding")
  BY MillIsNoTrader DEF Follow, Inv, TypeOK, HideChildren
<1>2. pack' = [c \in Sources |-> IF c \in children THEN Hidden(c) ELSE pack[c]]
  BY DEF HideChildren
<1>3. \A c \in Sources : /\ Hidden(c).status = "draft" /\ Hidden(c).designs = pack[c].designs
                         /\ Hidden(c).mark = pack[c].mark
  <2>1. \A c \in Sources : pack[c] \in Pack
    BY <1>1 DEF TypeOK
  <2> QED BY <2>1 DEF Pack
<1>4. Waits(Mill) => Waits(Mill)'
  <2>1. jobs' = jobs \o SetToSeq(children) /\ SetToSeq(children) \in Seq(Sources)
    BY SeqOfSet DEF HideChildren
  <2> HIDE DEF children
  <2> QED BY <1>1, <2>1, WaitsOn, MillIsNoTrader
<1> HIDE DEF Hidden
<1>5. /\ pack'[Mill] = pack[Mill]
      /\ \A t \in Traders : pack'[t].designs = pack[t].designs /\ pack'[t].mark = pack[t].mark
      /\ \A c \in Sources : Blank(c)'
  BY <1>2, <1>3, MillIsNoTrader DEF Follow, Blank
<1>6. clock' = clock /\ trimmed' = trimmed /\ Watch({}) /\ worker'[w] = Resting
  BY <1>1 DEF HideChildren
<1>7. /\ worker'[w].at = "idle" /\ worker'[w].todo = {} /\ worker'[w].row.explore = 0
      /\ worker'[w].t = Mill
  BY <1>6, ChoosingFields
<1>8. DutyOK(w)'
  BY <1>1, <1>5, <1>6, <1>7 DEF DutyOK, Serves, Pack
<1>9. Known(w)'
  BY <1>7 DEF Known, Serves
<1>10. ASSUME NEW t \in Traders, Caught(t), owed[t] PROVE Caught(t)'
  <2>1. ~Making(w, t)' /\ ~Coming(w, t)
    BY <1>1, <1>7, MillIsNoTrader DEF Making, Trader, Coming, DutyOK, Serves, At
  <2>2. InSync(t) => InSync(t)'
    BY <1>5, <1>6 DEF InSync
  <2> QED BY <1>4, <1>10, <2>1, <2>2, CaughtByOne
<1> QED BY <1>5, <1>6, <1>8, <1>9, <1>10, WorkFollows

\* A step that only reads.
LEMMA TidyReads ==
    ASSUME Follow, NEW w \in Workers, NEW refused, Watch(refused),
           pack' = pack, trimmed' = trimmed, jobs' = jobs, clock' = clock
    PROVE  Tidy(w, refused)
<1>1. Waits(Mill) => Waits(Mill)'
  BY WaitsOn, MillIsNoTrader DEF Follow, Inv
<1> QED BY <1>1 DEF Tidy, Holds, Follow, Blank

\* A step that writes the pack in hand.
LEMMA TidyWrites ==
    ASSUME Follow, NEW w \in Workers, Hand(w), NEW refused, Watch(refused),
           \A d \in Sources : d # Trader(w) => pack'[d] = pack[d],
           \A u \in Traders : u # Trader(w) => trimmed'[u] = trimmed[u],
           pack'[Trader(w)].status # "absent" \/ pack'[Trader(w)] = pack[Trader(w)],
           pack'[Trader(w)].mark \in {0, pack[Trader(w)].mark, worker[w].row.explore},
           jobs' = jobs \/ Enqueue(Trader(w)), clock' = clock \/ clock' = clock + 1
    PROVE  Tidy(w, refused)
<1>1. Trader(w) \in Traders /\ Trader(w) \in Sources /\ TypeOK
  BY InHand DEF Follow, Inv
<1>2. Waits(Mill) => Waits(Mill)'
  BY <1>1, WaitsOn
<1>3. /\ pack'[Mill] = pack[Mill]
      /\ \A u \in Traders : u # Trader(w) => Holds(u)
      /\ \A c \in Sources : Blank(c)'
  BY <1>1, OnePack
<1>4. \A t \in Traders : \/ pack'[t].mark \in {0, pack[t].mark}
                         \/ pack'[t].mark = worker[w].row.explore
  BY MillIsNoTrader
<1> QED BY <1>2, <1>3, <1>4 DEF Tidy

\* While no job for it waits, the worker's row is the source's, for whoever could follow it.
LEMMA RowIsSource ==
    ASSUME Follow, Alone, NEW w \in Workers, Serves(w), NEW t \in Traders, owed[t], ~Waits(Mill)
    PROVE  /\ worker[w].row = RowOf(pack[Mill]) /\ pack[Mill].status = "published"
           /\ Carried(t) /\ Known(w) /\ pack[Mill] \in Pack
<1>1. Carried(t) /\ Known(w) /\ pack[Mill] \in Pack
  BY MillIsNoTrader DEF Follow, OwedOK, Inv, TypeOK
<1>2. pack[Mill].status = "published"
  BY <1>1 DEF Carried, Alone
<1> QED BY <1>1, <1>2 DEF Known

LEMMA DeliverFollows ==
    ASSUME Follow, Alone, Inv', NEW w \in Workers, NEW t \in Traders, DeliverToTrader(w, t)
    PROVE  Follow'
<1> DEFINE row == worker[w].row
           rest == worker[w].todo \ {t}
           wanted == Linked(t) # {} /\ CanDiscover(t, row) /\ (Alive(t) \/ ~OldPost(t))
           next == IF Alive(t) THEN "reading" ELSE "creating"
           k == [worker[w] EXCEPT !.at = next, !.todo = rest, !.t = t, !.buyers = Linked(t)]
<1>1. /\ worker \in [Workers -> Worker] /\ worker[w] \in Worker /\ clock \in Nat
      /\ pack[Mill] \in Pack /\ DutyOK(w) /\ Known(w) /\ WorkerOK(w)
  BY MillIsNoTrader DEF Follow, Inv, TypeOK
<1>2. /\ At(w, "choosing") /\ t \in worker[w].todo
      /\ pack' = pack /\ jobs' = jobs /\ clock' = clock /\ trimmed' = trimmed /\ Watch({})
  BY DEF DeliverToTrader, rows
<1>3. Serves(w) /\ rest \in SUBSET Traders
  BY <1>1, <1>2 DEF Serves, At, Worker
<1>4. Tidy(w, {})
  BY <1>2, TidyReads
<1>5. owed[t] /\ ~Waits(Mill) => wanted /\ Alive(t)
  <2> SUFFICES ASSUME owed[t], ~Waits(Mill) PROVE wanted /\ Alive(t)
    OBVIOUS
  <2>1. row = RowOf(pack[Mill]) /\ Carried(t)
    BY <1>3, RowIsSource
  <2>2. Linked(t) # {} /\ Alive(t) /\ CanDiscover(t, pack[Mill])
    BY <2>1 DEF Carried, Alone
  <2>3. CanDiscover(t, row)
    BY <2>1, <2>2 DEF CanDiscover, RowOf
  <2> QED BY <2>2, <2>3
<1>6. Alive(t) = (next = "reading") /\ next \in {"reading", "creating"}
  BY DEF Alive
<1>7. IF wanted THEN worker' = [worker EXCEPT ![w] = k]
      ELSE worker' = [worker EXCEPT ![w] = Choosing(worker[w].of, row, rest)]
  BY DEF DeliverToTrader, Source
<1> HIDE DEF wanted, next
<1>8. CASE ~wanted
  <2>1. worker' = [worker EXCEPT ![w] = Choosing(worker[w].of, row, rest)]
    BY <1>7, <1>8
  <2>2. ASSUME NEW u \in Traders, owed[u], ~Waits(Mill), InSync(u) \/ Coming(w, u)
        PROVE  u \in rest \/ InSync(u)'
    <3>1. u # t
      BY <1>5, <1>8, <2>2
    <3>2. InSync(u) => InSync(u)'
      BY <1>2 DEF InSync
    <3>3. Coming(w, u) => u \in rest
      BY <1>2, <3>1 DEF Coming, At
    <3> QED BY <2>2, <3>2, <3>3
  <2> HIDE DEF row, rest
  <2> QED BY <1>3, <1>4, <2>1, <2>2, TurnFollows DEF row
<1>9. CASE wanted
  <2>1. /\ worker'[w].at = next /\ worker'[w].todo = rest /\ worker'[w].t = t
        /\ worker'[w].of = worker[w].of /\ worker'[w].row = row
    <3>1. worker'[w] = k
      BY <1>1, <1>7, <1>9
    <3> QED BY <1>1, <3>1 DEF Worker
  <2>2. DutyOK(w)'
    BY <1>1, <1>2, <1>3, <1>6, <2>1 DEF DutyOK, Serves, Source
  <2>3. Known(w)'
    BY <1>1, <1>3, <1>4, <1>6, <2>1, <1>2 DEF Known, Serves, At, Tidy
  <2>4. ASSUME NEW u \in Traders, Caught(u), owed[u] PROVE Caught(u)'
    <3>1. InSync(u) => InSync(u)'
      BY <1>2 DEF InSync
    <3>2. Coming(w, u) => u \in rest \/ u = t
      BY <1>2 DEF Coming, At
    <3>3. u = t /\ ~Waits(Mill) => Coming(w, u)' /\ ~Making(w, u)'
      BY <1>5, <1>6, <2>1, <2>4 DEF Coming, Making, Trader
    <3>4. u \in rest => Coming(w, u)'
      BY <2>1 DEF Coming
    <3>5. u # t => ~Making(w, u)'
      BY <2>1 DEF Making, Trader
    <3> HIDE DEF rest
    <3> QED BY <1>4, <2>4, <3>1, <3>2, <3>3, <3>4, <3>5, CaughtByOne DEF Tidy
  <2> QED BY <1>4, <2>2, <2>3, <2>4, WorkFollows DEF Tidy
<1> QED BY <1>8, <1>9

\* The source is not older than the revision a pack carries, so a pack that is not behind it
\* carries that one and all its designs.
LEMMA ReadFollows ==
    ASSUME Follow, Alone, Inv', NEW w \in Workers, Read(w)
    PROVE  Follow'
<1> DEFINE t == Trader(w)
           dest == pack[t]
           seen == pack[Source(w)].designs
           next == seen \cup (dest.designs \ dest.synced)
           changed == next # dest.designs
           behind == Behind(dest, worker[w].row.explore, changed)
           at == IF changed THEN "setting" ELSE "stamping"
           then == IF changed THEN next ELSE {}
           live == changed /\ dest.status = "published"
<1>1. Hand(w) /\ Serves(w) /\ At(w, "reading")
  BY DEF Read, At, Hand, Serves
<1>2. /\ worker \in [Workers -> Worker] /\ worker[w] \in Worker /\ t \in Traders /\ dest \in Pack
      /\ pack[Mill] \in Pack /\ DutyOK(w) /\ Clocked
  BY <1>1, InHand, MillIsNoTrader DEF Follow, Inv, TypeOK
<1>3. /\ pack' = pack /\ jobs' = jobs /\ clock' = clock /\ trimmed' = trimmed /\ Watch({})
      /\ seen = pack[Mill].designs
  BY <1>1, <1>2 DEF Read, rows, DutyOK, Source
<1>4. Tidy(w, {})
  BY <1>3, TidyReads
<1>5. \/ behind /\ Goes(w, "auditing")
      \/ /\ ~behind
         /\ worker' = [worker EXCEPT ![w].at = at, ![w].seen = seen, ![w].next = then,
                                     ![w].changed = live]
  BY DEF Read
<1>6. at \in {"setting", "stamping"} /\ (at = "setting" => seen \subseteq then)
      /\ (at = "stamping" => seen \subseteq dest.designs)
  OBVIOUS
<1>7. ASSUME NEW u \in Traders, u = t, owed[u], ~Waits(Mill), behind PROVE InSync(u)'
  <2>1. worker[w].row.explore = pack[Mill].explore /\ pack[Mill].status = "published"
    BY <1>1, <1>7, RowIsSource DEF RowOf
  <2>2. dest.mark <= pack[Mill].explore /\ dest.mark \in Nat /\ pack[Mill].explore \in Nat
    BY <1>2, <2>1 DEF Clocked, Pack
  <2>3. dest.mark = pack[Mill].explore /\ ~changed
    BY <1>7, <2>1, <2>2 DEF Behind
  <2>4. pack[Mill].designs \subseteq dest.designs
    BY <1>3, <2>3
  <2>5. u = t /\ pack' = pack /\ trimmed' = trimmed
    BY <1>3, <1>7
  <2> HIDE DEF behind, changed
  <2> QED BY <2>3, <2>4, <2>5 DEF InSync
<1> HIDE DEF behind, seen, then, live, at
<1>8. CASE behind /\ Goes(w, "auditing")
  <2>1. /\ worker'[w].at = "auditing" /\ worker'[w].of = worker[w].of
        /\ worker'[w].row = worker[w].row /\ worker'[w].todo = worker[w].todo
        /\ worker'[w].t = worker[w].t
    BY <1>2, <1>8 DEF Goes, Worker
  <2>2. Hand(w)' /\ ~At(w, "setting")' /\ ~At(w, "stamping")' /\ \A u \in Traders : ~Making(w, u)'
    BY <2>1 DEF Hand, At, Making
  <2> HIDE DEF dest
  <2> QED BY <1>1, <1>4, <1>7, <1>8, <2>1, <2>2, HandFollows
<1>9. CASE /\ ~behind
           /\ worker' = [worker EXCEPT ![w].at = at, ![w].seen = seen, ![w].next = then,
                                       ![w].changed = live]
  <2>1. /\ worker'[w].at = at /\ worker'[w].of = worker[w].of
        /\ worker'[w].row = worker[w].row /\ worker'[w].todo = worker[w].todo
        /\ worker'[w].t = worker[w].t /\ worker'[w].next = then
    BY <1>2, <1>9 DEF Worker
  <2>2. Hand(w)'
    BY <1>6, <2>1 DEF Hand
  <2>3. At(w, "setting")' => pack[Mill].designs \subseteq worker'[w].next
    BY <1>3, <1>6, <2>1 DEF At
  <2>4. \A u \in Traders : u = t /\ At(w, "stamping")'
                           => pack[Mill].designs \subseteq pack'[u].designs
    BY <1>3, <1>6, <2>1 DEF At
  <2>5. \A u \in Traders : (u = t => Coming(w, u)') /\ ~Making(w, u)'
    BY <1>6, <2>1 DEF Coming, Making, Trader
  <2> HIDE DEF dest
  <2> QED BY <1>1, <1>4, <2>1, <2>2, <2>3, <2>4, <2>5, HandFollows
<1> QED BY <1>5, <1>8, <1>9

\* The worker lets the trader in hand go: it owes it nothing, or the pack carries the revision.
LEMMA NextFollows ==
    ASSUME Follow, Alone, Inv', NEW w \in Workers, Hand(w), NEW refused, Tidy(w, refused),
           NextTrader(w),
           \A t \in Traders : /\ Trader(w) = t /\ owed[t] /\ t \notin refused /\ ~Waits(Mill)
                              /\ InSync(t) \/ Coming(w, t)
                              => t \in worker[w].todo \/ InSync(t)'
    PROVE  Follow'
<1>1. Serves(w) /\ worker[w].todo \in SUBSET Traders /\ Trader(w) \in Traders
  BY InHand DEF Hand, Serves, Worker, Follow
<1>2. worker' = [worker EXCEPT ![w] = Choosing(worker[w].of, worker[w].row, worker[w].todo)]
  BY DEF NextTrader
<1>3. ASSUME NEW t \in Traders, owed[t], t \notin refused, ~Waits(Mill),
             InSync(t) \/ Coming(w, t)
      PROVE  t \in worker[w].todo \/ InSync(t)'
  <2>1. CASE t # Trader(w)
    BY <1>3, <2>1, InSyncHolds DEF Coming, Tidy
  <2> QED BY <1>3, <2>1
<1> QED BY <1>1, <1>2, <1>3, TurnFollows

LEMMA SetMembersFollows ==
    ASSUME Follow, Alone, Inv', NEW w \in Workers, SetMembers(w)
    PROVE  Follow'
<1> DEFINE t == Trader(w)
           next == worker[w].next
           allowed == MayCurate(t, next \ pack[t].designs)
<1>1. Hand(w) /\ At(w, "setting") /\ Serves(w)
  BY DEF SetMembers, At, Hand, Serves
<1>2. /\ worker \in [Workers -> Worker] /\ worker[w] \in Worker /\ t \in Traders /\ t \in Sources
      /\ next \in SUBSET Designs /\ TypeOK /\ pack[t].status # "absent" /\ Known(w)
  BY <1>1, InHand DEF Follow, Inv, TypeOK, At
<1>3. \/ /\ SetProducts(t, next)
         /\ worker' = [worker EXCEPT ![w].at = "stamping", ![w].next = {}]
         /\ trimmed' = [trimmed EXCEPT ![t] = FALSE]
         /\ Watch({})
      \/ NextTrader(w) /\ UNCHANGED <<pack, jobs, clock, trimmed>> /\ Watch({t})
  BY DEF SetMembers
<1>4. CASE NextTrader(w) /\ UNCHANGED <<pack, jobs, clock, trimmed>> /\ Watch({t})
  <2>1. Tidy(w, {t})
    BY <1>4, TidyReads
  <2> QED BY <1>1, <1>4, <2>1, NextFollows
<1>5. CASE /\ SetProducts(t, next)
           /\ worker' = [worker EXCEPT ![w].at = "stamping", ![w].next = {}]
           /\ trimmed' = [trimmed EXCEPT ![t] = FALSE]
           /\ Watch({})
  <2>1. /\ \A d \in Sources : SameAudience(d)
        /\ \A d \in Sources : d # t => pack'[d] = pack[d]
        /\ pack'[t].designs = next /\ pack'[t].mark = pack[t].mark
        /\ jobs' = jobs \/ Enqueue(t)
        /\ clock' = clock \/ clock' = clock + 1
    BY <1>2, <1>5, SetProductsWrites DEF Tick
  <2>2. \A u \in Traders : u # t => trimmed'[u] = trimmed[u]
    BY <1>2, <1>5 DEF TypeOK
  <2>3. pack'[t].status # "absent"
    BY <1>2, <2>1 DEF SameAudience
  <2>4. Tidy(w, {})
    BY <1>1, <1>5, <2>1, <2>2, <2>3, TidyWrites
  <2>5. /\ worker'[w].at = "stamping" /\ worker'[w].of = worker[w].of
        /\ worker'[w].row = worker[w].row /\ worker'[w].todo = worker[w].todo
        /\ worker'[w].t = worker[w].t
    BY <1>2, <1>5 DEF Worker
  <2>6. /\ Hand(w)' /\ ~At(w, "setting")'
        /\ \A u \in Traders : (u = t => Coming(w, u)') /\ ~Making(w, u)'
    BY <2>5 DEF Hand, At, Coming, Making, Trader
  <2>7. \A u \in Traders : u = t /\ ~Waits(Mill) /\ pack[Mill].status = "published"
                           => pack[Mill].designs \subseteq pack'[u].designs
    BY <1>1, <1>2, <2>1 DEF Known
  <2> QED BY <1>1, <2>4, <2>5, <2>6, <2>7, HandFollows
<1> QED BY <1>3, <1>4, <1>5

LEMMA StampFollows ==
    ASSUME Follow, Alone, Inv', NEW w \in Workers, Stamp(w)
    PROVE  Follow'
<1> DEFINE t == Trader(w)
           n == worker[w].row.explore
           p == Stamped(pack[t], n, worker[w])
<1>1. Hand(w) /\ At(w, "stamping") /\ Serves(w)
  BY DEF Stamp, At, Hand, Serves
<1>2. /\ worker \in [Workers -> Worker] /\ worker[w] \in Worker /\ t \in Traders /\ t \in Sources
      /\ pack \in [Sources -> Pack] /\ pack[t] \in Pack /\ pack[t].status # "absent"
  BY <1>1, InHand DEF Follow, Inv, TypeOK, At
<1>3. p.status = pack[t].status /\ p.mark = n /\ p.designs = pack[t].designs
  <2> DEFINE e == IF worker[w].changed THEN n ELSE pack[t].explore
  <2>1. p = [pack[t] EXCEPT !.mark = n, !.synced = worker[w].seen, !.explore = e]
    BY DEF Stamped
  <2> HIDE DEF p, e, n
  <2> QED BY <1>2, <2>1 DEF Pack
<1>4. /\ pack' = [pack EXCEPT ![t] = p] /\ jobs' = jobs /\ clock' = clock /\ trimmed' = trimmed
      /\ Watch({})
      /\ worker' = [worker EXCEPT ![w].at = "auditing", ![w].seen = {}]
  BY DEF Stamp
<1> HIDE DEF p
<1>5. pack'[t] = p /\ \A d \in Sources : d # t => pack'[d] = pack[d]
  BY <1>2, <1>4
<1>6. Tidy(w, {})
  BY <1>1, <1>2, <1>3, <1>4, <1>5, TidyWrites
<1>7. /\ worker'[w].at = "auditing" /\ worker'[w].of = worker[w].of
      /\ worker'[w].row = worker[w].row /\ worker'[w].todo = worker[w].todo
      /\ worker'[w].t = worker[w].t
  BY <1>2, <1>4 DEF Worker
<1>8. Hand(w)' /\ ~At(w, "setting")' /\ ~At(w, "stamping")' /\ \A u \in Traders : ~Making(w, u)'
  BY <1>7 DEF Hand, At, Making
<1>9. ASSUME NEW u \in Traders, u = t, owed[u], ~Waits(Mill) PROVE InSync(u)'
  <2>1. /\ worker[w].row = RowOf(pack[Mill]) /\ pack[Mill].status = "published" /\ Known(w)
    BY <1>1, <1>9, RowIsSource
  <2>2. n = pack[Mill].explore
    BY <2>1 DEF RowOf
  <2>3. ~trimmed[t] => pack[Mill].designs \subseteq pack[t].designs
    BY <1>1, <1>9, <2>1 DEF Known
  <2>4. pack'[Mill] = pack[Mill]
    BY <1>6 DEF Tidy
  <2>5. u = t /\ pack'[u].mark = n /\ pack'[u].designs = pack[t].designs
    BY <1>3, <1>5, <1>9
  <2> HIDE DEF n, t
  <2> QED BY <1>4, <2>2, <2>3, <2>4, <2>5 DEF InSync
<1> QED BY <1>1, <1>6, <1>7, <1>8, <1>9, HandFollows

LEMMA Ended ==
    ASSUME NEW w \in Workers, Ends(w)
    PROVE  NextTrader(w) /\ (jobs' = jobs \/ Enqueue(Trader(w)))
  BY DEF Ends

LEMMA ReadAudienceFollows ==
    ASSUME Follow, Alone, Inv', NEW w \in Workers, ReadAudience(w)
    PROVE  Follow'
<1>1. Hand(w) /\ At(w, "auditing") /\ Serves(w)
  BY DEF ReadAudience, At, Hand, Serves
<1>2. /\ worker \in [Workers -> Worker] /\ worker[w] \in Worker /\ Trader(w) \in Traders
  BY <1>1, InHand DEF Follow, Inv, TypeOK
<1>3. pack' = pack /\ clock' = clock /\ trimmed' = trimmed /\ Watch({})
  BY DEF ReadAudience, rows
<1>4. \/ /\ worker' = [worker EXCEPT ![w].at = "unioning", ![w].to = pack[Trader(w)].to]
         /\ jobs' = jobs
      \/ Ends(w)
  BY DEF ReadAudience
<1>5. Tidy(w, {})
  BY <1>1, <1>3, <1>4, TidyWrites, Ended
<1>6. \A t \in Traders : InSync(t) => InSync(t)'
  BY <1>3 DEF InSync
<1>7. \A t \in Traders : Coming(w, t) => t \in worker[w].todo
  BY <1>1 DEF Coming, At
<1>8. CASE Ends(w)
  BY <1>1, <1>5, <1>6, <1>7, <1>8, Ended, NextFollows
<1>9. CASE worker' = [worker EXCEPT ![w].at = "unioning", ![w].to = pack[Trader(w)].to]
  <2>1. /\ worker'[w].at = "unioning" /\ worker'[w].of = worker[w].of
        /\ worker'[w].row = worker[w].row /\ worker'[w].todo = worker[w].todo
        /\ worker'[w].t = worker[w].t
    BY <1>2, <1>9 DEF Worker
  <2>2. Hand(w)' /\ ~At(w, "setting")' /\ ~At(w, "stamping")' /\ \A u \in Traders : ~Making(w, u)'
    BY <2>1 DEF Hand, At, Making
  <2>3. \A t \in Traders : t \in worker[w].todo => Coming(w, t)'
    BY <2>1 DEF Coming
  <2> QED BY <1>1, <1>5, <1>6, <1>7, <2>1, <2>2, <2>3, HandFollows
<1> QED BY <1>4, <1>8, <1>9

LEMMA UnionBuyersFollows ==
    ASSUME Follow, Alone, Inv', NEW w \in Workers, UnionBuyers(w)
    PROVE  Follow'
<1> DEFINE t == Trader(w)
           to == worker[w].to \cup worker[w].buyers
           p == [pack[t] EXCEPT !.to = to]
<1>1. Hand(w) /\ At(w, "unioning")
  BY DEF UnionBuyers, At, Hand
<1>2. /\ t \in Traders /\ t \in Sources /\ pack \in [Sources -> Pack] /\ pack[t] \in Pack
      /\ pack[t].status # "absent"
  BY <1>1, InHand DEF Follow, Inv, TypeOK, At
<1>3. p.status = pack[t].status /\ p.mark = pack[t].mark /\ p.designs = pack[t].designs
  BY <1>2 DEF Pack
<1>4. pack' = [pack EXCEPT ![t] = p] /\ clock' = clock /\ trimmed' = trimmed /\ Watch({})
  BY <1>2 DEF UnionBuyers
<1> HIDE DEF p
<1>5. pack'[t] = p /\ \A d \in Sources : d # t => pack'[d] = pack[d]
  BY <1>2, <1>4
<1>6. NextTrader(w) /\ (jobs' = jobs \/ Enqueue(t))
  BY Ended DEF UnionBuyers
<1>7. Tidy(w, {})
  BY <1>1, <1>2, <1>3, <1>4, <1>5, <1>6, TidyWrites
<1>8. pack'[Mill] = pack[Mill]
  BY <1>7 DEF Tidy
<1>9. ASSUME NEW u \in Traders, u = t, InSync(u) PROVE InSync(u)'
  BY <1>3, <1>4, <1>5, <1>8, <1>9 DEF InSync
<1>10. \A u \in Traders : Coming(w, u) => u \in worker[w].todo
  BY <1>1 DEF Coming, At
<1> QED BY <1>1, <1>6, <1>7, <1>9, <1>10, NextFollows

\* Whoever has no pack is owed nothing, unless a job will come to what it made meanwhile.
LEMMA MakingUnowed ==
    ASSUME Follow, Alone, NEW w \in Workers,
           worker[w].at \in {"creating", "filling", "tracing", "publishing"}
    PROVE  /\ Hand(w) /\ Serves(w)
           /\ \A t \in Traders : Trader(w) = t => Making(w, t) /\ (owed[t] => Waits(Mill))
<1>1. \A t \in Traders : Trader(w) = t => Making(w, t)
  BY DEF Making
<1>2. \A t \in Traders : Making(w, t) /\ owed[t] => Waits(Mill)
  BY DEF Follow, OwedOK, Caught
<1> QED BY <1>1, <1>2 DEF Hand, Serves

LEMMA CreateRowFollows ==
    ASSUME Follow, Alone, Inv', NEW w \in Workers, CreateRow(w)
    PROVE  Follow'
<1> DEFINE t == Trader(w)
<1>1. /\ Hand(w) /\ Serves(w)
      /\ \A u \in Traders : Trader(w) = u => Making(w, u) /\ (owed[u] => Waits(Mill))
  BY MakingUnowed DEF CreateRow, At
<1>2. /\ worker \in [Workers -> Worker] /\ worker[w] \in Worker /\ t \in Traders /\ t \in Sources
      /\ pack \in [Sources -> Pack]
  BY <1>1, InHand DEF Follow, Inv, TypeOK
<1>3. \/ NextTrader(w) /\ pack' = pack
      \/ Goes(w, "filling") /\ pack' = pack
      \/ /\ worker' = [worker EXCEPT ![w].at = "reading", ![w].again = TRUE] /\ pack' = pack
      \/ Goes(w, "filling") /\ pack' = [pack EXCEPT ![t] = NewPack]
  BY DEF CreateRow
<1>4. jobs' = jobs /\ clock' = clock /\ trimmed' = trimmed /\ Watch({})
  BY DEF CreateRow
<1>5. /\ pack'[t] = pack[t] \/ pack'[t] = NewPack
      /\ \A d \in Sources : d # t => pack'[d] = pack[d]
  BY <1>2, <1>3
<1>6. NewPack.status = "draft" /\ NewPack.mark = 0
  BY DEF NewPack, NoPack
<1>7. Tidy(w, {})
  BY <1>1, <1>4, <1>5, <1>6, TidyWrites
<1>8. CASE NextTrader(w)
  BY <1>1, <1>7, <1>8, NextFollows
<1>9. CASE Goes(w, "filling") \/ worker' = [worker EXCEPT ![w].at = "reading", ![w].again = TRUE]
  <2>1. /\ worker'[w].at \in {"filling", "reading"} /\ worker'[w].of = worker[w].of
        /\ worker'[w].row = worker[w].row /\ worker'[w].todo = worker[w].todo
        /\ worker'[w].t = worker[w].t
    BY <1>2, <1>9 DEF Goes, Worker
  <2>2. Hand(w)' /\ ~At(w, "setting")' /\ ~At(w, "stamping")'
    BY <2>1 DEF Hand, At
  <2> QED BY <1>1, <1>7, <2>1, <2>2, HandFollows
<1> QED BY <1>3, <1>8, <1>9

LEMMA FillRowFollows ==
    ASSUME Follow, Alone, Inv', NEW w \in Workers, FillRow(w)
    PROVE  Follow'
<1> DEFINE t == Trader(w)
           seen == pack[Source(w)].designs
<1>1. /\ Hand(w) /\ Serves(w)
      /\ \A u \in Traders : Trader(w) = u => Making(w, u) /\ (owed[u] => Waits(Mill))
  BY MakingUnowed DEF FillRow, At
<1>2. /\ worker \in [Workers -> Worker] /\ worker[w] \in Worker /\ t \in Traders /\ t \in Sources
      /\ TypeOK /\ seen \in SUBSET Designs /\ pack[t].status # "absent"
  BY <1>1, InHand DEF Follow, Inv, TypeOK, FillRow, At, Pack
<1>3. \/ /\ worker' = [worker EXCEPT ![w].at = "tracing", ![w].seen = seen]
         /\ SetProducts(t, seen) \/ UNCHANGED <<pack, jobs, clock>>
         /\ Watch({})
      \/ NextTrader(w) /\ UNCHANGED <<pack, jobs, clock>> /\ Watch({t})
  BY DEF FillRow
<1>4. trimmed' = trimmed
  BY DEF FillRow
<1>5. CASE NextTrader(w) /\ UNCHANGED <<pack, jobs, clock>> /\ Watch({t})
  <2>1. Tidy(w, {t})
    BY <1>4, <1>5, TidyReads
  <2> QED BY <1>1, <1>5, <2>1, NextFollows
<1>6. CASE /\ worker' = [worker EXCEPT ![w].at = "tracing", ![w].seen = seen]
           /\ SetProducts(t, seen) \/ UNCHANGED <<pack, jobs, clock>>
           /\ Watch({})
  <2>1. /\ \A d \in Sources : d # t => pack'[d] = pack[d]
        /\ pack'[t].status = pack[t].status /\ pack'[t].mark = pack[t].mark
        /\ jobs' = jobs \/ Enqueue(t)
        /\ clock' = clock \/ clock' = clock + 1
    <3>1. CASE SetProducts(t, seen)
      BY <1>2, <3>1, SetProductsWrites DEF Tick, SameAudience
    <3>2. CASE UNCHANGED <<pack, jobs, clock>>
      BY <3>2
    <3> QED BY <1>6, <3>1, <3>2
  <2>2. Tidy(w, {})
    BY <1>1, <1>2, <1>4, <1>6, <2>1, TidyWrites
  <2>3. /\ worker'[w].at = "tracing" /\ worker'[w].of = worker[w].of
        /\ worker'[w].row = worker[w].row /\ worker'[w].todo = worker[w].todo
        /\ worker'[w].t = worker[w].t
    BY <1>2, <1>6 DEF Worker
  <2>4. Hand(w)' /\ ~At(w, "setting")' /\ ~At(w, "stamping")'
    BY <2>3 DEF Hand, At
  <2> QED BY <1>1, <2>2, <2>3, <2>4, HandFollows
<1> QED BY <1>3, <1>5, <1>6

LEMMA StampLineageFollows ==
    ASSUME Follow, Alone, Inv', NEW w \in Workers, StampLineage(w)
    PROVE  Follow'
<1> DEFINE t == Trader(w)
           n == worker[w].row.explore
           p == [pack[t] EXCEPT !.automatic = TRUE, !.mark = n, !.synced = worker[w].seen]
<1>1. /\ Hand(w) /\ Serves(w)
      /\ \A u \in Traders : Trader(w) = u => Making(w, u) /\ (owed[u] => Waits(Mill))
  BY MakingUnowed DEF StampLineage, At
<1>2. /\ worker \in [Workers -> Worker] /\ worker[w] \in Worker /\ t \in Traders /\ t \in Sources
      /\ pack \in [Sources -> Pack] /\ pack[t] \in Pack /\ pack[t].status # "absent"
  BY <1>1, InHand DEF Follow, Inv, TypeOK, StampLineage, At
<1>3. p.status = pack[t].status /\ p.mark = n
  BY <1>2 DEF Pack
<1>4. /\ pack' = [pack EXCEPT ![t] = p] /\ jobs' = jobs /\ clock' = clock /\ trimmed' = trimmed
      /\ Watch({}) /\ worker' = [worker EXCEPT ![w].at = "publishing", ![w].seen = {}]
  BY <1>2 DEF StampLineage
<1> HIDE DEF p
<1>5. pack'[t] = p /\ \A d \in Sources : d # t => pack'[d] = pack[d]
  BY <1>2, <1>4
<1>6. Tidy(w, {})
  BY <1>1, <1>2, <1>3, <1>4, <1>5, TidyWrites
<1>7. /\ worker'[w].at = "publishing" /\ worker'[w].of = worker[w].of
      /\ worker'[w].row = worker[w].row /\ worker'[w].todo = worker[w].todo
      /\ worker'[w].t = worker[w].t
  BY <1>2, <1>4 DEF Worker
<1>8. Hand(w)' /\ ~At(w, "setting")' /\ ~At(w, "stamping")'
  BY <1>7 DEF Hand, At
<1> QED BY <1>1, <1>6, <1>7, <1>8, HandFollows

LEMMA PublishRowFollows ==
    ASSUME Follow, Alone, Inv', NEW w \in Workers, PublishRow(w)
    PROVE  Follow'
<1> DEFINE t == Trader(w)
<1>1. /\ Hand(w) /\ Serves(w)
      /\ \A u \in Traders : Trader(w) = u => Making(w, u) /\ (owed[u] => Waits(Mill))
  BY MakingUnowed DEF PublishRow, At
<1>2. /\ t \in Traders /\ t \in Sources /\ TypeOK /\ worker[w].buyers \in SUBSET Companies
  BY <1>1, InHand DEF Follow, Inv
<1>3. /\ PublishPack(t, FALSE, worker[w].buyers) \/ UNCHANGED <<pack, jobs, clock>>
      /\ NextTrader(w) /\ trimmed' = trimmed /\ Watch({})
  BY DEF PublishRow
<1>4. /\ \A d \in Sources : d # t => pack'[d] = pack[d]
      /\ pack'[t].status = "published" \/ pack'[t] = pack[t]
      /\ pack'[t].mark = pack[t].mark
      /\ jobs' = jobs \/ Enqueue(t)
      /\ clock' = clock \/ clock' = clock + 1
  <2>1. CASE PublishPack(t, FALSE, worker[w].buyers)
    BY <1>2, <2>1, PublishWrites DEF Tick
  <2>2. CASE UNCHANGED <<pack, jobs, clock>>
    BY <2>2
  <2> QED BY <1>3, <2>1, <2>2
<1>5. Tidy(w, {})
  BY <1>1, <1>3, <1>4, TidyWrites
<1> QED BY <1>1, <1>3, <1>5, NextFollows

-----------------------------------------------------------------------------
LEMMA InitFollow == ASSUME Init, Alone PROVE Follow
<1>1. Inv
  BY InitInv
<1>2. /\ \A c \in Sources : pack[c] = NoPack
      /\ \A w \in Workers : worker[w] = Resting
      /\ clock = 1 /\ \A t \in Traders : ~owed[t]
  BY DEF Init
<1>3. NoPack.mark = 0 /\ NoPack.explore = 0 /\ NoPack.designs = {} /\ NoPack.status = "absent"
  BY DEF NoPack
<1>4. Clocked /\ \A c \in Sources : Blank(c)
  BY <1>2, <1>3, MillIsNoTrader DEF Clocked, Blank
<1>5. \A w \in Workers : DutyOK(w) /\ Known(w)
  BY <1>2, <1>3, ChoosingFields, MillIsNoTrader DEF DutyOK, Known, Serves
<1> QED BY <1>1, <1>2, <1>4, <1>5 DEF Follow, OwedOK

LEMMA NextFollow == ASSUME Follow, Alone, [Next]_vars PROVE Follow'
<1>0. Inv'
  BY NextInv DEF Follow
<1>1. CASE Owners
  <2>1. PICK c \in Sources :
             \/ Create(c)
             \/ \E S \in SUBSET Own(c) : Edit(c, S)
             \/ Publish(c, TRUE, {})
             \/ \E ids \in HandPicked : Publish(c, FALSE, ids)
             \/ SetStatus(c, "draft")
             \/ SetStatus(c, "archived")
    BY <1>1 DEF Owners
  <2>2. \A ids \in HandPicked : ids \in SUBSET Companies
    BY BoundsAssumption
  <2>3. ASSUME NEW st \in {"draft", "archived"}, SetStatus(c, st) PROVE Follow'
    BY <1>0, <2>3, TakenDown DEF SetStatus
  <2> QED BY <1>0, <2>1, <2>2, <2>3, CreateFollows, EditFollows, PublishFollows
<1>2. CASE Expire(Mill)
  BY <1>0, <1>2, TakenDown, MillIsNoTrader DEF Expire, Exists
<1>3. CASE Links
  BY <1>0, <1>3, LinksFollow DEF Links
<1>4. ASSUME NEW w \in Workers, Work(w) PROVE Follow'
  BY <1>0, <1>4, TakeFollows, HideChildrenFollows, DeliverFollows, ReadFollows, SetMembersFollows,
     StampFollows, ReadAudienceFollows, UnionBuyersFollows, CreateRowFollows, FillRowFollows,
     StampLineageFollows, PublishRowFollows DEF Work
<1>5. CASE UNCHANGED vars
  <2>1. /\ pack' = pack /\ lane' = lane /\ call' = call /\ worker' = worker /\ jobs' = jobs /\ clock' = clock
        /\ owed' = owed /\ trimmed' = trimmed
    BY <1>5 DEF vars, history
  <2>2. Clocked' /\ \A c \in Sources : Blank(c)'
    BY <2>1 DEF Follow, Clocked, Blank
  <2>3. \A w \in Workers : DutyOK(w)' /\ Known(w)'
    BY <2>1 DEF Follow, DutyOK, Known, Serves, Waits, Source, At, Trader
  <2>4. \A t \in Traders : Carried(t)' = Carried(t)
    BY <2>1 DEF Carried, Linked, Alive
  <2>5. \A t \in Traders : Caught(t)' = Caught(t)
    BY <2>1 DEF Caught, Waits, InSync, Coming, Making, Trader
  <2> QED BY <1>0, <2>1, <2>2, <2>3, <2>4, <2>5 DEF Follow, OwedOK
<1> QED BY <1>1, <1>2, <1>3, <1>4, <1>5 DEF Next

\* When the queue is empty, every pack that could follow its source since the source last
\* came up carries that revision and, unless its own trader took some out, all its designs:
\* with one worker and one hop, whatever owners, links and jobs do meanwhile.
THEOREM QuietPacksFollowAlone == ASSUME Alone PROVE Spec => []QuietPacksFollow
<1>1. Init => Follow
  BY InitFollow
<1>2. Follow /\ [Next]_vars => Follow'
  BY NextFollow
<1>3. ASSUME Follow PROVE QuietPacksFollow
  <2> SUFFICES ASSUME Quiet, NEW t \in Traders, owed[t] PROVE InSync(t)
    BY DEF QuietPacksFollow, InSync, Alone
  <2>1. PICK w \in Workers : Workers = {w}
    BY DEF Alone
  <2>2. Caught(t) /\ DutyOK(w) /\ ~Waits(Mill) /\ worker[w].at = "idle"
    BY <1>3, <2>1 DEF Follow, OwedOK, Quiet, Waits
  <2> QED BY <2>2, CaughtByOne DEF Coming, DutyOK, Serves
<1> QED BY <1>1, <1>2, <1>3, PTL DEF Spec
=============================================================================
