---------------------------- MODULE DirectoryProofs ----------------------------
(***************************************************************************)
(* Proofs about PlatformDirectory, for any number of platforms, webhooks,  *)
(* listings, rooms and faults.  The argument for webhooks: every row has   *)
(* been answered with its id, and no id was ever answered for two.  For a  *)
(* listing: what it owes is shown, or still ahead of its cursor.  For      *)
(* spaces: a handler only goes on with a space of its own platform.        *)
(***************************************************************************)
EXTENDS PlatformDirectory, SequenceTheorems, TLAPS

(* Ids come from the sequence, one for each platform and URL.              *)
Webhooks ==
  /\ hooks \subseteq Webhook
  /\ \A v, w \in hooks : (v.id = w.id \/ <<v.platform, v.url>> = <<w.platform, w.url>>) => v = w
  /\ lastId \in Nat /\ calls \in Nat /\ lastId <= calls /\ calls <= MaxCalls
  /\ answered \subseteq (1..lastId) \X Platforms \X Urls
  /\ \A w \in hooks : <<w.id, w.platform, w.url>> \in answered
  /\ \A s, t \in answered : s[1] = t[1] => s = t

Shown(seen, id) == \E i \in DOMAIN seen : seen[i] = id
Ahead(p, after, id) == after < id /\ \E w \in OfPlatform(p) : w.id = id

(* What a listing has shown is in order, and behind its cursor.            *)
Ordered(seen, after) ==
  /\ \A i, j \in DOMAIN seen : i < j => seen[i] < seen[j]
  /\ \A i \in DOMAIN seen : seen[i] <= after

Listing ==
  /\ walk \in Walk \union {Idle}
  /\ walk # Idle =>
       /\ Ordered(walk.seen, walk.after)
       /\ \A id \in walk.must :
            Shown(walk.seen, id) \/ (~walk.over /\ Ahead(walk.platform, walk.after, id))

(* A handler's room is mapped to its platform, and its space is the         *)
(* platform's, which has one on record if nothing failed on the way.        *)
JobInOrder(job) ==
  /\ job.pc \notin {"idle", "owners", "create"} =>
       job.room \in DOMAIN rooms /\ job.platform \in rooms[job.room].platforms
  /\ job.pc \in {"persist", "child"} =>
       job.space \in DOMAIN spaces /\ spaces[job.space] = job.platform
  /\ job.pc = "child" /\ job.clean => spaceRow[job.platform] # 0

Recorded(job) == job.pc # "idle" /\ job.known =>
  spaceRow[job.platform] # 0 /\ job.pc \notin {"space", "persist"}

SpaceTypes ==
  /\ spaceRow \in [Platforms -> 0..Len(spaces)]
  /\ unsupported \in BOOLEAN /\ supports \in BOOLEAN
  /\ spaces \in Seq(Platforms)
  /\ rooms \in Seq(Room)
  /\ handler \in [Handlers -> Job \union {Idle}]
  /\ children \subseteq (DOMAIN spaces) \X (DOMAIN rooms)
  /\ organised \subseteq (DOMAIN rooms) \X Platforms

Spaces ==
  /\ SpaceTypes
  /\ \A p \in Platforms : spaceRow[p] # 0 => spaces[spaceRow[p]] = p
  /\ \A h \in Handlers : JobInOrder(handler[h]) /\ Recorded(handler[h])
  /\ RoomOrganised

IInv == Webhooks /\ Listing /\ Spaces /\ faults \in 0..MaxFaults

-----------------------------------------------------------------------------
LEMMA InitIInv == Init => IInv
<1> SUFFICES ASSUME Init PROVE IInv
  OBVIOUS
<1>1. Webhooks
  BY DirectoryAssumption DEF Init, Webhooks
<1>2. Listing
  BY DEF Init, Listing
<1>3. Spaces
  <2>1. SpaceTypes
    <3>1. spaces \in Seq(Platforms) /\ Len(spaces) = 0
      BY DEF Init
    <3>2. rooms \in Seq(Room)
      BY DEF Init
    <3>3. spaceRow \in [Platforms -> 0..Len(spaces)]
      BY <3>1 DEF Init
    <3> QED BY <3>1, <3>2, <3>3 DEF Init, SpaceTypes
  <2>2. \A h \in Handlers : handler[h].pc = "idle"
    BY DEF Init, Idle
  <2>3. \A h \in Handlers : JobInOrder(handler[h]) /\ Recorded(handler[h])
    BY <2>2 DEF JobInOrder, Recorded
  <2> QED BY <2>1, <2>3 DEF Init, Spaces, RoomOrganised
<1>4. faults \in 0..MaxFaults
  BY DirectoryAssumption DEF Init
<1> QED BY <1>1, <1>2, <1>3, <1>4 DEF IInv

-----------------------------------------------------------------------------
(* Webhooks.                                                                *)

LEMMA HookIds == ASSUME Webhooks PROVE \A w \in hooks : w.id \in 1..lastId
<1>1. \A a, b, c : <<a, b, c>> \in (1..lastId) \X Platforms \X Urls => a \in 1..lastId
  OBVIOUS
<1> QED BY <1>1 DEF Webhooks

(* A row under an id that is new, or the row's own.                        *)
LEMMA PutKeeps ==
  ASSUME Webhooks, NEW p \in Platforms, NEW u \in Urls, NEW owner \in Owners \union {None}, NEW id,
         Call, lastId' = lastId + 1, Put(id, p, u, owner),
         \/ Same(p, u) = {} /\ id = lastId + 1
         \/ \E w \in Same(p, u) : id = w.id
  PROVE  Webhooks'
<1> DEFINE new == [id |-> id, platform |-> p, url |-> u, owner |-> owner]
<1>1. lastId' \in Nat /\ calls' \in Nat /\ lastId' <= calls' /\ calls' <= MaxCalls
  BY DirectoryAssumption DEF Webhooks, Call
<1>a. \A w \in hooks : w.id \in 1..lastId
  BY HookIds
<1>2. id \in 1..lastId' /\ id \in Ids
  <2>1. id \in 1..lastId'
    BY <1>1, <1>a DEF Webhooks, Same
  <2> QED BY <1>1, <2>1, DirectoryAssumption DEF Ids
<1>3. new \in Webhook
  BY <1>2 DEF Webhook
<1>4. hooks' = (hooks \ Same(p, u)) \union {new} /\ answered' = answered \union {<<id, p, u>>}
  BY DEF Put
<1>5. \A v \in hooks \ Same(p, u) : v.id # id
  BY <1>a DEF Webhooks, Same
<1>6. \A v \in hooks \ Same(p, u) : <<v.platform, v.url>> # <<p, u>>
  BY DEF Same
<1>7. \A s \in answered : s[1] = id => s = <<id, p, u>>
  <2>1. CASE id = lastId + 1
    BY <2>1 DEF Webhooks
  <2>2. ASSUME NEW w \in Same(p, u), id = w.id PROVE <1>7!:
    <3>1. <<w.id, w.platform, w.url>> \in answered /\ w.platform = p /\ w.url = u
      BY DEF Same, Webhooks
    <3> QED BY <2>2, <3>1 DEF Webhooks
  <2> QED BY <2>1, <2>2
<1>8. hooks' \subseteq Webhook
  BY <1>3, <1>4 DEF Webhooks
<1>9. \A v, w \in hooks' : (v.id = w.id \/ <<v.platform, v.url>> = <<w.platform, w.url>>) => v = w
  BY <1>4, <1>5, <1>6 DEF Webhooks
<1>10. answered' \subseteq (1..lastId') \X Platforms \X Urls
  BY <1>1, <1>2, <1>4 DEF Webhooks
<1>11. \A w \in hooks' : <<w.id, w.platform, w.url>> \in answered'
  <2>1. <<new.id, new.platform, new.url>> = <<id, p, u>>
    OBVIOUS
  <2> QED BY <1>4, <2>1 DEF Webhooks
<1>12. \A s, t \in answered' : s[1] = t[1] => s = t
  BY <1>4, <1>7 DEF Webhooks
<1> QED BY <1>1, <1>8, <1>9, <1>10, <1>11, <1>12 DEF Webhooks

LEMMA CreatePuts ==
  ASSUME NEW p \in Platforms, NEW u \in Urls, NEW owner \in Owners \union {None},
         CreateWebhook(p, u, owner)
  PROVE  /\ Call /\ lastId' = lastId + 1
         /\ \E id : /\ Put(id, p, u, owner)
                    /\ \/ Same(p, u) = {} /\ id = lastId + 1
                       \/ \E w \in Same(p, u) : id = w.id
BY DEF CreateWebhook

LEMMA DeleteKeeps == ASSUME Webhooks, NEW id, DeleteWebhook(id) PROVE Webhooks'
BY DirectoryAssumption DEF Webhooks, DeleteWebhook, Call

(* Every other step.                                                       *)
HooksStay == hooks' = hooks /\ lastId' = lastId /\ answered' = answered
CallsRise == Call \/ calls' = calls

LEMMA WebhooksStay == ASSUME Webhooks, HooksStay, CallsRise PROVE Webhooks'
BY DirectoryAssumption DEF Webhooks, HooksStay, CallsRise, Call

-----------------------------------------------------------------------------
(* Listings.                                                                *)

(* An update keeps a row's platform and id.                                *)
LEMMA CreateKeepsListing ==
  ASSUME Webhooks, Listing, NEW p \in Platforms, NEW u \in Urls, NEW owner \in Owners \union {None},
         CreateWebhook(p, u, owner)
  PROVE  Listing'
<1>1. PICK id : /\ Put(id, p, u, owner)
                /\ \/ Same(p, u) = {} /\ id = lastId + 1
                   \/ \E w \in Same(p, u) : id = w.id
  BY CreatePuts
<1>2. walk' = walk
  BY <1>1 DEF Put
<1>3. \A q, after, n : Ahead(q, after, n) => Ahead(q, after, n)'
  <2> SUFFICES ASSUME NEW q, NEW after, NEW n, after < n, NEW w \in hooks, q \in {None, w.platform}, w.id = n
               PROVE  \E v \in hooks' : q \in {None, v.platform} /\ v.id = n
    BY DEF Ahead, OfPlatform
  <2>1. CASE w \notin Same(p, u)
    BY <1>1, <2>1 DEF Put
  <2>2. CASE w \in Same(p, u)
    <3>1. w.id = id /\ w.platform = p
      BY <1>1, <2>2 DEF Same, Webhooks
    <3>2. [id |-> id, platform |-> p, url |-> u, owner |-> owner] \in hooks'
      BY <1>1 DEF Put
    <3> QED BY <3>1, <3>2
  <2> QED BY <2>1, <2>2
<1> QED BY <1>2, <1>3 DEF Listing, Ordered, Shown

LEMMA DeleteKeepsListing ==
  ASSUME Listing, NEW id, DeleteWebhook(id)
  PROVE  Listing'
<1>1. CASE walk = Idle
  BY <1>1 DEF DeleteWebhook, Listing
<1>2. CASE walk # Idle
  <2>1. walk \in Walk /\ walk' = [walk EXCEPT !.must = walk.must \ {id}]
    BY <1>2 DEF Listing, DeleteWebhook
  <2>2. walk' \in Walk
    BY <2>1 DEF Walk
  <2>3. /\ walk'.must = walk.must \ {id} /\ walk'.seen = walk.seen /\ walk'.after = walk.after
        /\ walk'.over = walk.over /\ walk'.platform = walk.platform
    BY <2>1 DEF Walk
  <2>4. \A q, after, n : n # id /\ Ahead(q, after, n) => Ahead(q, after, n)'
    BY DEF Ahead, OfPlatform, DeleteWebhook
  <2> QED BY <1>2, <2>2, <2>3, <2>4 DEF Listing, Ordered, Shown
<1> QED BY <1>1, <1>2

LEMMA ClampType == ASSUME NEW n \in Limits PROVE Clamp(n) \in 1..MaxLimit
BY DirectoryAssumption DEF Clamp

LEMMA StartKeepsListing ==
  ASSUME Webhooks, NEW p \in Platforms \union {None}, NEW limit \in Limits, StartWalk(p, limit)
  PROVE  Listing'
<1> DEFINE must == {w.id : w \in OfPlatform(p)}
<1>1. walk' = [platform |-> p, after |-> 0, limit |-> Clamp(limit), seen |-> <<>>,
               must |-> must, over |-> FALSE]
  BY DEF StartWalk
<1>2. must \subseteq Ids
  BY DEF OfPlatform, Webhooks, Webhook
<1>3. walk' \in Walk
  BY <1>1, <1>2, ClampType, DirectoryAssumption DEF Walk
<1>4. \A id \in must : Ahead(p, 0, id)
  BY <1>2 DEF Ahead, Ids
<1>5. \A id \in must : Ahead(p, 0, id)'
  BY <1>4 DEF Ahead, OfPlatform, StartWalk
<1>6. Ordered(walk'.seen, walk'.after)
  BY <1>1 DEF Ordered
<1>7. walk'.must = must /\ walk'.over = FALSE /\ walk'.platform = p /\ walk'.after = 0
  BY <1>1
<1> QED BY <1>3, <1>5, <1>6, <1>7 DEF Listing

LEMMA PageFacts ==
  ASSUME Webhooks, NEW p, NEW after \in Nat, NEW limit \in Nat \ {0}, NEW s \in Page(p, after, limit)
  PROVE  /\ s \in Seq(Ids)
         /\ \A i, j \in DOMAIN s : i < j => s[i] < s[j]
         /\ \A i \in DOMAIN s : s[i] > after
         /\ \A id : Ahead(p, after, id) => Shown(s, id) \/ (s # <<>> /\ s[Len(s)] < id)
<1>1. PICK n \in 0..limit : s \in [1..n -> {w.id : w \in OfPlatform(p)}]
  BY DEF Page
<1>2. {w.id : w \in OfPlatform(p)} \subseteq Ids
  BY DEF OfPlatform, Webhooks, Webhook
<1>3. s \in Seq(Ids) /\ Len(s) = n /\ DOMAIN s = 1..n
  BY <1>1, <1>2
<1>4. /\ \A i, j \in DOMAIN s : i < j => s[i] < s[j]
      /\ \A i \in DOMAIN s : s[i] > after
      /\ \A w \in OfPlatform(p) : w.id > after =>
           \/ \E i \in DOMAIN s : s[i] = w.id
           \/ Len(s) = limit /\ \A i \in DOMAIN s : s[i] < w.id
  BY DEF Page
<1>5. ASSUME NEW id, Ahead(p, after, id), ~Shown(s, id) PROVE s # <<>> /\ s[Len(s)] < id
  <2>1. PICK w \in OfPlatform(p) : w.id = id /\ after < id
    BY <1>5 DEF Ahead
  <2>2. w.id \in Nat
    BY DEF OfPlatform, Webhooks, Webhook, Ids
  <2>3. Len(s) = limit /\ \A i \in DOMAIN s : s[i] < id
    BY <1>4, <1>5, <2>1, <2>2 DEF Shown
  <2> QED BY <1>3, <2>3
<1> QED BY <1>3, <1>4, <1>5

(* What a page shows goes behind the cursor, and nothing owed is passed.    *)
LEMMA PageKeepsListing ==
  ASSUME Webhooks, Listing, NextPage
  PROVE  Listing'
<1>1. walk \in Walk /\ ~walk.over /\ walk # Idle
  BY DEF Listing, NextPage
<1> DEFINE p == walk.platform
           seen == walk.seen
<1>2. /\ walk.after \in Nat /\ walk.after \in 0..MaxCalls /\ walk.limit \in Nat \ {0} /\ seen \in Seq(Ids)
      /\ walk.must \subseteq Ids
  BY <1>1, DirectoryAssumption DEF Walk
<1>3. PICK s \in Page(p, walk.after, walk.limit) :
        walk' = IF s = <<>> THEN [walk EXCEPT !.over = TRUE]
                            ELSE [walk EXCEPT !.seen = walk.seen \o s, !.after = s[Len(s)]]
  BY DEF NextPage
<1>4. /\ s \in Seq(Ids)
      /\ \A i, j \in DOMAIN s : i < j => s[i] < s[j]
      /\ \A i \in DOMAIN s : s[i] > walk.after
      /\ \A id : Ahead(p, walk.after, id) => Shown(s, id) \/ (s # <<>> /\ s[Len(s)] < id)
  BY <1>2, <1>3, PageFacts
<1>5. \A x \in Ids : x \in Nat /\ x \in 0..MaxCalls
  BY DirectoryAssumption DEF Ids
<1>6. hooks' = hooks
  BY DEF NextPage
<1>7. CASE s = <<>>
  <2>1. walk' \in Walk /\ walk'.must = walk.must /\ walk'.seen = seen /\ walk'.after = walk.after
    BY <1>1, <1>3, <1>7 DEF Walk
  <2>2. \A id \in walk.must : Shown(seen, id)
    BY <1>1, <1>4, <1>7 DEF Listing, Shown
  <2> QED BY <1>1, <2>1, <2>2 DEF Listing, Ordered, Shown
<1>8. CASE s # <<>>
  <2> DEFINE all == seen \o s
             last == s[Len(s)]
  <2>a. \A i \in DOMAIN s : s[i] \in Ids /\ s[i] \in Nat /\ s[i] \in 0..MaxCalls
    <3>1. \A i \in 1..Len(s) : s[i] \in Ids
      BY <1>4, ElementOfSeq
    <3>2. DOMAIN s = 1..Len(s)
      BY <1>4
    <3> QED BY <1>5, <3>1, <3>2, Zenon
  <2>1. last \in Ids /\ Len(s) \in DOMAIN s /\ last > walk.after /\ last \in 0..MaxCalls
    <3>1. Len(s) \in DOMAIN s
      BY <1>4, <1>8
    <3> QED BY <1>2, <1>4, <2>a, <3>1
  <2>2. all \in Seq(Ids) /\ Len(all) = Len(seen) + Len(s)
    BY <1>2, <1>4
  <2>b. \A i \in DOMAIN all : all[i] \in Ids /\ all[i] \in Nat
    <3> HIDE DEF all
    <3>1. \A i \in 1..Len(all) : all[i] \in Ids
      BY <2>2, ElementOfSeq
    <3>2. DOMAIN all = 1..Len(all)
      BY <2>2
    <3> QED BY <1>5, <3>1, <3>2, Zenon
  <2>3. walk' \in Walk
    BY <1>1, <1>3, <1>8, <2>1, <2>2 DEF Walk
  <2>4. /\ walk'.must = walk.must /\ walk'.seen = all /\ walk'.after = last /\ walk'.platform = p
        /\ ~walk'.over
    BY <1>1, <1>3, <1>8 DEF Walk
  <2>5. \A i \in DOMAIN all : \/ i \in DOMAIN seen /\ all[i] = seen[i] /\ all[i] <= walk.after
                              \/ i - Len(seen) \in DOMAIN s /\ i > Len(seen) /\ all[i] = s[i - Len(seen)]
    BY <1>1, <1>2, <1>4 DEF Listing, Ordered
  <2>6. \A i \in DOMAIN s : s[i] <= last
    <3> SUFFICES ASSUME NEW i \in DOMAIN s PROVE s[i] <= last
      OBVIOUS
    <3>1. i \in 1..Len(s) /\ s[i] \in Nat /\ last \in Nat /\ Len(s) \in Nat
      BY <1>4, <2>a, <2>1
    <3>2. i < Len(s) => s[i] < last
      BY <1>4, <2>1
    <3> QED BY <3>1, <3>2
  <2>7. Ordered(all, last)
    <3>1. \A i \in DOMAIN all : all[i] <= last
      <4> SUFFICES ASSUME NEW i \in DOMAIN all PROVE all[i] <= last
        OBVIOUS
      <4>1. all[i] \in Nat /\ last \in Nat
        BY <2>a, <2>b, <2>1
      <4> QED BY <1>2, <2>1, <2>5, <2>6, <4>1
    <3>2. ASSUME NEW i \in DOMAIN all, NEW j \in DOMAIN all, i < j PROVE all[i] < all[j]
      <4>1. i \in Nat /\ j \in Nat /\ all[i] \in Nat /\ all[j] \in Nat /\ Len(seen) \in Nat
        BY <1>2, <2>b, <2>2
      <4>2. CASE j \in DOMAIN seen
        <5>1. i \in DOMAIN seen
          BY <1>2, <3>2, <4>1, <4>2, <2>2
        <5>2. all[i] = seen[i] /\ all[j] = seen[j]
          BY <5>1, <4>2, <1>2, <1>4
        <5> QED BY <3>2, <4>2, <5>1, <5>2, <1>1 DEF Listing, Ordered
      <4>3. CASE j \notin DOMAIN seen /\ i \in DOMAIN seen
        <5>1. all[i] <= walk.after
          <6>1. i <= Len(seen)
            BY <4>1, <4>3, <1>2
          <6> QED BY <4>1, <6>1, <2>5, <1>2
        <5>2. all[j] > walk.after
          BY <4>1, <4>3, <2>5, <1>4
        <5> QED BY <4>1, <5>1, <5>2, <1>2
      <4>4. CASE j \notin DOMAIN seen /\ i \notin DOMAIN seen
        BY <3>2, <4>1, <4>4, <2>5, <1>4
      <4> QED BY <4>2, <4>3, <4>4
    <3> QED BY <3>1, <3>2 DEF Ordered
  <2>8. \A id : Shown(seen, id) \/ Shown(s, id) => Shown(all, id)
    <3>1. \A i \in DOMAIN seen : i \in DOMAIN all /\ all[i] = seen[i]
      BY <1>2, <1>4
    <3>2. \A i \in DOMAIN s : Len(seen) + i \in DOMAIN all /\ all[Len(seen) + i] = s[i]
      BY <1>2, <1>4
    <3> QED BY <3>1, <3>2 DEF Shown
  <2>9. \A id : Ahead(p, walk.after, id) => Shown(s, id) \/ Ahead(p, last, id)
    BY <1>4 DEF Ahead
  <2>10. \A id \in walk.must : Shown(all, id) \/ Ahead(p, last, id)
    BY <1>1, <2>8, <2>9 DEF Listing
  <2>11. \A id : Ahead(p, last, id) => (\E w \in hooks' : p \in {None, w.platform} /\ w.id = id) /\ last < id
    BY <1>6 DEF Ahead, OfPlatform
  <2> QED BY <2>3, <2>4, <2>7, <2>10, <2>11 DEF Listing, Ahead, OfPlatform, Ordered, Shown
<1> QED BY <1>7, <1>8

LEMMA ListingStays == ASSUME Listing, walk' = walk, hooks' = hooks PROVE Listing'
BY DEF Listing, Ordered, Shown, Ahead, OfPlatform

-----------------------------------------------------------------------------
(* Setting up rooms.                                                        *)

(* Rooms and spaces keep what they are, and a row is only written over.     *)
Extends ==
  /\ \A r \in DOMAIN rooms : r \in DOMAIN rooms' /\ rooms[r].platforms \subseteq rooms'[r].platforms
  /\ \A s \in DOMAIN spaces : s \in DOMAIN spaces' /\ spaces'[s] = spaces[s]
  /\ \A p \in Platforms : spaceRow[p] # 0 => spaceRow'[p] # 0

(* The handler of h goes on as job, and the others stay.                   *)
Becomes(h, job) ==
  /\ job \in Job \union {Idle}
  /\ handler' = [handler EXCEPT ![h] = job]

LEMMA StepKeepsSpaces ==
  ASSUME Spaces, SpaceTypes', Extends, NEW h \in Handlers, NEW job, Becomes(h, job),
         JobInOrder(job)', Recorded(job)',
         \A p \in Platforms : spaceRow'[p] # 0 => spaces'[spaceRow'[p]] = p,
         RoomOrganised'
  PROVE  Spaces'
<1> SUFFICES ASSUME NEW g \in Handlers PROVE JobInOrder(handler[g])' /\ Recorded(handler[g])'
  BY DEF Spaces
<1>1. CASE g = h
  <2>1. handler'[g] = job
    BY <1>1 DEF Becomes, Spaces, SpaceTypes
  <2> QED BY <2>1 DEF JobInOrder, Recorded
<1>2. CASE g # h
  <2>1. handler'[g] = handler[g]
    BY <1>2 DEF Becomes, Spaces, SpaceTypes
  <2>2. handler[g].pc # "idle" => handler[g].platform \in Platforms
    BY DEF Spaces, SpaceTypes, Job, Idle
  <2>3. JobInOrder(handler[g])'
    BY <2>1, <2>2 DEF Spaces, JobInOrder, Extends
  <2>4. Recorded(handler[g])'
    BY <2>1, <2>2 DEF Spaces, Recorded, Extends
  <2> QED BY <2>3, <2>4
<1> QED BY <1>1, <1>2

LEMMA IdleInOrder == JobInOrder(Idle) /\ Recorded(Idle) /\ JobInOrder(Idle)' /\ Recorded(Idle)'
BY DEF JobInOrder, Recorded, Idle

LEMMA AtJob ==
  ASSUME SpaceTypes, NEW h \in Handlers, handler[h].pc # "idle"
  PROVE  handler[h] \in Job
BY DEF SpaceTypes, Idle

(* A step that changes the handler alone.                                  *)
Only == /\ spaceRow' = spaceRow /\ unsupported' \in BOOLEAN /\ spaces' = spaces /\ children' = children
        /\ rooms' = rooms /\ organised' = organised /\ supports' = supports

LEMMA OnlyHandler ==
  ASSUME Spaces, Only, NEW h \in Handlers, NEW job, Becomes(h, job), JobInOrder(job), Recorded(job)
  PROVE  Spaces'
<1>1. SpaceTypes'
  BY DEF Spaces, SpaceTypes, Only, Becomes
<1>2. Extends
  BY DEF Extends, Only
<1>3. JobInOrder(job)' /\ Recorded(job)'
  BY DEF JobInOrder, Recorded, Only
<1>4. RoomOrganised' /\ \A p \in Platforms : spaceRow'[p] # 0 => spaces'[spaceRow'[p]] = p
  BY DEF Spaces, RoomOrganised, Only
<1> QED BY <1>1, <1>2, <1>3, <1>4, StepKeepsSpaces

LEMMA GiveUpKeeps ==
  ASSUME Spaces, Only, NEW h \in Handlers, handler' = [handler EXCEPT ![h] = Idle]
  PROVE  Spaces'
BY OnlyHandler, IdleInOrder DEF Becomes

LEMMA NewMessageKeeps ==
  ASSUME Spaces, NEW h \in Handlers, NEW p \in Platforms, NewMessage(h, p)
  PROVE  Spaces'
<1>1. PICK job : job = [pc |-> "owners", platform |-> p, invited |-> {}, room |-> 0, space |-> 0,
                        known |-> FALSE, clean |-> TRUE]
  OBVIOUS
<1>2. job \in Job
  BY <1>1 DEF Job
<1>3. JobInOrder(job) /\ Recorded(job)
  BY <1>1 DEF JobInOrder, Recorded
<1>4. Becomes(h, job) /\ Only
  BY <1>1, <1>2 DEF NewMessage, Becomes, Only, Spaces, SpaceTypes
<1> QED BY <1>3, <1>4, OnlyHandler

LEMMA CollectInvitesKeeps ==
  ASSUME Spaces, NEW h \in Handlers, CollectInvites(h)
  PROVE  Spaces'
<1>1. Only
  BY DEF CollectInvites, Only, Spaces, SpaceTypes
<1>2. handler[h] \in Job /\ handler[h].pc = "owners"
  BY AtJob DEF CollectInvites, At, Spaces
<1>3. PICK owners \in SUBSET Owners :
        handler' = [handler EXCEPT ![h] = IF AutoInvite \union owners = {} THEN Idle ELSE
                      [handler[h] EXCEPT !.pc = "create", !.invited = AutoInvite \union owners]]
  BY DEF CollectInvites
<1>4. CASE AutoInvite \union owners = {}
  BY <1>1, <1>3, <1>4, GiveUpKeeps
<1>5. CASE AutoInvite \union owners # {}
  <2>1. PICK job : job = [handler[h] EXCEPT !.pc = "create", !.invited = AutoInvite \union owners]
    OBVIOUS
  <2>2. job \in Job /\ job.pc = "create" /\ job.known = handler[h].known /\ job.platform = handler[h].platform
    BY <1>2, <2>1 DEF Job
  <2>3. JobInOrder(job) /\ Recorded(job)
    BY <1>2, <2>2 DEF JobInOrder, Recorded, Spaces
  <2>4. Becomes(h, job)
    BY <1>3, <1>5, <2>1, <2>2 DEF Becomes
  <2> QED BY <1>1, <2>3, <2>4, OnlyHandler
<1> QED BY <1>4, <1>5

(* A room is added, or mapped to a platform more.                           *)
LEMMA RoomMapped ==
  ASSUME Spaces, NEW h \in Handlers, NEW job \in Job, rooms' \in Seq(Room),
         \A r \in DOMAIN rooms :
           r \in DOMAIN rooms' /\ rooms[r].platforms \subseteq rooms'[r].platforms,
         handler' = [handler EXCEPT ![h] = job],
         job.pc = "flag", job.room \in DOMAIN rooms', job.platform \in rooms'[job.room].platforms,
         job.known => spaceRow[job.platform] # 0,
         spaceRow' = spaceRow, unsupported' = unsupported, spaces' = spaces, children' = children,
         organised' = organised, supports' = supports
  PROVE  Spaces'
<1>1. SpaceTypes'
  <2>1. children' \subseteq (DOMAIN spaces') \X (DOMAIN rooms')
    BY DEF Spaces, SpaceTypes
  <2>2. organised' \subseteq (DOMAIN rooms') \X Platforms
    BY DEF Spaces, SpaceTypes
  <2>3. handler' \in [Handlers -> Job \union {Idle}]
    BY DEF Spaces, SpaceTypes
  <2> QED BY <2>1, <2>2, <2>3 DEF Spaces, SpaceTypes
<1>2. Extends
  BY DEF Extends
<1>3. JobInOrder(job)' /\ Recorded(job)'
  BY DEF JobInOrder, Recorded
<1>4. RoomOrganised'
  <2>1. \A c \in children : c[2] \in DOMAIN rooms
    BY DEF Spaces, SpaceTypes
  <2> QED BY <2>1 DEF Spaces, RoomOrganised
<1>5. \A p \in Platforms : spaceRow'[p] # 0 => spaces'[spaceRow'[p]] = p
  BY DEF Spaces
<1> QED BY <1>1, <1>2, <1>3, <1>4, <1>5, StepKeepsSpaces DEF Becomes

LEMMA AppendRoom ==
  ASSUME Spaces, NEW room \in Room, rooms' = Append(rooms, room)
  PROVE  /\ rooms' \in Seq(Room)
         /\ \A r \in DOMAIN rooms : r \in DOMAIN rooms' /\ rooms'[r] = rooms[r]
         /\ Len(rooms) + 1 \in DOMAIN rooms' /\ rooms'[Len(rooms) + 1] = room
BY DEF Spaces, SpaceTypes

LEMMA CreateRoomKeeps ==
  ASSUME Spaces, NEW h \in Handlers, CreateRoom(h)
  PROVE  Spaces'
<1>1. handler[h] \in Job /\ handler[h].pc = "create"
  BY AtJob DEF CreateRoom, At, Spaces
<1>2. CASE GiveUp(h) /\ rooms' = rooms
  <2>1. Only
    BY <1>2 DEF CreateRoom, Only, Spaces, SpaceTypes
  <2> QED BY <1>2, <2>1, GiveUpKeeps DEF GiveUp
<1>3. CASE /\ rooms' = Append(rooms, [platforms |-> {handler[h].platform}, invited |-> handler[h].invited])
           /\ handler' = [handler EXCEPT ![h].pc = "flag", ![h].room = Len(rooms) + 1]
  <2>1. PICK room : room = [platforms |-> {handler[h].platform}, invited |-> handler[h].invited]
    OBVIOUS
  <2>2. PICK job : job = [handler[h] EXCEPT !.pc = "flag", !.room = Len(rooms) + 1]
    OBVIOUS
  <2>3. room \in Room
    BY <1>1, <2>1 DEF Room, Job
  <2>4. Len(rooms) + 1 \in Nat
    BY DEF Spaces, SpaceTypes
  <2>5. /\ job \in Job /\ job.pc = "flag" /\ job.room = Len(rooms) + 1
        /\ job.known = handler[h].known /\ job.platform = handler[h].platform
    BY <1>1, <2>2, <2>4 DEF Job
  <2>6. job.known => spaceRow[job.platform] # 0
    BY <1>1, <2>5 DEF Spaces, Recorded
  <2>7. handler' = [handler EXCEPT ![h] = job] /\ rooms' = Append(rooms, room)
    BY <1>3, <2>1, <2>2
  <2>8. job.platform \in room.platforms
    BY <2>1, <2>5
  <2> QED BY <2>3, <2>5, <2>6, <2>7, <2>8, AppendRoom, RoomMapped DEF CreateRoom
<1> QED BY <1>2, <1>3 DEF CreateRoom

LEMMA MapRoomKeeps ==
  ASSUME Spaces, NEW h \in Handlers, NEW p \in Platforms, NEW r \in 1..(Len(rooms) + 1),
         MapRoom(h, p, r)
  PROVE  Spaces'
<1>1. PICK job : job = [pc |-> "flag", platform |-> p, invited |-> {}, room |-> r,
                        space |-> 0, known |-> FALSE, clean |-> TRUE]
  OBVIOUS
<1>2. Len(rooms) \in Nat /\ r \in Nat /\ DOMAIN rooms = 1..Len(rooms) /\ rooms \in Seq(Room)
  BY DEF Spaces, SpaceTypes
<1>3. job \in Job /\ job.pc = "flag" /\ job.room = r /\ ~job.known /\ job.platform = p
  BY <1>1, <1>2 DEF Job
<1>4. handler' = [handler EXCEPT ![h] = job]
  BY <1>1 DEF MapRoom
<1>5. /\ rooms' \in Seq(Room) /\ r \in DOMAIN rooms' /\ p \in rooms'[r].platforms
      /\ \A q \in DOMAIN rooms :
           q \in DOMAIN rooms' /\ rooms[q].platforms \subseteq rooms'[q].platforms
  <2>1. CASE r \in DOMAIN rooms
    <3>1. PICK room : room = [rooms[r] EXCEPT !.platforms = rooms[r].platforms \union {p}]
      OBVIOUS
    <3>2. rooms[r] \in Room
      BY <1>2, <2>1
    <3>3. room \in Room /\ room.platforms = rooms[r].platforms \union {p}
      BY <3>1, <3>2 DEF Room
    <3>4. rooms' = [rooms EXCEPT ![r] = room]
      BY <2>1, <3>1 DEF MapRoom
    <3> QED BY <1>2, <2>1, <3>3, <3>4
  <2>2. CASE r \notin DOMAIN rooms
    <3>1. PICK room : room = [platforms |-> {p}, invited |-> {}]
      OBVIOUS
    <3>2. room \in Room /\ rooms' = Append(rooms, room) /\ p \in room.platforms
      BY <2>2, <3>1 DEF MapRoom, Room
    <3>3. r = Len(rooms) + 1
      BY <1>2, <2>2
    <3> QED BY <3>2, <3>3, AppendRoom
  <2> QED BY <2>1, <2>2
<1> QED BY <1>3, <1>4, <1>5, RoomMapped DEF MapRoom

LEMMA CheckFlagKeeps ==
  ASSUME Spaces, NEW h \in Handlers, CheckFlag(h)
  PROVE  Spaces'
<1>1. handler[h] \in Job /\ handler[h].pc = "flag"
  BY AtJob DEF CheckFlag, At, Spaces
<1>2. Only
  BY DEF CheckFlag, Only, Spaces, SpaceTypes
<1>3. CASE unsupported
  BY <1>2, <1>3, GiveUpKeeps DEF CheckFlag
<1>4. CASE ~unsupported
  <2>1. PICK known \in BOOLEAN : known = (spaceRow[handler[h].platform] # 0)
    OBVIOUS
  <2>2. PICK job : job = [handler[h] EXCEPT !.pc = "query", !.known = known]
    OBVIOUS
  <2>3. /\ job \in Job /\ job.pc = "query" /\ job.known = known
        /\ job.platform = handler[h].platform /\ job.room = handler[h].room
    BY <1>1, <2>1, <2>2 DEF Job
  <2>4. JobInOrder(job)
    BY <1>1, <2>3 DEF Spaces, JobInOrder
  <2>5. Recorded(job)
    BY <2>1, <2>3 DEF Recorded
  <2>6. Becomes(h, job)
    BY <1>4, <2>1, <2>2, <2>3 DEF CheckFlag, Becomes
  <2> QED BY <1>2, <2>4, <2>5, <2>6, OnlyHandler
<1> QED BY <1>3, <1>4

LEMMA QuerySpaceKeeps ==
  ASSUME Spaces, NEW h \in Handlers, QuerySpace(h)
  PROVE  Spaces'
<1>1. handler[h] \in Job /\ handler[h].pc = "query" /\ handler[h].platform \in Platforms
  BY AtJob DEF QuerySpace, At, Spaces, Job
<1>2. Only
  BY DEF QuerySpace, Only, Spaces, SpaceTypes
<1>3. CASE GiveUp(h)
  BY <1>2, <1>3, GiveUpKeeps DEF GiveUp
<1>4. ASSUME ~GiveUp(h) PROVE Spaces'
  <2>1. PICK found : found = spaceRow[handler[h].platform]
    OBVIOUS
  <2>2. found \in 0..Len(spaces) /\ Len(spaces) \in Nat
    BY <1>1, <2>1 DEF Spaces, SpaceTypes
  <2>3. PICK stage \in {"space", "child"} : stage = IF found = 0 THEN "space" ELSE "child"
    OBVIOUS
  <2>4. PICK job : job = [handler[h] EXCEPT !.pc = stage, !.space = found]
    OBVIOUS
  <2>5. /\ job \in Job /\ job.pc = stage /\ job.space = found /\ job.known = handler[h].known
        /\ job.platform = handler[h].platform /\ job.room = handler[h].room
    <3>1. found \in Nat
      BY <2>2
    <3> QED BY <1>1, <2>3, <2>4, <3>1 DEF Job
  <2>6. stage = "child" => found \in DOMAIN spaces /\ spaces[found] = handler[h].platform
    BY <1>1, <2>1, <2>2, <2>3 DEF Spaces, SpaceTypes
  <2>7. JobInOrder(job)
    BY <1>1, <2>1, <2>3, <2>5, <2>6 DEF Spaces, JobInOrder
  <2>8. Recorded(job)
    BY <1>1, <2>1, <2>3, <2>5 DEF Spaces, Recorded
  <2>9. Becomes(h, job)
    BY <1>4, <2>1, <2>3, <2>4, <2>5 DEF QuerySpace, Becomes
  <2> QED BY <1>2, <2>7, <2>8, <2>9, OnlyHandler
<1> QED BY <1>3, <1>4

LEMMA CreateSpaceKeeps ==
  ASSUME Spaces, NEW h \in Handlers, CreateSpace(h)
  PROVE  Spaces'
<1>1. /\ handler[h] \in Job /\ handler[h].pc = "space" /\ handler[h].platform \in Platforms
      /\ ~handler[h].known
  BY AtJob DEF CreateSpace, At, Spaces, Job, Recorded
<1>2. CASE spaces' = spaces /\ handler' = [handler EXCEPT ![h] = Idle]
  <2>1. Only
    BY <1>2 DEF CreateSpace, Only, Spaces, SpaceTypes
  <2> QED BY <1>2, <2>1, GiveUpKeeps
<1>3. CASE /\ spaces' = Append(spaces, handler[h].platform) /\ unsupported' = unsupported
           /\ handler' = [handler EXCEPT ![h].pc = "persist", ![h].space = Len(spaces) + 1]
  <2>1. spaces \in Seq(Platforms) /\ Len(spaces) \in Nat
    BY DEF Spaces, SpaceTypes
  <2>2. /\ \A s \in DOMAIN spaces : s \in DOMAIN spaces' /\ spaces'[s] = spaces[s]
        /\ Len(spaces) + 1 \in DOMAIN spaces' /\ spaces'[Len(spaces) + 1] = handler[h].platform
        /\ spaces' \in Seq(Platforms) /\ Len(spaces') = Len(spaces) + 1
    BY <1>1, <1>3, <2>1
  <2>3. PICK job : job = [handler[h] EXCEPT !.pc = "persist", !.space = Len(spaces) + 1]
    OBVIOUS
  <2>4. /\ job \in Job /\ job.pc = "persist" /\ job.space = Len(spaces) + 1 /\ ~job.known
        /\ job.platform = handler[h].platform /\ job.room = handler[h].room
    <3>1. Len(spaces) + 1 \in Nat
      BY <2>1
    <3> QED BY <1>1, <2>3, <3>1 DEF Job
  <2>5. spaceRow' = spaceRow /\ rooms' = rooms /\ children' = children /\ organised' = organised
        /\ supports' = supports
    BY DEF CreateSpace
  <2>6. SpaceTypes'
    <3>1. spaceRow' \in [Platforms -> 0..Len(spaces')]
      BY <2>1, <2>2, <2>5 DEF Spaces, SpaceTypes
    <3>2. children' \subseteq (DOMAIN spaces') \X (DOMAIN rooms')
      BY <2>2, <2>5 DEF Spaces, SpaceTypes
    <3>3. handler' \in [Handlers -> Job \union {Idle}]
      BY <1>3, <2>3, <2>4 DEF Spaces, SpaceTypes
    <3> QED BY <1>3, <2>2, <2>5, <3>1, <3>2, <3>3 DEF Spaces, SpaceTypes
  <2>7. Extends
    BY <2>2, <2>5 DEF Extends
  <2>8. JobInOrder(job)'
    BY <1>1, <2>2, <2>4, <2>5 DEF Spaces, JobInOrder
  <2>9. Recorded(job)'
    BY <2>4 DEF Recorded
  <2>10. \A p \in Platforms : spaceRow'[p] # 0 => spaces'[spaceRow'[p]] = p
    <3> SUFFICES ASSUME NEW p \in Platforms, spaceRow[p] # 0 PROVE spaces'[spaceRow[p]] = p
      BY <2>5
    <3>1. spaceRow[p] \in DOMAIN spaces /\ spaces[spaceRow[p]] = p
      BY <2>1 DEF Spaces, SpaceTypes
    <3> QED BY <2>2, <3>1
  <2>11. RoomOrganised'
    <3>1. \A c \in children : c[1] \in DOMAIN spaces
      BY DEF Spaces, SpaceTypes
    <3> QED BY <2>2, <2>5, <3>1 DEF Spaces, RoomOrganised
  <2>12. Becomes(h, job)
    BY <1>3, <2>3, <2>4 DEF Becomes
  <2> QED BY <2>6, <2>7, <2>8, <2>9, <2>10, <2>11, <2>12, StepKeepsSpaces
<1> QED BY <1>2, <1>3 DEF CreateSpace, GiveUp

LEMMA PersistSpaceKeeps ==
  ASSUME Spaces, NEW h \in Handlers, PersistSpace(h)
  PROVE  Spaces'
<1>1. /\ handler[h] \in Job /\ handler[h].pc = "persist" /\ handler[h].platform \in Platforms
      /\ ~handler[h].known
  BY AtJob DEF PersistSpace, At, Spaces, Job, Recorded
<1>2. handler[h].space \in DOMAIN spaces /\ spaces[handler[h].space] = handler[h].platform
  BY <1>1 DEF Spaces, JobInOrder
<1>3. handler[h].space \in 1..Len(spaces) /\ Len(spaces) \in Nat
  BY <1>2 DEF Spaces, SpaceTypes
<1>0. PICK clean \in BOOLEAN : \E job :
        /\ job = [handler[h] EXCEPT !.pc = "child", !.clean = clean]
        /\ handler' = [handler EXCEPT ![h] = job]
        /\ \/ spaceRow' = spaceRow /\ ~clean
           \/ spaceRow' = [spaceRow EXCEPT ![handler[h].platform] = handler[h].space]
  <2>1. CASE /\ spaceRow' = [spaceRow EXCEPT ![handler[h].platform] = handler[h].space]
             /\ handler' = [handler EXCEPT ![h].pc = "child"]
    <3>1. [handler[h] EXCEPT !.pc = "child", !.clean = handler[h].clean] = [handler[h] EXCEPT !.pc = "child"]
      BY <1>1 DEF Job
    <3>2. handler[h].clean \in BOOLEAN
      BY <1>1 DEF Job
    <3> QED BY <2>1, <3>1, <3>2
  <2>2. CASE handler' = [handler EXCEPT ![h].pc = "child", ![h].clean = FALSE] /\ spaceRow' = spaceRow
    BY <2>2
  <2> QED BY <2>1, <2>2 DEF PersistSpace, Goto
<1>4. PICK job :
        /\ job = [handler[h] EXCEPT !.pc = "child", !.clean = clean]
        /\ handler' = [handler EXCEPT ![h] = job]
        /\ \/ spaceRow' = spaceRow /\ ~clean
           \/ spaceRow' = [spaceRow EXCEPT ![handler[h].platform] = handler[h].space]
  BY <1>0
<1>5. /\ job \in Job /\ job.pc = "child" /\ job.space = handler[h].space /\ ~job.known
      /\ job.platform = handler[h].platform /\ job.room = handler[h].room /\ job.clean = clean
  BY <1>1, <1>4 DEF Job
<1>6. /\ rooms' = rooms /\ spaces' = spaces /\ children' = children /\ organised' = organised
      /\ supports' = supports /\ unsupported' = unsupported
  BY DEF PersistSpace
<1>7. /\ spaceRow' \in [Platforms -> 0..Len(spaces)]
      /\ \A p \in Platforms : spaceRow'[p] = spaceRow[p]
           \/ (p = handler[h].platform /\ spaceRow'[p] = handler[h].space)
  BY <1>1, <1>3, <1>4 DEF Spaces, SpaceTypes
<1>8. SpaceTypes'
  BY <1>4, <1>5, <1>6, <1>7 DEF Spaces, SpaceTypes
<1>9. Extends
  BY <1>3, <1>6, <1>7 DEF Extends
<1>10. JobInOrder(job)' /\ Recorded(job)'
  <2>1. clean => spaceRow'[handler[h].platform] # 0
    BY <1>1, <1>3, <1>4 DEF Spaces, SpaceTypes
  <2> QED BY <1>1, <1>2, <1>5, <1>6, <2>1 DEF Spaces, JobInOrder, Recorded
<1>11. \A p \in Platforms : spaceRow'[p] # 0 => spaces'[spaceRow'[p]] = p
  BY <1>2, <1>6, <1>7 DEF Spaces
<1>12. RoomOrganised'
  <2>1. \A t \in organised : t[2] \in Platforms
    BY DEF Spaces, SpaceTypes
  <2> QED BY <1>6, <1>9, <2>1 DEF Spaces, RoomOrganised, Extends
<1> QED BY <1>4, <1>5, <1>8, <1>9, <1>10, <1>11, <1>12, StepKeepsSpaces DEF Becomes

LEMMA AddChildKeeps ==
  ASSUME Spaces, NEW h \in Handlers, AddChild(h)
  PROVE  Spaces'
<1>1. handler[h] \in Job /\ handler[h].pc = "child"
  BY AtJob DEF AddChild, At, Spaces
<1>2. CASE GiveUp(h) /\ children' = children /\ organised' = organised
  <2>1. Only
    BY <1>2 DEF AddChild, Only, Spaces, SpaceTypes
  <2> QED BY <1>2, <2>1, GiveUpKeeps DEF GiveUp
<1>3. CASE /\ children' = children \union {<<handler[h].space, handler[h].room>>}
           /\ organised' = IF handler[h].clean
                           THEN organised \union {<<handler[h].room, handler[h].platform>>}
                           ELSE organised
           /\ handler' = [handler EXCEPT ![h] = Idle]
  <2>1. PICK s, r, p : s = handler[h].space /\ r = handler[h].room /\ p = handler[h].platform
    OBVIOUS
  <2>2. /\ s \in DOMAIN spaces /\ r \in DOMAIN rooms /\ p \in Platforms
        /\ spaces[s] = p /\ p \in rooms[r].platforms
        /\ handler[h].clean => spaceRow[p] # 0
    BY <1>1, <2>1 DEF Spaces, JobInOrder, Job
  <2>3. /\ children' = children \union {<<s, r>>}
        /\ \A t \in organised' : t \in organised \/ (t = <<r, p>> /\ handler[h].clean)
        /\ spaceRow' = spaceRow /\ rooms' = rooms /\ spaces' = spaces /\ supports' = supports
        /\ unsupported' = unsupported
    BY <1>3, <2>1 DEF AddChild
  <2>4. SpaceTypes'
    BY <1>3, <2>2, <2>3 DEF Spaces, SpaceTypes
  <2>5. RoomOrganised'
    <3>1. ASSUME NEW t \in organised'
          PROVE  /\ spaceRow'[t[2]] # 0
                 /\ \E x \in DOMAIN spaces' : spaces'[x] = t[2] /\ <<x, t[1]>> \in children'
      BY <2>2, <2>3, <3>1 DEF Spaces, RoomOrganised
    <3>2. \A c \in children' : spaces'[c[1]] \in rooms'[c[2]].platforms
      BY <2>2, <2>3 DEF Spaces, RoomOrganised
    <3> QED BY <3>1, <3>2 DEF RoomOrganised
  <2>6. Extends
    BY <2>3 DEF Extends
  <2> QED BY <1>3, <2>3, <2>4, <2>5, <2>6, IdleInOrder, StepKeepsSpaces DEF Becomes, Spaces
<1> QED BY <1>2, <1>3 DEF AddChild

LEMMA RestartKeeps == ASSUME Spaces, Restart PROVE Spaces'
<1>1. SpaceTypes'
  BY DEF Restart, Spaces, SpaceTypes
<1>2. \A h \in Handlers : JobInOrder(handler[h])' /\ Recorded(handler[h])'
  <2>1. \A h \in Handlers : handler'[h] = Idle
    BY DEF Restart
  <2> QED BY <2>1 DEF JobInOrder, Recorded, Idle
<1> QED BY <1>1, <1>2 DEF Restart, Spaces, RoomOrganised

LEMMA SpacesStay == ASSUME Spaces, spaceVars' = spaceVars, supports' = supports PROVE Spaces'
<1>1. SpaceTypes'
  BY DEF spaceVars, Spaces, SpaceTypes
<1>2. \A h \in Handlers : JobInOrder(handler[h])' /\ Recorded(handler[h])'
  BY DEF spaceVars, Spaces, JobInOrder, Recorded
<1> QED BY <1>1, <1>2 DEF spaceVars, Spaces, RoomOrganised

HandlerStep(h) ==
  \/ SetUp(h)
  \/ \E p \in Platforms : NewMessage(h, p) \/ \E r \in 1..(Len(rooms) + 1) : MapRoom(h, p, r)

LEMMA SetUpKeeps ==
  ASSUME Spaces, NEW h \in Handlers,
         HandlerStep(h)
  PROVE  Spaces'
BY NewMessageKeeps, CollectInvitesKeeps, CreateRoomKeeps, MapRoomKeeps, CheckFlagKeeps,
   QuerySpaceKeeps, CreateSpaceKeeps, PersistSpaceKeeps, AddChildKeeps DEF SetUp, HandlerStep

-----------------------------------------------------------------------------
FaultsType == faults \in 0..MaxFaults

LEMMA FaultsBounded == ASSUME FaultsType, Fault \/ faults' = faults PROVE FaultsType'
BY DirectoryAssumption DEF FaultsType, Fault

LEMMA SetUpLeavesHooks ==
  ASSUME NEW h \in Handlers, HandlerStep(h)
  PROVE  HooksStay /\ walk' = walk /\ CallsRise /\ (Fault \/ faults' = faults)
BY DEF HandlerStep, SetUp, CollectInvites, CreateRoom, CheckFlag, QuerySpace, CreateSpace, PersistSpace, AddChild,
       NewMessage, MapRoom, GiveUp, NoFault, HooksStay, CallsRise, hookVars

LEMMA Inductive == IInv /\ [Next]_vars => IInv'
<1> SUFFICES ASSUME IInv, [Next]_vars PROVE IInv'
  OBVIOUS
<1> USE DEF IInv
<1>1. ASSUME NEW p \in Platforms, NEW u \in Urls, NEW owner \in Owners \union {None},
             CreateWebhook(p, u, owner)
      PROVE  IInv'
  <2>1. Webhooks'
    BY <1>1, CreatePuts, PutKeeps
  <2>2. Listing'
    BY <1>1, CreateKeepsListing
  <2>3. spaceVars' = spaceVars /\ supports' = supports /\ faults' = faults
    BY <1>1 DEF CreateWebhook, Put
  <2> QED BY <2>1, <2>2, <2>3, SpacesStay
<1>2. ASSUME NEW id \in 1..lastId, DeleteWebhook(id) PROVE IInv'
  <2>1. Webhooks' /\ Listing'
    BY <1>2, DeleteKeeps, DeleteKeepsListing
  <2>2. spaceVars' = spaceVars /\ supports' = supports /\ faults' = faults
    BY <1>2 DEF DeleteWebhook
  <2> QED BY <2>1, <2>2, SpacesStay
<1>3. ASSUME NEW p \in Platforms \union {None}, NEW limit \in Limits, StartWalk(p, limit) PROVE IInv'
  <2>1. HooksStay /\ CallsRise /\ spaceVars' = spaceVars /\ supports' = supports /\ faults' = faults
    BY <1>3 DEF StartWalk, HooksStay, CallsRise
  <2> QED BY <1>3, <2>1, StartKeepsListing, WebhooksStay, SpacesStay
<1>4. CASE NextPage
  <2>1. HooksStay /\ CallsRise /\ spaceVars' = spaceVars /\ supports' = supports /\ faults' = faults
    BY <1>4 DEF NextPage, HooksStay, CallsRise
  <2> QED BY <1>4, <2>1, PageKeepsListing, WebhooksStay, SpacesStay
<1>5. ASSUME NEW h \in Handlers, HandlerStep(h)
      PROVE  IInv'
  <2>1. HooksStay /\ walk' = walk /\ CallsRise /\ (Fault \/ faults' = faults)
    BY <1>5, SetUpLeavesHooks
  <2>2. Webhooks' /\ Listing' /\ FaultsType'
    BY <2>1, WebhooksStay, ListingStays, FaultsBounded DEF HooksStay, FaultsType
  <2> QED BY <1>5, <2>2, SetUpKeeps DEF FaultsType
<1>6. CASE Restart
  <2>1. HooksStay /\ walk' = walk /\ CallsRise /\ Fault
    BY <1>6 DEF Restart, HooksStay, CallsRise, hookVars
  <2>2. Webhooks' /\ Listing' /\ FaultsType'
    BY <2>1, WebhooksStay, ListingStays, FaultsBounded DEF HooksStay, FaultsType
  <2> QED BY <1>6, <2>2, RestartKeeps DEF FaultsType
<1>7. CASE UNCHANGED vars
  <2>1. HooksStay /\ walk' = walk /\ CallsRise /\ spaceVars' = spaceVars /\ supports' = supports
        /\ faults' = faults
    BY <1>7 DEF vars, hookVars, HooksStay, CallsRise
  <2> QED BY <2>1, WebhooksStay, ListingStays, SpacesStay DEF HooksStay
<1> QED BY <1>1, <1>2, <1>3, <1>4, <1>5, <1>6, <1>7 DEF Next, HandlerStep

LEMMA Invariant == Spec => []IInv
<1> QED BY InitIInv, Inductive, PTL DEF Spec

(* The tables, the listing, the homeserver's rooms and spaces and the      *)
(* handlers are well-formed; in particular no two webhooks share an id, or *)
(* a platform and URL.                                                      *)
THEOREM TypeCorrect == Spec => []TypeOK
<1>1. IInv => TypeOK
  BY DirectoryAssumption DEF IInv, Webhooks, Listing, Spaces, SpaceTypes, TypeOK
<1> QED BY Invariant, <1>1, PTL

(* A listing misses nothing that is there all the time, whatever is         *)
(* registered, changed and deleted between its pages.                      *)
THEOREM ListingsComplete == Spec => []WalkComplete
<1>1. IInv => WalkComplete
  BY DEF IInv, Listing, Ordered, Shown, WalkComplete
<1> QED BY Invariant, <1>1, PTL

(* An id names one webhook for ever.                                        *)
THEOREM IdsNeverReused == Spec => []IdNamesOne
<1>1. IInv => IdNamesOne
  <2> SUFFICES ASSUME Webhooks, NEW w \in hooks, NEW t \in answered, t[1] = w.id
               PROVE  t = <<w.id, w.platform, w.url>>
    BY DEF IInv, IdNamesOne
  <2>1. <<w.id, w.platform, w.url>> \in answered
    BY DEF Webhooks
  <2>2. <<w.id, w.platform, w.url>>[1] = w.id
    OBVIOUS
  <2> QED BY <2>1, <2>2 DEF Webhooks
<1> QED BY Invariant, <1>1, PTL

(* A room that was set up for a platform without a failure is in a space of *)
(* that platform, which has one on record; no space takes in a room that     *)
(* was not mapped to its platform.  The code may make a platform several     *)
(* spaces, and map a room to several platforms.                              *)
THEOREM RoomsOrganised == Spec => []RoomOrganised
<1>1. IInv => RoomOrganised
  BY DEF IInv, Spaces
<1> QED BY Invariant, <1>1, PTL

(* A recorded space is used, and no other made.                             *)
THEOREM SpacesReused == Spec => []SpaceReused
<1>1. IInv => SpaceReused
  BY DEF IInv, Spaces, SpaceTypes, Recorded, SpaceReused, At, Idle, Job
<1> QED BY Invariant, <1>1, PTL
=============================================================================
