--------------------------- MODULE PlatformDirectory ---------------------------
(***************************************************************************)
(* What the bridge keeps per platform: its webhooks, registered, deleted   *)
(* and listed page by page over REST (webhook_store.rs,                    *)
(* webhook_handlers.rs), and its Matrix space (space_store.rs, spaces.rs,  *)
(* Dispatcher::ensure_platform_space).  They meet where a portal room is   *)
(* made for a platform: its webhooks' owners are invited and its space     *)
(* takes the room in.                                                      *)
(*                                                                         *)
(* Every store call holds the one SQLite connection, so it is one step; a  *)
(* handler runs on between its calls while others do theirs.  A client     *)
(* lists webhooks until a page comes without a next_cursor.  Nothing in    *)
(* the program disables a webhook or deletes a space's row.                *)
(***************************************************************************)
EXTENDS Naturals, FiniteSets, Sequences

CONSTANTS
  Platforms,    \* platform ids
  Urls,         \* webhook URLs
  Owners,       \* Matrix users that webhooks name as their owner
  AutoInvite,   \* Matrix users invited everywhere
  Handlers,     \* handler slots: how many rooms are set up at once
  Limits,       \* page sizes that clients ask for
  MaxLimit,     \* the largest page (1000 in the code)
  MaxCalls,     \* bound: webhooks registered, deleted, listings, rooms set up
  MaxFaults     \* bound: failed calls, restarts

None == "none"

ASSUME DirectoryAssumption ==
  /\ IsFiniteSet(Handlers)
  /\ None \notin Platforms \union Owners
  /\ Limits \subseteq Nat
  /\ MaxLimit \in Nat \ {0}
  /\ MaxCalls \in Nat /\ MaxFaults \in Nat

VARIABLES
  hooks,        \* the `webhooks` table
  lastId,       \* its AUTOINCREMENT sequence
  answered,     \* history: the ids that create_webhook returned, and for what
  walk,         \* a client's listing
  spaceRow,     \* the `platform_spaces` table: [Platforms -> a space or 0]
  unsupported,  \* spaces_unsupported, in memory
  supports,     \* does the homeserver know spaces?  It never changes
  spaces,       \* the homeserver: the platform each space was made for, in order
  children,     \* the homeserver: <<space, room>> pairs
  rooms,        \* the rooms set up, in order, and the platforms each was mapped to
  handler,      \* [Handlers -> the room it is setting up]
  organised,    \* history: <<room, platform>> pairs whose set-up had no failure
  calls,        \* how many calls there have been
  faults        \* how many faults there have been

hookVars == <<hooks, lastId, answered, walk>>
spaceVars == <<spaceRow, unsupported, spaces, children, rooms, handler, organised>>
vars == <<hookVars, spaceVars, supports, calls, faults>>

Ids == 1..MaxCalls
Webhook == [id: Ids, platform: Platforms, url: Urls, owner: Owners \union {None}]

\* `after`: the cursor; `must`: history: ids there from the start and not deleted
Walk == [platform: Platforms \union {None}, after: 0..MaxCalls, limit: 1..MaxLimit,
         seen: Seq(Ids), must: SUBSET Ids, over: BOOLEAN]

Room == [platforms: SUBSET Platforms, invited: SUBSET (Owners \union AutoInvite)]

\* histories: `known`: the platform had its row when the handler came to it; `clean`:
\* its row has been written since, if a space was made
Job == [pc: {"owners", "create", "flag", "query", "space", "persist", "child"},
        platform: Platforms, invited: SUBSET (Owners \union AutoInvite),
        room: Nat, space: Nat, known: BOOLEAN, clean: BOOLEAN]
Idle == [pc |-> "idle"]

TypeOK ==
  /\ hooks \subseteq Webhook
  /\ \A v, w \in hooks : (v.id = w.id \/ <<v.platform, v.url>> = <<w.platform, w.url>>) => v = w
  /\ lastId \in 0..MaxCalls
  /\ answered \subseteq (1..lastId) \X Platforms \X Urls
  /\ walk \in Walk \union {Idle}
  /\ spaceRow \in [Platforms -> 0..Len(spaces)]
  /\ unsupported \in BOOLEAN /\ supports \in BOOLEAN
  /\ spaces \in Seq(Platforms)
  /\ children \subseteq (DOMAIN spaces) \X (DOMAIN rooms)
  /\ rooms \in Seq(Room)
  /\ handler \in [Handlers -> Job \union {Idle}]
  /\ organised \subseteq (DOMAIN rooms) \X Platforms
  /\ calls \in 0..MaxCalls /\ faults \in 0..MaxFaults

Init ==
  /\ hooks = {} /\ lastId = 0 /\ answered = {}
  /\ walk = Idle
  /\ spaceRow = [p \in Platforms |-> 0]
  /\ unsupported = FALSE /\ supports \in BOOLEAN
  /\ spaces = <<>> /\ children = {} /\ rooms = <<>>
  /\ handler = [h \in Handlers |-> Idle]
  /\ organised = {}
  /\ calls = 0 /\ faults = 0

Call == calls < MaxCalls /\ calls' = calls + 1
Fault == faults < MaxFaults /\ faults' = faults + 1
NoFault == UNCHANGED faults

-----------------------------------------------------------------------------
(* Webhooks over REST.                                                      *)

Same(p, u) == {w \in hooks : w.platform = p /\ w.url = u}

Put(id, p, u, owner) ==
  /\ hooks' = (hooks \ Same(p, u)) \union {[id |-> id, platform |-> p, url |-> u, owner |-> owner]}
  /\ answered' = answered \union {<<id, p, u>>}
  /\ UNCHANGED <<walk, spaceVars, supports, faults>>

\* (defect) ids without AUTOINCREMENT: one more than the largest in the table
CreateReusingIds(p, u, owner) ==
  /\ Call
  /\ \/ \E id \in Ids :
          /\ Same(p, u) = {}
          /\ \A w \in hooks : w.id < id
          /\ id = 1 \/ \E w \in hooks : w.id = id - 1
          /\ lastId' = IF id > lastId THEN id ELSE lastId
          /\ Put(id, p, u, owner)
     \/ \E w \in Same(p, u) : Put(w.id, p, u, owner) /\ UNCHANGED lastId

\* (defect) the row is replaced, under the next id
CreateReplacing(p, u, owner) ==
  Call /\ lastId' = lastId + 1 /\ Put(lastId', p, u, owner)

\* (defect) the row is inserted again: no UNIQUE (platform_id, webhook_url)
CreateAgain(p, u, owner) ==
  /\ Call
  /\ lastId' = lastId + 1
  /\ hooks' = hooks \union {[id |-> lastId', platform |-> p, url |-> u, owner |-> owner]}
  /\ answered' = answered \union {<<lastId', p, u>>}
  /\ UNCHANGED <<walk, spaceVars, supports, faults>>

\* create_webhook: a new row with the next id, or its row, which keeps its id (the
\* id is selected again, because an update has no last_insert_rowid).  SQLite takes
\* the next id from the sequence in both cases
CreateWebhook(p, u, owner) ==
  /\ Call
  /\ lastId' = lastId + 1
  /\ \/ Same(p, u) = {} /\ Put(lastId', p, u, owner)
     \/ \E w \in Same(p, u) : Put(w.id, p, u, owner)

\* delete_webhook with an id from the sequence; an unknown one is not found
DeleteWebhook(id) ==
  /\ Call
  /\ hooks' = {w \in hooks : w.id # id}
  /\ walk' = IF walk = Idle THEN walk ELSE [walk EXCEPT !.must = @ \ {id}]
  /\ UNCHANGED <<lastId, answered, spaceVars, supports, faults>>

-----------------------------------------------------------------------------
(* Listing page by page.                                                    *)

OfPlatform(p) == {w \in hooks : p \in {None, w.platform}}

\* id > after ORDER BY id LIMIT limit: every id is after the cursor, in order, and
\* nothing is left out below the last, or at all if the page is not full
Page(p, after, limit) ==
  {s \in UNION {[1..n -> {w.id : w \in OfPlatform(p)}] : n \in 0..limit} :
    /\ \A i, j \in DOMAIN s : i < j => s[i] < s[j]
    /\ \A i \in DOMAIN s : s[i] > after
    /\ \A w \in OfPlatform(p) : w.id > after =>
         \/ \E i \in DOMAIN s : s[i] = w.id
         \/ Len(s) = limit /\ \A i \in DOMAIN s : s[i] < w.id}

\* PaginationParams: no cursor is 0, and the limit is clamped
Clamp(n) == IF n < 1 THEN 1 ELSE IF n > MaxLimit THEN MaxLimit ELSE n

StartWalk(p, limit) ==
  /\ walk = Idle
  /\ Call
  /\ walk' = [platform |-> p, after |-> 0, limit |-> Clamp(limit), seen |-> <<>>,
              must |-> {w.id : w \in OfPlatform(p)}, over |-> FALSE]
  /\ UNCHANGED <<hooks, lastId, answered, spaceVars, supports, faults>>

\* handle_list_webhooks: next_cursor is the last id, and null for an empty page,
\* which ends the walk
NextPage ==
  /\ walk # Idle /\ ~walk.over
  /\ \E s \in Page(walk.platform, walk.after, walk.limit) :
       walk' = IF s = <<>> THEN [walk EXCEPT !.over = TRUE]
                           ELSE [walk EXCEPT !.seen = @ \o s, !.after = s[Len(s)]]
  /\ UNCHANGED <<hooks, lastId, answered, spaceVars, supports, calls, faults>>

-----------------------------------------------------------------------------
(* A room is set up: a portal room for the first message of an external room *)
(* (dispatch_message), or a room that an API call maps.                      *)

At(h, stage) == handler[h].pc = stage
Goto(h, stage) == handler' = [handler EXCEPT ![h].pc = stage]

\* its call fails, which is logged, and the room goes without a space
GiveUp(h) == Fault /\ handler' = [handler EXCEPT ![h] = Idle]

NewMessage(h, p) ==
  /\ handler[h] = Idle
  /\ Call
  /\ handler' = [handler EXCEPT ![h] =
       [pc |-> "owners", platform |-> p, invited |-> {}, room |-> 0, space |-> 0,
        known |-> FALSE, clean |-> TRUE]]
  /\ UNCHANGED <<hookVars, spaceRow, unsupported, spaces, children, rooms, organised, supports, faults>>

\* auto_invite and get_platform_owners, or without them if that fails; with nobody
\* to invite the message is refused
CollectInvites(h) ==
  /\ At(h, "owners")
  /\ \E owners \in SUBSET Owners :
       LET registered == {w.owner : w \in OfPlatform(handler[h].platform)} \ {None}
           invited == AutoInvite \union owners
       IN  /\ (owners = registered /\ NoFault) \/ (owners = {} /\ Fault)
           /\ handler' = [handler EXCEPT ![h] =
                IF invited = {} THEN Idle ELSE [@ EXCEPT !.pc = "create", !.invited = invited]]
  /\ UNCHANGED <<hookVars, spaceRow, unsupported, spaces, children, rooms, organised, supports, calls>>

\* create_room and create_room_mapping; a failure ends the handler, which then
\* leaves the room
CreateRoom(h) ==
  /\ At(h, "create")
  /\ \/ /\ rooms' = Append(rooms, [platforms |-> {handler[h].platform}, invited |-> handler[h].invited])
        /\ handler' = [handler EXCEPT ![h].pc = "flag", ![h].room = Len(rooms) + 1]
        /\ NoFault
     \/ GiveUp(h) /\ UNCHANGED rooms
  /\ UNCHANGED <<hookVars, spaceRow, unsupported, spaces, children, organised, supports, calls>>

\* handle_create_room_mapping has mapped a room, a new one or one that the caller names,
\* which may be mapped already, to this platform or another
MapRoom(h, p, r) ==
  /\ handler[h] = Idle
  /\ Call
  /\ rooms' = IF r \in DOMAIN rooms THEN [rooms EXCEPT ![r].platforms = @ \union {p}]
              ELSE Append(rooms, [platforms |-> {p}, invited |-> {}])
  /\ handler' = [handler EXCEPT ![h] =
       [pc |-> "flag", platform |-> p, invited |-> {}, room |-> r, space |-> 0, known |-> FALSE,
        clean |-> TRUE]]
  /\ UNCHANGED <<hookVars, spaceRow, unsupported, spaces, children, organised, supports, faults>>

-----------------------------------------------------------------------------
(* ensure_platform_space.                                                   *)

CheckFlag(h) ==
  /\ At(h, "flag")
  /\ handler' = [handler EXCEPT ![h] = IF unsupported THEN Idle ELSE
       [@ EXCEPT !.pc = "query", !.known = (spaceRow[handler[h].platform] # 0)]]
  /\ UNCHANGED <<hookVars, spaceRow, unsupported, spaces, children, rooms, organised, supports, calls,
                 faults>>

\* (defect) a failing query is taken for "no space yet"
QueryOrCreate(h) ==
  /\ At(h, "query")
  /\ \E found \in {spaceRow[handler[h].platform], 0} :
       /\ (found = spaceRow[handler[h].platform] /\ NoFault) \/ (found = 0 /\ Fault)
       /\ handler' = [handler EXCEPT ![h].pc = IF found = 0 THEN "space" ELSE "child", ![h].space = found]
  /\ UNCHANGED <<hookVars, spaceRow, unsupported, spaces, children, rooms, organised, supports, calls>>

\* get_platform_space
QuerySpace(h) ==
  /\ At(h, "query")
  /\ \/ /\ LET found == spaceRow[handler[h].platform]
           IN  handler' = [handler EXCEPT ![h].pc = IF found = 0 THEN "space" ELSE "child",
                                          ![h].space = found]
        /\ NoFault
     \/ GiveUp(h)
  /\ UNCHANGED <<hookVars, spaceRow, unsupported, spaces, children, rooms, organised, supports, calls>>

\* create_space: made; refused by a homeserver without spaces; or failed, with an
\* error that reads like such a refusal or another
CreateSpace(h) ==
  /\ At(h, "space")
  /\ \/ /\ supports
        /\ spaces' = Append(spaces, handler[h].platform)
        /\ handler' = [handler EXCEPT ![h].pc = "persist", ![h].space = Len(spaces) + 1]
        /\ UNCHANGED unsupported
        /\ NoFault
     \/ /\ ~supports
        /\ unsupported' = TRUE
        /\ handler' = [handler EXCEPT ![h] = Idle]
        /\ UNCHANGED spaces
        /\ NoFault
     \/ GiveUp(h) /\ unsupported' \in {unsupported, TRUE} /\ UNCHANGED spaces
  /\ UNCHANGED <<hookVars, spaceRow, children, rooms, organised, supports, calls>>

\* (defect) a space that cannot be recorded is given up, and the room with it
PersistOrGiveUp(h) ==
  /\ At(h, "persist")
  /\ \/ /\ spaceRow[handler[h].platform] = 0
        /\ spaceRow' = [spaceRow EXCEPT ![handler[h].platform] = handler[h].space]
        /\ Goto(h, "child") /\ UNCHANGED organised
     \/ /\ spaceRow[handler[h].platform] # 0
        /\ organised' = organised \union {<<handler[h].room, handler[h].platform>>}
        /\ handler' = [handler EXCEPT ![h] = Idle] /\ UNCHANGED spaceRow
  /\ UNCHANGED <<hookVars, unsupported, spaces, children, rooms, supports, calls, faults>>

\* set_platform_space writes over a row that came in between; its failure is logged
PersistSpace(h) ==
  /\ At(h, "persist")
  /\ \/ /\ spaceRow' = [spaceRow EXCEPT ![handler[h].platform] = handler[h].space]
        /\ Goto(h, "child")
        /\ NoFault
     \/ /\ Fault
        /\ handler' = [handler EXCEPT ![h].pc = "child", ![h].clean = FALSE]
        /\ UNCHANGED spaceRow
  /\ UNCHANGED <<hookVars, unsupported, spaces, children, rooms, organised, supports, calls>>

\* set_space_child; its failure is logged
AddChild(h) ==
  /\ At(h, "child")
  /\ \/ /\ children' = children \union {<<handler[h].space, handler[h].room>>}
        /\ organised' = IF handler[h].clean
                         THEN organised \union {<<handler[h].room, handler[h].platform>>}
                         ELSE organised
        /\ handler' = [handler EXCEPT ![h] = Idle]
        /\ NoFault
     \/ GiveUp(h) /\ UNCHANGED <<children, organised>>
  /\ UNCHANGED <<hookVars, spaceRow, unsupported, spaces, rooms, supports, calls>>

\* the bridge stops and starts; clients go on with their cursors
Restart ==
  /\ Fault
  /\ handler' = [h \in Handlers |-> Idle]
  /\ unsupported' = FALSE
  /\ UNCHANGED <<hookVars, spaceRow, spaces, children, rooms, organised, supports, calls>>

-----------------------------------------------------------------------------
SetUp(h) ==
  \/ CollectInvites(h) \/ CreateRoom(h) \/ CheckFlag(h) \/ QuerySpace(h) \/ CreateSpace(h)
  \/ PersistSpace(h) \/ AddChild(h)

Next ==
  \/ \E p \in Platforms, u \in Urls, owner \in Owners \union {None} : CreateWebhook(p, u, owner)
  \/ \E id \in 1..lastId : DeleteWebhook(id)
  \/ \E p \in Platforms \union {None}, limit \in Limits : StartWalk(p, limit)
  \/ NextPage
  \/ \E h \in Handlers : 
       \/ SetUp(h)
       \/ \E p \in Platforms : NewMessage(h, p) \/ \E r \in 1..(Len(rooms) + 1) : MapRoom(h, p, r)
  \/ Restart

Spec == Init /\ [][Next]_vars

-----------------------------------------------------------------------------
(* A listing shows every webhook that is there from its start to its end,    *)
(* once and in order, whatever is registered, changed and deleted between    *)
(* its pages (next_cursor, webhook_handlers.rs 91).                          *)
WalkComplete ==
  walk # Idle =>
    /\ \A i, j \in DOMAIN walk.seen : i < j => walk.seen[i] < walk.seen[j]
    /\ walk.over => \A id \in walk.must : \E i \in DOMAIN walk.seen : walk.seen[i] = id

(* An id that a client was given never names somebody else's webhook, so     *)
(* that a late DELETE, or one repeated, hits its own webhook or nothing.     *)
IdNamesOne == \A w \in hooks, t \in answered : t[1] = w.id => t = <<w.id, w.platform, w.url>>

(* A room whose set-up for a platform had no failure is in a space of that  *)
(* platform, which has one on record for its next rooms, although two first   *)
(* rooms may make a space each and the loser writes over the winner's row;    *)
(* and no space takes in a room that was not mapped to its platform.  A room  *)
(* that is mapped to several platforms is in a space of each.                 *)
RoomOrganised ==
  /\ \A t \in organised :
       /\ spaceRow[t[2]] # 0
       /\ \E s \in DOMAIN spaces : spaces[s] = t[2] /\ <<s, t[1]>> \in children
  /\ \A c \in children : spaces[c[1]] \in rooms[c[2]].platforms

(* "One Matrix Space per platform for organizing bridged rooms"               *)
(* (001_initial.sql 57).  Broken by the code: two first rooms of a platform   *)
(* both find no space and each make one.                                      *)
OneSpacePerPlatform == \A s, t \in DOMAIN spaces : spaces[s] = spaces[t] => s = t

(* "Creates the Space on first use": a platform that has its space recorded  *)
(* when a room's turn comes gets no other for it, failures and restarts      *)
(* notwithstanding.                                                          *)
SpaceReused == \A h \in Handlers : handler[h] # Idle /\ handler[h].known => ~At(h, "space")
=============================================================================
