---------------------------- MODULE PuppetProfiles ----------------------------
(***************************************************************************)
(* PuppetManager::ensure_puppet_direct (puppet_manager.rs) for one puppet: *)
(* its profile is kept by the homeserver, in the puppets table and in the  *)
(* manager's cache, and requests bring the three to what a message's       *)
(* sender asks for, each with several calls that can fail one by one.      *)
(*                                                                         *)
(* A cache hit keeps the DashMap guard of the entry over the homeserver    *)
(* and store calls that follow (54-91).  An insert into the cache waits    *)
(* for that guard without yielding, so it blocks a worker of the runtime;  *)
(* every other step needs a worker that is free.                           *)
(***************************************************************************)
EXTENDS Naturals, FiniteSets

CONSTANTS
  Requests,    \* request slots: how many requests run at once
  Names,       \* display names
  Avatars,     \* avatar URLs
  Valid,       \* those that is_valid_avatar_url accepts
  Wants,       \* the profiles that senders have in their messages
  UsesDevice,  \* is the manager given the bot's device id?
  Workers,     \* worker threads of the runtime
  MaxFaults    \* bound: failed or refused calls, hang-ups, restarts

None == "none"
Profile == [name: Names \union {None}, avatar: Avatars \union {None}]
Blank == [name |-> None, avatar |-> None]

ASSUME PuppetAssumption ==
  /\ IsFiniteSet(Requests)
  /\ Valid \subseteq Avatars
  /\ Wants \subseteq Profile
  /\ UsesDevice \in BOOLEAN
  /\ Workers \in Nat \ {0}
  /\ MaxFaults \in Nat

VARIABLES
  registered,  \* the homeserver: does the puppet's account exist?
  profile,     \* the homeserver: the puppet's profile
  row,         \* the puppet's row in `puppets`, if there is one
  cache,       \* the puppet's entry in the cache, if there is one
  req,         \* [Requests -> the call in that slot]
  unmet,       \* history: profiles whose last request failed
  shown,       \* history: the profile of the last request that succeeded
  muddled,     \* history: see RetryRepairs
  faults       \* how many faults there have been

histVars == <<unmet, shown, muddled>>
vars == <<registered, profile, row, cache, req, histVars, faults>>

\* `base` is the profile that the request compares with: the entry, the row, or
\* for a new puppet nothing
Call == [pc: {"cache", "find", "register", "name", "avatar", "upsert", "insert"},
         path: {"hit", "row", "new"}, want: Profile, base: Profile]
Idle == [pc |-> "idle"]

TypeOK ==
  /\ registered \in BOOLEAN
  /\ profile \in Profile
  /\ row \subseteq Profile /\ Cardinality(row) <= 1
  /\ cache \subseteq Profile /\ Cardinality(cache) <= 1
  /\ row # {} => registered
  /\ req \in [Requests -> Call \union {Idle}]
  /\ unmet \subseteq Profile
  /\ shown \subseteq Profile
  /\ muddled \in BOOLEAN
  /\ faults \in 0..MaxFaults

Init ==
  /\ registered = FALSE
  /\ profile = Blank
  /\ row = {}
  /\ cache = {}
  /\ req = [t \in Requests |-> Idle]
  /\ unmet = {}
  /\ shown = {}
  /\ muddled = FALSE
  /\ faults = 0

Active == {t \in Requests : req[t] # Idle}
At(t, stage) == req[t].pc = stage
Goto(t, stage) == req' = [req EXCEPT ![t].pc = stage]

-----------------------------------------------------------------------------
(* The cache's guards and the runtime's workers.                            *)

\* the entry of a hit lives until drop(entry), or an early return
HoldsEntry(t) == t \in Active /\ req[t].path = "hit" /\ req[t].pc \in {"name", "avatar", "upsert"}

\* some worker is not inside cache.insert
WorkerFree == Cardinality({t \in Requests : At(t, "insert")}) < Workers

-----------------------------------------------------------------------------
(* How a call ends.                                                         *)

Succeed(t) ==
  /\ req' = [req EXCEPT ![t] = Idle]
  /\ shown' = IF muddled THEN {} ELSE {req[t].want}
  /\ unmet' = unmet \ {req[t].want}
  /\ UNCHANGED muddled

\* `?`, or the handler is dropped; the caller will try again
Fail(t) ==
  /\ req' = [req EXCEPT ![t] = Idle]
  /\ unmet' = IF muddled THEN {} ELSE unmet \union {req[t].want}
  /\ UNCHANGED <<shown, muddled>>

\* the history ends where the premise of RetryRepairs does
Muddle == muddled' = TRUE /\ unmet' = {} /\ shown' = {}

Fault == faults < MaxFaults /\ faults' = faults + 1

-----------------------------------------------------------------------------
(* ensure_puppet_direct.                                                    *)

Arrive(t, w) ==
  /\ t \notin Active
  /\ WorkerFree
  /\ req' = [req EXCEPT ![t] = [pc |-> "cache", path |-> "new", want |-> w, base |-> Blank]]
  /\ IF unmet \subseteq {w} /\ \A u \in Active : req[u].want = w
     THEN UNCHANGED histVars
     ELSE Muddle
  /\ UNCHANGED <<registered, profile, row, cache, faults>>

\* (defect) a hit returns without comparing profiles
LookInCacheOnly(t) ==
  /\ At(t, "cache")
  /\ WorkerFree
  /\ \/ cache # {} /\ Succeed(t)
     \/ cache = {} /\ Goto(t, "find") /\ UNCHANGED histVars
  /\ UNCHANGED <<registered, profile, row, cache, faults>>

\* cache.get: up to date, changed (the guard is kept from here on), or unknown
LookInCache(t) ==
  /\ At(t, "cache")
  /\ WorkerFree
  /\ \/ req[t].want \in cache /\ Succeed(t)
     \/ /\ req[t].want \notin cache
        /\ \E entry \in cache :
             req' = [req EXCEPT ![t] = [@ EXCEPT !.pc = "name", !.path = "hit", !.base = entry]]
        /\ UNCHANGED histVars
     \/ cache = {} /\ Goto(t, "find") /\ UNCHANGED histVars
  /\ UNCHANGED <<registered, profile, row, cache, faults>>

\* (defect) a puppet without a row is taken to be registered
FindOnly(t) ==
  /\ At(t, "find")
  /\ WorkerFree
  /\ \/ row = {} /\ Goto(t, "name") /\ UNCHANGED <<histVars, faults>>
     \/ Fault /\ Fail(t)
  /\ UNCHANGED <<registered, profile, row, cache>>

\* find_puppet_by_matrix_id
Find(t) ==
  /\ At(t, "find")
  /\ WorkerFree
  /\ \/ /\ row = {}
        /\ Goto(t, "register")
        /\ UNCHANGED <<histVars, faults>>
     \/ /\ \E p \in row :
             req' = [req EXCEPT ![t] = [@ EXCEPT !.pc = IF UsesDevice THEN "register" ELSE "name",
                                                 !.path = "row", !.base = p]]
        /\ UNCHANGED <<histVars, faults>>
     \/ Fault /\ Fail(t)
  /\ UNCHANGED <<registered, profile, row, cache>>

\* register_puppet(_with_device): M_USER_IN_USE is a success; a failure may come
\* after the account was made
Register(t) ==
  /\ At(t, "register")
  /\ WorkerFree
  /\ \/ registered' = TRUE /\ Goto(t, "name") /\ UNCHANGED <<histVars, faults>>
     \/ registered' \in {registered, TRUE} /\ Fault /\ Fail(t)
  /\ UNCHANGED <<profile, row, cache>>

Changes(t, field) == req[t].want[field] # req[t].base[field]

\* PUT profile/{displayname, avatar_url}: done; refused, which is only logged;
\* or failed, before or after it took effect
Put(t, field, after) ==
  \/ /\ profile' = [profile EXCEPT ![field] = req[t].want[field]]
     /\ Goto(t, after)
     /\ UNCHANGED <<histVars, faults>>
  \/ /\ Fault
     /\ Goto(t, after)
     /\ Muddle
     /\ UNCHANGED profile
  \/ /\ profile' \in {profile, [profile EXCEPT ![field] = req[t].want[field]]}
     /\ Fault
     /\ Fail(t)

SetName(t) ==
  /\ At(t, "name")
  /\ WorkerFree
  /\ \/ Changes(t, "name") /\ Put(t, "name", "avatar")
     \/ ~Changes(t, "name") /\ Goto(t, "avatar") /\ UNCHANGED <<profile, histVars, faults>>
  /\ UNCHANGED <<registered, row, cache>>

\* an existing row that agrees is not written again
AfterAvatar(t) ==
  IF req[t].path = "row" /\ ~Changes(t, "name") /\ ~Changes(t, "avatar") THEN "insert" ELSE "upsert"

\* "rejected invalid avatar URL"
Rejected(t) == req[t].want.avatar \in Avatars \ Valid

SetAvatar(t) ==
  /\ At(t, "avatar")
  /\ WorkerFree
  /\ \/ Changes(t, "avatar") /\ ~Rejected(t) /\ Put(t, "avatar", "upsert")
     \/ /\ ~Changes(t, "avatar") \/ Rejected(t)
        /\ Goto(t, AfterAvatar(t))
        /\ UNCHANGED <<profile, histVars, faults>>
  /\ UNCHANGED <<registered, row, cache>>

\* (defect) the guard is dropped, and the cache written, before the store is
UpsertAfterInsert(t) ==
  /\ At(t, "upsert")
  /\ WorkerFree
  /\ cache' = {req[t].want}
  /\ \/ row' = {req[t].want} /\ Goto(t, "insert") /\ UNCHANGED <<histVars, faults>>
     \/ Fault /\ Fail(t) /\ UNCHANGED row
  /\ UNCHANGED <<registered, profile>>

\* upsert_puppet, drop(entry), and on to cache.insert without yielding.  It fails
\* in its INSERT, or in the SELECT that follows, with the row written
Upsert(t) ==
  /\ At(t, "upsert")
  /\ WorkerFree
  /\ \/ row' = {req[t].want} /\ Goto(t, "insert") /\ UNCHANGED <<histVars, faults>>
     \/ row' \in {row, {req[t].want}} /\ Fault /\ Fail(t)
  /\ UNCHANGED <<registered, profile, cache>>

\* cache.insert, once nobody holds the entry
Insert(t) ==
  /\ At(t, "insert")
  /\ \A u \in Requests : ~HoldsEntry(u)
  /\ cache' = {req[t].want}
  /\ Succeed(t)
  /\ UNCHANGED <<registered, profile, row, faults>>

-----------------------------------------------------------------------------
(* The environment.                                                         *)

\* the client hangs up, and the handler is dropped at its await
Drop(t) ==
  /\ t \in Active /\ ~At(t, "insert")
  /\ WorkerFree
  /\ Fault
  /\ Fail(t)
  /\ UNCHANGED <<registered, profile, row, cache>>

\* the process stops and starts again
Crash ==
  /\ Fault
  /\ cache' = {}
  /\ req' = [t \in Requests |-> Idle]
  /\ unmet' = IF muddled THEN {} ELSE unmet \union {req[t].want : t \in Active}
  /\ UNCHANGED <<registered, profile, row, shown, muddled>>

-----------------------------------------------------------------------------
Handle(t) ==
  \/ LookInCache(t) \/ Find(t) \/ Register(t) \/ SetName(t) \/ SetAvatar(t)
  \/ Upsert(t) \/ Insert(t)

Next ==
  \/ \E t \in Requests : Handle(t) \/ Drop(t) \/ \E w \in Wants : Arrive(t, w)
  \/ Crash

Spec == Init /\ [][Next]_vars

(* A handler that can go on does: every call ends by its timeout at the      *)
(* latest, given a worker to run on.  Strong fairness of the insert: the     *)
(* last reader to let go of an entry wakes a parked writer, and readers that *)
(* keep overtaking it would have to do so for ever.                          *)
FairSpec == Spec /\ \A t \in Requests : WF_vars(Handle(t)) /\ SF_vars(Insert(t))

-----------------------------------------------------------------------------
(* The correct display name and avatar (16-18), in spite of partial          *)
(* failures: when the requests that failed have been repeated with success,  *)
(* the homeserver shows the profile of the last request, whichever of the    *)
(* calls failed, before or after their effect, and whatever a restart forgot.*)
(* `muddled` says that the premise is gone: a request asked for another      *)
(* profile while one was at work or still to be repeated, or the homeserver  *)
(* refused a profile, which the code only logs.                              *)
RetryRepairs ==
  ~muddled /\ Active = {} /\ unmet = {} =>
    \A p \in shown : /\ profile.name = p.name
                     /\ p.avatar \notin Avatars \ Valid => profile.avatar = p.avatar

(* A restart forgets the cache and compares with the row, so the two must    *)
(* come together again: upsert_puppet may fail with the row written, and     *)
(* then the entry is behind it.  When the requests that failed have been     *)
(* repeated with success, the entry is the row.                              *)
CacheIsRow == ~muddled /\ Active = {} /\ unmet = {} /\ cache # {} => cache = row

(* "ensures that a corresponding Matrix user exists" (16-18): every call     *)
(* ends.                                                                     *)
EveryCallReturns == \A t \in Requests : t \in Active ~> t \notin Active
=============================================================================
