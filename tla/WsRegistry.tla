------------------------------ MODULE WsRegistry ------------------------------
(***************************************************************************)
(* The registry of WebSocket subscribers (crates/appservice/src/ws): the   *)
(* sessions that register and unregister (handler.rs), the DashMap of      *)
(* clients with its atomic counter (registry.rs), and the broadcasts that  *)
(* transactions make through it.                                           *)
(*                                                                         *)
(* One action is what happens under one DashMap guard, or one operation on *)
(* the atomic counter.  A guard that spans several steps (phase 1 of a     *)
(* broadcast; a `retain` and the fetch_sub that follows it) is held by the *)
(* caller's control state: see MayRead and MayWrite.  DashMap locks a      *)
(* shard, here the lock is per platform, which allows every interleaving   *)
(* that sharding allows.                                                   *)
(***************************************************************************)
EXTENDS Integers, Sequences, FiniteSets

CONSTANTS
  Sessions,       \* WebSocket sessions; a reconnecting client is a new one
  Platforms,      \* values of the `platform` query parameter
  Sources,        \* values a message's source platform may take
  Matrix,         \* the source "matrix": a message written by a Matrix user
  Casters,        \* transactions being handled, each making one broadcast at a time
  MaxClients,     \* MAX_WS_CLIENTS
  Capacity,       \* CLIENT_CHANNEL_CAPACITY
  MaxBroadcasts   \* bound of the model: broadcasts per behaviour

ASSUME WsAssumption ==
  /\ IsFiniteSet(Sessions)
  /\ MaxClients \in Nat
  /\ Capacity \in Nat \ {0}
  /\ MaxBroadcasts \in Nat

VARIABLES
  entries,    \* keys of the DashMap: an emptied Vec may keep its key
  members,    \* sessions whose WsClient is in some entry
  count,      \* the atomic counter
  pc,         \* [Sessions -> control state of handle_ws_session]
  platform,   \* [Sessions -> the platform the session subscribed to]
  allow,      \* [Sessions -> its forward_sources allowlist, "*" expanded]
  receivers,  \* sessions whose outbound task still owns its mpsc receiver
  queue,      \* [Sessions -> payloads in the mpsc channel]
  got,        \* [Sessions -> payloads written to the socket]
  sent,       \* every broadcast begun: who made it, to which platform, from where
  cast        \* [Casters -> the broadcast in progress]

sessionVars == <<pc, platform, allow>>
channelVars == <<receivers, queue, got>>
vars == <<entries, members, count, sessionVars, channelVars, sent, cast>>

SessionStates == {"connecting", "counted", "rejecting", "open", "leaving",
                  "uncounting", "removing", "closed"}

\* `todo`: the clients phase 1 has not visited; `dead`: closed_ids
Broadcast == [pc: {"idle", "sending", "pruning", "uncounting"},
              to: Platforms, from: Sources, msg: 0..MaxBroadcasts,
              todo: SUBSET Sessions, dead: SUBSET Sessions]

TypeOK ==
  /\ entries \subseteq Platforms
  /\ members \subseteq Sessions
  /\ count \in Nat
  /\ pc \in [Sessions -> SessionStates]
  /\ platform \in [Sessions -> Platforms]
  /\ allow \in [Sessions -> SUBSET Sources]
  /\ receivers \subseteq Sessions
  /\ queue \in [Sessions -> Seq(Nat)]
  /\ got \in [Sessions -> Seq(Nat)]
  /\ sent \in Seq([by: Casters, to: Platforms, from: Sources])
  /\ cast \in [Casters -> Broadcast]

Init ==
  /\ entries = {}
  /\ members = {}
  /\ count = 0
  /\ pc = [s \in Sessions |-> "connecting"]
  /\ platform \in [Sessions -> Platforms]
  /\ allow \in [Sessions -> SUBSET (Sources \ {Matrix})]   \* listing "matrix" changes nothing
  /\ receivers = {}
  /\ queue = [s \in Sessions |-> <<>>]
  /\ got = [s \in Sessions |-> <<>>]
  /\ sent = <<>>
  /\ \E p \in Platforms, f \in Sources :
       cast = [b \in Casters |-> [pc |-> "idle", to |-> p, from |-> f, msg |-> 0,
                                  todo |-> {}, dead |-> {}]]

Clients(p) == {s \in members : platform[s] = p}

-----------------------------------------------------------------------------
(* The DashMap guards.                                                      *)

\* nobody holds the write guard of p
MayRead(p) ==
  /\ \A s \in Sessions : ~(pc[s] = "uncounting" /\ platform[s] = p)
  /\ \A b \in Casters : ~(cast[b].pc = "uncounting" /\ cast[b].to = p)

\* nobody holds any guard of p
MayWrite(p) ==
  /\ MayRead(p)
  /\ \A b \in Casters : ~(cast[b].pc = "sending" /\ cast[b].to = p)

-----------------------------------------------------------------------------
(* A session.                                                               *)

\* (defect) compares with `>` what was there before the increment
AcceptsOneMore(seats) == seats <= MaxClients

Accepts(seats) == seats < MaxClients

\* try_register: increment first, then compare what was there before
Reserve(s) ==
  /\ pc[s] = "connecting"
  /\ count' = count + 1
  /\ pc' = [pc EXCEPT ![s] = IF Accepts(count) THEN "counted" ELSE "rejecting"]
  /\ UNCHANGED <<entries, members, platform, allow, channelVars, sent, cast>>

\* over the limit: roll back, and close the socket with 4002
RollBack(s) ==
  /\ pc[s] = "rejecting"
  /\ count' = count - 1
  /\ pc' = [pc EXCEPT ![s] = "closed"]
  /\ UNCHANGED <<entries, members, platform, allow, channelVars, sent, cast>>

\* push the WsClient, then spawn the outbound and inbound tasks
Push(s) ==
  /\ pc[s] = "counted"
  /\ MayWrite(platform[s])
  /\ entries' = entries \union {platform[s]}
  /\ members' = members \union {s}
  /\ receivers' = receivers \union {s}
  /\ pc' = [pc EXCEPT ![s] = "open"]
  /\ UNCHANGED <<count, platform, allow, queue, got, sent, cast>>

\* the outbound task writes the next payload to the socket
Forward(s) ==
  /\ s \in receivers
  /\ queue[s] # <<>>
  /\ got' = [got EXCEPT ![s] = Append(@, Head(queue[s]))]
  /\ queue' = [queue EXCEPT ![s] = Tail(@)]
  /\ UNCHANGED <<entries, members, count, sessionVars, receivers, sent, cast>>

\* the outbound task ends and drops its receiver with what is queued: a write
\* or a ping failed, or the session aborted the task
OutboundEnds(s) ==
  /\ s \in receivers
  /\ receivers' = receivers \ {s}
  /\ queue' = [queue EXCEPT ![s] = <<>>]
  /\ UNCHANGED <<entries, members, count, sessionVars, got, sent, cast>>

\* recv returned None: the registry dropped the sender and the queue is drained
Abandoned(s) ==
  /\ s \notin members
  /\ queue[s] = <<>>
  /\ OutboundEnds(s)

\* the select: the outbound task ended, or the client closed the socket (the
\* outbound task is aborted, which takes effect at some later point)
SelectReturns(s) ==
  /\ pc[s] = "open"
  /\ pc' = [pc EXCEPT ![s] = "leaving"]
  /\ UNCHANGED <<entries, members, count, platform, allow, channelVars, sent, cast>>

\* where unregister goes when no client was retained away from, or after it
AfterRetain(s) == IF Clients(platform[s]) \ {s} = {} THEN "removing" ELSE "closed"

\* (defect) decrements for every call instead of for what retain removed
UnregisterUncountsAlways(s) ==
  /\ pc[s] = "leaving"
  /\ MayWrite(platform[s])
  /\ members' = members \ {s}
  /\ pc' = [pc EXCEPT ![s] = IF platform[s] \in entries THEN "uncounting" ELSE "closed"]
  /\ UNCHANGED <<entries, count, platform, allow, channelVars, sent, cast>>

\* (defect) leaves a client whose channel is already closed to the broadcasts
UnregisterLive(s) ==
  /\ pc[s] = "leaving"
  /\ MayWrite(platform[s])
  /\ members' = members \ (receivers \cap {s})
  /\ pc' = [pc EXCEPT ![s] = IF s \in members \cap receivers THEN "uncounting" ELSE "closed"]
  /\ UNCHANGED <<entries, count, platform, allow, channelVars, sent, cast>>

\* unregister, get_mut: no entry, or an entry that does not hold the client
\* (a broadcast pruned it), or one that does
Unregister(s) ==
  /\ pc[s] = "leaving"
  /\ MayWrite(platform[s])
  /\ members' = members \ {s}
  /\ pc' = [pc EXCEPT ![s] =
              CASE platform[s] \notin entries -> "closed"
                [] platform[s] \in entries /\ s \in members -> "uncounting"
                [] OTHER -> AfterRetain(s)]
  /\ UNCHANGED <<entries, count, platform, allow, channelVars, sent, cast>>

\* unregister, fetch_sub and then drop(entry), the guard held until here
Uncount(s) ==
  /\ pc[s] = "uncounting"
  /\ count' = count - 1
  /\ pc' = [pc EXCEPT ![s] = AfterRetain(s)]
  /\ UNCHANGED <<entries, members, platform, allow, channelVars, sent, cast>>

\* unregister, clients.remove: the whole entry goes, with whatever is in it
RemoveEntry(s) ==
  /\ pc[s] = "removing"
  /\ MayWrite(platform[s])
  /\ entries' = entries \ {platform[s]}
  /\ members' = members \ Clients(platform[s])
  /\ pc' = [pc EXCEPT ![s] = "closed"]
  /\ UNCHANGED <<count, platform, allow, channelVars, sent, cast>>

-----------------------------------------------------------------------------
(* A broadcast.                                                             *)

\* phase 1 takes the read guard; without an entry the call returns at once
BeginBroadcast(b) ==
  /\ cast[b].pc = "idle"
  /\ Len(sent) < MaxBroadcasts
  /\ \E p \in entries, f \in Sources :
       /\ MayRead(p)
       /\ sent' = Append(sent, [by |-> b, to |-> p, from |-> f])
       /\ cast' = [cast EXCEPT ![b] = [pc |-> "sending", to |-> p, from |-> f,
                                       msg |-> Len(sent) + 1,
                                       todo |-> Clients(p), dead |-> {}]]
  /\ UNCHANGED <<entries, members, count, sessionVars, channelVars>>

\* (defect) the allowlist is not consulted
ForwardsAll(s, f) == TRUE

\* should_forward_source: what Matrix users write is always forwarded
Forwards(s, f) == f = Matrix \/ f \in allow[s]

\* (defect) send(..).await instead of try_send(..): waits for room in the channel
SendOrWait(b, s) ==
  /\ s \in receivers => Len(queue[s]) < Capacity
  /\ queue' = [queue EXCEPT ![s] = IF s \in receivers THEN Append(@, cast[b].msg) ELSE @]
  /\ cast' = [cast EXCEPT ![b].todo = @ \ {s}]

\* try_send: on a channel without receiver it fails with Closed, on a full one
\* with Full and the payload is dropped
TrySend(b, s) ==
  /\ queue' = IF Forwards(s, cast[b].from) /\ s \in receivers /\ Len(queue[s]) < Capacity
              THEN [queue EXCEPT ![s] = Append(@, cast[b].msg)] ELSE queue
  /\ cast' = [cast EXCEPT ![b].todo = @ \ {s},
                          ![b].dead = IF Forwards(s, cast[b].from) /\ s \notin receivers
                                      THEN @ \union {s} ELSE @]

\* phase 1 visits one client of the entry
SendTo(b, s) ==
  /\ cast[b].pc = "sending"
  /\ s \in cast[b].todo
  /\ TrySend(b, s)
  /\ UNCHANGED <<entries, members, count, sessionVars, receivers, got, sent>>

\* phase 1 ends and the read guard is dropped
EndPhase1(b) ==
  /\ cast[b].pc = "sending"
  /\ cast[b].todo = {}
  /\ cast' = [cast EXCEPT ![b].pc = IF cast[b].dead = {} THEN "idle" ELSE "pruning"]
  /\ UNCHANGED <<entries, members, count, sessionVars, channelVars, sent>>

\* (defect) subtracts closed_ids.len() instead of what retain removed
PruneCountsIds(b) ==
  /\ cast[b].pc = "pruning"
  /\ MayWrite(cast[b].to)
  /\ members' = members \ cast[b].dead
  /\ cast' = [cast EXCEPT ![b].pc = "uncounting"]
  /\ UNCHANGED <<entries, count, sessionVars, channelVars, sent>>

\* phase 2, retain: the closed clients that are still there
Prune(b) ==
  /\ cast[b].pc = "pruning"
  /\ MayWrite(cast[b].to)
  /\ members' = members \ cast[b].dead
  /\ cast' = [cast EXCEPT ![b].pc = IF members \cap cast[b].dead = {} THEN "idle" ELSE "uncounting",
                          ![b].dead = @ \cap members]
  /\ UNCHANGED <<entries, count, sessionVars, channelVars, sent>>

\* phase 2, fetch_sub(removed)
UncountDead(b) ==
  /\ cast[b].pc = "uncounting"
  /\ count' = count - Cardinality(cast[b].dead)
  /\ cast' = [cast EXCEPT ![b].pc = "idle", ![b].dead = {}]
  /\ UNCHANGED <<entries, members, sessionVars, channelVars, sent>>

-----------------------------------------------------------------------------
SessionStep(s) ==
  \/ Reserve(s) \/ RollBack(s) \/ Push(s)
  \/ Forward(s) \/ OutboundEnds(s) \/ SelectReturns(s)
  \/ Unregister(s) \/ Uncount(s) \/ RemoveEntry(s)

CasterStep(b) ==
  \/ BeginBroadcast(b) \/ EndPhase1(b) \/ Prune(b) \/ UncountDead(b)
  \/ \E s \in Sessions : SendTo(b, s)

Next == (\E s \in Sessions : SessionStep(s)) \/ (\E b \in Casters : CasterStep(b))

Spec == Init /\ [][Next]_vars

-----------------------------------------------------------------------------
(* The counter never falls below the number of registered clients, so the   *)
(* limit check of try_register (56-69) never sees a seat that is taken as   *)
(* free, in spite of the decrements that a session (unregister) and any     *)
(* number of broadcasts (phase 2) make for the same client.                 *)
NeverUndercounted == Cardinality(members) <= count

(* At most MAX_WS_CLIENTS clients are registered, however many sessions     *)
(* race through increment-then-check.                                       *)
WithinLimit == Cardinality(members) <= MaxClients

(* total_clients() is the "Total number of connected WebSocket clients      *)
(* across all platforms" (registry.rs:155): when every session that came    *)
(* has closed and no broadcast is at work, it is zero.  It need not be: a   *)
(* client that is pushed after the entry's guard is dropped and before its  *)
(* key is removed (98-99) goes with the entry.  Its own unregister finds no *)
(* entry and subtracts nothing, so its seat stays counted for good.         *)
SeatsGivenBack ==
  (/\ \A s \in Sessions : pc[s] \in {"connecting", "closed"}
   /\ \A b \in Casters : cast[b].pc = "idle")
  => count = 0

(* What a client is sent, written or queued, was broadcast to its platform  *)
(* from a source it allows, each payload once, and the payloads of one      *)
(* transaction in their order.                                              *)
ReceivesInOrder ==
  \A s \in Sessions :
    LET log == got[s] \o queue[s] IN
      /\ \A i \in DOMAIN log : /\ sent[log[i]].to = platform[s]
                                 /\ sent[log[i]].from \in allow[s] \union {Matrix}
      /\ \A i, j \in DOMAIN log :
           i < j => /\ log[i] # log[j]
                    /\ sent[log[i]].by = sent[log[j]].by => log[i] < log[j]

-----------------------------------------------------------------------------
(* The runtime polls every task that can run, and DashMap admits a waiting  *)
(* writer once the broadcasts, finitely many here, have let go.  Nothing is *)
(* assumed of the clients: a socket may stall (no fairness of Forward) or   *)
(* stay open for ever (no fairness of OutboundEnds or of a client's close). *)
Fairness ==
  /\ \A s \in Sessions :
       /\ WF_vars(Push(s) \/ RollBack(s) \/ Unregister(s) \/ Uncount(s) \/ RemoveEntry(s))
       /\ WF_vars(Abandoned(s))
       /\ WF_vars(s \notin receivers /\ SelectReturns(s))
  /\ \A b \in Casters :
       WF_vars(EndPhase1(b) \/ Prune(b) \/ UncountDead(b) \/ \E s \in Sessions : SendTo(b, s))

FairSpec == Spec /\ Fairness

(* A broadcast returns, whatever the clients do: no stalled socket and no   *)
(* other caller holds it up.                                                *)
BroadcastReturns == \A b \in Casters : cast[b].pc = "sending" ~> cast[b].pc = "idle"

(* A session whose outbound task has ended leaves the registry for good,    *)
(* through its own unregister or a broadcast's phase 2, whichever is first. *)
DeadIsForgotten ==
  \A s \in Sessions :
    (pc[s] = "open" /\ s \notin receivers) ~> (pc[s] = "closed" /\ s \notin members)
=============================================================================
