------------------------------ MODULE Registry ------------------------------
(***************************************************************************)
(* The registry of open rooms: DocRegistry in                              *)
(* services/sync/src/registry.rs, with the session tasks that ask it for a *)
(* room (handshake in session.rs) and the maintenance task that drops idle *)
(* ones (spawn_maintenance in main.rs).                                    *)
(*                                                                         *)
(* A room is a number, its authority the set of updates it has imported;   *)
(* what a room does with an update is SyncRoom's subject and one step      *)
(* here.  Times are left out: any empty room may be idle, and any may be   *)
(* the least recently used.                                                *)
(***************************************************************************)
EXTENDS Naturals, FiniteSets

CONSTANTS
    Docs,       \* document ids
    Tasks,      \* sessions: each asks for a room, joins, leaves and starts over
    Updates,    \* updates the sessions may push
    MaxRooms,   \* Config::max_rooms
    MaxOpens,   \* bound: how many rooms are ever built
    Env,        \* what else may happen, see Events
    NoDoc       \* sentinel

Events == {"idle",      \* rooms outlive evict_idle_ttl_ms
           "error"}     \* a room cannot be hydrated or joined

NoRoom == 0

ASSUME RegistryAssumption ==
    /\ IsFiniteSet(Docs) /\ IsFiniteSet(Tasks) /\ NoDoc \notin Docs
    /\ MaxRooms \in Nat \ {0} /\ MaxOpens \in Nat
    /\ Env \subseteq Events

VARIABLES
    rooms,      \* the map: a document's room, or NoRoom
    built,      \* how many rooms were built so far
    authority,  \* per room: the updates it has imported
    logged,     \* per document: the updates in its log
    stage, doc,    \* per task: where it is, and the document it is about
    room,       \* the room it has built or was handed
    victim, made,   \* evict_empty: the document to drop next, whether one was
    idle,       \* evict_idle_rooms: documents still to be dropped
    evicted     \* history: documents whose room was dropped

mapVars  == <<rooms, built, evicted>>
docVars  == <<authority, logged>>
taskVars == <<stage, doc, room>>
evictVars == <<victim, made>>
registryVars == <<mapVars, docVars, taskVars, evictVars, idle>>

Live == {d \in Docs : rooms[d] # NoRoom}

(* DocRoom::is_empty: no session has joined it, or all have left. *)
IsEmpty(r) == \A t \in Tasks : ~(stage[t] = "joined" /\ room[t] = r)

EmptyRooms == {d \in Live : IsEmpty(rooms[d])}

RegistryInit ==
    /\ rooms = [d \in Docs |-> NoRoom] /\ built = 0
    /\ authority = [r \in 1 .. MaxOpens |-> {}]
    /\ logged = [d \in Docs |-> {}]
    /\ stage = [t \in Tasks |-> "start"]
    /\ doc = [t \in Tasks |-> NoDoc]
    /\ room = [t \in Tasks |-> NoRoom]
    /\ victim = [t \in Tasks |-> NoDoc]
    /\ made = [t \in Tasks |-> FALSE]
    /\ idle = {} /\ evicted = {}

Goto(t, l) == stage' = [stage EXCEPT ![t] = l]

(* The task is done with its room, or got none. *)
Finish(t) ==
    /\ Goto(t, "start")
    /\ doc' = [doc EXCEPT ![t] = NoDoc]
    /\ room' = [room EXCEPT ![t] = NoRoom]

-----------------------------------------------------------------------------
(* Mutant: off by one at the cap. *)
GetOrOpenLate(t, d) ==
    /\ stage[t] = "start"
    /\ doc' = [doc EXCEPT ![t] = d]
    /\ room' = [room EXCEPT ![t] = rooms[d]]
    /\ Goto(t, IF rooms[d] # NoRoom THEN "handed"
               ELSE IF Cardinality(Live) > MaxRooms THEN "evicting" ELSE "opening")
    /\ UNCHANGED <<mapVars, docVars, evictVars, idle>>

(* get_or_open: the room is there, or the cap is compared. *)
GetOrOpen(t, d) ==
    /\ stage[t] = "start"
    /\ doc' = [doc EXCEPT ![t] = d]
    /\ room' = [room EXCEPT ![t] = rooms[d]]
    /\ Goto(t, IF rooms[d] # NoRoom THEN "handed"
               ELSE IF Cardinality(Live) >= MaxRooms THEN "evicting" ELSE "opening")
    /\ UNCHANGED <<mapVars, docVars, evictVars, idle>>

(* One turn of evict_empty's loop finds a room without sessions. *)
PickVictim(t, d) ==
    /\ stage[t] = "evicting" /\ Cardinality(Live) >= MaxRooms /\ d \in EmptyRooms
    /\ Goto(t, "removing")
    /\ victim' = [victim EXCEPT ![t] = d]
    /\ UNCHANGED <<mapVars, docVars, doc, room, made, idle>>

(* It removes whatever room that document has by now, and counts it if any. *)
RemoveVictim(t) ==
    /\ stage[t] = "removing"
    /\ Goto(t, "evicting")
    /\ made' = [made EXCEPT ![t] = @ \/ rooms[victim[t]] # NoRoom]
    /\ rooms' = [rooms EXCEPT ![victim[t]] = NoRoom]
    /\ evicted' = evicted \cup {victim[t]}
    /\ victim' = [victim EXCEPT ![t] = NoDoc]
    /\ UNCHANGED <<built, docVars, doc, room, idle>>

(* The loop ends: the caller opens its room if anything was evicted. *)
EvictEmptyEnds(t) ==
    /\ stage[t] = "evicting" /\ (Cardinality(Live) < MaxRooms \/ EmptyRooms = {})
    /\ made' = [made EXCEPT ![t] = FALSE]
    /\ IF made[t] THEN Goto(t, "opening") /\ UNCHANGED <<doc, room>> ELSE Finish(t)
    /\ UNCHANGED <<mapVars, docVars, victim, idle>>

(* DocRoom::open: a room is built from the log as it is now. *)
Open(t) ==
    /\ stage[t] = "opening" /\ built < MaxOpens
    /\ Goto(t, "inserting")
    /\ built' = built + 1
    /\ room' = [room EXCEPT ![t] = built + 1]
    /\ authority' = [authority EXCEPT ![built + 1] = logged[doc[t]]]
    /\ UNCHANGED <<rooms, evicted, logged, doc, evictVars, idle>>

(* Mutant: the newcomer replaces a room that got there first. *)
InsertOver(t) ==
    /\ stage[t] = "inserting"
    /\ Goto(t, "handed")
    /\ rooms' = [rooms EXCEPT ![doc[t]] = room[t]]
    /\ UNCHANGED <<built, evicted, docVars, doc, room, evictVars, idle>>

(* entry().or_insert: the first room in stays, and is what everybody gets. *)
Insert(t) ==
    /\ stage[t] = "inserting"
    /\ Goto(t, "handed")
    /\ rooms' = [rooms EXCEPT ![doc[t]] = IF @ = NoRoom THEN room[t] ELSE @]
    /\ room' = [room EXCEPT ![t] = rooms'[doc[t]]]
    /\ UNCHANGED <<built, evicted, docVars, doc, evictVars, idle>>

(* Hydration fails, or join refuses the session. *)
HandshakeFails(t) ==
    /\ "error" \in Env /\ stage[t] \in {"opening", "handed"}
    /\ Finish(t)
    /\ UNCHANGED <<mapVars, docVars, evictVars, idle>>

JoinRoom(t) ==
    /\ stage[t] = "handed"
    /\ Goto(t, "joined")
    /\ UNCHANGED <<mapVars, docVars, doc, room, evictVars, idle>>

(* The room appends an update of its session to the log and imports it. *)
HandleUpdate(t, u) ==
    /\ stage[t] = "joined" /\ \A d \in Docs : u \notin logged[d]
    /\ logged' = [logged EXCEPT ![doc[t]] = @ \cup {u}]
    /\ authority' = [authority EXCEPT ![room[t]] = @ \cup {u}]
    /\ UNCHANGED <<mapVars, taskVars, evictVars, idle>>

Leave(t) ==
    /\ stage[t] = "joined"
    /\ Finish(t)
    /\ UNCHANGED <<mapVars, docVars, evictVars, idle>>

-----------------------------------------------------------------------------
(* evict_idle_rooms: the empty and idle rooms are collected first ... *)
CollectIdle(found) ==
    /\ "idle" \in Env /\ idle = {} /\ found # {}
    /\ idle' = found
    /\ UNCHANGED <<mapVars, docVars, taskVars, evictVars>>

(* ... and then removed by document id, one by one. *)
RemoveIdle(d) ==
    /\ d \in idle
    /\ rooms' = [rooms EXCEPT ![d] = NoRoom]
    /\ evicted' = evicted \cup {d}
    /\ idle' = idle \ {d}
    /\ UNCHANGED <<built, docVars, taskVars, evictVars>>

-----------------------------------------------------------------------------
TaskStep(t) ==
    \/ \E d \in Docs : GetOrOpen(t, d) \/ PickVictim(t, d)
    \/ RemoveVictim(t) \/ EvictEmptyEnds(t) \/ Open(t) \/ Insert(t)
    \/ HandshakeFails(t) \/ JoinRoom(t) \/ Leave(t)
    \/ \E u \in Updates : HandleUpdate(t, u)

RegistryNext ==
    \/ \E t \in Tasks : TaskStep(t)
    \/ \E found \in SUBSET EmptyRooms : CollectIdle(found)
    \/ \E d \in Docs : RemoveIdle(d)

RegistrySpec == RegistryInit /\ [][RegistryNext]_registryVars
-----------------------------------------------------------------------------
(***************************************************************************)
(* Properties.                                                             *)
(***************************************************************************)

(* Every variable has its type. *)
TypeOK ==
    /\ rooms \in [Docs -> 0 .. MaxOpens] /\ built \in 0 .. MaxOpens
    /\ authority \in [1 .. MaxOpens -> SUBSET Updates]
    /\ logged \in [Docs -> SUBSET Updates]
    /\ stage \in [Tasks -> {"start", "evicting", "removing", "opening", "inserting",
                         "handed", "joined"}]
    /\ doc \in [Tasks -> Docs \cup {NoDoc}]
    /\ \A t \in Tasks : stage[t] # "start" => doc[t] \in Docs
    /\ room \in [Tasks -> 0 .. MaxOpens]
    /\ victim \in [Tasks -> Docs \cup {NoDoc}]
    /\ \A t \in Tasks : stage[t] = "removing" => victim[t] \in Docs
    /\ made \in [Tasks -> BOOLEAN]
    /\ idle \subseteq Docs /\ evicted \subseteq Docs

(* The cap is compared before the awaits of open and not again, so it can be  *)
(* exceeded, but only by as many rooms as there are other tasks opening one   *)
(* at the same time, and the excess never accumulates.                        *)
RoomsBounded == Cardinality(Live) <= MaxRooms + Cardinality(Tasks) - 1

(* The registered room of a document has everything that is in the document's *)
(* log, whichever of several concurrent opens won, until the document's room  *)
(* is evicted for the first time.                                             *)
RoomCurrent == \A d \in Live \ evicted : logged[d] \subseteq authority[rooms[d]]
====
