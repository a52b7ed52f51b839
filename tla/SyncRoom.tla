----------------------------- MODULE SyncRoom -----------------------------
(***************************************************************************)
(* One document room of the sync service (services/sync/src/room.rs), the  *)
(* WebSocket sessions attached to it (session.rs) and the web clients at   *)
(* the other end (web/src/sync.ts).                                        *)
(*                                                                         *)
(* An update is an opaque CRDT batch: what the relay can tell of it is its *)
(* author, the updates it depends on, and whether a set of updates already *)
(* contains it.  The op log is the abstract one (an append either becomes  *)
(* durable or fails); its implementations are modelled on their own, and   *)
(* so are the contents of presence rosters.  Time is abstracted: a peer's  *)
(* presence may expire, and a presence broadcast be due, at any moment.    *)
(***************************************************************************)
EXTENDS Integers, Sequences, FiniteSets

CONSTANTS
    Peers,          \* client replicas (Loro peer ids)
    Conns,          \* WebSocket connections; each is used once
    PeerOf,         \* the peer id a connection says HELLO with
    Updates,        \* local batches the clients may produce
    Author,         \* the peer that produces an update
    Deps,           \* the updates an update causally depends on
    ChanCap,        \* capacity of a session's outbound channel (256 in the code)
    MaxPeers,       \* Config::max_peers_per_doc
    SnapshotEvery,  \* Config::snapshot_every_updates
    Receipts,       \* TRUE: protocol 2 clients; FALSE: protocol 1 (no receipts)
    Env,            \* what the environment may do, see Events
    Stalls,         \* connections whose client may stop reading, socket open
    NoConn, Stopped, NoUpdate   \* sentinels

Events ==
    {"close",       \* sockets drop
     "deny",        \* access is refused or revoked, or an update is refused
     "timeout",     \* a handshake times out
     "append",      \* op log appends fail
     "put",         \* snapshot puts fail
     "maint",       \* the maintenance task snapshots dirty rooms
     "expire",      \* presence entries outlive their TTL
     "crash",       \* the service dies
     "presence", "heartbeat",   \* clients send these frames
     "flood"}       \* a client exceeds its frame rate

ASSUME ConnAssumption ==
    /\ PeerOf \in [Conns -> Peers]
    /\ Stalls \subseteq Conns
    /\ NoConn \notin Conns /\ Stopped \notin Conns /\ Stopped # NoConn
ASSUME UpdateAssumption ==
    /\ Author \in [Updates -> Peers]
    /\ Deps \in [Updates -> SUBSET Updates]
    /\ \A u \in Updates : /\ u \notin Deps[u]
                          /\ \A v \in Deps[u] : Deps[v] \subseteq Deps[u]
    /\ NoUpdate \notin Updates
ASSUME BoundAssumption ==
    /\ IsFiniteSet(Peers)
    /\ ChanCap \in Nat /\ ChanCap >= 2     \* room for the welcome and a roster
    /\ MaxPeers \in Nat
    /\ SnapshotEvery \in Nat \ {0}
    /\ Receipts \in BOOLEAN
    /\ Env \subseteq Events

VARIABLES
    pc, job,        \* where a run_socket task is, and the update it handles
    vv, gen,        \* the version vector of its HELLO, the generation join drew
    inbox,          \* update frames its client sent and it has not read
    queue, close,   \* its outbound channel and close signal
    sessions, presence, nextGen,                \* the room
    imported, logged, dirty, snapshot,          \* authority, log, snapshot store
    maintSnap,      \* what the maintenance task is writing (at most one element),
    maintStamped,   \* and whether it has read the version vector for it
    client, handshake, ready,                   \* a client's socket
    replica, pending, awaiting                  \* a client's document

taskVars   == <<pc, job>>
helloVars  == <<vv, gen, nextGen>>
relayVars  == <<sessions, presence, queue, close>>
maintVars  == <<maintSnap, maintStamped>>
docVars    == <<imported, logged, dirty, snapshot, maintVars>>
clientVars == <<client, handshake, ready, replica, pending, awaiting>>
vars == <<taskVars, helloVars, inbox, relayVars, docVars, clientVars>>

(***************************************************************************)
(* The CRDT.  Loro applies an update once everything it depends on is      *)
(* there and keeps it aside until then, so the version vector of a replica *)
(* that was handed S is Applied(S).                                        *)
(***************************************************************************)
Applied(S) == {u \in S : Deps[u] \subseteq S}

(* Frames of an outbound channel: the updates they carry is what matters. *)
Welcome(S)     == [kind |-> "welcome", ups |-> S]
UpdateFrame(u) == [kind |-> "update", ups |-> {u}]
PresenceFrame  == [kind |-> "presence", ups |-> {}]
Frames == [kind : {"welcome", "update"}, ups : SUBSET Updates] \cup {PresenceFrame}
Carried(q) == UNION {q[i].ups : i \in DOMAIN q}

(* A stored snapshot: the exported bytes and the version vector it is filed under. *)
Snapshots == [vv : SUBSET Updates, bytes : SUBSET Updates]
Exported(S) == [vv |-> S, bytes |-> S]

(* States of a session task. *)
Holding == {"append", "import", "snap", "fanout"}   \* holds the updates lock
InMessage == {"waiting", "receipt", "presence", "heartbeat", "flood"}
                 \cup Holding                       \* inside handle_message
InSession == {"loop", "leaving"} \cup InMessage     \* between join and leave
PcStates == {"idle", "hello", "closed"} \cup InSession

Registered(c) == sessions[PeerOf[c]] = c
Attached(c)   == client[PeerOf[c]] = c
LockFree      == \A d \in Conns : pc[d] \notin Holding

Init ==
    /\ pc = [c \in Conns |-> "idle"]
    /\ job = [c \in Conns |-> NoUpdate]
    /\ vv = [c \in Conns |-> {}]
    /\ gen = [c \in Conns |-> 0]
    /\ inbox = [c \in Conns |-> << >>]
    /\ queue = [c \in Conns |-> << >>]
    /\ close = [c \in Conns |-> "normal"]
    /\ sessions = [p \in Peers |-> NoConn]
    /\ presence = {} /\ nextGen = 0
    /\ imported = {} /\ logged = {} /\ dirty = 0
    /\ snapshot = Exported({}) /\ maintSnap = {} /\ maintStamped = FALSE
    /\ client = [p \in Peers |-> NoConn]
    /\ handshake = [p \in Peers |-> FALSE] /\ ready = {}
    /\ replica = [p \in Peers |-> {}]
    /\ pending = [p \in Peers |-> << >>]
    /\ awaiting = [p \in Peers |-> FALSE]

-----------------------------------------------------------------------------
(***************************************************************************)
(* Relay helpers: every caller holds the room's gate.                      *)
(***************************************************************************)

(* try_send_all: best effort, a full channel does not take the frame. *)
TrySendAll(q, sess, frame, except) ==
    [c \in Conns |->
        IF sess[PeerOf[c]] = c /\ PeerOf[c] \notin except /\ Len(q[c]) < ChanCap
        THEN Append(q[c], frame)
        ELSE q[c]]

(* Mutant: a full channel just loses the frame. *)
RefusingNone(q, sess, except) == {}

Refusing(q, sess, except) ==
    {p \in Peers \ except : sess[p] # NoConn /\ Len(q[sess[p]]) >= ChanCap}

(* evict_failed with resync = TRUE, as every reachable caller has it. *)
EvictFailed(sess, pres, q, cl, gone) ==
    /\ sessions' = [p \in Peers |-> IF p \in gone THEN NoConn ELSE sess[p]]
    /\ presence' = pres \ gone
    /\ close' = [c \in Conns |->
                    IF PeerOf[c] \in gone /\ sess[PeerOf[c]] = c
                    THEN "resync" ELSE cl[c]]
    /\ queue' = TrySendAll(q, sessions', PresenceFrame, {})

(* fanout and fanout_except *)
Fanout(sess, pres, q, cl, frame, except) ==
    LET failed == Refusing(q, sess, except)
        sent   == TrySendAll(q, sess, frame, except)
    IN  IF failed = {}
        THEN /\ sessions' = sess /\ presence' = pres
             /\ queue' = sent /\ close' = cl
        ELSE EvictFailed(sess, pres, sent, cl, failed)

Goto(c, l) == pc' = [pc EXCEPT ![c] = l]

(* teardownSocket: the client is off its socket, for now or for good. *)
Detach(p, to) ==
    /\ client' = [client EXCEPT ![p] = to]
    /\ handshake' = [handshake EXCEPT ![p] = FALSE]
    /\ awaiting' = [awaiting EXCEPT ![p] = FALSE]
    /\ UNCHANGED <<ready, replica, pending>>

(* An error frame reaches the client of c if that socket is still its own. *)
ClientError(c, to) ==
    IF Attached(c) THEN Detach(PeerOf[c], to) ELSE UNCHANGED clientVars

-----------------------------------------------------------------------------
(***************************************************************************)
(* Clients.                                                                *)
(***************************************************************************)

(* The user edits: the batch is in the replica and queued to be sent. *)
LocalEdit(p, u) ==
    /\ p \in ready /\ client[p] # Stopped
    /\ Author[u] = p /\ u \notin replica[p] /\ Deps[u] \subseteq replica[p]
    /\ replica' = [replica EXCEPT ![p] = @ \cup {u}]
    /\ pending' = [pending EXCEPT ![p] = Append(@, u)]
    /\ UNCHANGED <<taskVars, helloVars, inbox, relayVars, docVars, client,
                   handshake, ready, awaiting>>

(* connect: a new socket whose HELLO carries the version vector of now. *)
Connect(c) ==
    /\ pc[c] = "idle" /\ client[PeerOf[c]] = NoConn
    /\ Goto(c, "hello")
    /\ vv' = [vv EXCEPT ![c] = Applied(replica[PeerOf[c]])]
    /\ client' = [client EXCEPT ![PeerOf[c]] = c]
    /\ UNCHANGED <<job, gen, nextGen, inbox, relayVars, docVars, handshake, ready,
                   replica, pending, awaiting>>

(* Mutant: the batch is forgotten when it is sent, receipts or not. *)
SendForgets(c) ==
    LET p == PeerOf[c] IN
    /\ Attached(c) /\ handshake[p] /\ pending[p] # << >> /\ ~awaiting[p]
    /\ inbox' = [inbox EXCEPT ![c] = Append(@, Head(pending[p]))]
    /\ pending' = [pending EXCEPT ![p] = Tail(@)]
    /\ UNCHANGED <<taskVars, helloVars, relayVars, docVars, client, handshake,
                   ready, replica, awaiting>>

(* sendNext: protocol 2 keeps the batch until its receipt arrives. *)
Send(c) ==
    LET p == PeerOf[c] IN
    /\ Attached(c) /\ handshake[p] /\ pending[p] # << >> /\ ~awaiting[p]
    /\ inbox' = [inbox EXCEPT ![c] = Append(@, Head(pending[p]))]
    /\ IF Receipts
       THEN awaiting' = [awaiting EXCEPT ![p] = TRUE] /\ UNCHANGED pending
       ELSE pending' = [pending EXCEPT ![p] = Tail(@)] /\ UNCHANGED awaiting
    /\ UNCHANGED <<taskVars, helloVars, relayVars, docVars, client, handshake,
                   ready, replica>>

(* The socket drops, or the client closes it (welcome timeout, page closed). *)
ClientClose(p) ==
    /\ "close" \in Env /\ client[p] \in Conns
    /\ Detach(p, NoConn)
    /\ UNCHANGED <<taskVars, helloVars, inbox, relayVars, docVars>>

-----------------------------------------------------------------------------
(***************************************************************************)
(* Handshake.  Everything join does happens under the gate, in one step;   *)
(* the HELLO was read before the awaits of access().resolve.               *)
(***************************************************************************)

(* Mutant: off by one at the cap. *)
CanJoinLate(p) == Cardinality(presence) <= MaxPeers /\ sessions[p] = NoConn

CanJoin(p) == Cardinality(presence) < MaxPeers /\ sessions[p] = NoConn

(* authority.catchup: what is applied here and not covered by the peer's vv. *)
Catchup(c) == Applied(imported) \ vv[c]

(* Mutant: the roster goes out before the welcome is queued. *)
JoinRosterFirst(c) ==
    LET p == PeerOf[c] IN
    /\ pc[c] = "hello" /\ CanJoin(p)
    /\ Goto(c, "loop")
    /\ nextGen' = nextGen + 1
    /\ gen' = [gen EXCEPT ![c] = nextGen + 1]
    /\ vv' = [vv EXCEPT ![c] = {}]
    /\ Fanout([sessions EXCEPT ![p] = c], presence \cup {p},
              [queue EXCEPT ![c] = <<PresenceFrame, Welcome(Catchup(c))>>], close,
              PresenceFrame, {p})
    /\ UNCHANGED <<job, inbox, docVars, clientVars>>

Join(c) ==
    LET p == PeerOf[c] IN
    /\ pc[c] = "hello" /\ CanJoin(p)
    /\ Goto(c, "loop")
    /\ nextGen' = nextGen + 1
    /\ gen' = [gen EXCEPT ![c] = nextGen + 1]
    /\ vv' = [vv EXCEPT ![c] = {}]
    /\ Fanout([sessions EXCEPT ![p] = c], presence \cup {p},
              [queue EXCEPT ![c] = Append(@, Welcome(Catchup(c)))], close,
              PresenceFrame, {})
    /\ UNCHANGED <<job, inbox, docVars, clientVars>>

(* join refuses (full or catch-up too large: 4029, already connected: 4500),   *)
(* or the handshake times out (4029), and the client retries later; access     *)
(* denied (4003) stops it.                                                     *)
HandshakeFails(c) ==
    /\ pc[c] = "hello"
    /\ \/ (~CanJoin(PeerOf[c]) \/ "timeout" \in Env) /\ ClientError(c, NoConn)
       \/ "deny" \in Env /\ ClientError(c, Stopped)
    /\ Goto(c, "closed")
    /\ vv' = [vv EXCEPT ![c] = {}]
    /\ UNCHANGED <<job, gen, nextGen, inbox, relayVars, docVars>>

-----------------------------------------------------------------------------
(***************************************************************************)
(* The select loop of run_socket: biased, so the channel is drained before *)
(* the socket is read, and a dropped sender ends the loop once drained.    *)
(***************************************************************************)

(* The message handler of sync.ts.  An update before the welcome is a fatal  *)
(* protocol error there.                                                     *)
Receive(p, f) ==
    \/ /\ f.kind = "welcome"
       /\ handshake' = [handshake EXCEPT ![p] = TRUE]
       /\ ready' = ready \cup {p}
       /\ replica' = [replica EXCEPT ![p] = @ \cup f.ups]
       /\ UNCHANGED <<client, pending, awaiting>>
    \/ /\ f.kind = "update" /\ handshake[p]
       /\ replica' = [replica EXCEPT ![p] = @ \cup f.ups]
       /\ UNCHANGED <<client, handshake, ready, pending, awaiting>>
    \/ f.kind = "update" /\ ~handshake[p] /\ Detach(p, Stopped)
    \/ f.kind = "presence" /\ UNCHANGED clientVars

(* A frame is lost if it goes into a socket nobody listens to any more. *)
Deliver(c) ==
    /\ pc[c] = "loop" /\ queue[c] # << >>
    /\ IF Attached(c) THEN Receive(PeerOf[c], Head(queue[c]))
                      ELSE UNCHANGED clientVars
    /\ queue' = [queue EXCEPT ![c] = Tail(@)]
    /\ UNCHANGED <<taskVars, helloVars, inbox, sessions, presence, close, docVars>>

(* Mutant: a dropped sender is not noticed. *)
LoopEndsByClient(c) ==
    /\ pc[c] = "loop" /\ ~Attached(c)
    /\ Goto(c, "leaving")
    /\ UNCHANGED <<job, helloVars, inbox, relayVars, docVars, clientVars>>

(* The loop ends: the client's side is gone (send or recv fails), or the room  *)
(* dropped the sender and the channel is drained; then the error frame and the *)
(* close code reach the client.                                                *)
LoopEnds(c) ==
    /\ pc[c] = "loop"
    /\ ~Attached(c) \/ (queue[c] = << >> /\ ~Registered(c))
    /\ Goto(c, "leaving")
    /\ ClientError(c, NoConn)
    /\ UNCHANGED <<job, helloVars, inbox, relayVars, docVars>>

(* Mutant: leave removes whatever session the peer has now. *)
MineUnfenced(c) == sessions[PeerOf[c]] # NoConn

(* room.leave is fenced by the generation; then the task's locals are gone. *)
Mine(c) == LET s == sessions[PeerOf[c]] IN s # NoConn /\ gen[s] = gen[c]

Leave(c) ==
    LET p == PeerOf[c]
        rest == [queue EXCEPT ![c] = << >>]
        signals == [close EXCEPT ![c] = "normal"]
    IN
    /\ pc[c] = "leaving"
    /\ Goto(c, "closed")
    /\ IF Mine(c)
       THEN Fanout([sessions EXCEPT ![p] = NoConn], presence \ {p}, rest, signals,
                   PresenceFrame, {})
       ELSE /\ queue' = rest /\ close' = signals
            /\ UNCHANGED <<sessions, presence>>
    /\ gen' = [gen EXCEPT ![c] = 0]
    /\ inbox' = [inbox EXCEPT ![c] = << >>]
    /\ UNCHANGED <<job, vv, nextGen, docVars, clientVars>>

-----------------------------------------------------------------------------
(***************************************************************************)
(* handle_message.  A frame is read only while the channel is empty and    *)
(* its sender is still registered; everything after that may find the room *)
(* changed.                                                                *)
(***************************************************************************)

CanRead(c) == pc[c] = "loop" /\ queue[c] = << >> /\ Registered(c)

(* An update then waits, for refresh_access and for the updates lock. *)
ReadUpdate(c) ==
    /\ CanRead(c) /\ inbox[c] # << >>
    /\ Goto(c, "waiting")
    /\ job' = [job EXCEPT ![c] = Head(inbox[c])]
    /\ inbox' = [inbox EXCEPT ![c] = Tail(@)]
    /\ UNCHANGED <<helloVars, relayVars, docVars, clientVars>>

(* A presence frame, a heartbeat, or any frame beyond the rate limit. *)
ReadOther(c) ==
    /\ CanRead(c)
    /\ \E l \in Env \cap {"presence", "heartbeat", "flood"} : Goto(c, l)
    /\ UNCHANGED <<job, helloVars, inbox, relayVars, docVars, clientVars>>

(* refresh_access: the role is no longer the one the session joined with. *)
AccessLost(c) ==
    /\ "deny" \in Env /\ pc[c] \in {"waiting", "heartbeat"}
    /\ Goto(c, "leaving")
    /\ job' = [job EXCEPT ![c] = NoUpdate]
    /\ ClientError(c, Stopped)
    /\ UNCHANGED <<helloVars, inbox, relayVars, docVars>>

(* handle_update returns an error the client does not retry, before the lock  *)
(* (role, size) or under it (review policy, undecodable bytes).               *)
UpdateRefused(c) ==
    /\ "deny" \in Env /\ pc[c] = "waiting"
    /\ Goto(c, "loop")
    /\ job' = [job EXCEPT ![c] = NoUpdate]
    /\ ClientError(c, Stopped)
    /\ UNCHANGED <<helloVars, inbox, relayVars, docVars>>

(* The updates lock is taken; a batch the authority already covers is a retry. *)
Acquire(c) ==
    /\ pc[c] = "waiting" /\ LockFree
    /\ Goto(c, IF job[c] \in Applied(imported) THEN "receipt" ELSE "append")
    /\ UNCHANGED <<job, helloVars, inbox, relayVars, docVars, clientVars>>

(* One more record.  A record whose append failed although it reached the     *)
(* store -- the authority does not have it -- may be overwritten by the next  *)
(* one: the S3 store uses up a part number only when its PUT succeeds.        *)
Logs(u) == \E lost \in {{}, logged \ imported} : logged' = (logged \ lost) \cup {u}

AppendOk(c) ==
    /\ pc[c] = "append"
    /\ Goto(c, "import")
    /\ Logs(job[c])
    /\ UNCHANGED <<job, helloVars, inbox, relayVars, imported, dirty, snapshot,
                   maintVars, clientVars>>

(* Mutant: the update is relayed before its append has succeeded. *)
AppendFailsRelayed(c) ==
    /\ "append" \in Env /\ pc[c] = "append"
    /\ Goto(c, "loop")
    /\ UNCHANGED logged \/ Logs(job[c])
    /\ Fanout(sessions, presence, queue, close, UpdateFrame(job[c]), {PeerOf[c]})
    /\ job' = [job EXCEPT ![c] = NoUpdate]
    /\ ClientError(c, NoConn)
    /\ UNCHANGED <<helloVars, inbox, imported, dirty, snapshot, maintVars>>

(* op_log.append fails, with or without the record having reached the store. *)
AppendFails(c) ==
    /\ "append" \in Env /\ pc[c] = "append"
    /\ Goto(c, "loop")
    /\ UNCHANGED logged \/ Logs(job[c])
    /\ job' = [job EXCEPT ![c] = NoUpdate]
    /\ ClientError(c, NoConn)
    /\ UNCHANGED <<helloVars, inbox, relayVars, imported, dirty, snapshot,
                   maintVars>>

Import(c) ==
    LET now == imported \cup {job[c]}
        advanced == Applied(now) # Applied(imported)
    IN
    /\ pc[c] = "import"
    /\ imported' = now
    /\ dirty' = IF advanced THEN dirty + 1 ELSE dirty
    /\ Goto(c, IF ~advanced THEN "receipt"
               ELSE IF dirty + 1 >= SnapshotEvery THEN "snap" ELSE "fanout")
    /\ UNCHANGED <<job, helloVars, inbox, relayVars, logged, snapshot, maintVars,
                   clientVars>>

(* SnapshotStore::latest picks by version vector, so an older export that  *)
(* lands late does not hide a newer one; which of two equals is found first *)
(* is up to the directory.                                                  *)
PickNewer(S) == {s \in S : \A t \in S : s.vv \subseteq t.vv => t.vv = s.vv}

(* Mutant: the counter is reduced by the threshold instead of cleared. *)
PutSubtracts(snap) ==
    \/ snapshot' \in PickNewer({snapshot, snap}) /\ dirty' = dirty - SnapshotEvery
    \/ "put" \in Env /\ UNCHANGED <<snapshot, dirty>>

(* snapshots.put returns: the counter is cleared only on success. *)
Put(snap) ==
    \/ snapshot' \in PickNewer({snapshot, snap}) /\ dirty' = 0
    \/ "put" \in Env /\ UNCHANGED <<snapshot, dirty>>

(* Mutant: the snapshot takes the updates lock its caller already holds. *)
SnapshotLocks(c) ==
    /\ pc[c] = "snap" /\ LockFree
    /\ Goto(c, "fanout")
    /\ Put(Exported(Applied(imported)))
    /\ UNCHANGED <<job, helloVars, inbox, relayVars, imported, logged, maintVars,
                   clientVars>>

(* Mutant: after a snapshot the update is answered but not fanned out. *)
SnapshotSkipsFanout(c) ==
    /\ pc[c] = "snap"
    /\ Goto(c, "receipt")
    /\ Put(Exported(Applied(imported)))
    /\ UNCHANGED <<job, helloVars, inbox, relayVars, imported, logged, maintVars,
                   clientVars>>

SnapshotInUpdate(c) ==
    /\ pc[c] = "snap"
    /\ Goto(c, "fanout")
    /\ Put(Exported(Applied(imported)))
    /\ UNCHANGED <<job, helloVars, inbox, relayVars, imported, logged, maintVars,
                   clientVars>>

FanoutUpdate(c) ==
    /\ pc[c] = "fanout"
    /\ Goto(c, "receipt")
    /\ Fanout(sessions, presence, queue, close, UpdateFrame(job[c]), {PeerOf[c]})
    /\ UNCHANGED <<job, helloVars, inbox, docVars, clientVars>>

(* The exact batch is echoed to a protocol 2 client, whose handler drops it    *)
(* from the head of its pending queue.  The send fails if the socket is gone.  *)
Receipt(c) ==
    LET p == PeerOf[c] IN
    /\ pc[c] = "receipt"
    /\ job' = [job EXCEPT ![c] = NoUpdate]
    /\ Goto(c, IF Receipts /\ ~Attached(c) THEN "leaving" ELSE "loop")
    /\ IF Receipts /\ Attached(c) /\ awaiting[p] /\ pending[p] # << >>
          /\ Head(pending[p]) = job[c]
       THEN /\ pending' = [pending EXCEPT ![p] = Tail(@)]
            /\ awaiting' = [awaiting EXCEPT ![p] = FALSE]
       ELSE UNCHANGED <<pending, awaiting>>
    /\ UNCHANGED <<helloVars, inbox, relayVars, docVars, client, handshake, ready,
                   replica>>

(* handle_presence: an upsert for the peer id, whoever holds its slot by now;  *)
(* the broadcast is due or coalesced.                                          *)
HandlePresence(c) ==
    LET present == presence \cup {PeerOf[c]} IN
    /\ pc[c] = "presence"
    /\ Goto(c, "loop")
    /\ \/ Fanout(sessions, present, queue, close, PresenceFrame, {})
       \/ presence' = present /\ UNCHANGED <<sessions, queue, close>>
    /\ UNCHANGED <<job, helloVars, inbox, docVars, clientVars>>

(* handle_heartbeat refreshes last_seen, which the model leaves out. *)
HandleHeartbeat(c) ==
    /\ pc[c] = "heartbeat"
    /\ Goto(c, "loop")
    /\ UNCHANGED <<job, helloVars, inbox, relayVars, docVars, clientVars>>

(* evict_for_rate_limit, then the session ends. *)
RateLimited(c) ==
    LET p == PeerOf[c] IN
    /\ pc[c] = "flood"
    /\ Goto(c, "leaving")
    /\ IF sessions[p] # NoConn
       THEN EvictFailed(sessions, presence, queue, close, {p})
       ELSE UNCHANGED relayVars
    /\ ClientError(c, NoConn)
    /\ UNCHANGED <<job, helloVars, inbox, docVars>>

-----------------------------------------------------------------------------
(***************************************************************************)
(* Maintenance (spawn_maintenance) and crashes of the service.             *)
(***************************************************************************)

(* sweep_presence: gone are the peers whose last heartbeat is older than the  *)
(* TTL, whether or not they have a session.                                   *)
SweepPresence(gone) ==
    /\ "expire" \in Env /\ gone # {}
    /\ EvictFailed(sessions, presence, queue, close, gone)
    /\ UNCHANGED <<taskVars, helloVars, inbox, docVars, clientVars>>

(* snapshot_if_dirty, without the updates lock: the state is exported, then the  *)
(* version vector read, then the put awaited.                                    *)
MaintSnapshotBegin ==
    /\ "maint" \in Env /\ maintSnap = {} /\ dirty # 0
    /\ maintSnap' = {Exported(Applied(imported))} /\ maintStamped' = FALSE
    /\ UNCHANGED <<taskVars, helloVars, inbox, relayVars, imported, logged, dirty,
                   snapshot, clientVars>>

MaintSnapshotStamp ==
    /\ maintSnap # {} /\ ~maintStamped
    /\ maintSnap' = {[s EXCEPT !.vv = Applied(imported)] : s \in maintSnap}
    /\ maintStamped' = TRUE
    /\ UNCHANGED <<taskVars, helloVars, inbox, relayVars, imported, logged, dirty,
                   snapshot, clientVars>>

MaintSnapshotEnd ==
    /\ maintStamped
    /\ \E snap \in maintSnap : Put(snap)
    /\ maintSnap' = {} /\ maintStamped' = FALSE
    /\ UNCHANGED <<taskVars, helloVars, inbox, relayVars, imported, logged,
                   clientVars>>

(* Mutant: open does not replay the log. *)
HydrateSnapshotOnly == snapshot.bytes

(* DocRoom::open: the authority from the latest snapshot and the whole log. *)
Hydrate == snapshot.bytes \cup logged

(* The process dies and the room is opened again.  Clients lose their sockets  *)
(* and keep their replicas and pending batches.                                *)
Crash ==
    /\ "crash" \in Env /\ \E c \in Conns : pc[c] \notin {"idle", "closed"}
    /\ pc' = [c \in Conns |-> IF pc[c] = "idle" THEN "idle" ELSE "closed"]
    /\ job' = [c \in Conns |-> NoUpdate]
    /\ vv' = [c \in Conns |-> {}]
    /\ gen' = [c \in Conns |-> 0]
    /\ inbox' = [c \in Conns |-> << >>]
    /\ queue' = [c \in Conns |-> << >>]
    /\ close' = [c \in Conns |-> "normal"]
    /\ sessions' = [p \in Peers |-> NoConn]
    /\ presence' = {} /\ nextGen' = 0 /\ dirty' = 0
    /\ maintSnap' = {} /\ maintStamped' = FALSE
    /\ imported' = Hydrate
    /\ client' = [p \in Peers |-> IF client[p] = Stopped THEN Stopped ELSE NoConn]
    /\ handshake' = [p \in Peers |-> FALSE]
    /\ awaiting' = [p \in Peers |-> FALSE]
    /\ UNCHANGED <<logged, snapshot, ready, replica, pending>>

-----------------------------------------------------------------------------
SessionStep(c) ==
    \/ Join(c) \/ HandshakeFails(c) \/ Deliver(c) \/ LoopEnds(c) \/ Leave(c)
    \/ ReadUpdate(c) \/ ReadOther(c)
    \/ AccessLost(c) \/ UpdateRefused(c) \/ Acquire(c) \/ AppendOk(c)
    \/ AppendFails(c) \/ Import(c) \/ SnapshotInUpdate(c) \/ FanoutUpdate(c)
    \/ Receipt(c) \/ HandlePresence(c) \/ HandleHeartbeat(c) \/ RateLimited(c)

Next ==
    \/ \E p \in Peers, u \in Updates : LocalEdit(p, u)
    \/ \E p \in Peers : ClientClose(p)
    \/ \E c \in Conns : Connect(c) \/ Send(c) \/ SessionStep(c)
    \/ \E gone \in SUBSET presence : SweepPresence(gone)
    \/ MaintSnapshotBegin \/ MaintSnapshotStamp \/ MaintSnapshotEnd \/ Crash

Spec == Init /\ [][Next]_vars

(***************************************************************************)
(* Fairness.  The service's tasks run; clients, timers and the process may *)
(* do as they please.  The updates mutex is tokio's, which is fair to its  *)
(* waiters, and no socket is written to while it is held.                  *)
(*                                                                         *)
(* A task that writes to its socket goes on when the write returns.  There *)
(* is no timeout on a write: while the client keeps the socket open and    *)
(* does not read, the task stays where it is.  A task that is refusing an  *)
(* update -- it has decided, but the client has not read the error -- is   *)
(* in "waiting" still, so that leaving it depends on the client too.       *)
(***************************************************************************)
Returns(c) == c \notin Stalls \/ ~Attached(c)

Fairness ==
    /\ WF_vars(MaintSnapshotBegin) /\ WF_vars(MaintSnapshotStamp)
    /\ WF_vars(MaintSnapshotEnd)
    /\ \A c \in Conns :
        /\ WF_vars(Returns(c) /\ (Join(c) \/ HandshakeFails(c)))
        /\ WF_vars(Returns(c) /\ Deliver(c))
        /\ WF_vars(Returns(c) /\ LoopEnds(c)) /\ WF_vars(Leave(c))
        /\ SF_vars(Returns(c) /\ Acquire(c))
        /\ WF_vars(AppendOk(c) \/ AppendFails(c))
        /\ WF_vars(Import(c)) /\ WF_vars(SnapshotInUpdate(c))
        /\ WF_vars(FanoutUpdate(c))
        /\ WF_vars(Returns(c) /\ Receipt(c))
        /\ WF_vars(Returns(c) /\ (HandlePresence(c) \/ HandleHeartbeat(c)
                                       \/ RateLimited(c)))

FairSpec == Spec /\ Fairness
-----------------------------------------------------------------------------
(***************************************************************************)
(* Properties.                                                             *)
(***************************************************************************)

(* Every variable has its type; slots and sockets belong to their peers. *)
TypeOK ==
    /\ pc \in [Conns -> PcStates]
    /\ job \in [Conns -> Updates \cup {NoUpdate}]
    /\ vv \in [Conns -> SUBSET Updates]
    /\ gen \in [Conns -> Nat] /\ nextGen \in Nat
    /\ inbox \in [Conns -> Seq(Updates)]
    /\ queue \in [Conns -> Seq(Frames)]
    /\ close \in [Conns -> {"normal", "resync"}]
    /\ sessions \in [Peers -> Conns \cup {NoConn}]
    /\ \A p \in Peers : sessions[p] # NoConn => PeerOf[sessions[p]] = p
    /\ presence \subseteq Peers
    /\ imported \subseteq Updates /\ logged \subseteq Updates
    /\ snapshot \in Snapshots /\ dirty \in Nat
    /\ maintSnap \subseteq Snapshots /\ maintStamped \in BOOLEAN
    /\ client \in [Peers -> Conns \cup {NoConn, Stopped}]
    /\ \A p \in Peers : client[p] \in Conns => PeerOf[client[p]] = p
    /\ handshake \in [Peers -> BOOLEAN] /\ ready \subseteq Peers
    /\ replica \in [Peers -> SUBSET Updates]
    /\ pending \in [Peers -> Seq(Updates)] /\ awaiting \in [Peers -> BOOLEAN]

(* The room never has more sessions than max_peers_per_doc, although join  *)
(* checks the size of the presence roster and not of the session map.      *)
SessionCap == Cardinality({p \in Peers : sessions[p] # NoConn}) <= MaxPeers

(* A session task between join and leave either still owns its peer's slot *)
(* or has been told to resync: no stale leave, replacement or eviction     *)
(* takes a slot silently.                                                  *)
LiveOrSignalled ==
    \A c \in Conns :
        pc[c] \in InSession => Registered(c) \/ close[c] = "resync"

(* The first frame a client sees on a socket is its welcome, whatever is   *)
(* fanned out concurrently with its join.                                  *)
WelcomeFirst ==
    \A c \in Conns :
        Attached(c) /\ ~handshake[PeerOf[c]] /\ queue[c] # << >>
            => Head(queue[c]).kind = "welcome"

(* Updates that are in the authority and whose fan-out is still to come. *)
Unsent == {job[d] : d \in {e \in Conns : pc[e] \in {"snap", "fanout"}}}

(* With receipts, a connected client never misses an update: whatever the   *)
(* authority has applied is in the client's replica, in its channel, or     *)
(* about to be fanned out -- for every interleaving of joins (catch-up),    *)
(* imports (outside the gate) and fan-outs.                                 *)
NoUpdateMissed ==
    \A c \in Conns :
        Registered(c) /\ Attached(c) =>
            Applied(imported)
                \subseteq replica[PeerOf[c]] \cup Carried(queue[c]) \cup Unsent

Own(p) == {u \in Updates : Author[u] = p}

(* No client is shown another client's update that a crash could take back. *)
RelayedIsDurable == \A p \in Peers : replica[p] \ Own(p) \subseteq logged

(* The local batches a protocol 2 client has dropped from its queue. *)
Confirmed(p) ==
    (replica[p] \cap Own(p)) \ {pending[p][i] : i \in DOMAIN pending[p]}

(* Once a client has forgotten a batch, the log alone can rebuild it        *)
(* together with everything it depends on.                                  *)
ConfirmedIsDurable == \A p \in Peers : Confirmed(p) \subseteq Applied(logged)

(* No step, a crash included, takes an applied update out of the authority. *)
AuthorityKept == [][Applied(imported) \subseteq Applied(imported')]_vars

(* A session that lost its slot is torn down, if its client reads or closes *)
(* its socket: a client that does neither cannot keep another's task from   *)
(* ending.                                                                  *)
EvictedEnds ==
    \A c \in Conns :
        pc[c] \in InSession /\ ~Registered(c) /\ Returns(c) ~> pc[c] = "closed"

(* "When the room evicts a peer ... it drops that sender ...; this task      *)
(* observes the receiver going None, ... and closes the socket"              *)
(* (session.rs:16-19), whatever the client does.  The code does not hold it: *)
(* a task that is writing to a client that has stopped reading does not get  *)
(* to see the dropped sender.                                                *)
EvictionTerminates ==
    \A c \in Conns : pc[c] \in InSession /\ ~Registered(c) ~> pc[c] = "closed"

(* A batch the relay has read is answered if its client reads or closes its *)
(* socket: the updates lock is never stuck, neither by a snapshot that      *)
(* waits for it nor by a client that has stopped reading.                   *)
UpdateAnswered ==
    \A c \in Conns : job[c] # NoUpdate /\ Returns(c) ~> job[c] = NoUpdate

(* An applied update reaches every client that stays connected and reads,  *)
(* also while another one does not.                                        *)
UpdateReaches ==
    \A c \in Conns \ Stalls, u \in Updates :
        u \in Applied(imported) /\ Registered(c) /\ Attached(c)
            ~> u \in replica[PeerOf[c]] \/ ~Attached(c)
====
