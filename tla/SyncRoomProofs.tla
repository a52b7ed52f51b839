--------------------------- MODULE SyncRoomProofs ---------------------------
(***************************************************************************)
(* Invariance proofs about SyncRoom, for all peers, connections, updates,  *)
(* capacities and environments.                                            *)
(***************************************************************************)
EXTENDS SyncRoom, TLAPS, SequenceTheorems, FiniteSetTheorems

QueuesOK(q) == q \in [Conns -> Seq(Frames)]
SlotsOK(sess) ==
    /\ sess \in [Peers -> Conns \cup {NoConn}]
    /\ \A p \in Peers : sess[p] # NoConn => PeerOf[sess[p]] = p
SignalsOK(cl) == cl \in [Conns -> {"normal", "resync"}]

(* The frames the room sends are frames. *)
LEMMA FrameTypes ==
    /\ PresenceFrame \in Frames
    /\ \A S \in SUBSET Updates : Welcome(S) \in Frames
    /\ \A u \in Updates : UpdateFrame(u) \in Frames
BY DEF PresenceFrame, Welcome, UpdateFrame, Frames

(* A channel after try_send_all: the frame is at its end, or it is as before. *)
LEMMA TrySendEach ==
    ASSUME NEW q, QueuesOK(q), NEW sess, NEW f \in Frames, NEW except,
           NEW c \in Conns
    PROVE  LET r == TrySendAll(q, sess, f, except) IN
           \/ r[c] = q[c]
           \/ sess[PeerOf[c]] = c /\ r[c] = Append(q[c], f)
BY DEF TrySendAll

(* Channels stay channels when try_send_all has put a frame into some of them. *)
LEMMA TrySendType ==
    ASSUME NEW q, QueuesOK(q), NEW sess, NEW f \in Frames, NEW except
    PROVE  QueuesOK(TrySendAll(q, sess, f, except))
<1> DEFINE r == TrySendAll(q, sess, f, except)
<1>1. ASSUME NEW c \in Conns
      PROVE  r[c] \in Seq(Frames)
  <2>1. q[c] \in Seq(Frames)
    BY DEF QueuesOK
  <2>2. Append(q[c], f) \in Seq(Frames)
    BY <2>1, AppendProperties
  <2>3. r[c] = q[c] \/ r[c] = Append(q[c], f)
    BY DEF TrySendAll
  <2> HIDE DEF r
  <2> QED BY <2>1, <2>2, <2>3
<1>2. r = [c \in Conns |-> r[c]]
  BY DEF TrySendAll
<1> QED BY <1>1, <1>2 DEF QueuesOK

(* What comes first in a channel stays first, until it is delivered. *)
HeadKept(s, t) == s # << >> => t # << >> /\ Head(t) = Head(s)

LEMMA AppendKeepsHead ==
    ASSUME NEW S, NEW s \in Seq(S), NEW f \in S PROVE HeadKept(s, Append(s, f))
BY DEF HeadKept

(***************************************************************************)
(* What a fan-out or an eviction leaves behind, in terms of the session    *)
(* map, roster, channels and signals it started from.  ups are the updates *)
(* of the frame, except the peers it skips.                                *)
(***************************************************************************)
RelayPost(sess, pres, q, cl, ups, except) ==
    /\ SlotsOK(sessions') /\ presence' \in SUBSET Peers
    /\ QueuesOK(queue') /\ SignalsOK(close')
    /\ \A p \in Peers : sessions'[p] = sess[p] \/ sessions'[p] = NoConn
    /\ \A p \in Peers : sessions'[p] # NoConn /\ p \in pres => p \in presence'
    /\ \A c \in Conns : close'[c] = cl[c] \/ close'[c] = "resync"
    /\ \A c \in Conns : sess[PeerOf[c]] = c /\ sessions'[PeerOf[c]] # c
                            => close'[c] = "resync"
    /\ \A c \in Conns : sess[PeerOf[c]] # c => queue'[c] = q[c]
    /\ \A c \in Conns : HeadKept(q[c], queue'[c])
    /\ \A c \in Conns : Carried(queue'[c]) \subseteq Carried(q[c]) \cup ups
    /\ \A c \in Conns : sessions'[PeerOf[c]] = c
                            => Carried(q[c]) \subseteq Carried(queue'[c])
    /\ \A c \in Conns : sessions'[PeerOf[c]] = c /\ PeerOf[c] \notin except
                            => ups \subseteq Carried(queue'[c])

(* Appending a frame adds its updates to what the channel carries. *)
LEMMA CarriedAppend ==
    ASSUME NEW s \in Seq(Frames), NEW f \in Frames
    PROVE  Carried(Append(s, f)) = Carried(s) \cup f.ups
<1> DEFINE t == Append(s, f)
<1>1. /\ Len(s) \in Nat /\ DOMAIN s = 1 .. Len(s)
      /\ DOMAIN t = 1 .. (Len(s) + 1)
      /\ \A i \in 1 .. Len(s) : t[i] = s[i]
      /\ t[Len(s) + 1] = f
  BY AppendProperties, LenProperties
<1> HIDE DEF t
<1>2. ASSUME NEW u, u \in Carried(t) PROVE u \in Carried(s) \cup f.ups
  <2>1. PICK i \in DOMAIN t : u \in t[i].ups
    BY <1>2 DEF Carried
  <2> QED BY <1>1, <2>1 DEF Carried
<1>3. ASSUME NEW u, u \in Carried(s) PROVE u \in Carried(t)
  <2>1. PICK i \in DOMAIN s : u \in s[i].ups
    BY <1>3 DEF Carried
  <2> QED BY <1>1, <2>1 DEF Carried
<1>4. ASSUME NEW u \in f.ups PROVE u \in Carried(t)
  BY <1>1, <1>4 DEF Carried
<1> QED BY <1>2, <1>3, <1>4 DEF t

(* evict_failed: whoever loses its slot is told to resync, the others keep      *)
(* slot, roster entry and frames.                                               *)
LEMMA EvictPost ==
    ASSUME NEW sess, SlotsOK(sess), NEW pres \in SUBSET Peers,
           NEW q, QueuesOK(q), NEW cl, SignalsOK(cl), NEW gone,
           EvictFailed(sess, pres, q, cl, gone), NEW except
    PROVE  RelayPost(sess, pres, q, cl, {}, except)
<1>1. SlotsOK(sessions') /\ \A p \in Peers : sessions'[p] = sess[p] \/ sessions'[p] = NoConn
  BY DEF EvictFailed, SlotsOK
<1>2. presence' \in SUBSET Peers /\ SignalsOK(close')
  BY DEF EvictFailed, SignalsOK
<1>3. /\ QueuesOK(queue')
      /\ \A c \in Conns : \/ queue'[c] = q[c]
                          \/ /\ sessions'[PeerOf[c]] = c
                             /\ queue'[c] = Append(q[c], PresenceFrame)
  BY TrySendType, TrySendEach, FrameTypes DEF EvictFailed
<1>4. \A p \in Peers : sessions'[p] # NoConn /\ p \in pres => p \in presence'
  BY DEF EvictFailed
<1>5. \A c \in Conns : close'[c] = cl[c] \/ close'[c] = "resync"
  BY DEF EvictFailed
<1>6. \A c \in Conns : PeerOf[c] \in Peers /\ c # NoConn
  BY ConnAssumption DEF ConnAssumption
<1>7. ASSUME NEW c \in Conns, sess[PeerOf[c]] = c, sessions'[PeerOf[c]] # c
      PROVE  close'[c] = "resync"
  BY <1>6, <1>7 DEF EvictFailed
<1>8. ASSUME NEW c \in Conns, sess[PeerOf[c]] # c
      PROVE  queue'[c] = q[c]
  BY <1>1, <1>3, <1>6, <1>8
<1>9. ASSUME NEW c \in Conns PROVE Carried(queue'[c]) = Carried(q[c])
  <2>1. q[c] \in Seq(Frames) /\ PresenceFrame.ups = {}
    BY DEF QueuesOK, PresenceFrame
  <2>2. Carried(Append(q[c], PresenceFrame)) = Carried(q[c]) \cup {}
    BY <2>1, CarriedAppend, FrameTypes
  <2> QED BY <1>3, <2>2
<1>10. ASSUME NEW c \in Conns PROVE HeadKept(q[c], queue'[c])
  <2>1. HeadKept(q[c], Append(q[c], PresenceFrame))
    BY AppendKeepsHead, FrameTypes DEF QueuesOK
  <2> QED BY <1>3, <2>1 DEF HeadKept
<1> QED BY <1>1, <1>2, <1>3, <1>4, <1>5, <1>7, <1>8, <1>9, <1>10 DEF RelayPost

(* A fan-out: every slot that survives it and is not skipped carries the frame. *)
LEMMA FanoutPost ==
    ASSUME NEW sess, SlotsOK(sess), NEW pres \in SUBSET Peers,
           NEW q, QueuesOK(q), NEW cl, SignalsOK(cl),
           NEW f \in Frames, NEW except,
           Fanout(sess, pres, q, cl, f, except)
    PROVE  RelayPost(sess, pres, q, cl, f.ups, except)
<1> DEFINE sent == TrySendAll(q, sess, f, except)
           failed == Refusing(q, sess, except)
<1>1. QueuesOK(sent)
  BY TrySendType
<1>2. \A c \in Conns : PeerOf[c] \in Peers /\ c # NoConn
  BY ConnAssumption DEF ConnAssumption
<1>3. ASSUME NEW c \in Conns
      PROVE  /\ Carried(q[c]) \subseteq Carried(sent[c])
             /\ Carried(sent[c]) \subseteq Carried(q[c]) \cup f.ups
             /\ sess[PeerOf[c]] # c => sent[c] = q[c]
             /\ HeadKept(q[c], sent[c])
  <2>1. q[c] \in Seq(Frames) /\ HeadKept(q[c], Append(q[c], f))
    BY AppendKeepsHead DEF QueuesOK
  <2>2. sent[c] = q[c] \/ (sess[PeerOf[c]] = c /\ sent[c] = Append(q[c], f))
    BY DEF TrySendAll
  <2>3. Carried(Append(q[c], f)) = Carried(q[c]) \cup f.ups
    BY <2>1, CarriedAppend
  <2> HIDE DEF sent
  <2> QED BY <2>1, <2>2, <2>3 DEF HeadKept
<1>4. ASSUME NEW c \in Conns, sess[PeerOf[c]] = c, PeerOf[c] \notin except,
             PeerOf[c] \notin failed
      PROVE  f.ups \subseteq Carried(sent[c])
  <2>1. q[c] \in Seq(Frames) /\ Len(q[c]) \in Nat /\ ChanCap \in Nat
    BY BoundAssumption, LenProperties DEF QueuesOK, BoundAssumption
  <2>2. Len(q[c]) < ChanCap
    BY <1>2, <1>4, <2>1 DEF Refusing
  <2>3. sent[c] = Append(q[c], f)
    BY <1>4, <2>2 DEF TrySendAll
  <2> QED BY <2>1, <2>3, CarriedAppend
<1>5. CASE failed = {}
  <2>1. sessions' = sess /\ presence' = pres /\ queue' = sent /\ close' = cl
    BY <1>5 DEF Fanout
  <2> HIDE DEF sent, failed
  <2> QED BY <1>1, <1>3, <1>4, <1>5, <2>1 DEF RelayPost
<1>6. CASE failed # {}
  <2>1. EvictFailed(sess, pres, sent, cl, failed)
    BY <1>6 DEF Fanout
  <2>2. \A p \in failed : sessions'[p] = NoConn
    BY <2>1 DEF EvictFailed, Refusing
  <2> HIDE DEF sent, failed
  <2>3. RelayPost(sess, pres, sent, cl, {}, except)
    BY <1>1, <2>1, EvictPost
  <2>4. \A c \in Conns : sessions'[PeerOf[c]] = c
                            => sess[PeerOf[c]] = c /\ PeerOf[c] \notin failed
    BY <1>2, <2>2, <2>3 DEF RelayPost
  <2>5. \A c \in Conns : HeadKept(q[c], queue'[c])
    BY <1>3, <2>3 DEF RelayPost, HeadKept
  <2> QED BY <1>3, <1>4, <2>3, <2>4, <2>5 DEF RelayPost
<1> QED BY <1>5, <1>6
-----------------------------------------------------------------------------
(***************************************************************************)
(* Type correctness: the relay's variables by RelayPost, the others action *)
(* by action.                                                              *)
(***************************************************************************)
RelayOK ==
    /\ SlotsOK(sessions) /\ presence \in SUBSET Peers
    /\ QueuesOK(queue) /\ SignalsOK(close)

TasksOK ==
    /\ pc \in [Conns -> PcStates]
    /\ job \in [Conns -> Updates \cup {NoUpdate}]
    /\ vv \in [Conns -> SUBSET Updates]
    /\ gen \in [Conns -> Nat] /\ nextGen \in Nat
    /\ inbox \in [Conns -> Seq(Updates)]

DocOK ==
    /\ imported \in SUBSET Updates /\ logged \in SUBSET Updates
    /\ snapshot \in Snapshots /\ dirty \in Nat
    /\ maintSnap \in SUBSET Snapshots /\ maintStamped \in BOOLEAN

ClientsOK ==
    /\ client \in [Peers -> Conns \cup {NoConn, Stopped}]
    /\ \A p \in Peers : client[p] \in Conns => PeerOf[client[p]] = p
    /\ handshake \in [Peers -> BOOLEAN] /\ ready \in SUBSET Peers
    /\ replica \in [Peers -> SUBSET Updates]
    /\ pending \in [Peers -> Seq(Updates)] /\ awaiting \in [Peers -> BOOLEAN]

(* The type invariant, by the component that owns each variable. *)
LEMMA TypeSplit == TypeOK <=> RelayOK /\ TasksOK /\ DocOK /\ ClientsOK
BY DEF TypeOK, RelayOK, TasksOK, DocOK, ClientsOK, SlotsOK, QueuesOK, SignalsOK

(* A room nobody has joined is well typed. *)
LEMMA TypeInit == Init => TypeOK
<1> SUFFICES ASSUME Init PROVE TypeOK
  OBVIOUS
<1>1. RelayOK
  BY EmptySeq DEF Init, RelayOK, SlotsOK, QueuesOK, SignalsOK
<1>2. TasksOK
  BY EmptySeq DEF Init, TasksOK, PcStates
<1>d. DocOK
  BY DEF Init, DocOK, Exported, Snapshots
<1>3. ClientsOK
  BY EmptySeq, ConnAssumption DEF Init, ClientsOK, ConnAssumption
<1> QED BY <1>1, <1>2, <1>d, <1>3, TypeSplit

(* A replica applies only what it was handed. *)
LEMMA AppliedSubset == \A S : Applied(S) \subseteq S
BY DEF Applied

(* A connection belongs to a peer and is none of the sentinels. *)
LEMMA PeerOfType == \A c \in Conns : PeerOf[c] \in Peers /\ c # NoConn /\ c # Stopped
BY ConnAssumption DEF ConnAssumption

(* The actions that go through the relay helpers, in terms of RelayPost. *)
LEMMA RelayActions ==
    ASSUME TypeOK
    PROVE  /\ \A c \in Conns : Join(c) =>
                RelayPost([sessions EXCEPT ![PeerOf[c]] = c],
                          presence \cup {PeerOf[c]},
                          [queue EXCEPT ![c] = Append(@, Welcome(Catchup(c)))],
                          close, {}, {})
           /\ \A c \in Conns : Leave(c) /\ Mine(c) =>
                RelayPost([sessions EXCEPT ![PeerOf[c]] = NoConn],
                          presence \ {PeerOf[c]},
                          [queue EXCEPT ![c] = << >>],
                          [close EXCEPT ![c] = "normal"], {}, {})
           /\ \A c \in Conns : FanoutUpdate(c) /\ job[c] \in Updates =>
                RelayPost(sessions, presence, queue, close, {job[c]}, {PeerOf[c]})
           /\ \A c \in Conns : HandlePresence(c) =>
                RelayPost(sessions, presence, queue, close, {}, {})
           /\ \A c \in Conns : RateLimited(c) =>
                RelayPost(sessions, presence, queue, close, {}, {})
           /\ \A gone \in SUBSET presence : SweepPresence(gone) =>
                RelayPost(sessions, presence, queue, close, {}, {})
<1>0. RelayOK /\ PresenceFrame.ups = {}
  BY TypeSplit DEF PresenceFrame
<1>u. RelayOK /\ UNCHANGED relayVars => RelayPost(sessions, presence, queue, close, {}, {})
  BY DEF RelayOK, relayVars, RelayPost, SlotsOK, QueuesOK, SignalsOK, HeadKept
<1>1. ASSUME NEW c \in Conns, Join(c)
      PROVE  RelayPost([sessions EXCEPT ![PeerOf[c]] = c], presence \cup {PeerOf[c]},
                       [queue EXCEPT ![c] = Append(@, Welcome(Catchup(c)))],
                       close, {}, {})
  <2> DEFINE s == [sessions EXCEPT ![PeerOf[c]] = c]
             q == [queue EXCEPT ![c] = Append(@, Welcome(Catchup(c)))]
  <2>1. SlotsOK(s)
    BY <1>0, PeerOfType DEF RelayOK, SlotsOK
  <2>2. QueuesOK(q)
    <3>1. Catchup(c) \in SUBSET Updates
      BY TypeSplit, AppliedSubset DEF Catchup, DocOK
    <3>2. queue[c] \in Seq(Frames) /\ Welcome(Catchup(c)) \in Frames
      BY <1>0, <3>1, FrameTypes DEF RelayOK, QueuesOK
    <3>3. Append(queue[c], Welcome(Catchup(c))) \in Seq(Frames)
      BY <3>2, AppendProperties
    <3> QED BY <1>0, <3>3 DEF RelayOK, QueuesOK
  <2>3. presence \cup {PeerOf[c]} \in SUBSET Peers /\ SignalsOK(close)
    BY <1>0, PeerOfType DEF RelayOK
  <2>4. Fanout(s, presence \cup {PeerOf[c]}, q, close, PresenceFrame, {})
    BY <1>1 DEF Join
  <2> HIDE DEF s, q
  <2>5. RelayPost(s, presence \cup {PeerOf[c]}, q, close, PresenceFrame.ups, {})
    BY <2>1, <2>2, <2>3, <2>4, FanoutPost, FrameTypes
  <2>6. RelayPost(s, presence \cup {PeerOf[c]}, q, close, {}, {})
    BY <1>0, <2>5
  <2> QED BY <2>6 DEF s, q
<1>2. ASSUME NEW c \in Conns, Leave(c), Mine(c)
      PROVE  RelayPost([sessions EXCEPT ![PeerOf[c]] = NoConn], presence \ {PeerOf[c]},
                       [queue EXCEPT ![c] = << >>], [close EXCEPT ![c] = "normal"],
                       {}, {})
  <2> DEFINE s == [sessions EXCEPT ![PeerOf[c]] = NoConn]
             q == [queue EXCEPT ![c] = << >>]
             cl == [close EXCEPT ![c] = "normal"]
  <2>1. SlotsOK(s) /\ QueuesOK(q) /\ SignalsOK(cl)
    BY <1>0, PeerOfType, EmptySeq DEF RelayOK, SlotsOK, QueuesOK, SignalsOK
  <2>2. presence \ {PeerOf[c]} \in SUBSET Peers
    BY <1>0 DEF RelayOK
  <2>3. Fanout(s, presence \ {PeerOf[c]}, q, cl, PresenceFrame, {})
    BY <1>2 DEF Leave
  <2> HIDE DEF s, q, cl
  <2>4. RelayPost(s, presence \ {PeerOf[c]}, q, cl, PresenceFrame.ups, {})
    BY <2>1, <2>2, <2>3, FanoutPost, FrameTypes
  <2>5. RelayPost(s, presence \ {PeerOf[c]}, q, cl, {}, {})
    BY <1>0, <2>4
  <2> QED BY <2>5 DEF s, q, cl
<1>3. ASSUME NEW c \in Conns, FanoutUpdate(c), job[c] \in Updates
      PROVE  RelayPost(sessions, presence, queue, close, {job[c]}, {PeerOf[c]})
  <2>1. UpdateFrame(job[c]) \in Frames /\ UpdateFrame(job[c]).ups = {job[c]}
    BY <1>3, FrameTypes DEF UpdateFrame
  <2>2. Fanout(sessions, presence, queue, close, UpdateFrame(job[c]), {PeerOf[c]})
    BY <1>3 DEF FanoutUpdate
  <2>3. RelayPost(sessions, presence, queue, close, UpdateFrame(job[c]).ups, {PeerOf[c]})
    BY <1>0, <2>1, <2>2, FanoutPost DEF RelayOK
  <2> QED BY <2>1, <2>3
<1>4. ASSUME NEW c \in Conns, HandlePresence(c)
      PROVE  RelayPost(sessions, presence, queue, close, {}, {})
  <2> DEFINE present == presence \cup {PeerOf[c]}
  <2>1. present \in SUBSET Peers
    BY <1>0, PeerOfType DEF RelayOK
  <2>2. CASE Fanout(sessions, present, queue, close, PresenceFrame, {})
    <3>1. RelayPost(sessions, present, queue, close, {}, {})
      <4>1. RelayPost(sessions, present, queue, close, PresenceFrame.ups, {})
        BY <1>0, <2>1, <2>2, FanoutPost, FrameTypes DEF RelayOK
      <4> QED BY <1>0, <4>1
    <3> QED BY <3>1 DEF RelayPost
  <2>3. CASE presence' = present /\ UNCHANGED <<sessions, queue, close>>
    BY <1>0, <2>1, <2>3 DEF RelayOK, RelayPost, SlotsOK, QueuesOK, SignalsOK, HeadKept
  <2> QED BY <1>4, <2>2, <2>3 DEF HandlePresence
<1>5. ASSUME NEW c \in Conns, RateLimited(c)
      PROVE  RelayPost(sessions, presence, queue, close, {}, {})
  <2>1. \/ EvictFailed(sessions, presence, queue, close, {PeerOf[c]})
        \/ UNCHANGED relayVars
    BY <1>5 DEF RateLimited
  <2> QED BY <1>0, <1>u, <2>1, EvictPost DEF RelayOK
<1>6. ASSUME NEW gone \in SUBSET presence, SweepPresence(gone)
      PROVE  RelayPost(sessions, presence, queue, close, {}, {})
  BY <1>0, <1>6, EvictPost DEF RelayOK, SweepPresence
<1> QED BY <1>1, <1>2, <1>3, <1>4, <1>5, <1>6

(* A session that handles an update knows which one. *)
HandlesUpdate == Holding \cup {"waiting", "receipt"}
JobOK == \A c \in Conns : pc[c] \in HandlesUpdate => job[c] \in Updates

(* The steps of a session or a client that leave the room alone. *)
LEMMA RelayUntouched ==
    ASSUME NEW c \in Conns,
           \/ Connect(c) \/ Send(c) \/ HandshakeFails(c) \/ LoopEnds(c)
           \/ ReadUpdate(c) \/ ReadOther(c) \/ AccessLost(c) \/ UpdateRefused(c)
           \/ Acquire(c) \/ AppendOk(c) \/ AppendFails(c) \/ Import(c)
           \/ SnapshotInUpdate(c) \/ Receipt(c) \/ HandleHeartbeat(c)
    PROVE  UNCHANGED relayVars
BY DEF Connect, Send, HandshakeFails, LoopEnds, ReadUpdate, ReadOther, AccessLost,
       UpdateRefused, Acquire, AppendOk, AppendFails, Import, SnapshotInUpdate,
       Receipt, HandleHeartbeat

(* The session map, roster, channels and signals keep their types. *)
LEMMA RelayStep == TypeOK /\ JobOK /\ [Next]_vars => RelayOK'
<1> SUFFICES ASSUME TypeOK, JobOK, [Next]_vars PROVE RelayOK'
  OBVIOUS
<1>0. RelayOK
  BY TypeSplit
<1>u. UNCHANGED relayVars => RelayOK'
  BY <1>0 DEF relayVars, RelayOK, SlotsOK, QueuesOK, SignalsOK
<1>p. ASSUME NEW s, NEW pr, NEW q, NEW cl, NEW ups, NEW except,
             RelayPost(s, pr, q, cl, ups, except)
      PROVE  RelayOK'
  BY <1>p DEF RelayPost, RelayOK, SlotsOK, QueuesOK, SignalsOK
<1>1. ASSUME NEW c \in Conns, Join(c) PROVE RelayOK'
  BY <1>1, <1>p, RelayActions
<1>2. ASSUME NEW c \in Conns, Deliver(c) PROVE RelayOK'
  <2>1. queue[c] \in Seq(Frames) /\ queue[c] # << >>
    BY <1>0, <1>2 DEF RelayOK, QueuesOK, Deliver
  <2>2. Tail(queue[c]) \in Seq(Frames)
    BY <2>1, HeadTailProperties
  <2>3. queue' = [queue EXCEPT ![c] = Tail(queue[c])]
        /\ UNCHANGED <<sessions, presence, close>>
    BY <1>2 DEF Deliver
  <2> QED BY <1>0, <2>2, <2>3 DEF RelayOK, SlotsOK, QueuesOK, SignalsOK
<1>3. ASSUME NEW c \in Conns, Leave(c) PROVE RelayOK'
  <2>1. CASE Mine(c)
    BY <1>3, <1>p, <2>1, RelayActions
  <2>2. CASE ~Mine(c)
    <3>1. /\ queue' = [queue EXCEPT ![c] = << >>] /\ close' = [close EXCEPT ![c] = "normal"]
          /\ sessions' = sessions /\ presence' = presence
      BY <1>3, <2>2 DEF Leave
    <3>2. /\ SlotsOK(sessions) /\ presence \in SUBSET Peers
          /\ QueuesOK(queue) /\ SignalsOK(close)
      BY <1>0 DEF RelayOK
    <3>3. QueuesOK(queue')
      BY <3>1, <3>2, EmptySeq DEF QueuesOK
    <3>4. SignalsOK(close')
      BY <3>1, <3>2 DEF SignalsOK
    <3> QED BY <3>1, <3>2, <3>3, <3>4 DEF RelayOK
  <2> QED BY <2>1, <2>2
<1>4. ASSUME NEW c \in Conns, FanoutUpdate(c) PROVE RelayOK'
  <2>1. job[c] \in Updates
    BY <1>4 DEF FanoutUpdate, JobOK, HandlesUpdate, Holding
  <2> QED BY <1>4, <1>p, <2>1, RelayActions
<1>5. ASSUME NEW c \in Conns, HandlePresence(c) PROVE RelayOK'
  BY <1>5, <1>p, RelayActions
<1>6. ASSUME NEW c \in Conns, RateLimited(c) PROVE RelayOK'
  BY <1>6, <1>p, RelayActions
<1>7. ASSUME NEW gone \in SUBSET presence, SweepPresence(gone) PROVE RelayOK'
  BY <1>7, <1>p, RelayActions
<1>8. CASE Crash
  BY <1>8, EmptySeq DEF Crash, RelayOK, SlotsOK, QueuesOK, SignalsOK
<1>9. CASE \/ \E p \in Peers, u \in Updates : LocalEdit(p, u)
           \/ \E p \in Peers : ClientClose(p)
           \/ MaintSnapshotBegin \/ MaintSnapshotStamp \/ MaintSnapshotEnd \/ UNCHANGED vars
  BY <1>9, <1>u DEF LocalEdit, ClientClose, MaintSnapshotBegin, MaintSnapshotStamp,
     MaintSnapshotEnd, vars
<1> QED BY <1>1, <1>2, <1>3, <1>4, <1>5, <1>6, <1>7, <1>8, <1>9, <1>u, RelayUntouched
        DEF Next, SessionStep

(* An update the relay reads from a socket is one a client sent. *)
LEMMA TasksStep == TypeOK /\ JobOK /\ [Next]_vars => TasksOK' /\ JobOK'
<1> SUFFICES ASSUME TypeOK, JobOK, [Next]_vars PROVE TasksOK' /\ JobOK'
  OBVIOUS
<1>0. TasksOK /\ DocOK /\ ClientsOK
  BY TypeSplit
<1>p. HandlesUpdate = {"append", "import", "snap", "fanout", "waiting", "receipt"}
  BY DEF HandlesUpdate, Holding
<1>q. PcStates = {"idle", "hello", "closed", "loop", "leaving", "waiting", "receipt",
                  "presence", "heartbeat", "flood", "append", "import", "snap",
                  "fanout"}
  BY DEF PcStates, InSession, InMessage, Holding
<1>u. UNCHANGED <<pc, job, vv, gen, nextGen, inbox>> => TasksOK' /\ JobOK'
  BY <1>0 DEF TasksOK, JobOK
<1>1. ASSUME NEW c \in Conns, Connect(c) PROVE TasksOK' /\ JobOK'
  <2>1. Applied(replica[PeerOf[c]]) \in SUBSET Updates
    BY <1>0, PeerOfType, AppliedSubset DEF ClientsOK
  <2> QED BY <1>0, <1>1, <1>p, <1>q, <2>1 DEF Connect, Goto, TasksOK, JobOK
<1>2. ASSUME NEW c \in Conns, Send(c) PROVE TasksOK' /\ JobOK'
  <2> DEFINE b == Head(pending[PeerOf[c]])
  <2>1. pending[PeerOf[c]] \in Seq(Updates) /\ pending[PeerOf[c]] # << >>
    BY <1>0, <1>2, PeerOfType DEF ClientsOK, Send
  <2>2. b \in Updates
    BY <2>1, HeadTailProperties
  <2>3. inbox[c] \in Seq(Updates)
    BY <1>0 DEF TasksOK
  <2> HIDE DEF b
  <2>4. Append(inbox[c], b) \in Seq(Updates)
    BY <2>2, <2>3, AppendProperties
  <2>5. inbox' = [inbox EXCEPT ![c] = Append(inbox[c], b)]
        /\ UNCHANGED <<pc, job, vv, gen, nextGen>>
    BY <1>2 DEF Send, taskVars, helloVars, b
  <2> QED BY <1>0, <2>4, <2>5 DEF TasksOK, JobOK
<1>3. ASSUME NEW c \in Conns, Join(c) PROVE TasksOK' /\ JobOK'
  BY <1>0, <1>3, <1>p, <1>q DEF Join, Goto, TasksOK, JobOK
<1>4. ASSUME NEW c \in Conns, HandshakeFails(c) PROVE TasksOK' /\ JobOK'
  BY <1>0, <1>4, <1>p, <1>q DEF HandshakeFails, Goto, TasksOK, JobOK
<1>5. ASSUME NEW c \in Conns, Leave(c) PROVE TasksOK' /\ JobOK'
  BY <1>0, <1>5, <1>p, <1>q, EmptySeq DEF Leave, Goto, TasksOK, JobOK
<1>6. ASSUME NEW c \in Conns, ReadUpdate(c) PROVE TasksOK' /\ JobOK'
  <2>1. inbox[c] \in Seq(Updates) /\ inbox[c] # << >>
    BY <1>0, <1>6 DEF TasksOK, ReadUpdate
  <2>2. Head(inbox[c]) \in Updates /\ Tail(inbox[c]) \in Seq(Updates)
    BY <2>1, HeadTailProperties
  <2> QED BY <1>0, <1>6, <1>p, <1>q, <2>2 DEF ReadUpdate, Goto, TasksOK, JobOK,
             helloVars
<1>7. ASSUME NEW c \in Conns, ReadOther(c) PROVE TasksOK' /\ JobOK'
  BY <1>0, <1>7, <1>p, <1>q DEF ReadOther, Goto, TasksOK, JobOK, helloVars
<1>8. ASSUME NEW c \in Conns, LoopEnds(c) \/ HandleHeartbeat(c)
      PROVE  TasksOK' /\ JobOK'
  BY <1>0, <1>8, <1>p, <1>q
     DEF LoopEnds, HandleHeartbeat, Goto, TasksOK, JobOK, helloVars
<1>9. ASSUME NEW c \in Conns, RateLimited(c) \/ HandlePresence(c)
      PROVE  TasksOK' /\ JobOK'
  BY <1>0, <1>9, <1>p, <1>q
     DEF RateLimited, HandlePresence, Goto, TasksOK, JobOK, helloVars
<1>10. ASSUME NEW c \in Conns, AccessLost(c) \/ UpdateRefused(c) \/ AppendFails(c)
       PROVE  TasksOK' /\ JobOK'
  BY <1>0, <1>10, <1>p, <1>q
     DEF AccessLost, UpdateRefused, AppendFails, Goto, TasksOK, JobOK, helloVars
<1>11. ASSUME NEW c \in Conns, Receipt(c)
       PROVE  TasksOK' /\ JobOK'
  BY <1>0, <1>11, <1>p, <1>q DEF Receipt, Goto, TasksOK, JobOK, helloVars
<1>12. ASSUME NEW c \in Conns, Acquire(c) \/ AppendOk(c) \/ Import(c)
                               \/ SnapshotInUpdate(c) \/ FanoutUpdate(c)
       PROVE  TasksOK' /\ JobOK'
  BY <1>0, <1>12, <1>p, <1>q
     DEF Acquire, AppendOk, Import, SnapshotInUpdate, FanoutUpdate, Goto, TasksOK,
         JobOK, helloVars
<1>13. CASE Crash
  BY <1>0, <1>13, <1>p, <1>q, EmptySeq DEF Crash, TasksOK, JobOK
<1>14. CASE \/ \E p \in Peers, u \in Updates : LocalEdit(p, u)
            \/ \E p \in Peers : ClientClose(p)
            \/ \E c \in Conns : Deliver(c)
            \/ \E gone \in SUBSET presence : SweepPresence(gone)
            \/ MaintSnapshotBegin \/ MaintSnapshotStamp \/ MaintSnapshotEnd \/ UNCHANGED vars
  BY <1>14, <1>u DEF LocalEdit, ClientClose, Deliver, SweepPresence,
     MaintSnapshotBegin, MaintSnapshotStamp, MaintSnapshotEnd, vars, taskVars, helloVars
<1> QED BY <1>1, <1>2, <1>3, <1>4, <1>5, <1>6, <1>7, <1>8, <1>9, <1>10, <1>11, <1>12,
           <1>13, <1>14 DEF Next, SessionStep

(* The steps that leave authority, log and snapshot store alone. *)
LEMMA DocUntouched ==
    ASSUME NEW c \in Conns,
           \/ Connect(c) \/ Send(c) \/ HandshakeFails(c) \/ LoopEnds(c)
           \/ Join(c) \/ Deliver(c) \/ Leave(c)
           \/ ReadUpdate(c) \/ ReadOther(c) \/ AccessLost(c) \/ UpdateRefused(c)
           \/ Acquire(c) \/ FanoutUpdate(c) \/ Receipt(c) \/ HandlePresence(c)
           \/ HandleHeartbeat(c) \/ RateLimited(c)
    PROVE  UNCHANGED docVars
BY DEF Connect, Send, HandshakeFails, LoopEnds, Join, Deliver, Leave, ReadUpdate,
       ReadOther, AccessLost, UpdateRefused, Acquire, FanoutUpdate, Receipt,
       HandlePresence, HandleHeartbeat, RateLimited

(* The store's new latest snapshot is its old one or the one that was put. *)
LEMMA PutCases ==
    ASSUME NEW snap, Put(snap)
    PROVE  /\ snapshot' = snapshot \/ snapshot' = snap
           /\ dirty' = dirty \/ dirty' = 0
BY DEF Put, PickNewer

(* The authority, the log, the snapshots and the dirty counter keep their types. *)
LEMMA DocStep == TypeOK /\ JobOK /\ [Next]_vars => DocOK'
<1> SUFFICES ASSUME TypeOK, JobOK, [Next]_vars PROVE DocOK'
  OBVIOUS
<1>0. DocOK /\ Applied(imported) \in SUBSET Updates
      /\ Exported(Applied(imported)) \in Snapshots
  BY TypeSplit, AppliedSubset DEF DocOK, Exported, Snapshots
<1>u. UNCHANGED docVars => DocOK'
  BY <1>0 DEF docVars, maintVars, DocOK
<1>1. ASSUME NEW c \in Conns, AppendOk(c) \/ AppendFails(c) \/ Import(c) PROVE DocOK'
  <2>1. job[c] \in Updates
    BY <1>1 DEF AppendOk, AppendFails, Import, JobOK, HandlesUpdate, Holding
  <2> QED BY <1>0, <1>1, <2>1 DEF AppendOk, AppendFails, Logs, Import, DocOK,
             maintVars
<1>2. ASSUME NEW c \in Conns, SnapshotInUpdate(c) PROVE DocOK'
  <2>1. Put(Exported(Applied(imported)))
        /\ UNCHANGED <<imported, logged, maintSnap, maintStamped>>
    BY <1>2 DEF SnapshotInUpdate, maintVars
  <2> QED BY <1>0, <2>1, PutCases DEF DocOK
<1>3. CASE MaintSnapshotBegin
  BY <1>0, <1>3 DEF MaintSnapshotBegin, DocOK
<1>s. CASE MaintSnapshotStamp
  <2>1. \A s \in maintSnap : [s EXCEPT !.vv = Applied(imported)] \in Snapshots
    BY <1>0 DEF DocOK, Snapshots
  <2> QED BY <1>0, <1>s, <2>1 DEF MaintSnapshotStamp, DocOK
<1>4. CASE MaintSnapshotEnd
  <2>1. PICK snap \in maintSnap : Put(snap)
    BY <1>4 DEF MaintSnapshotEnd
  <2>2. snap \in Snapshots /\ maintSnap' = {} /\ maintStamped' = FALSE
        /\ UNCHANGED <<imported, logged>>
    BY <1>0, <1>4 DEF DocOK, MaintSnapshotEnd
  <2>3. /\ snapshot' = snapshot \/ snapshot' = snap
        /\ dirty' = dirty \/ dirty' = 0
    BY <2>1, PutCases
  <2>4. snapshot' \in Snapshots /\ dirty' \in Nat
    BY <1>0, <2>2, <2>3 DEF DocOK
  <2>5. imported' = imported /\ logged' = logged
    BY <2>2
  <2> QED BY <1>0, <2>2, <2>4, <2>5 DEF DocOK
<1>5. CASE Crash
  <2>1. snapshot.bytes \in SUBSET Updates
    BY <1>0 DEF DocOK, Snapshots
  <2> QED BY <1>0, <1>5, <2>1 DEF Crash, Hydrate, DocOK
<1>6. CASE \/ \E p \in Peers, u \in Updates : LocalEdit(p, u)
           \/ \E p \in Peers : ClientClose(p)
           \/ \E gone \in SUBSET presence : SweepPresence(gone)
           \/ UNCHANGED vars
  BY <1>6, <1>u DEF LocalEdit, ClientClose, SweepPresence, vars
<1> QED BY <1>1, <1>2, <1>3, <1>s, <1>4, <1>5, <1>6, <1>u, DocUntouched DEF Next,
           SessionStep

(* A client that leaves its socket keeps its document. *)
LEMMA DetachType ==
    ASSUME ClientsOK, NEW p \in Peers, NEW to \in {NoConn, Stopped}, Detach(p, to)
    PROVE  ClientsOK'
BY ConnAssumption DEF Detach, ClientsOK, ConnAssumption

(* A client that is told an error is off its socket, or already was. *)
LEMMA ClientErrorType ==
    ASSUME ClientsOK, NEW c \in Conns, NEW to \in {NoConn, Stopped},
           ClientError(c, to) \/ Detach(PeerOf[c], to) \/ UNCHANGED clientVars
    PROVE  ClientsOK'
<1>1. CASE Detach(PeerOf[c], to)
  BY <1>1, DetachType, PeerOfType
<1>2. CASE UNCHANGED clientVars
  BY <1>2 DEF clientVars, ClientsOK
<1> QED BY <1>1, <1>2 DEF ClientError

(* A frame of a channel leaves the client's variables well typed. *)
LEMMA ReceiveType ==
    ASSUME ClientsOK, NEW c \in Conns, NEW f \in Frames, Receive(PeerOf[c], f)
    PROVE  ClientsOK'
<1>1. f.ups \in SUBSET Updates
  BY DEF Frames, PresenceFrame
<1>2. CASE f.kind = "welcome" \/ (f.kind = "update" /\ handshake[PeerOf[c]])
  <2>1. /\ replica' = [replica EXCEPT ![PeerOf[c]] = @ \cup f.ups]
        /\ UNCHANGED <<client, pending, awaiting>>
        /\ \/ UNCHANGED <<handshake, ready>>
           \/ /\ handshake' = [handshake EXCEPT ![PeerOf[c]] = TRUE]
              /\ ready' = ready \cup {PeerOf[c]}
    BY <1>2 DEF Receive
  <2>2. replica' \in [Peers -> SUBSET Updates]
    BY <1>1, <2>1, PeerOfType DEF ClientsOK
  <2>3. handshake' \in [Peers -> BOOLEAN] /\ ready' \in SUBSET Peers
    <3>1. handshake \in [Peers -> BOOLEAN] /\ ready \in SUBSET Peers
      BY DEF ClientsOK
    <3>2. PeerOf[c] \in Peers
      BY PeerOfType
    <3>3. CASE UNCHANGED <<handshake, ready>>
      BY <3>1, <3>3
    <3>4. CASE /\ handshake' = [handshake EXCEPT ![PeerOf[c]] = TRUE]
               /\ ready' = ready \cup {PeerOf[c]}
      <4>1. handshake' \in [Peers -> BOOLEAN]
        BY <3>1, <3>2, <3>4
      <4>2. ready' \in SUBSET Peers
        BY <3>1, <3>2, <3>4
      <4> QED BY <4>1, <4>2
    <3> QED BY <2>1, <3>3, <3>4
  <2> QED BY <2>1, <2>2, <2>3 DEF ClientsOK
<1>3. CASE ~(f.kind = "welcome" \/ (f.kind = "update" /\ handshake[PeerOf[c]]))
  <2>1. Detach(PeerOf[c], Stopped) \/ UNCHANGED clientVars
    BY <1>3 DEF Receive
  <2> QED BY <2>1, ClientErrorType
<1> QED BY <1>2, <1>3

(* Sockets, replicas and pending batches of the clients keep their types. *)
LEMMA ClientsStep == TypeOK /\ JobOK /\ [Next]_vars => ClientsOK'
<1> SUFFICES ASSUME TypeOK, JobOK, [Next]_vars PROVE ClientsOK'
  OBVIOUS
<1>0. ClientsOK /\ RelayOK
  BY TypeSplit
<1>u. UNCHANGED clientVars => ClientsOK'
  BY <1>0 DEF clientVars, ClientsOK
<1>1. ASSUME NEW p \in Peers, NEW u \in Updates, LocalEdit(p, u) PROVE ClientsOK'
  <2>1. Append(pending[p], u) \in Seq(Updates)
    BY <1>0, AppendProperties DEF ClientsOK
  <2>2. /\ replica' = [replica EXCEPT ![p] = @ \cup {u}]
        /\ pending' = [pending EXCEPT ![p] = Append(pending[p], u)]
        /\ UNCHANGED <<client, handshake, ready, awaiting>>
    BY <1>1 DEF LocalEdit
  <2>3. replica' \in [Peers -> SUBSET Updates] /\ pending' \in [Peers -> Seq(Updates)]
    BY <1>0, <2>1, <2>2 DEF ClientsOK
  <2> QED BY <1>0, <2>2, <2>3 DEF ClientsOK
<1>2. ASSUME NEW p \in Peers, ClientClose(p) PROVE ClientsOK'
  BY <1>0, <1>2, DetachType DEF ClientClose
<1>3. ASSUME NEW c \in Conns, Connect(c) PROVE ClientsOK'
  BY <1>0, <1>3, PeerOfType DEF Connect, ClientsOK
<1>4. ASSUME NEW c \in Conns, Send(c) \/ Receipt(c) PROVE ClientsOK'
  <2> DEFINE p == PeerOf[c]
  <2>1. p \in Peers /\ pending[p] \in Seq(Updates)
    BY <1>0, PeerOfType DEF ClientsOK
  <2>2. pending[p] # << >> => Tail(pending[p]) \in Seq(Updates)
    BY <2>1, HeadTailProperties
  <2>3. /\ UNCHANGED <<client, handshake, ready, replica>>
        /\ \/ UNCHANGED pending
           \/ pending[p] # << >> /\ pending' = [pending EXCEPT ![p] = Tail(pending[p])]
        /\ \/ UNCHANGED awaiting
           \/ \E b \in BOOLEAN : awaiting' = [awaiting EXCEPT ![p] = b]
    BY <1>4 DEF Send, Receipt
  <2> HIDE DEF p
  <2>4. pending' \in [Peers -> Seq(Updates)]
    BY <1>0, <2>1, <2>2, <2>3 DEF ClientsOK
  <2>5. awaiting' \in [Peers -> BOOLEAN]
    BY <1>0, <2>1, <2>3 DEF ClientsOK
  <2> QED BY <1>0, <2>3, <2>4, <2>5 DEF ClientsOK
<1>5. ASSUME NEW c \in Conns, Deliver(c) PROVE ClientsOK'
  <2>1. queue[c] \in Seq(Frames) /\ queue[c] # << >>
    BY <1>0, <1>5 DEF RelayOK, QueuesOK, Deliver
  <2>2. Head(queue[c]) \in Frames
    BY <2>1, HeadTailProperties
  <2>3. Receive(PeerOf[c], Head(queue[c])) \/ UNCHANGED clientVars
    BY <1>5 DEF Deliver
  <2> QED BY <1>0, <1>u, <2>2, <2>3, ReceiveType
<1>6. ASSUME NEW c \in Conns,
             \/ HandshakeFails(c) \/ LoopEnds(c) \/ AccessLost(c)
             \/ UpdateRefused(c) \/ AppendFails(c) \/ RateLimited(c)
      PROVE  ClientsOK'
  <2>1. ClientError(c, NoConn) \/ ClientError(c, Stopped)
    BY <1>6 DEF HandshakeFails, LoopEnds, AccessLost, UpdateRefused, AppendFails,
                RateLimited
  <2> QED BY <1>0, <2>1, ClientErrorType
<1>7. ASSUME NEW c \in Conns,
             \/ Join(c) \/ Leave(c) \/ ReadUpdate(c) \/ ReadOther(c) \/ Acquire(c)
             \/ AppendOk(c) \/ Import(c) \/ SnapshotInUpdate(c) \/ FanoutUpdate(c)
             \/ HandlePresence(c) \/ HandleHeartbeat(c)
      PROVE  ClientsOK'
  BY <1>7, <1>u DEF Join, Leave, ReadUpdate, ReadOther, Acquire, AppendOk, Import,
     SnapshotInUpdate, FanoutUpdate, HandlePresence, HandleHeartbeat
<1>8. CASE \/ \E gone \in SUBSET presence : SweepPresence(gone)
           \/ MaintSnapshotBegin \/ MaintSnapshotStamp \/ MaintSnapshotEnd \/ UNCHANGED vars
  BY <1>8, <1>u DEF SweepPresence, MaintSnapshotBegin, MaintSnapshotStamp,
     MaintSnapshotEnd, vars
<1>9. CASE Crash
  BY <1>0, <1>9, ConnAssumption DEF Crash, ClientsOK, ConnAssumption
<1> QED BY <1>1, <1>2, <1>3, <1>4, <1>5, <1>6, <1>7, <1>8, <1>9 DEF Next, SessionStep

(* Type correctness of the room, its sessions and their clients: every          *)
(* variable keeps its type, a slot of DocRoom::sessions only ever holds a       *)
(* session of its own peer id, and a session handling an update holds one.      *)
THEOREM TypeCorrect == Spec => [](TypeOK /\ JobOK)
<1>1. Init => TypeOK /\ JobOK
  BY TypeInit DEF Init, JobOK, HandlesUpdate, Holding
<1>2. TypeOK /\ JobOK /\ [Next]_vars => TypeOK' /\ JobOK'
  <2>1. RelayOK' /\ TasksOK' /\ DocOK' /\ ClientsOK' => TypeOK'
    BY DEF TypeOK, RelayOK, TasksOK, DocOK, ClientsOK, SlotsOK, QueuesOK, SignalsOK
  <2> QED BY <2>1, RelayStep, TasksStep, DocStep, ClientsStep
<1> QED BY <1>1, <1>2, PTL DEF Spec

-----------------------------------------------------------------------------
(***************************************************************************)
(* Sessions.  LiveOrSignalled is not inductive alone: a stale leave is     *)
(* harmless because generations tell session tasks apart, and a slot can   *)
(* only be lost by an eviction, which signals its owner.                   *)
(***************************************************************************)

(* Tasks between join and leave have generations of their own. *)
Generations ==
    /\ \A c \in Conns : pc[c] \in InSession => gen[c] <= nextGen
    /\ \A c, d \in Conns : pc[c] \in InSession /\ pc[d] \in InSession /\ gen[c] = gen[d]
                               => c = d

(* The session map only holds tasks that have not left, and their peers are *)
(* in the presence roster.                                                  *)
SlotsLive ==
    \A p \in Peers : sessions[p] # NoConn =>
        pc[sessions[p]] \in InSession /\ p \in presence

SessionInv == Generations /\ SlotsLive /\ LiveOrSignalled

(* A step of one task that keeps it in its session and leaves generations alone. *)
Inside(c) ==
    /\ pc[c] \in InSession /\ pc'[c] \in InSession
    /\ \A d \in Conns : d # c => pc'[d] = pc[d]
    /\ UNCHANGED <<gen, nextGen>>

(* The states between join and leave, spelled out. *)
LEMMA InSessionNames ==
    InSession = {"loop", "leaving", "waiting", "receipt", "presence", "heartbeat",
                 "flood", "append", "import", "snap", "fanout"}
BY DEF InSession, InMessage, Holding

(* Every step of a task between join and leave but the last is Inside. *)
LEMMA InsideActions ==
    ASSUME TypeOK, NEW c \in Conns,
           \/ LoopEnds(c) \/ ReadUpdate(c) \/ ReadOther(c) \/ AccessLost(c)
           \/ UpdateRefused(c) \/ Acquire(c) \/ AppendOk(c) \/ AppendFails(c)
           \/ Import(c) \/ SnapshotInUpdate(c) \/ FanoutUpdate(c) \/ Receipt(c)
           \/ HandlePresence(c) \/ HandleHeartbeat(c) \/ RateLimited(c)
    PROVE  Inside(c)
<1>1. \E l \in InSession : pc[c] \in InSession /\ Goto(c, l)
  BY InSessionNames DEF LoopEnds, ReadUpdate, ReadOther, AccessLost, UpdateRefused,
     Acquire, AppendOk, AppendFails, Import, SnapshotInUpdate, FanoutUpdate, Receipt,
     HandlePresence, HandleHeartbeat, RateLimited, CanRead
<1>2. UNCHANGED <<gen, nextGen>>
  BY DEF LoopEnds, ReadUpdate, ReadOther, AccessLost, UpdateRefused,
     Acquire, AppendOk, AppendFails, Import, SnapshotInUpdate, FanoutUpdate, Receipt,
     HandlePresence, HandleHeartbeat, RateLimited, helloVars
<1> QED BY <1>1, <1>2 DEF Inside, Goto, TypeOK

(* Such a step, and one of nobody's, keeps the invariant if the relay was left  *)
(* alone or went through a fan-out or an eviction.                              *)
LEMMA InsideStep ==
    ASSUME TypeOK, SessionInv,
           \/ UNCHANGED <<pc, gen, nextGen>>
           \/ \E c \in Conns : Inside(c),
           \/ UNCHANGED <<sessions, presence, close>>
           \/ \E ups, except :
                  RelayPost(sessions, presence, queue, close, ups, except)
    PROVE  SessionInv'
<1>1. UNCHANGED <<gen, nextGen>>
      /\ \A d \in Conns : pc'[d] \in InSession <=> pc[d] \in InSession
  BY DEF Inside
<1>2. Generations'
  BY <1>1 DEF SessionInv, Generations
<1>3. /\ \A p \in Peers : sessions'[p] = sessions[p] \/ sessions'[p] = NoConn
      /\ \A p \in Peers : sessions'[p] # NoConn /\ p \in presence => p \in presence'
      /\ \A c \in Conns : close'[c] = close[c] \/ close'[c] = "resync"
      /\ \A c \in Conns : sessions[PeerOf[c]] = c /\ sessions'[PeerOf[c]] # c
                             => close'[c] = "resync"
  BY DEF RelayPost
<1>4. SlotsLive'
  <2>1. sessions \in [Peers -> Conns \cup {NoConn}]
    BY DEF TypeOK
  <2> QED BY <1>1, <1>3, <2>1 DEF SessionInv, SlotsLive
<1>5. LiveOrSignalled'
  BY <1>1, <1>3 DEF SessionInv, LiveOrSignalled, Registered
<1> QED BY <1>2, <1>4, <1>5 DEF SessionInv

(* join, for a peer that has no slot. *)
LEMMA JoinStep ==
    ASSUME TypeOK, SessionInv, NEW c \in Conns, Join(c)
    PROVE  SessionInv'
<1> DEFINE p == PeerOf[c]
           s == [sessions EXCEPT ![p] = c]
           q == [queue EXCEPT ![c] = Append(@, Welcome(Catchup(c)))]
<1>1. RelayPost(s, presence \cup {p}, q, close, {}, {})
  BY RelayActions
<1>2. p \in Peers /\ c # NoConn /\ sessions \in [Peers -> Conns \cup {NoConn}]
      /\ pc \in [Conns -> PcStates] /\ gen \in [Conns -> Nat] /\ nextGen \in Nat
  BY PeerOfType DEF TypeOK
<1>3. /\ pc[c] = "hello" /\ sessions[p] = NoConn
      /\ pc' = [pc EXCEPT ![c] = "loop"]
      /\ nextGen' = nextGen + 1 /\ gen' = [gen EXCEPT ![c] = nextGen + 1]
  BY DEF Join, CanJoin, Goto
<1>4. pc[c] \notin InSession /\ pc'[c] \in InSession
  BY <1>2, <1>3, InSessionNames
<1>5. s[p] = c /\ \A r \in Peers : r # p => s[r] = sessions[r]
  BY <1>2
<1> HIDE DEF s, q, p
<1>6. Generations'
  BY <1>2, <1>3, <1>4 DEF SessionInv, Generations
<1>7. SlotsLive'
  BY <1>1, <1>2, <1>3, <1>4, <1>5 DEF SessionInv, SlotsLive, RelayPost
<1>8. LiveOrSignalled'
  <2>1. ASSUME NEW d \in Conns, pc'[d] \in InSession
        PROVE  Registered(d)' \/ close'[d] = "resync"
    <3>1. PeerOf[d] \in Peers
      BY PeerOfType
    <3>2. CASE d = c
      BY <1>1, <1>5, <3>2 DEF RelayPost, Registered, p
    <3>3. CASE d # c
      <4>1. pc[d] \in InSession
        BY <1>2, <1>3, <2>1, <3>3
      <4>2. Registered(d) \/ close[d] = "resync"
        BY <4>1 DEF SessionInv, LiveOrSignalled
      <4>3. Registered(d) => s[PeerOf[d]] = d
        BY <1>3, <1>5, <3>1, PeerOfType DEF Registered
      <4> QED BY <1>1, <4>2, <4>3 DEF RelayPost, Registered
    <3> QED BY <3>2, <3>3
  <2> QED BY <2>1 DEF LiveOrSignalled
<1> QED BY <1>6, <1>7, <1>8 DEF SessionInv

(* leave: thanks to the generations, a session that is Mine is my own. *)
LEMMA LeaveStep ==
    ASSUME TypeOK, SessionInv, NEW c \in Conns, Leave(c)
    PROVE  SessionInv'
<1> DEFINE p == PeerOf[c]
           s == [sessions EXCEPT ![p] = NoConn]
           q == [queue EXCEPT ![c] = << >>]
           cl == [close EXCEPT ![c] = "normal"]
<1>1. p \in Peers /\ c # NoConn /\ sessions \in [Peers -> Conns \cup {NoConn}]
      /\ pc \in [Conns -> PcStates] /\ close \in [Conns -> {"normal", "resync"}]
      /\ gen \in [Conns -> Nat]
  BY PeerOfType DEF TypeOK
<1>2. /\ pc[c] = "leaving" /\ pc' = [pc EXCEPT ![c] = "closed"]
      /\ gen' = [gen EXCEPT ![c] = 0] /\ nextGen' = nextGen
  BY DEF Leave, Goto
<1>3. pc[c] \in InSession /\ pc'[c] \notin InSession
      /\ \A d \in Conns : d # c => pc'[d] = pc[d] /\ gen'[d] = gen[d]
  BY <1>1, <1>2, InSessionNames
<1>4. Generations'
  BY <1>2, <1>3 DEF SessionInv, Generations
<1>5. CASE Mine(c)
  <2>1. RelayPost(s, presence \ {p}, q, cl, {}, {})
    BY <1>5, RelayActions
  <2>2. sessions[p] = c
    BY <1>1, <1>3, <1>5 DEF Mine, SessionInv, SlotsLive, Generations
  <2>3. s[p] = NoConn /\ (\A r \in Peers : r # p => s[r] = sessions[r])
        /\ (\A d \in Conns : d # c => cl[d] = close[d])
    BY <1>1
  <2> HIDE DEF s, q, p, cl
  <2>4. \A r \in Peers : sessions'[r] # NoConn => r # p /\ sessions'[r] = sessions[r]
    BY <2>1, <2>3 DEF RelayPost
  <2>5. \A r \in Peers : sessions'[r] # NoConn =>
            sessions'[r] # c /\ sessions'[r] \in Conns /\ PeerOf[sessions[r]] = r
    BY <1>1, <2>4 DEF TypeOK, p
  <2>6. SlotsLive'
    BY <1>3, <2>1, <2>4, <2>5 DEF SessionInv, SlotsLive, RelayPost
  <2>7. ASSUME NEW d \in Conns, pc'[d] \in InSession
        PROVE  Registered(d)' \/ close'[d] = "resync"
    <3>1. d # c /\ pc[d] \in InSession /\ PeerOf[d] \in Peers
      BY <1>3, <2>7, PeerOfType
    <3>2. Registered(d) \/ close[d] = "resync"
      BY <3>1 DEF SessionInv, LiveOrSignalled
    <3>3. Registered(d) => s[PeerOf[d]] = d
      BY <2>2, <2>3, <3>1 DEF Registered
    <3> QED BY <2>1, <2>3, <3>1, <3>2, <3>3 DEF RelayPost, Registered
  <2>8. LiveOrSignalled'
    BY <2>7 DEF LiveOrSignalled
  <2> QED BY <1>4, <2>6, <2>8 DEF SessionInv
<1>6. CASE ~Mine(c)
  <2>1. UNCHANGED <<sessions, presence>> /\ close' = cl
    BY <1>6 DEF Leave
  <2>2. sessions[p] # c
    BY <1>1, <1>6 DEF Mine
  <2>3. \A r \in Peers : sessions[r] # c
    BY <1>1, <2>2 DEF TypeOK
  <2>4. SlotsLive'
    BY <1>1, <1>3, <2>1, <2>3 DEF SessionInv, SlotsLive
  <2>5. LiveOrSignalled'
    BY <1>1, <1>3, <2>1 DEF SessionInv, LiveOrSignalled, Registered
  <2> QED BY <1>4, <2>4, <2>5 DEF SessionInv
<1> QED BY <1>5, <1>6

(* The session invariant is inductive: join draws a fresh generation, leave is  *)
(* fenced by it, and everybody else only takes slots away with a resync signal. *)
LEMMA SessionStepInv == TypeOK /\ JobOK /\ SessionInv /\ [Next]_vars => SessionInv'
<1> SUFFICES ASSUME TypeOK, JobOK, SessionInv, [Next]_vars PROVE SessionInv'
  OBVIOUS
<1>t. pc \in [Conns -> PcStates]
  BY DEF TypeOK
<1>1. ASSUME NEW c \in Conns, Join(c) PROVE SessionInv'
  BY <1>1, JoinStep
<1>2. ASSUME NEW c \in Conns, Leave(c) PROVE SessionInv'
  BY <1>2, LeaveStep
<1>3. ASSUME NEW c \in Conns, Connect(c) \/ HandshakeFails(c) PROVE SessionInv'
  <2>1. UNCHANGED <<gen, nextGen>> /\ UNCHANGED relayVars
        /\ pc[c] \notin InSession /\ \E l \in {"hello", "closed"} : Goto(c, l)
    BY <1>3, InSessionNames DEF Connect, HandshakeFails
  <2>2. \A d \in Conns : pc'[d] \in InSession <=> pc[d] \in InSession
    BY <1>t, <2>1, InSessionNames DEF Goto
  <2>3. sessions \in [Peers -> Conns \cup {NoConn}]
    BY DEF TypeOK
  <2> QED BY <2>1, <2>2, <2>3 DEF SessionInv, Generations, SlotsLive, LiveOrSignalled,
                                   Registered, relayVars
<1>4. ASSUME NEW c \in Conns,
             \/ LoopEnds(c) \/ ReadUpdate(c) \/ ReadOther(c) \/ AccessLost(c)
             \/ UpdateRefused(c) \/ Acquire(c) \/ AppendOk(c) \/ AppendFails(c)
             \/ Import(c) \/ SnapshotInUpdate(c) \/ Receipt(c) \/ HandleHeartbeat(c)
      PROVE  SessionInv'
  <2>1. Inside(c)
    BY <1>4, InsideActions
  <2>2. UNCHANGED relayVars
    BY <1>4, RelayUntouched
  <2> QED BY <2>1, <2>2, InsideStep DEF relayVars
<1>5. ASSUME NEW c \in Conns, FanoutUpdate(c) PROVE SessionInv'
  <2>1. job[c] \in Updates
    BY <1>5 DEF FanoutUpdate, JobOK, HandlesUpdate, Holding
  <2>2. RelayPost(sessions, presence, queue, close, {job[c]}, {PeerOf[c]})
    BY <1>5, <2>1, RelayActions
  <2>3. Inside(c)
    BY <1>5, InsideActions
  <2> QED BY <2>2, <2>3, InsideStep
<1>6. ASSUME NEW c \in Conns, HandlePresence(c) \/ RateLimited(c) PROVE SessionInv'
  <2>1. RelayPost(sessions, presence, queue, close, {}, {})
    BY <1>6, RelayActions
  <2>2. Inside(c)
    BY <1>6, InsideActions
  <2> QED BY <2>1, <2>2, InsideStep
<1>7. ASSUME NEW gone \in SUBSET presence, SweepPresence(gone) PROVE SessionInv'
  <2>1. RelayPost(sessions, presence, queue, close, {}, {})
    BY <1>7, RelayActions
  <2>2. UNCHANGED <<pc, gen, nextGen>>
    BY <1>7 DEF SweepPresence, taskVars, helloVars
  <2> QED BY <2>1, <2>2, InsideStep
<1>8. CASE \/ \E p \in Peers, u \in Updates : LocalEdit(p, u)
           \/ \E p \in Peers : ClientClose(p)
           \/ \E c \in Conns : Send(c) \/ Deliver(c)
           \/ MaintSnapshotBegin \/ MaintSnapshotStamp \/ MaintSnapshotEnd \/ UNCHANGED vars
  <2>1. UNCHANGED <<pc, gen, nextGen>> /\ UNCHANGED <<sessions, presence, close>>
    BY <1>8 DEF LocalEdit, ClientClose, Send, Deliver, MaintSnapshotBegin,
       MaintSnapshotStamp,
       MaintSnapshotEnd, vars, taskVars, helloVars, relayVars
  <2> QED BY <2>1, InsideStep
<1>9. CASE Crash
  <2>1. \A c \in Conns : pc'[c] \notin InSession
    BY <1>9, InSessionNames DEF Crash
  <2>2. \A p \in Peers : sessions'[p] = NoConn
    BY <1>9 DEF Crash
  <2> QED BY <2>1, <2>2 DEF SessionInv, Generations, SlotsLive, LiveOrSignalled
<1> QED BY <1>1, <1>2, <1>3, <1>4, <1>5, <1>6, <1>7, <1>8, <1>9 DEF Next, SessionStep

(* A session task that has joined and not left owns its peer's slot or has been *)
(* told to resync, whatever leaves, evictions and re-admissions interleave.      *)
THEOREM SlotsNeverStolen == Spec => []LiveOrSignalled
<1>1. Init => SessionInv
  BY InSessionNames DEF Init, SessionInv, Generations, SlotsLive, LiveOrSignalled
<1>2. SessionInv => LiveOrSignalled
  BY DEF SessionInv
<1> QED BY <1>1, <1>2, SessionStepInv, TypeCorrect, PTL DEF Spec

(* Slots do not appear except in join. *)
SlotsOnlyLost == \A p \in Peers : sessions'[p] = sessions[p] \/ sessions'[p] = NoConn

(* Every step but join leaves a peer's slot as it is or empties it. *)
LEMMA SlotsShrink ==
    ASSUME TypeOK, JobOK, [Next]_vars, \A c \in Conns : ~Join(c)
    PROVE  SlotsOnlyLost
<1>p. ASSUME NEW ups, NEW except,
             RelayPost(sessions, presence, queue, close, ups, except)
      PROVE  SlotsOnlyLost
  BY <1>p DEF RelayPost, SlotsOnlyLost
<1>1. ASSUME NEW c \in Conns, Leave(c) PROVE SlotsOnlyLost
  <2>1. CASE Mine(c)
    <3>1. RelayPost([sessions EXCEPT ![PeerOf[c]] = NoConn], presence \ {PeerOf[c]},
                    [queue EXCEPT ![c] = << >>], [close EXCEPT ![c] = "normal"], {}, {})
      BY <1>1, <2>1, RelayActions
    <3>2. \A p \in Peers : \/ sessions'[p] = [sessions EXCEPT ![PeerOf[c]] = NoConn][p]
                           \/ sessions'[p] = NoConn
      BY <3>1 DEF RelayPost
    <3> QED BY <3>2 DEF TypeOK, SlotsOnlyLost
  <2>2. CASE ~Mine(c)
    BY <1>1, <2>2 DEF Leave, SlotsOnlyLost
  <2> QED BY <2>1, <2>2
<1>2. ASSUME NEW c \in Conns, FanoutUpdate(c) PROVE SlotsOnlyLost
  <2>1. job[c] \in Updates
    BY <1>2 DEF FanoutUpdate, JobOK, HandlesUpdate, Holding
  <2> QED BY <1>2, <1>p, <2>1, RelayActions
<1>3. ASSUME NEW c \in Conns, HandlePresence(c) \/ RateLimited(c) PROVE SlotsOnlyLost
  <2> QED BY <1>3, <1>p, RelayActions
<1>4. ASSUME NEW gone \in SUBSET presence, SweepPresence(gone) PROVE SlotsOnlyLost
  <2> QED BY <1>4, <1>p, RelayActions
<1>5. CASE Crash
  BY <1>5 DEF Crash, SlotsOnlyLost
<1>6. CASE \/ \E p \in Peers, u \in Updates : LocalEdit(p, u)
           \/ \E p \in Peers : ClientClose(p)
           \/ \E c \in Conns : Deliver(c)
           \/ MaintSnapshotBegin \/ MaintSnapshotStamp \/ MaintSnapshotEnd \/ UNCHANGED vars
  <2>1. UNCHANGED sessions
    BY <1>6 DEF LocalEdit, ClientClose, Deliver, MaintSnapshotBegin,
       MaintSnapshotStamp,
       MaintSnapshotEnd, vars, relayVars
  <2> QED BY <2>1 DEF SlotsOnlyLost
<1>7. UNCHANGED relayVars => SlotsOnlyLost
  BY DEF relayVars, SlotsOnlyLost
<1>8. ASSUME NEW c \in Conns, Connect(c) \/ Send(c) \/ SessionStep(c) PROVE SlotsOnlyLost
  BY <1>1, <1>2, <1>3, <1>6, <1>7, <1>8, RelayUntouched DEF SessionStep
<1> QED BY <1>4, <1>5, <1>6, <1>8 DEF Next

(* Counting: a map with no new slots has no more of them, and one slot on top of   *)
(* a roster that covers the others is one more than the roster at most.            *)
LEMMA SlotCounts ==
    ASSUME NEW A \in SUBSET Peers, NEW B \in SUBSET Peers, NEW p \in Peers
    PROVE  /\ Cardinality(A) \in Nat
           /\ A \subseteq B => Cardinality(A) <= Cardinality(B)
           /\ A \subseteq B \cup {p} => Cardinality(A) <= Cardinality(B) + 1
<1>1. IsFiniteSet(A) /\ IsFiniteSet(B) /\ IsFiniteSet(B \cup {p})
  BY BoundAssumption, FS_Subset DEF BoundAssumption
<1>2. Cardinality(A) \in Nat /\ Cardinality(B) \in Nat
  BY <1>1, FS_CardinalityType
<1>3. Cardinality(B \cup {p}) <= Cardinality(B) + 1
  BY <1>1, <1>2, FS_AddElement
<1>4. A \subseteq B => Cardinality(A) <= Cardinality(B)
  BY <1>1, FS_Subset
<1>5. A \subseteq B \cup {p} => Cardinality(A) <= Cardinality(B \cup {p})
  BY <1>1, FS_Subset
<1>6. Cardinality(B \cup {p}) \in Nat
  BY <1>1, FS_CardinalityType
<1> QED BY <1>2, <1>3, <1>4, <1>5, <1>6

(* The number of sessions never exceeds max_peers_per_doc, although join counts   *)
(* roster entries: every slot has an entry, so the roster is never the smaller.   *)
THEOREM SessionsBounded == Spec => []SessionCap
<1> DEFINE Slots == {p \in Peers : sessions[p] # NoConn}
<1>1. Init => SessionInv /\ SessionCap
  <2> SUFFICES ASSUME Init PROVE SessionInv /\ SessionCap
    OBVIOUS
  <2>1. SessionInv
    BY InSessionNames DEF Init, SessionInv, Generations, SlotsLive, LiveOrSignalled
  <2>2. Slots = {}
    BY DEF Init
  <2> QED BY <2>1, <2>2, FS_EmptySet, BoundAssumption DEF SessionCap, BoundAssumption
<1>2. TypeOK /\ JobOK /\ SessionInv /\ SessionCap /\ [Next]_vars => SessionCap'
  <2> SUFFICES ASSUME TypeOK, JobOK, SessionInv, SessionCap, [Next]_vars
               PROVE  Cardinality(Slots') <= MaxPeers
    BY DEF SessionCap
  <2>m. MaxPeers \in Nat /\ Slots \in SUBSET Peers /\ Slots' \in SUBSET Peers
    BY BoundAssumption DEF BoundAssumption
  <2>1. CASE \E c \in Conns : Join(c)
    <3>1. PICK c \in Conns : Join(c)
      BY <2>1
    <3> DEFINE p == PeerOf[c]
               s == [sessions EXCEPT ![p] = c]
               q == [queue EXCEPT ![c] = Append(@, Welcome(Catchup(c)))]
    <3>2. p \in Peers /\ presence \in SUBSET Peers /\ Cardinality(presence) < MaxPeers
      BY <3>1, PeerOfType DEF TypeOK, Join, CanJoin
    <3>3. RelayPost(s, presence \cup {p}, q, close, {}, {})
      BY <3>1, RelayActions
    <3>4. \A r \in Peers : r # p => s[r] = sessions[r]
      BY DEF TypeOK
    <3> HIDE DEF s, q, p
    <3>5. \A r \in Slots' : r = p \/ r \in presence
      BY <3>3, <3>4 DEF RelayPost, SessionInv, SlotsLive
    <3>6. Slots' \subseteq presence \cup {p}
      BY <3>5
    <3> HIDE DEF Slots
    <3>7. Cardinality(Slots') <= Cardinality(presence) + 1
          /\ Cardinality(Slots') \in Nat /\ Cardinality(presence) \in Nat
      BY <2>m, <3>2, <3>6, SlotCounts
    <3> QED BY <2>m, <3>2, <3>7
  <2>2. CASE ~\E c \in Conns : Join(c)
    <3>1. Slots' \subseteq Slots
      BY <2>2, SlotsShrink DEF SlotsOnlyLost
    <3>2. Cardinality(Slots) <= MaxPeers
      BY DEF SessionCap
    <3>3. CASE Peers = {}
      <4>1. Slots' = {}
        BY <3>3
      <4> QED BY <4>1, FS_EmptySet, <2>m
    <3>4. CASE Peers # {}
      <4>1. PICK p : p \in Peers
        BY <3>4
      <4> HIDE DEF Slots
      <4>2. Cardinality(Slots') <= Cardinality(Slots)
            /\ Cardinality(Slots') \in Nat /\ Cardinality(Slots) \in Nat
        BY <2>m, <3>1, <4>1, SlotCounts
      <4> QED BY <2>m, <3>2, <4>2
    <3> QED BY <3>3, <3>4
  <2> QED BY <2>1, <2>2
<1> QED BY <1>1, <1>2, SessionStepInv, TypeCorrect, PTL DEF Spec

-----------------------------------------------------------------------------
(***************************************************************************)
(* The welcome.  WelcomeFirst is not inductive alone: a fan-out may put a  *)
(* frame into an empty channel, so the channel of a registered session     *)
(* whose client waits for its welcome is not empty.                        *)
(***************************************************************************)

(* A client only comes onto a socket by connecting, and as long as it is on *)
(* it, it does not forget its welcome.                                     *)
LEMMA AttachedStep ==
    ASSUME TypeOK, [Next]_vars, NEW d \in Conns, Attached(d)'
    PROVE  (Attached(d) /\ (handshake[PeerOf[d]] => handshake'[PeerOf[d]])) \/ Connect(d)
<1> DEFINE Same == Attached(d) /\ (handshake[PeerOf[d]] => handshake'[PeerOf[d]])
<1>t. client \in [Peers -> Conns \cup {NoConn, Stopped}] /\ PeerOf[d] \in Peers
      /\ d # NoConn /\ d # Stopped /\ handshake \in [Peers -> BOOLEAN]
  BY PeerOfType DEF TypeOK
<1>a. Attached(d) <=> client[PeerOf[d]] = d
  BY DEF Attached
<1>b. client'[PeerOf[d]] = d
  BY DEF Attached
<1>u. UNCHANGED <<client, handshake>> => Same
  BY <1>a, <1>b
<1>d. ASSUME NEW p \in Peers, NEW to \in {NoConn, Stopped}, Detach(p, to)
      PROVE  Same
  BY <1>t, <1>a, <1>b, <1>d DEF Detach
<1>e. ASSUME NEW c \in Conns, NEW to \in {NoConn, Stopped}, ClientError(c, to)
      PROVE  Same
  BY <1>u, <1>d, <1>e, PeerOfType DEF ClientError, clientVars
<1>1. ASSUME NEW c \in Conns, Connect(c) PROVE Same \/ Connect(d)
  <2>1. client' = [client EXCEPT ![PeerOf[c]] = c] /\ handshake' = handshake
    BY <1>1 DEF Connect
  <2> QED BY <1>1, <1>t, <1>a, <1>b, <2>1
<1>2. ASSUME NEW c \in Conns,
             \/ HandshakeFails(c) \/ LoopEnds(c) \/ AccessLost(c)
             \/ UpdateRefused(c) \/ AppendFails(c) \/ RateLimited(c)
      PROVE  Same
  <2>1. ClientError(c, NoConn) \/ ClientError(c, Stopped)
    BY <1>2 DEF HandshakeFails, LoopEnds, AccessLost, UpdateRefused, AppendFails,
                RateLimited
  <2> QED BY <1>e, <2>1
<1>3. ASSUME NEW c \in Conns, Deliver(c) PROVE Same
  <2>1. \/ UNCHANGED <<client, handshake>> \/ Detach(PeerOf[c], Stopped)
        \/ UNCHANGED client /\ handshake' = [handshake EXCEPT ![PeerOf[c]] = TRUE]
    BY <1>3 DEF Deliver, Receive, clientVars
  <2>2. UNCHANGED client /\ handshake' = [handshake EXCEPT ![PeerOf[c]] = TRUE] => Same
    BY <1>t, <1>a, <1>b
  <2> QED BY <1>u, <1>d, <2>1, <2>2, PeerOfType
<1>4. ASSUME NEW c \in Conns,
             \/ Send(c) \/ Join(c) \/ Leave(c) \/ ReadUpdate(c) \/ ReadOther(c)
             \/ Acquire(c) \/ AppendOk(c) \/ Import(c) \/ SnapshotInUpdate(c)
             \/ FanoutUpdate(c) \/ Receipt(c) \/ HandlePresence(c) \/ HandleHeartbeat(c)
      PROVE  Same
  <2>1. UNCHANGED <<client, handshake>>
    BY <1>4 DEF Send, Join, Leave, ReadUpdate, ReadOther, Acquire, AppendOk, Import,
       SnapshotInUpdate, FanoutUpdate, Receipt, HandlePresence, HandleHeartbeat,
       clientVars
  <2> QED BY <1>u, <2>1
<1>5. CASE \/ \E p \in Peers, u \in Updates : LocalEdit(p, u)
           \/ \E gone \in SUBSET presence : SweepPresence(gone)
           \/ MaintSnapshotBegin \/ MaintSnapshotStamp \/ MaintSnapshotEnd \/ UNCHANGED vars
  <2>1. UNCHANGED <<client, handshake>>
    BY <1>5 DEF LocalEdit, SweepPresence, MaintSnapshotBegin, MaintSnapshotStamp,
       MaintSnapshotEnd, vars,
                clientVars
  <2> QED BY <1>u, <2>1
<1>6. ASSUME NEW p \in Peers, ClientClose(p) PROVE Same
  BY <1>d, <1>6 DEF ClientClose
<1>7. CASE Crash
  BY <1>t, <1>b, <1>7 DEF Crash
<1> QED BY <1>1, <1>2, <1>3, <1>4, <1>5, <1>6, <1>7 DEF Next, SessionStep

(* The welcome of c is the first frame, from join until it is delivered. *)
Greeted(c) ==
    /\ pc[c] \in {"idle", "hello"} => queue[c] = << >>
    /\ Attached(c) /\ ~handshake[PeerOf[c]] =>
         /\ queue[c] # << >> => Head(queue[c]).kind = "welcome"
         /\ Registered(c) => queue[c] # << >>

(* A step of others, or one of c that puts nothing first and takes nothing. *)
LEMMA GreetedKept ==
    ASSUME TypeOK, SessionInv, [Next]_vars, NEW c \in Conns, Greeted(c),
           HeadKept(queue[c], queue'[c]), ~Registered(c) => queue'[c] = queue[c],
           Registered(c)' => Registered(c),
           pc'[c] \in {"idle", "hello"} => pc[c] \in {"idle", "hello"}
    PROVE  Greeted(c)'
<1>1. Registered(c) => pc[c] \in InSession
  BY PeerOfType DEF SessionInv, SlotsLive, Registered
<1>2. pc[c] \in {"idle", "hello"} => ~Registered(c)
  BY <1>1, InSessionNames
<1>3. pc'[c] \in {"idle", "hello"} => queue'[c] = << >>
  BY <1>2 DEF Greeted
<1>4. ASSUME Attached(c)', ~handshake'[PeerOf[c]]
      PROVE  /\ queue'[c] # << >> => Head(queue'[c]).kind = "welcome"
             /\ Registered(c)' => queue'[c] # << >>
  <2>1. CASE Connect(c)
    <3>1. pc[c] = "idle"
      BY <2>1 DEF Connect
    <3> QED BY <1>2, <3>1 DEF Greeted
  <2>2. CASE Attached(c) /\ ~handshake[PeerOf[c]]
    BY <2>2 DEF Greeted, HeadKept
  <2> QED BY <1>4, <2>1, <2>2, AttachedStep
<1> QED BY <1>3, <1>4 DEF Greeted

(* What a fan-out or an eviction does to the channel of c. *)
LEMMA RelayGreets ==
    ASSUME NEW c \in Conns, NEW ups, NEW except,
           RelayPost(sessions, presence, queue, close, ups, except)
    PROVE  /\ HeadKept(queue[c], queue'[c]) /\ (~Registered(c) => queue'[c] = queue[c])
           /\ (Registered(c)' => Registered(c))
BY PeerOfType DEF RelayPost, Registered

(* A join puts the welcome into an empty channel before its own roster. *)
LEMMA JoinGreets ==
    ASSUME TypeOK, SessionInv, [Next]_vars, NEW d \in Conns, Join(d), NEW c \in Conns, Greeted(c)
    PROVE  Greeted(c)'
<1> DEFINE s == [sessions EXCEPT ![PeerOf[d]] = d]
           w == Welcome(Catchup(d))
           q == [queue EXCEPT ![d] = Append(@, w)]
<1>1. RelayPost(s, presence \cup {PeerOf[d]}, q, close, {}, {})
  BY RelayActions
<1>2. /\ queue \in [Conns -> Seq(Frames)] /\ pc \in [Conns -> PcStates]
      /\ sessions \in [Peers -> Conns \cup {NoConn}]
      /\ w \in Frames /\ w.kind = "welcome"
  BY AppliedSubset, FrameTypes DEF Catchup, Welcome, TypeOK
<1>3. pc[d] = "hello" /\ pc' = [pc EXCEPT ![d] = "loop"]
  BY DEF Join, Goto
<1> HIDE DEF w
<1>4. CASE c = d
  <2>1. queue[d] = << >>
    BY <1>3, <1>4 DEF Greeted
  <2>2. q[d] = Append(<< >>, w)
    BY <1>2, <2>1
  <2>3. q[d] = <<w>>
    BY <2>2
  <2>4. q[d] # << >> /\ Head(q[d]) = w
    BY <2>3
  <2> HIDE DEF q
  <2>5. queue'[d] # << >> /\ Head(queue'[d]) = w
    BY <1>1, <2>4 DEF RelayPost, HeadKept
  <2> QED BY <1>2, <1>3, <1>4, <2>5 DEF Greeted
<1>5. CASE c # d
  <2>1. q[c] = queue[c] /\ pc'[c] = pc[c]
    BY <1>2, <1>3, <1>5
  <2>2. s[PeerOf[c]] = c <=> Registered(c) /\ PeerOf[c] # PeerOf[d]
    BY <1>2, <1>5, PeerOfType DEF Registered
  <2>3. Registered(c) => PeerOf[c] # PeerOf[d]
    BY <1>5, PeerOfType DEF Join, CanJoin, Registered
  <2> HIDE DEF q, s
  <2>4. /\ HeadKept(queue[c], queue'[c]) /\ (~Registered(c) => queue'[c] = queue[c])
        /\ (Registered(c)' => Registered(c))
    BY <1>1, <2>1, <2>2, PeerOfType DEF RelayPost, Registered
  <2> QED BY <2>1, <2>4, GreetedKept
<1> QED BY <1>4, <1>5

(* The client takes the welcome before anything else. *)
LEMMA DeliverGreets ==
    ASSUME TypeOK, SessionInv, [Next]_vars, NEW d \in Conns, Deliver(d), NEW c \in Conns, Greeted(c)
    PROVE  Greeted(c)'
<1>1. /\ pc[d] = "loop" /\ queue[d] # << >> /\ UNCHANGED <<pc, sessions>>
      /\ queue' = [queue EXCEPT ![d] = Tail(queue[d])]
      /\ queue \in [Conns -> Seq(Frames)] /\ handshake \in [Peers -> BOOLEAN]
  BY DEF Deliver, taskVars, TypeOK
<1>2. CASE c # d
  <2>1. queue'[c] = queue[c]
    BY <1>1, <1>2
  <2> QED BY <1>1, <2>1, GreetedKept DEF HeadKept, Registered
<1>3. CASE c = d
  <2>1. ASSUME Attached(c)', ~handshake'[PeerOf[c]] PROVE FALSE
    <3>1. ~Connect(c)
      BY <1>1, <1>3 DEF Connect
    <3>2. Attached(c) /\ ~handshake[PeerOf[c]]
      BY <2>1, <3>1, AttachedStep
    <3>3. Head(queue[c]).kind = "welcome"
      BY <1>1, <1>3, <3>2 DEF Greeted
    <3>4. Receive(PeerOf[c], Head(queue[c]))
      BY <1>3, <3>2 DEF Deliver
    <3>5. handshake' = [handshake EXCEPT ![PeerOf[c]] = TRUE]
      BY <3>3, <3>4 DEF Receive
    <3> QED BY <1>1, <2>1, <3>5, PeerOfType
  <2>2. pc'[c] = "loop"
    BY <1>1, <1>3
  <2> QED BY <2>1, <2>2 DEF Greeted
<1> QED BY <1>2, <1>3

(* Who leaves has no slot and no channel any more. *)
LEMMA LeaveGreets ==
    ASSUME TypeOK, SessionInv, [Next]_vars, NEW d \in Conns, Leave(d), NEW c \in Conns, Greeted(c)
    PROVE  Greeted(c)'
<1> DEFINE s == [sessions EXCEPT ![PeerOf[d]] = NoConn]
           q == [queue EXCEPT ![d] = << >>]
<1>1. /\ queue \in [Conns -> Seq(Frames)] /\ pc \in [Conns -> PcStates]
      /\ sessions \in [Peers -> Conns \cup {NoConn}]
      /\ pc' = [pc EXCEPT ![d] = "closed"]
  BY DEF Leave, Goto, TypeOK
<1>2. Registered(d) => Mine(d)
  BY PeerOfType DEF Registered, Mine
<1>3. \/ Mine(d) /\ RelayPost(s, presence \ {PeerOf[d]}, q, [close EXCEPT ![d] = "normal"], {}, {})
      \/ ~Registered(d) /\ queue' = q /\ UNCHANGED sessions
  <2>1. CASE Mine(d)
    BY <2>1, RelayActions
  <2>2. CASE ~Mine(d)
    BY <1>2, <2>2 DEF Leave
  <2> QED BY <2>1, <2>2
<1>4. CASE c = d
  <2>1. q[c] = << >> /\ s[PeerOf[c]] # c
    BY <1>1, <1>4, PeerOfType
  <2> HIDE DEF q, s
  <2>2. queue'[c] = << >> /\ ~Registered(c)'
    BY <1>3, <1>4, <2>1, PeerOfType DEF RelayPost, Registered
  <2>3. pc'[c] = "closed"
    BY <1>1, <1>4
  <2> QED BY <2>2, <2>3 DEF Greeted
<1>5. CASE c # d
  <2>1. q[c] = queue[c] /\ pc'[c] = pc[c] /\ (s[PeerOf[c]] = c => Registered(c))
    BY <1>1, <1>5, PeerOfType DEF Registered
  <2> HIDE DEF q, s
  <2>2. /\ HeadKept(queue[c], queue'[c]) /\ (~Registered(c) => queue'[c] = queue[c])
        /\ (Registered(c)' => Registered(c))
    BY <1>3, <2>1, PeerOfType DEF RelayPost, Registered, HeadKept
  <2> QED BY <2>1, <2>2, GreetedKept
<1> QED BY <1>4, <1>5

LEMMA GreetStep ==
    ASSUME TypeOK, JobOK, SessionInv, [Next]_vars, NEW c \in Conns, Greeted(c)
    PROVE  Greeted(c)'
<1>t. pc \in [Conns -> PcStates]
  BY DEF TypeOK
<1>u. ASSUME UNCHANGED <<sessions, queue>>, pc'[c] \in {"idle", "hello"} => pc[c] \in {"idle", "hello"}
      PROVE  Greeted(c)'
  BY <1>u, GreetedKept DEF HeadKept, Registered
<1>p. ASSUME NEW ups, NEW except, RelayPost(sessions, presence, queue, close, ups, except),
             pc'[c] \in {"idle", "hello"} => pc[c] \in {"idle", "hello"}
      PROVE  Greeted(c)'
  BY <1>p, RelayGreets, GreetedKept
<1>1. ASSUME NEW d \in Conns, Join(d) \/ Deliver(d) \/ Leave(d) PROVE Greeted(c)'
  BY <1>1, JoinGreets, DeliverGreets, LeaveGreets
<1>2. ASSUME NEW d \in Conns, Connect(d) \/ HandshakeFails(d) PROVE Greeted(c)'
  <2>1. UNCHANGED relayVars /\ pc[d] \in {"idle", "hello"} /\ \E l \in {"hello", "closed"} : Goto(d, l)
    BY <1>2 DEF Connect, HandshakeFails
  <2>2. pc'[c] \in {"idle", "hello"} => pc[c] \in {"idle", "hello"}
    BY <1>t, <2>1 DEF Goto
  <2> QED BY <1>u, <2>1, <2>2 DEF relayVars
<1>3. ASSUME NEW d \in Conns, Inside(d) PROVE pc'[c] \in {"idle", "hello"} => pc[c] \in {"idle", "hello"}
  BY <1>3, InSessionNames DEF Inside
<1>4. ASSUME NEW d \in Conns,
             \/ LoopEnds(d) \/ ReadUpdate(d) \/ ReadOther(d) \/ AccessLost(d)
             \/ UpdateRefused(d) \/ Acquire(d) \/ AppendOk(d) \/ AppendFails(d)
             \/ Import(d) \/ SnapshotInUpdate(d) \/ Receipt(d) \/ HandleHeartbeat(d)
      PROVE  Greeted(c)'
  <2>1. Inside(d) /\ UNCHANGED relayVars
    BY <1>4, InsideActions, RelayUntouched
  <2> QED BY <1>u, <1>3, <2>1 DEF relayVars
<1>5. ASSUME NEW d \in Conns, FanoutUpdate(d) PROVE Greeted(c)'
  <2>1. job[d] \in Updates
    BY <1>5 DEF FanoutUpdate, JobOK, HandlesUpdate, Holding
  <2>2. RelayPost(sessions, presence, queue, close, {job[d]}, {PeerOf[d]}) /\ Inside(d)
    BY <1>5, <2>1, RelayActions, InsideActions
  <2> QED BY <1>3, <1>p, <2>2
<1>6. ASSUME NEW d \in Conns, HandlePresence(d) \/ RateLimited(d) PROVE Greeted(c)'
  <2>1. RelayPost(sessions, presence, queue, close, {}, {}) /\ Inside(d)
    BY <1>6, RelayActions, InsideActions
  <2> QED BY <1>3, <1>p, <2>1
<1>7. ASSUME NEW gone \in SUBSET presence, SweepPresence(gone) PROVE Greeted(c)'
  <2>1. RelayPost(sessions, presence, queue, close, {}, {}) /\ UNCHANGED pc
    BY <1>7, RelayActions DEF SweepPresence, taskVars
  <2> QED BY <1>p, <2>1
<1>8. CASE \/ \E p \in Peers, u \in Updates : LocalEdit(p, u)
           \/ \E p \in Peers : ClientClose(p)
           \/ \E d \in Conns : Send(d)
           \/ MaintSnapshotBegin \/ MaintSnapshotStamp \/ MaintSnapshotEnd \/ UNCHANGED vars
  <2>1. UNCHANGED <<pc, sessions, queue>>
    BY <1>8 DEF LocalEdit, ClientClose, Send, MaintSnapshotBegin, MaintSnapshotStamp,
       MaintSnapshotEnd, vars, taskVars, relayVars
  <2> QED BY <1>u, <2>1
<1>9. CASE Crash
  <2>1. queue'[c] = << >> /\ ~Registered(c)'
    BY <1>9, PeerOfType DEF Crash, Registered
  <2> QED BY <2>1 DEF Greeted
<1> QED BY <1>1, <1>2, <1>4, <1>5, <1>6, <1>7, <1>8, <1>9 DEF Next, SessionStep

(* The first frame a client sees on a socket is its welcome: join queues it *)
(* under the gate, before its session can be reached by a fan-out.          *)
THEOREM WelcomeComesFirst == Spec => []WelcomeFirst
<1> DEFINE AllGreeted == \A c \in Conns : Greeted(c)
<1>1. Init => SessionInv /\ AllGreeted
  BY InSessionNames, PeerOfType
  DEF Init, SessionInv, Generations, SlotsLive, LiveOrSignalled, Greeted, Registered
<1>2. TypeOK /\ JobOK /\ SessionInv /\ AllGreeted /\ [Next]_vars => AllGreeted'
  BY GreetStep
<1>3. AllGreeted => WelcomeFirst
  BY DEF Greeted, WelcomeFirst
<1> QED BY <1>1, <1>2, <1>3, SessionStepInv, TypeCorrect, PTL DEF Spec

-----------------------------------------------------------------------------
(***************************************************************************)
(* What a client has been shown or told is safe, and a connected client    *)
(* misses nothing, crashes and failing appends included.                   *)
(***************************************************************************)

(* The updates lock has one holder. *)
LockHeldOnce ==
    \A c, d \in Conns : pc[c] \in Holding /\ pc[d] \in Holding => c = d

(* The log comes first: what is imported was appended before, and what is      *)
(* exported, on its way to a client or at one was imported before.  A record   *)
(* that is not imported may still be overwritten, so a session that holds one  *)
(* must be alone between append and import.                                    *)
DurableInv ==
    /\ LockHeldOnce
    /\ imported \subseteq logged /\ snapshot.bytes \subseteq imported
    /\ \A s \in maintSnap : s.bytes \subseteq imported
    /\ \A c \in Conns : pc[c] = "import" => job[c] \in logged
    /\ \A c \in Conns : pc[c] \in {"snap", "fanout"} => job[c] \in imported
    /\ \A c \in Conns : Carried(queue[c]) \subseteq imported
    /\ \A p \in Peers : replica[p] \ Own(p) \subseteq imported

Elems(s) == {s[i] : i \in DOMAIN s}
Queued(p) == Elems(pending[p])
Before(p, i) == {pending[p][j] : j \in 1 .. (i - 1)}

(* An update on its way from the client of c can be applied when it arrives. *)
Sendable(c, u) == Deps[u] \subseteq imported /\ u \in replica[PeerOf[c]]
InboxCausal(c) == \A u \in Elems(inbox[c]) : Sendable(c, u)
JobCausal(c) ==
    /\ pc[c] \in HandlesUpdate => Sendable(c, job[c])
    /\ pc[c] = "receipt" => job[c] \in imported

(* One batch at a time: everything an update depends on is in the authority  *)
(* before the update is sent.                                                *)
CausalInv ==
    /\ \A u \in logged : Deps[u] \subseteq imported
    /\ \A c \in Conns : InboxCausal(c) /\ JobCausal(c)
    /\ \A p \in Peers : Queued(p) \subseteq replica[p]
    /\ \A p \in Peers : \A i \in DOMAIN pending[p] :
           Deps[pending[p][i]] \subseteq imported \cup Before(p, i)
    /\ \A p \in Peers : replica[p] \subseteq imported \cup Queued(p)

(* A HELLO never claims what its client does not have. *)
HelloInv ==
    \A c \in Conns : pc[c] = "hello" => vv[c] \subseteq replica[PeerOf[c]]

(* NoUpdateMissed, for the whole authority. *)
NothingMissed ==
    \A c \in Conns : Registered(c) /\ Attached(c) =>
        imported \subseteq replica[PeerOf[c]] \cup Carried(queue[c]) \cup Unsent
-----------------------------------------------------------------------------
(* The first frame and the rest of a channel carry what the channel carries. *)
LEMMA CarriedHeadTail ==
    ASSUME NEW s \in Seq(Frames), s # << >>
    PROVE  Carried(s) = Head(s).ups \cup Carried(Tail(s))
<1> DEFINE t == Tail(s)
<1>1. /\ Len(s) \in Nat /\ Len(s) >= 1 /\ DOMAIN s = 1 .. Len(s)
      /\ t \in Seq(Frames) /\ Len(t) = Len(s) - 1 /\ DOMAIN t = 1 .. (Len(s) - 1)
      /\ \A i \in 1 .. (Len(s) - 1) : t[i] = s[i + 1]
      /\ Head(s) = s[1]
  BY HeadTailProperties, LenProperties, EmptySeq
<1> HIDE DEF t
<1>2. ASSUME NEW u, u \in Carried(s) PROVE u \in Head(s).ups \cup Carried(t)
  <2>1. PICK i \in DOMAIN s : u \in s[i].ups
    BY <1>2 DEF Carried
  <2>2. CASE i = 1
    BY <1>1, <2>1, <2>2
  <2>3. CASE i # 1
    <3>1. i - 1 \in DOMAIN t /\ t[i - 1] = s[i]
      BY <1>1, <2>1, <2>3
    <3> QED BY <2>1, <3>1 DEF Carried
  <2> QED BY <2>2, <2>3
<1>3. ASSUME NEW u, u \in Carried(t) PROVE u \in Carried(s)
  <2>1. PICK i \in DOMAIN t : u \in t[i].ups
    BY <1>3 DEF Carried
  <2>2. i + 1 \in DOMAIN s /\ s[i + 1] = t[i]
    BY <1>1, <2>1
  <2> QED BY <2>1, <2>2 DEF Carried
<1>4. ASSUME NEW u \in Head(s).ups PROVE u \in Carried(s)
  BY <1>1, <1>4 DEF Carried
<1> QED BY <1>2, <1>3, <1>4 DEF t

(* An empty channel carries nothing. *)
LEMMA CarriedEmpty == Carried(<< >>) = {}
BY DEF Carried

(* Nothing leaves the authority.  A crash rebuilds it from the snapshot and the *)
(* log, which contains it.                                                      *)
LEMMA Monotone ==
    ASSUME TypeOK, DurableInv, [Next]_vars
    PROVE  imported \subseteq imported'
<1>u. UNCHANGED docVars => imported \subseteq imported'
  BY DEF docVars
<1>1. ASSUME NEW c \in Conns, AppendOk(c) \/ AppendFails(c) \/ Import(c)
                               \/ SnapshotInUpdate(c)
      PROVE  imported \subseteq imported'
  BY <1>1 DEF AppendOk, AppendFails, Import, SnapshotInUpdate
<1>2. CASE Crash
  BY <1>2 DEF Crash, Hydrate, DurableInv
<1>3. CASE MaintSnapshotBegin \/ MaintSnapshotStamp \/ MaintSnapshotEnd
  BY <1>3 DEF MaintSnapshotBegin, MaintSnapshotStamp, MaintSnapshotEnd
<1>4. CASE \/ \E p \in Peers, u \in Updates : LocalEdit(p, u)
           \/ \E p \in Peers : ClientClose(p)
           \/ \E gone \in SUBSET presence : SweepPresence(gone)
           \/ UNCHANGED vars
  BY <1>4, <1>u DEF LocalEdit, ClientClose, SweepPresence, vars
<1> QED BY <1>1, <1>2, <1>3, <1>4, <1>u, DocUntouched DEF Next, SessionStep

(* Only Acquire takes the updates lock, and only when nobody holds it. *)
LEMMA LockStep ==
    ASSUME TypeOK, LockHeldOnce, [Next]_vars
    PROVE  LockHeldOnce'
<1>t. pc \in [Conns -> PcStates]
  BY DEF TypeOK
<1>h. Holding = {"append", "import", "snap", "fanout"}
  BY DEF Holding
<1>u. (\A e \in Conns : pc'[e] \in Holding => pc[e] \in Holding) => LockHeldOnce'
  BY DEF LockHeldOnce, Holding
<1>1. ASSUME NEW c \in Conns, Connect(c) \/ Join(c) \/ HandshakeFails(c) \/ LoopEnds(c)
                              \/ Leave(c) \/ ReadUpdate(c) \/ ReadOther(c)
                              \/ AccessLost(c) \/ UpdateRefused(c)
      PROVE  LockHeldOnce'
  <2>1. \E l \in {"hello", "loop", "closed", "leaving", "waiting", "presence",
                   "heartbeat", "flood"} : Goto(c, l)
    BY <1>1 DEF Connect, Join, HandshakeFails, LoopEnds, Leave, ReadUpdate, ReadOther,
                AccessLost, UpdateRefused
  <2> QED BY <1>t, <1>h, <1>u, <2>1 DEF Goto
<1>2. ASSUME NEW c \in Conns, FanoutUpdate(c) \/ Receipt(c) \/ AppendFails(c)
                              \/ HandlePresence(c) \/ HandleHeartbeat(c)
                              \/ RateLimited(c)
      PROVE  LockHeldOnce'
  <2>1. \E l \in {"loop", "leaving", "receipt"} : Goto(c, l)
    BY <1>2 DEF FanoutUpdate, Receipt, AppendFails, HandlePresence, HandleHeartbeat,
                RateLimited
  <2> QED BY <1>t, <1>h, <1>u, <2>1 DEF Goto
<1>3. ASSUME NEW c \in Conns, AppendOk(c) \/ Import(c) \/ SnapshotInUpdate(c)
      PROVE  LockHeldOnce'
  <2>1. pc[c] \in Holding /\ \E l : Goto(c, l)
    BY <1>3, <1>h DEF AppendOk, Import, SnapshotInUpdate
  <2> QED BY <1>t, <1>u, <2>1 DEF Goto
<1>4. ASSUME NEW c \in Conns, Acquire(c) PROVE LockHeldOnce'
  <2>1. \E l : Goto(c, l)
    BY <1>4 DEF Acquire
  <2>2. \A e \in Conns : e # c => pc'[e] \notin Holding
    BY <1>4, <1>t, <2>1 DEF Acquire, LockFree, Goto
  <2> QED BY <2>2 DEF LockHeldOnce, Holding
<1>5. CASE \/ \E p \in Peers, u \in Updates : LocalEdit(p, u)
           \/ \E p \in Peers : ClientClose(p)
           \/ \E c \in Conns : Send(c) \/ Deliver(c)
           \/ \E gone \in SUBSET presence : SweepPresence(gone)
           \/ MaintSnapshotBegin \/ MaintSnapshotStamp \/ MaintSnapshotEnd \/ UNCHANGED vars
  <2>1. UNCHANGED pc
    BY <1>5 DEF LocalEdit, ClientClose, Send, Deliver, SweepPresence,
       MaintSnapshotBegin, MaintSnapshotStamp, MaintSnapshotEnd, vars, taskVars
  <2> QED BY <1>u, <2>1
<1>6. CASE Crash
  BY <1>6, <1>h, <1>u DEF Crash
<1>7. ASSUME NEW c \in Conns, Connect(c) \/ Send(c) \/ SessionStep(c)
      PROVE  LockHeldOnce'
  BY <1>1, <1>2, <1>3, <1>4, <1>5, <1>7 DEF SessionStep
<1> QED BY <1>5, <1>6, <1>7 DEF Next

(* What an export contains is in the authority, and what the authority has is in *)
(* the log: a record that is overwritten was not imported.                       *)
LEMMA DocDurable ==
    ASSUME TypeOK, DurableInv, [Next]_vars
    PROVE  /\ imported' \subseteq logged' /\ snapshot'.bytes \subseteq imported'
           /\ \A s \in maintSnap' : s.bytes \subseteq imported'
<1> DEFINE Goal == /\ imported' \subseteq logged' /\ snapshot'.bytes \subseteq imported'
                   /\ \A s \in maintSnap' : s.bytes \subseteq imported'
<1>0. Exported(Applied(imported)).bytes \subseteq imported
  BY AppliedSubset DEF Exported
<1>u. UNCHANGED docVars => Goal
  BY DEF docVars, maintVars, DurableInv
<1>1. ASSUME NEW c \in Conns, AppendOk(c) \/ AppendFails(c) \/ Import(c) PROVE Goal
  <2>1. CASE AppendOk(c) \/ AppendFails(c)
    BY <2>1 DEF AppendOk, AppendFails, Logs, DurableInv, maintVars
  <2>2. CASE Import(c)
    BY <2>2 DEF Import, DurableInv, maintVars
  <2> QED BY <1>1, <2>1, <2>2
<1>2. ASSUME NEW c \in Conns, SnapshotInUpdate(c) PROVE Goal
  <2>1. Put(Exported(Applied(imported))) /\ UNCHANGED <<imported, logged, maintSnap>>
    BY <1>2 DEF SnapshotInUpdate, maintVars
  <2> QED BY <1>0, <2>1, PutCases DEF DurableInv
<1>3. CASE MaintSnapshotBegin
  BY <1>0, <1>3 DEF MaintSnapshotBegin, DurableInv
<1>s. CASE MaintSnapshotStamp
  <2>1. \A s \in maintSnap : [s EXCEPT !.vv = Applied(imported)].bytes = s.bytes
    BY DEF TypeOK, Snapshots
  <2> QED BY <1>s, <2>1 DEF MaintSnapshotStamp, DurableInv
<1>4. CASE MaintSnapshotEnd
  <2>1. PICK snap \in maintSnap : Put(snap)
    BY <1>4 DEF MaintSnapshotEnd
  <2>2. maintSnap' = {} /\ UNCHANGED <<imported, logged>>
    BY <1>4 DEF MaintSnapshotEnd
  <2> QED BY <2>1, <2>2, PutCases DEF DurableInv
<1>5. CASE Crash
  BY <1>5 DEF Crash, Hydrate, DurableInv
<1>6. CASE \/ \E p \in Peers, u \in Updates : LocalEdit(p, u)
           \/ \E p \in Peers : ClientClose(p)
           \/ \E gone \in SUBSET presence : SweepPresence(gone)
           \/ UNCHANGED vars
  <2>1. UNCHANGED docVars
    BY <1>6 DEF LocalEdit, ClientClose, SweepPresence, vars
  <2> QED BY <1>u, <2>1
<1>7. ASSUME NEW c \in Conns, Connect(c) \/ Send(c) \/ SessionStep(c) PROVE Goal
  <2>1. CASE AppendOk(c) \/ AppendFails(c) \/ Import(c) \/ SnapshotInUpdate(c)
    BY <1>1, <1>2, <2>1
  <2>2. CASE ~(AppendOk(c) \/ AppendFails(c) \/ Import(c) \/ SnapshotInUpdate(c))
    <3>1. UNCHANGED docVars
      BY <1>7, <2>2, DocUntouched DEF SessionStep
    <3> QED BY <1>u, <3>1
  <2> QED BY <2>1, <2>2
<1> QED BY <1>3, <1>s, <1>4, <1>5, <1>6, <1>7 DEF Next

(* What a session is importing was appended, what it fans out was imported. *)
LEMMA JobDurable ==
    ASSUME TypeOK, DurableInv, [Next]_vars
    PROVE  /\ \A c \in Conns : (pc[c] = "import" => job[c] \in logged)'
           /\ \A c \in Conns : (pc[c] \in {"snap", "fanout"} => job[c] \in imported)'
<1> DEFINE I(d) == (pc[d] = "import" => job[d] \in logged)
                   /\ (pc[d] \in {"snap", "fanout"} => job[d] \in imported)
<1>t. pc \in [Conns -> PcStates] /\ job \in [Conns -> Updates \cup {NoUpdate}]
  BY DEF TypeOK
<1>m. imported \subseteq imported'
  BY Monotone
<1> SUFFICES ASSUME NEW d \in Conns PROVE I(d)'
  OBVIOUS
<1>0. I(d)
  BY DEF DurableInv
<1>u. pc'[d] = pc[d] /\ job'[d] = job[d] /\ UNCHANGED logged => I(d)'
  BY <1>0, <1>m
<1>v. pc'[d] = pc[d] /\ job'[d] = job[d] /\ pc[d] # "import" => I(d)'
  BY <1>0, <1>m
<1>q. pc'[d] \notin {"import", "snap", "fanout"} => I(d)'
  OBVIOUS
<1>1. ASSUME NEW c \in Conns, Join(c) \/ HandshakeFails(c) \/ Leave(c) \/ Connect(c)
      PROVE  I(d)'
  <2>1. UNCHANGED <<job, logged>> /\ \E l \in {"loop", "closed", "hello"} : Goto(c, l)
    BY <1>1 DEF Join, HandshakeFails, Leave, Connect, docVars
  <2> QED BY <1>t, <1>u, <1>q, <2>1 DEF Goto
<1>2. ASSUME NEW c \in Conns, LoopEnds(c) \/ ReadOther(c) \/ Acquire(c)
                              \/ FanoutUpdate(c) \/ HandlePresence(c)
                              \/ HandleHeartbeat(c) \/ RateLimited(c)
      PROVE  I(d)'
  <2>1. UNCHANGED <<job, logged>>
        /\ \E l \in {"loop", "leaving", "receipt", "append", "presence", "heartbeat",
                     "flood"} : Goto(c, l)
    BY <1>2 DEF LoopEnds, ReadOther, Acquire, FanoutUpdate, HandlePresence,
                HandleHeartbeat, RateLimited, docVars
  <2> QED BY <1>t, <1>u, <1>q, <2>1 DEF Goto
<1>3. ASSUME NEW c \in Conns, ReadUpdate(c) \/ AccessLost(c) \/ UpdateRefused(c)
                              \/ Receipt(c)
      PROVE  I(d)'
  <2>1. /\ \E u : job' = [job EXCEPT ![c] = u]
        /\ \E l \in {"loop", "leaving", "waiting"} : Goto(c, l)
        /\ UNCHANGED logged
    BY <1>3 DEF ReadUpdate, AccessLost, UpdateRefused, Receipt, docVars
  <2> QED BY <1>t, <1>u, <1>q, <2>1 DEF Goto
<1>a. ASSUME NEW c \in Conns, pc[c] = "append", d # c PROVE pc[d] # "import"
  BY <1>a DEF DurableInv, LockHeldOnce, Holding
<1>f. ASSUME NEW c \in Conns, AppendFails(c) PROVE I(d)'
  <2>1. /\ pc[c] = "append" /\ job' = [job EXCEPT ![c] = NoUpdate]
        /\ pc' = [pc EXCEPT ![c] = "loop"]
    BY <1>f DEF AppendFails, Goto
  <2>2. CASE d = c
    BY <1>t, <1>q, <2>1, <2>2
  <2>3. CASE d # c
    BY <1>t, <1>a, <1>v, <2>1, <2>3
  <2> QED BY <2>2, <2>3
<1>4. ASSUME NEW c \in Conns, AppendOk(c) PROVE I(d)'
  <2>1. /\ pc[c] = "append" /\ UNCHANGED job /\ pc' = [pc EXCEPT ![c] = "import"]
        /\ job[c] \in logged'
    BY <1>4 DEF AppendOk, Logs, Goto
  <2>2. CASE d = c
    BY <1>t, <2>1, <2>2
  <2>3. CASE d # c
    BY <1>t, <1>a, <1>v, <2>1, <2>3
  <2> QED BY <2>2, <2>3
<1>5. ASSUME NEW c \in Conns, Import(c) PROVE I(d)'
  <2>1. UNCHANGED <<job, logged>> /\ imported' = imported \cup {job[c]}
        /\ \E l \in {"receipt", "snap", "fanout"} : pc' = [pc EXCEPT ![c] = l]
    BY <1>5 DEF Import, Goto
  <2> QED BY <1>t, <1>u, <2>1
<1>6. ASSUME NEW c \in Conns, SnapshotInUpdate(c) PROVE I(d)'
  <2>1. UNCHANGED <<job, logged, imported>>
        /\ pc[c] = "snap" /\ pc' = [pc EXCEPT ![c] = "fanout"]
    BY <1>6 DEF SnapshotInUpdate, Goto
  <2> QED BY <1>0, <1>t, <1>u, <2>1
<1>7. CASE \/ \E p \in Peers, u \in Updates : LocalEdit(p, u)
           \/ \E p \in Peers : ClientClose(p)
           \/ \E c \in Conns : Send(c) \/ Deliver(c)
           \/ \E gone \in SUBSET presence : SweepPresence(gone)
           \/ MaintSnapshotBegin \/ MaintSnapshotStamp \/ MaintSnapshotEnd \/ UNCHANGED vars
  <2>1. UNCHANGED <<pc, job, logged>>
    BY <1>7 DEF LocalEdit, ClientClose, Send, Deliver, SweepPresence,
       MaintSnapshotBegin, MaintSnapshotStamp, MaintSnapshotEnd, vars, taskVars, docVars
  <2> QED BY <1>u, <2>1
<1>8. CASE Crash
  <2>1. pc'[d] \in {"idle", "closed"}
    BY <1>8 DEF Crash
  <2> QED BY <1>q, <2>1
<1>9. ASSUME NEW c \in Conns, Connect(c) \/ Send(c) \/ SessionStep(c) PROVE I(d)'
  BY <1>1, <1>2, <1>3, <1>f, <1>4, <1>5, <1>6, <1>7, <1>9 DEF SessionStep
<1> QED BY <1>7, <1>8, <1>9 DEF Next

(* A channel only carries what the authority has: the catch-up of a join, or an  *)
(* update whose import precedes its fan-out.                                     *)
LEMMA QueueDurable ==
    ASSUME TypeOK, JobOK, DurableInv, [Next]_vars
    PROVE  \A d \in Conns : Carried(queue'[d]) \subseteq imported'
<1> SUFFICES ASSUME NEW d \in Conns PROVE Carried(queue'[d]) \subseteq imported'
  OBVIOUS
<1>0. Carried(queue[d]) \subseteq imported /\ queue \in [Conns -> Seq(Frames)]
  BY DEF DurableInv, TypeOK
<1>m. imported \subseteq imported'
  BY Monotone
<1>u. queue'[d] = queue[d] => Carried(queue'[d]) \subseteq imported'
  BY <1>0, <1>m
<1>p. ASSUME RelayPost(sessions, presence, queue, close, {}, {})
      PROVE  Carried(queue'[d]) \subseteq imported'
  BY <1>0, <1>m, <1>p DEF RelayPost
<1>1. ASSUME NEW c \in Conns, Join(c) PROVE Carried(queue'[d]) \subseteq imported'
  <2> DEFINE q == [queue EXCEPT ![c] = Append(@, Welcome(Catchup(c)))]
  <2>1. RelayPost([sessions EXCEPT ![PeerOf[c]] = c], presence \cup {PeerOf[c]}, q,
                  close, {}, {})
    BY <1>1, RelayActions
  <2>2. Catchup(c) \subseteq imported /\ Welcome(Catchup(c)) \in Frames
        /\ Welcome(Catchup(c)).ups = Catchup(c)
    BY AppliedSubset, FrameTypes DEF Catchup, Welcome, TypeOK
  <2>3. Carried(Append(queue[c], Welcome(Catchup(c)))) = Carried(queue[c]) \cup Catchup(c)
    BY <1>0, <2>2, CarriedAppend
  <2>4. Carried(queue[c]) \subseteq imported
    BY DEF DurableInv
  <2>5. Carried(q[d]) \subseteq imported
    BY <1>0, <2>2, <2>3, <2>4
  <2> HIDE DEF q
  <2>6. Carried(queue'[d]) \subseteq Carried(q[d]) \cup {}
    BY <2>1 DEF RelayPost
  <2> QED BY <1>m, <2>5, <2>6
<1>2. ASSUME NEW c \in Conns, Leave(c) PROVE Carried(queue'[d]) \subseteq imported'
  <2> DEFINE q == [queue EXCEPT ![c] = << >>]
  <2>1. Carried(q[d]) \subseteq imported
    BY <1>0, CarriedEmpty
  <2>2. CASE Mine(c)
    <3>1. RelayPost([sessions EXCEPT ![PeerOf[c]] = NoConn], presence \ {PeerOf[c]}, q,
                    [close EXCEPT ![c] = "normal"], {}, {})
      BY <1>2, <2>2, RelayActions
    <3> HIDE DEF q
    <3>2. Carried(queue'[d]) \subseteq Carried(q[d]) \cup {}
      BY <3>1 DEF RelayPost
    <3> QED BY <1>m, <2>1, <3>2
  <2>3. CASE ~Mine(c)
    <3>1. queue' = q
      BY <1>2, <2>3 DEF Leave
    <3> QED BY <1>m, <2>1, <3>1
  <2> QED BY <2>2, <2>3
<1>3. ASSUME NEW c \in Conns, Deliver(c) PROVE Carried(queue'[d]) \subseteq imported'
  <2>1. queue[c] \in Seq(Frames) /\ queue[c] # << >>
        /\ queue' = [queue EXCEPT ![c] = Tail(queue[c])]
    BY <1>0, <1>3 DEF Deliver
  <2>2. Carried(Tail(queue[c])) \subseteq Carried(queue[c])
    BY <2>1, CarriedHeadTail
  <2> QED BY <1>0, <1>m, <2>1, <2>2
<1>4. ASSUME NEW c \in Conns, FanoutUpdate(c) PROVE Carried(queue'[d]) \subseteq imported'
  <2>1. job[c] \in Updates /\ job[c] \in imported
    BY <1>4 DEF FanoutUpdate, JobOK, HandlesUpdate, Holding, DurableInv
  <2>2. RelayPost(sessions, presence, queue, close, {job[c]}, {PeerOf[c]})
    BY <1>4, <2>1, RelayActions
  <2>3. Carried(queue'[d]) \subseteq Carried(queue[d]) \cup {job[c]}
    BY <2>2 DEF RelayPost
  <2> QED BY <1>0, <1>m, <2>1, <2>3
<1>5. ASSUME NEW c \in Conns, HandlePresence(c) \/ RateLimited(c)
      PROVE  Carried(queue'[d]) \subseteq imported'
  <2>1. RelayPost(sessions, presence, queue, close, {}, {})
    BY <1>5, RelayActions
  <2> QED BY <1>p, <2>1
<1>6. ASSUME NEW gone \in SUBSET presence, SweepPresence(gone)
      PROVE  Carried(queue'[d]) \subseteq imported'
  <2>1. RelayPost(sessions, presence, queue, close, {}, {})
    BY <1>6, RelayActions
  <2> QED BY <1>p, <2>1
<1>7. CASE Crash
  <2>1. queue'[d] = << >>
    BY <1>7 DEF Crash
  <2> QED BY <2>1, CarriedEmpty
<1>8. CASE \/ \E p \in Peers, u \in Updates : LocalEdit(p, u)
           \/ \E p \in Peers : ClientClose(p)
           \/ MaintSnapshotBegin \/ MaintSnapshotStamp \/ MaintSnapshotEnd \/ UNCHANGED vars
  <2>1. UNCHANGED queue
    BY <1>8 DEF LocalEdit, ClientClose, MaintSnapshotBegin, MaintSnapshotStamp,
       MaintSnapshotEnd, vars,
                relayVars
  <2> QED BY <1>u, <2>1
<1>9. ASSUME NEW c \in Conns, Connect(c) \/ Send(c) \/ SessionStep(c)
      PROVE  Carried(queue'[d]) \subseteq imported'
  <2>1. CASE UNCHANGED relayVars
    BY <1>u, <2>1 DEF relayVars
  <2>2. CASE ~UNCHANGED relayVars
    <3>1. \/ Join(c) \/ Leave(c) \/ Deliver(c) \/ FanoutUpdate(c) \/ HandlePresence(c)
          \/ RateLimited(c)
      BY <1>9, <2>2, RelayUntouched DEF SessionStep
    <3> QED BY <1>1, <1>2, <1>3, <1>4, <1>5, <3>1
  <2> QED BY <2>1, <2>2
<1> QED BY <1>6, <1>7, <1>8, <1>9 DEF Next

(* A replica only grows, by a batch of its own or by what a frame brings. *)
LEMMA ReplicaStep ==
    ASSUME TypeOK, DurableInv, [Next]_vars, NEW p \in Peers
    PROVE  /\ replica[p] \subseteq replica'[p]
           /\ \/ replica'[p] \subseteq replica[p] \cup imported
              \/ \E u \in Updates : LocalEdit(p, u)
<1>t. replica \in [Peers -> SUBSET Updates] /\ queue \in [Conns -> Seq(Frames)]
  BY DEF TypeOK
<1>u. UNCHANGED replica => /\ replica[p] \subseteq replica'[p]
                           /\ replica'[p] \subseteq replica[p] \cup imported
  OBVIOUS
<1>1. ASSUME NEW r \in Peers, NEW u \in Updates, LocalEdit(r, u)
      PROVE  /\ replica[p] \subseteq replica'[p]
             /\ r # p => replica'[p] \subseteq replica[p] \cup imported
  BY <1>t, <1>1 DEF LocalEdit
<1>2. ASSUME NEW c \in Conns, Deliver(c)
      PROVE  /\ replica[p] \subseteq replica'[p]
             /\ replica'[p] \subseteq replica[p] \cup imported
  <2>1. queue[c] \in Seq(Frames) /\ queue[c] # << >>
    BY <1>t, <1>2 DEF Deliver
  <2>2. Head(queue[c]).ups \subseteq imported
    BY <2>1, CarriedHeadTail DEF DurableInv
  <2>3. \/ UNCHANGED replica
        \/ replica' = [replica EXCEPT ![PeerOf[c]] = @ \cup Head(queue[c]).ups]
    BY <1>2 DEF Deliver, Receive, Detach, clientVars
  <2> QED BY <1>t, <2>2, <2>3
<1>3. ASSUME NEW c \in Conns, Connect(c) \/ Send(c) \/ SessionStep(c), ~Deliver(c)
      PROVE  UNCHANGED replica
  <2>1. \A to : ClientError(c, to) => UNCHANGED replica
    BY DEF ClientError, Detach, clientVars
  <2>2. CASE \/ HandshakeFails(c) \/ LoopEnds(c) \/ AccessLost(c) \/ UpdateRefused(c)
             \/ AppendFails(c) \/ RateLimited(c)
    BY <2>1, <2>2 DEF HandshakeFails, LoopEnds, AccessLost, UpdateRefused,
       AppendFails,
                      RateLimited
  <2>3. CASE \/ Connect(c) \/ Send(c) \/ Join(c) \/ Leave(c) \/ ReadUpdate(c)
             \/ ReadOther(c) \/ Acquire(c) \/ AppendOk(c) \/ Import(c)
             \/ SnapshotInUpdate(c) \/ FanoutUpdate(c) \/ Receipt(c)
             \/ HandlePresence(c) \/ HandleHeartbeat(c)
    BY <2>3 DEF Connect, Send, Join, Leave, ReadUpdate, ReadOther, Acquire, AppendOk,
       Import, SnapshotInUpdate, FanoutUpdate, Receipt, HandlePresence,
       HandleHeartbeat, clientVars
  <2> QED BY <1>3, <2>2, <2>3 DEF SessionStep
<1>4. CASE \/ \E r \in Peers : ClientClose(r)
           \/ \E gone \in SUBSET presence : SweepPresence(gone)
           \/ MaintSnapshotBegin \/ MaintSnapshotStamp \/ MaintSnapshotEnd \/ Crash \/ UNCHANGED vars
  <2>1. UNCHANGED replica
    BY <1>4 DEF ClientClose, Detach, SweepPresence, MaintSnapshotBegin,
       MaintSnapshotStamp,
       MaintSnapshotEnd, Crash, vars, clientVars
  <2> QED BY <1>u, <2>1
<1> QED BY <1>1, <1>2, <1>3, <1>4, <1>u DEF Next

(* The durability invariant is inductive. *)
LEMMA DurableStep == TypeOK /\ JobOK /\ DurableInv /\ [Next]_vars => DurableInv'
<1> SUFFICES ASSUME TypeOK, JobOK, DurableInv, [Next]_vars PROVE DurableInv'
  OBVIOUS
<1>1. ASSUME NEW p \in Peers PROVE replica'[p] \ Own(p) \subseteq imported'
  <2>0. replica[p] \ Own(p) \subseteq imported /\ imported \subseteq imported'
    BY Monotone DEF DurableInv
  <2>1. CASE replica'[p] \subseteq replica[p] \cup imported
    BY <2>0, <2>1
  <2>2. ASSUME NEW u \in Updates, LocalEdit(p, u)
        PROVE  replica'[p] \ Own(p) \subseteq imported'
    <3>1. u \in Own(p) /\ replica'[p] = replica[p] \cup {u}
      BY <2>2 DEF LocalEdit, Own, TypeOK
    <3> QED BY <2>0, <3>1
  <2> QED BY <2>1, <2>2, ReplicaStep
<1>2. LockHeldOnce'
  BY LockStep DEF DurableInv
<1>3. \A p \in Peers : (replica[p] \ Own(p) \subseteq imported)'
  BY <1>1 DEF Own
<1> QED BY <1>2, <1>3, DocDurable, JobDurable, QueueDurable DEF DurableInv

(* A new document has nothing to lose. *)
LEMMA DurableInit == Init => DurableInv
BY CarriedEmpty DEF Init, DurableInv, LockHeldOnce, Holding, Exported

(* No client is shown an update of another client that is not in the op log:   *)
(* append precedes import and fan-out, and a catch-up exports what was          *)
(* imported, over every crash and failed append.                                *)
THEOREM RelayAfterLog == Spec => []RelayedIsDurable
<1>1. DurableInv => RelayedIsDurable
  BY DEF DurableInv, RelayedIsDurable
<1> QED BY <1>1, DurableInit, DurableStep, TypeCorrect, PTL DEF Spec

(* The authority never loses an applied update, not even by a crash between an *)
(* import and the next snapshot.                                               *)
THEOREM AuthorityNeverShrinks == Spec => AuthorityKept
<1>1. TypeOK /\ DurableInv /\ [Next]_vars => [Applied(imported) \subseteq Applied(imported')]_vars
  BY Monotone DEF Applied
<1> QED BY <1>1, DurableInit, DurableStep, TypeCorrect, PTL DEF Spec, AuthorityKept

-----------------------------------------------------------------------------
(***************************************************************************)
(* Receipts.  A protocol 2 client sends one batch and keeps it until its   *)
(* receipt, so dependencies reach the authority before what needs them.    *)
(***************************************************************************)

(* The elements of a sequence, of its tail, and of the sequence with one more. *)
LEMMA ElemsFacts ==
    ASSUME NEW s \in Seq(Updates)
    PROVE  /\ \A x \in Updates : Elems(Append(s, x)) = Elems(s) \cup {x}
           /\ s # << >> => /\ Head(s) \in Elems(s)
                           /\ Elems(s) = {Head(s)} \cup Elems(Tail(s))
<1>0. Len(s) \in Nat /\ DOMAIN s = 1 .. Len(s)
  BY LenProperties
<1>1. ASSUME NEW x \in Updates PROVE Elems(Append(s, x)) = Elems(s) \cup {x}
  <2> DEFINE t == Append(s, x)
  <2>1. /\ DOMAIN t = 1 .. (Len(s) + 1) /\ t[Len(s) + 1] = x
        /\ \A i \in 1 .. Len(s) : t[i] = s[i]
    BY AppendProperties, LenProperties
  <2> HIDE DEF t
  <2>2. Elems(t) = Elems(s) \cup {x}
    BY <1>0, <2>1 DEF Elems
  <2> QED BY <2>2 DEF t
<1>2. ASSUME s # << >>
      PROVE  Head(s) \in Elems(s) /\ Elems(s) = {Head(s)} \cup Elems(Tail(s))
  <2> DEFINE t == Tail(s)
  <2>1. /\ Len(s) >= 1 /\ Head(s) = s[1]
        /\ DOMAIN t = 1 .. (Len(s) - 1)
        /\ \A i \in 1 .. (Len(s) - 1) : t[i] = s[i + 1]
    BY <1>0, <1>2, HeadTailProperties, LenProperties, EmptySeq
  <2> HIDE DEF t
  <2>2. Head(s) \in Elems(s)
    BY <1>0, <2>1 DEF Elems
  <2>3. ASSUME NEW i \in DOMAIN s PROVE s[i] \in {Head(s)} \cup Elems(t)
    <3>1. CASE i = 1
      BY <2>1, <3>1
    <3>2. CASE i # 1
      <4>1. i - 1 \in DOMAIN t /\ t[i - 1] = s[i]
        BY <1>0, <2>1, <3>2
      <4> QED BY <4>1 DEF Elems
    <3> QED BY <3>1, <3>2
  <2>4. ASSUME NEW i \in DOMAIN t PROVE t[i] \in Elems(s)
    <3>1. i + 1 \in DOMAIN s /\ s[i + 1] = t[i]
      BY <1>0, <2>1
    <3> QED BY <3>1 DEF Elems
  <2>5. Elems(s) \subseteq {Head(s)} \cup Elems(t)
    BY <2>3 DEF Elems
  <2>6. Elems(t) \subseteq Elems(s)
    BY <2>4 DEF Elems
  <2>7. Elems(s) = {Head(s)} \cup Elems(t)
    BY <2>2, <2>5, <2>6
  <2> QED BY <2>2, <2>7 DEF t
<1> QED BY <1>1, <1>2

(* With receipts, a pending queue grows by an edit and shrinks by the receipt of *)
(* a batch the authority has.                                                     *)
LEMMA PendingStep ==
    ASSUME Receipts = TRUE, TypeOK, CausalInv, [Next]_vars, NEW p \in Peers
    PROVE  \/ pending'[p] = pending[p]
           \/ \E u \in Updates : LocalEdit(p, u)
           \/ /\ pending[p] # << >> /\ Head(pending[p]) \in imported
              /\ pending'[p] = Tail(pending[p])
<1>t. pending \in [Peers -> Seq(Updates)]
  BY DEF TypeOK
<1>1. ASSUME NEW r \in Peers, NEW u \in Updates, LocalEdit(r, u), r # p
      PROVE  pending'[p] = pending[p]
  BY <1>t, <1>1 DEF LocalEdit
<1>2. ASSUME NEW c \in Conns, Receipt(c)
      PROVE  \/ pending'[p] = pending[p]
             \/ /\ pending[p] # << >> /\ Head(pending[p]) \in imported
                /\ pending'[p] = Tail(pending[p])
  <2>1. pc[c] = "receipt" /\ job[c] \in imported
    BY <1>2 DEF Receipt, CausalInv, JobCausal
  <2>2. \/ UNCHANGED pending
        \/ /\ pending[PeerOf[c]] # << >> /\ Head(pending[PeerOf[c]]) = job[c]
           /\ pending' = [pending EXCEPT ![PeerOf[c]] = Tail(pending[PeerOf[c]])]
    BY <1>2 DEF Receipt
  <2> QED BY <1>t, <2>1, <2>2
<1>3. ASSUME NEW c \in Conns, Connect(c) \/ Send(c) \/ SessionStep(c), ~Receipt(c)
      PROVE  UNCHANGED pending
  <2>1. \A to : ClientError(c, to) => UNCHANGED pending
    BY DEF ClientError, Detach, clientVars
  <2>2. CASE \/ HandshakeFails(c) \/ LoopEnds(c) \/ AccessLost(c) \/ UpdateRefused(c)
             \/ AppendFails(c) \/ RateLimited(c)
    BY <2>1, <2>2 DEF HandshakeFails, LoopEnds, AccessLost, UpdateRefused,
       AppendFails,
                      RateLimited
  <2>3. CASE \/ Connect(c) \/ Send(c) \/ Join(c) \/ Leave(c) \/ ReadUpdate(c)
             \/ ReadOther(c) \/ Acquire(c) \/ AppendOk(c) \/ Import(c)
             \/ SnapshotInUpdate(c) \/ FanoutUpdate(c)
             \/ HandlePresence(c) \/ HandleHeartbeat(c)
    BY <2>3 DEF Connect, Send, Join, Leave, ReadUpdate, ReadOther, Acquire, AppendOk,
       Import, SnapshotInUpdate, FanoutUpdate, HandlePresence,
       HandleHeartbeat, clientVars
  <2>4. CASE Deliver(c)
    BY <2>4 DEF Deliver, Receive, Detach, clientVars
  <2> QED BY <1>3, <2>2, <2>3, <2>4 DEF SessionStep
<1>4. CASE \/ \E r \in Peers : ClientClose(r)
           \/ \E gone \in SUBSET presence : SweepPresence(gone)
           \/ MaintSnapshotBegin \/ MaintSnapshotStamp \/ MaintSnapshotEnd \/ Crash \/ UNCHANGED vars
  BY <1>4 DEF ClientClose, Detach, SweepPresence, MaintSnapshotBegin,
     MaintSnapshotStamp,
       MaintSnapshotEnd, Crash, vars, clientVars
<1> QED BY <1>1, <1>2, <1>3, <1>4 DEF Next

(* The client's part of CausalInv. *)
LEMMA CausalClient ==
    ASSUME Receipts = TRUE, TypeOK, DurableInv, CausalInv, [Next]_vars, NEW p \in Peers
    PROVE  /\ (Queued(p) \subseteq replica[p])'
           /\ (\A i \in DOMAIN pending[p] :
                  Deps[pending[p][i]] \subseteq imported \cup Before(p, i))'
           /\ (replica[p] \subseteq imported \cup Queued(p))'
<1>t. pending[p] \in Seq(Updates) /\ Len(pending[p]) \in Nat
      /\ DOMAIN pending[p] = 1 .. Len(pending[p])
  BY LenProperties DEF TypeOK
<1>m. imported \subseteq imported'
  BY Monotone
<1>r. /\ replica[p] \subseteq replica'[p]
      /\ \/ replica'[p] \subseteq replica[p] \cup imported
         \/ \E u \in Updates : LocalEdit(p, u)
  BY ReplicaStep
<1>0. /\ Queued(p) \subseteq replica[p]
      /\ \A i \in DOMAIN pending[p] :
             Deps[pending[p][i]] \subseteq imported \cup Before(p, i)
      /\ replica[p] \subseteq imported \cup Queued(p)
  BY DEF CausalInv
<1>1. ASSUME NEW u \in Updates, LocalEdit(p, u)
      PROVE  /\ (Queued(p) \subseteq replica[p])'
             /\ (\A i \in DOMAIN pending[p] :
                    Deps[pending[p][i]] \subseteq imported \cup Before(p, i))'
             /\ (replica[p] \subseteq imported \cup Queued(p))'
  <2>1. /\ replica'[p] = replica[p] \cup {u} /\ pending'[p] = Append(pending[p], u)
        /\ Deps[u] \subseteq replica[p]
    BY <1>1 DEF LocalEdit, TypeOK
  <2>2. Queued(p)' = Queued(p) \cup {u}
    BY <1>t, <2>1, ElemsFacts DEF Queued
  <2>3. /\ DOMAIN pending'[p] = 1 .. (Len(pending[p]) + 1)
        /\ pending'[p][Len(pending[p]) + 1] = u
        /\ \A i \in 1 .. Len(pending[p]) : pending'[p][i] = pending[p][i]
    BY <1>t, <2>1, AppendProperties, LenProperties
  <2>4. \A i \in 1 .. (Len(pending[p]) + 1) : Before(p, i)' = Before(p, i)
    <3>1. ASSUME NEW i \in 1 .. (Len(pending[p]) + 1), NEW j \in 1 .. (i - 1)
          PROVE  pending'[p][j] = pending[p][j]
      <4>1. j \in 1 .. Len(pending[p])
        BY <1>t
      <4> QED BY <2>3, <4>1
    <3> QED BY <3>1 DEF Before
  <2>5. Queued(p) = Before(p, Len(pending[p]) + 1)
    <3>1. (Len(pending[p]) + 1) - 1 = Len(pending[p])
      BY <1>t
    <3> QED BY <1>t, <3>1 DEF Queued, Elems, Before
  <2>6. ASSUME NEW i \in 1 .. (Len(pending[p]) + 1)
        PROVE  Deps[pending'[p][i]] \subseteq imported' \cup Before(p, i)'
    <3>1. CASE i = Len(pending[p]) + 1
      BY <1>0, <1>m, <2>1, <2>3, <2>4, <2>5, <3>1
    <3>2. CASE i # Len(pending[p]) + 1
      <4>1. i \in DOMAIN pending[p] /\ pending'[p][i] = pending[p][i]
        BY <1>t, <2>3, <3>2
      <4>2. Deps[pending[p][i]] \subseteq imported \cup Before(p, i)
        BY <1>0, <4>1
      <4> QED BY <1>m, <2>4, <4>1, <4>2
    <3> QED BY <3>1, <3>2
  <2> QED BY <1>0, <1>m, <2>1, <2>2, <2>3, <2>6
<1>2. ASSUME pending'[p] = pending[p], replica'[p] \subseteq replica[p] \cup imported
      PROVE  /\ (Queued(p) \subseteq replica[p])'
             /\ (\A i \in DOMAIN pending[p] :
                    Deps[pending[p][i]] \subseteq imported \cup Before(p, i))'
             /\ (replica[p] \subseteq imported \cup Queued(p))'
  <2>1. Queued(p)' = Queued(p) /\ \A i : Before(p, i)' = Before(p, i)
    BY <1>2 DEF Queued, Before
  <2> QED BY <1>0, <1>2, <1>m, <1>r, <2>1
<1>3. ASSUME pending[p] # << >>, Head(pending[p]) \in imported,
             pending'[p] = Tail(pending[p]), replica'[p] \subseteq replica[p] \cup imported
      PROVE  /\ (Queued(p) \subseteq replica[p])'
             /\ (\A i \in DOMAIN pending[p] :
                    Deps[pending[p][i]] \subseteq imported \cup Before(p, i))'
             /\ (replica[p] \subseteq imported \cup Queued(p))'
  <2>1. Queued(p) = {Head(pending[p])} \cup Queued(p)'
    BY <1>t, <1>3, ElemsFacts DEF Queued
  <2>2. /\ Len(pending[p]) >= 1 /\ Head(pending[p]) = pending[p][1]
        /\ DOMAIN pending'[p] = 1 .. (Len(pending[p]) - 1)
        /\ \A i \in 1 .. (Len(pending[p]) - 1) : pending'[p][i] = pending[p][i + 1]
    BY <1>t, <1>3, HeadTailProperties, LenProperties, EmptySeq
  <2>3. ASSUME NEW i \in 1 .. (Len(pending[p]) - 1)
        PROVE  Deps[pending'[p][i]] \subseteq imported' \cup Before(p, i)'
    <3>1. i + 1 \in DOMAIN pending[p] /\ pending'[p][i] = pending[p][i + 1]
      BY <1>t, <2>2
    <3>2. Deps[pending[p][i + 1]] \subseteq imported \cup Before(p, i + 1)
      BY <1>0, <3>1
    <3>3. ASSUME NEW j \in 1 .. ((i + 1) - 1)
          PROVE  pending[p][j] \in imported \cup Before(p, i)'
      <4>1. CASE j = 1
        BY <1>3, <2>2, <4>1
      <4>2. CASE j # 1
        <5>1. j - 1 \in 1 .. (i - 1) /\ j - 1 \in 1 .. (Len(pending[p]) - 1)
              /\ (j - 1) + 1 = j
          BY <1>t, <2>2, <4>2
        <5>2. pending'[p][j - 1] = pending[p][j]
          BY <2>2, <5>1
        <5> QED BY <5>1, <5>2 DEF Before
      <4> QED BY <4>1, <4>2
    <3>4. Before(p, i + 1) \subseteq imported \cup Before(p, i)'
      BY <3>3 DEF Before
    <3> QED BY <1>m, <3>1, <3>2, <3>4
  <2> QED BY <1>0, <1>3, <1>m, <1>r, <2>1, <2>2, <2>3
<1>4. CASE \E u \in Updates : LocalEdit(p, u)
  BY <1>1, <1>4
<1>5. CASE ~\E u \in Updates : LocalEdit(p, u)
  BY <1>2, <1>3, <1>5, <1>r, PendingStep
<1> QED BY <1>4, <1>5

(* The relay's part of CausalInv: log, sockets and sessions. *)
LEMMA CausalRelay ==
    ASSUME Receipts = TRUE, TypeOK, JobOK, DurableInv, CausalInv, [Next]_vars,
           NEW d \in Conns
    PROVE  InboxCausal(d)' /\ JobCausal(d)'
<1>t. pc \in [Conns -> PcStates] /\ job \in [Conns -> Updates \cup {NoUpdate}]
      /\ inbox \in [Conns -> Seq(Updates)] /\ pending \in [Peers -> Seq(Updates)]
  BY DEF TypeOK
<1>h. HandlesUpdate = {"append", "import", "snap", "fanout", "waiting", "receipt"}
  BY DEF HandlesUpdate, Holding
<1>0. InboxCausal(d) /\ JobCausal(d)
  BY DEF CausalInv
<1>m. \A u : Sendable(d, u) => Sendable(d, u)'
  BY Monotone, ReplicaStep, PeerOfType DEF Sendable
<1>i. imported \subseteq imported'
  BY Monotone
<1>b. inbox'[d] = inbox[d] => InboxCausal(d)'
  BY <1>0, <1>m DEF InboxCausal
<1>j. pc'[d] = pc[d] /\ job'[d] = job[d] => JobCausal(d)'
  BY <1>0, <1>m, <1>i DEF JobCausal
<1>q. pc'[d] \notin HandlesUpdate => JobCausal(d)'
  BY <1>h DEF JobCausal
<1>1. ASSUME NEW c \in Conns, Connect(c) \/ Join(c) \/ HandshakeFails(c) \/ LoopEnds(c)
                              \/ ReadOther(c) \/ HandlePresence(c)
                              \/ HandleHeartbeat(c) \/ RateLimited(c)
      PROVE  InboxCausal(d)' /\ JobCausal(d)'
  <2>1. UNCHANGED <<job, inbox>>
        /\ \E l \in {"hello", "loop", "closed", "leaving", "presence", "heartbeat",
                     "flood"} : Goto(c, l)
    BY <1>1 DEF Connect, Join, HandshakeFails, LoopEnds, ReadOther, HandlePresence,
                HandleHeartbeat, RateLimited
  <2> QED BY <1>t, <1>h, <1>b, <1>j, <1>q, <2>1 DEF Goto
<1>2. ASSUME NEW c \in Conns, Send(c) PROVE InboxCausal(d)' /\ JobCausal(d)'
  <2> DEFINE p == PeerOf[c]
             b == Head(pending[p])
  <2>0. UNCHANGED <<pc, job>> /\ inbox' = [inbox EXCEPT ![c] = Append(inbox[c], b)]
        /\ pending[p] # << >>
    BY <1>2 DEF Send, taskVars
  <2>1. CASE d # c
    <3>1. inbox'[d] = inbox[d]
      BY <1>t, <2>0, <2>1
    <3> QED BY <1>b, <1>j, <2>0, <3>1
  <2>2. CASE d = c
    <3>1. p \in Peers /\ pending[p] \in Seq(Updates)
      BY <1>t, PeerOfType
    <3>2. b \in Updates /\ b \in Queued(p) /\ 1 \in DOMAIN pending[p] /\ b = pending[p][1]
      BY <2>0, <3>1, ElemsFacts, HeadTailProperties, LenProperties, EmptySeq
         DEF Queued
    <3>3. Before(p, 1) = {}
      BY DEF Before
    <3>4. Deps[b] \subseteq imported \cup Before(p, 1) /\ b \in replica[p]
      BY <3>1, <3>2 DEF CausalInv
    <3>5. Sendable(d, b)
      BY <2>2, <3>3, <3>4 DEF Sendable
    <3> HIDE DEF b
    <3>6. Elems(inbox'[d]) = Elems(inbox[d]) \cup {b}
      BY <1>t, <2>0, <2>2, <3>2, ElemsFacts
    <3>7. InboxCausal(d)'
      BY <1>0, <1>m, <3>5, <3>6 DEF InboxCausal
    <3> QED BY <1>j, <2>0, <3>7
  <2> QED BY <2>1, <2>2
<1>3. ASSUME NEW c \in Conns, Leave(c) PROVE InboxCausal(d)' /\ JobCausal(d)'
  <2>1. inbox' = [inbox EXCEPT ![c] = << >>] /\ UNCHANGED job /\ Goto(c, "closed")
    BY <1>3 DEF Leave
  <2>2. Elems(<< >>) = {}
    BY DEF Elems
  <2>3. InboxCausal(d)'
    <3>1. CASE d = c
      BY <1>t, <2>1, <2>2, <3>1 DEF InboxCausal
    <3>2. CASE d # c
      <4>1. inbox'[d] = inbox[d]
        BY <1>t, <2>1, <3>2
      <4> QED BY <1>b, <4>1
    <3> QED BY <3>1, <3>2
  <2> QED BY <1>t, <1>h, <1>j, <1>q, <2>1, <2>3 DEF Goto
<1>4. ASSUME NEW c \in Conns, ReadUpdate(c) PROVE InboxCausal(d)' /\ JobCausal(d)'
  <2>1. /\ inbox[c] # << >> /\ inbox' = [inbox EXCEPT ![c] = Tail(inbox[c])]
        /\ job' = [job EXCEPT ![c] = Head(inbox[c])] /\ Goto(c, "waiting")
    BY <1>4 DEF ReadUpdate
  <2>2. CASE d = c
    <3>1. Head(inbox[d]) \in Elems(inbox[d])
          /\ Elems(Tail(inbox[d])) \subseteq Elems(inbox[d])
      BY <1>t, <2>1, <2>2, ElemsFacts
    <3>2. inbox'[d] = Tail(inbox[d]) /\ job'[d] = Head(inbox[d]) /\ pc'[d] = "waiting"
      BY <1>t, <2>1, <2>2 DEF Goto
    <3>3. Sendable(d, Head(inbox[d]))
      BY <1>0, <3>1 DEF InboxCausal
    <3> QED BY <1>0, <1>m, <3>1, <3>2, <3>3 DEF InboxCausal, JobCausal
  <2>3. CASE d # c
    <3>1. inbox'[d] = inbox[d] /\ job'[d] = job[d] /\ pc'[d] = pc[d]
      BY <1>t, <2>1, <2>3 DEF Goto
    <3> QED BY <1>b, <1>j, <3>1
  <2> QED BY <2>2, <2>3
<1>5. ASSUME NEW c \in Conns, AccessLost(c) \/ UpdateRefused(c) \/ AppendFails(c)
                              \/ Receipt(c)
      PROVE  InboxCausal(d)' /\ JobCausal(d)'
  <2>1. /\ UNCHANGED inbox /\ job' = [job EXCEPT ![c] = NoUpdate]
        /\ \E l \in {"loop", "leaving"} : Goto(c, l)
    BY <1>5 DEF AccessLost, UpdateRefused, AppendFails, Receipt
  <2> QED BY <1>t, <1>h, <1>b, <1>j, <1>q, <2>1 DEF Goto
<1>6. ASSUME NEW c \in Conns, Acquire(c) \/ AppendOk(c) \/ Import(c)
                              \/ SnapshotInUpdate(c) \/ FanoutUpdate(c)
      PROVE  InboxCausal(d)' /\ JobCausal(d)'
  <2>1. /\ UNCHANGED <<inbox, job>> /\ pc[c] \in HandlesUpdate
        /\ \E l \in HandlesUpdate :
              Goto(c, l) /\ (l = "receipt" => job[c] \in imported')
    <3>1. CASE Acquire(c)
      BY <1>h, <3>1, <1>i, AppliedSubset DEF Acquire
    <3>2. CASE AppendOk(c) \/ SnapshotInUpdate(c)
      BY <1>h, <3>2 DEF AppendOk, SnapshotInUpdate
    <3>3. CASE Import(c)
      BY <1>h, <3>3 DEF Import
    <3>4. CASE FanoutUpdate(c)
      BY <1>h, <1>i, <3>4 DEF FanoutUpdate, DurableInv
    <3> QED BY <1>6, <3>1, <3>2, <3>3, <3>4
  <2>2. CASE d # c
    <3>1. pc'[d] = pc[d]
      BY <1>t, <2>1, <2>2 DEF Goto
    <3> QED BY <1>b, <1>j, <2>1, <3>1
  <2>3. CASE d = c
    <3>1. pc'[d] = "receipt" => job[d] \in imported'
      BY <1>t, <2>1, <2>3 DEF Goto
    <3>2. Sendable(d, job[d])
      BY <1>0, <2>1, <2>3 DEF JobCausal
    <3> QED BY <1>b, <1>m, <2>1, <3>1, <3>2 DEF JobCausal
  <2> QED BY <2>2, <2>3
<1>7. CASE Crash
  <2>1. inbox'[d] = << >> /\ pc'[d] \in {"idle", "closed"}
    BY <1>7 DEF Crash
  <2>2. Elems(<< >>) = {}
    BY DEF Elems
  <2> QED BY <1>h, <1>q, <2>1, <2>2 DEF InboxCausal
<1>8. CASE \/ \E p \in Peers, u \in Updates : LocalEdit(p, u)
           \/ \E p \in Peers : ClientClose(p)
           \/ \E c \in Conns : Deliver(c)
           \/ \E gone \in SUBSET presence : SweepPresence(gone)
           \/ MaintSnapshotBegin \/ MaintSnapshotStamp \/ MaintSnapshotEnd \/ UNCHANGED vars
  <2>1. UNCHANGED <<pc, job, inbox>>
    BY <1>8 DEF LocalEdit, ClientClose, Deliver, SweepPresence,
       MaintSnapshotBegin, MaintSnapshotStamp, MaintSnapshotEnd, vars, taskVars
  <2> QED BY <1>b, <1>j, <2>1
<1>9. ASSUME NEW c \in Conns, Connect(c) \/ Send(c) \/ SessionStep(c)
      PROVE  InboxCausal(d)' /\ JobCausal(d)'
  BY <1>1, <1>2, <1>3, <1>4, <1>5, <1>6, <1>8, <1>9 DEF SessionStep
<1> QED BY <1>7, <1>8, <1>9 DEF Next

(* Only a session's own update enters the log, and it can be applied. *)
LEMMA CausalLog ==
    ASSUME TypeOK, JobOK, DurableInv, CausalInv, [Next]_vars
    PROVE  \A u \in logged' : Deps[u] \subseteq imported'
<1>m. imported \subseteq imported'
  BY Monotone
<1>0. \A u \in logged : Deps[u] \subseteq imported
  BY DEF CausalInv
<1>u. logged' = logged => \A u \in logged' : Deps[u] \subseteq imported'
  BY <1>0, <1>m
<1>1. ASSUME NEW c \in Conns, AppendOk(c) \/ AppendFails(c)
      PROVE  \A u \in logged' : Deps[u] \subseteq imported'
  <2>1. Deps[job[c]] \subseteq imported
    BY <1>1 DEF AppendOk, AppendFails, CausalInv, JobCausal, Sendable, HandlesUpdate,
                Holding
  <2>2. logged' \subseteq logged \cup {job[c]}
    BY <1>1 DEF AppendOk, AppendFails, Logs
  <2> QED BY <1>0, <1>m, <2>1, <2>2
<1>2. ASSUME NEW c \in Conns, Connect(c) \/ Send(c) \/ SessionStep(c),
             ~AppendOk(c), ~AppendFails(c)
      PROVE  logged' = logged
  <2>1. CASE Import(c) \/ SnapshotInUpdate(c)
    BY <2>1 DEF Import, SnapshotInUpdate
  <2>2. CASE ~(Import(c) \/ SnapshotInUpdate(c))
    <3>1. UNCHANGED docVars
      BY <1>2, <2>2, DocUntouched DEF SessionStep
    <3> QED BY <3>1 DEF docVars
  <2> QED BY <2>1, <2>2
<1>3. CASE \/ \E p \in Peers, u \in Updates : LocalEdit(p, u)
           \/ \E p \in Peers : ClientClose(p)
           \/ \E gone \in SUBSET presence : SweepPresence(gone)
           \/ MaintSnapshotBegin \/ MaintSnapshotStamp \/ MaintSnapshotEnd \/ Crash \/ UNCHANGED vars
  <2>1. UNCHANGED logged
    BY <1>3 DEF LocalEdit, ClientClose, SweepPresence, MaintSnapshotBegin,
       MaintSnapshotStamp,
                MaintSnapshotEnd, Crash, vars, docVars
  <2> QED BY <1>u, <2>1
<1> QED BY <1>1, <1>2, <1>3, <1>u DEF Next

(* The causal invariant is inductive when clients wait for receipts. *)
LEMMA CausalStep ==
    Receipts = TRUE /\ TypeOK /\ JobOK /\ DurableInv /\ CausalInv /\ [Next]_vars
        => CausalInv'
<1> SUFFICES ASSUME Receipts = TRUE, TypeOK, JobOK, DurableInv, CausalInv, [Next]_vars
             PROVE  CausalInv'
  OBVIOUS
<1>1. \A u \in logged' : Deps[u] \subseteq imported'
  BY CausalLog
<1>2. \A c \in Conns : InboxCausal(c)' /\ JobCausal(c)'
  BY CausalRelay
<1>3. \A p \in Peers : /\ (Queued(p) \subseteq replica[p])'
                       /\ (\A i \in DOMAIN pending[p] :
                              Deps[pending[p][i]] \subseteq imported \cup Before(p, i))'
                       /\ (replica[p] \subseteq imported \cup Queued(p))'
  BY CausalClient
<1> QED BY <1>1, <1>2, <1>3 DEF CausalInv

(* A client that never edited has sent nothing out of order. *)
LEMMA CausalInit == Init => CausalInv
BY DEF Init, CausalInv, InboxCausal, JobCausal, Queued, Elems, HandlesUpdate, Holding

(* With receipts, a batch a client has forgotten can be rebuilt from the op log  *)
(* alone, with everything it depends on: the receipt follows the append, and      *)
(* batches are sent one at a time, in order, again after every reconnect.         *)
THEOREM ReceiptMeansDurable == Receipts = TRUE => (Spec => []ConfirmedIsDurable)
<1> SUFFICES ASSUME Receipts = TRUE PROVE Spec => []ConfirmedIsDurable
  OBVIOUS
<1>1. DurableInv /\ CausalInv => ConfirmedIsDurable
  <2> SUFFICES ASSUME DurableInv, CausalInv, NEW p \in Peers,
                      NEW u \in Confirmed(p)
               PROVE  u \in Applied(logged)
    BY DEF ConfirmedIsDurable
  <2>1. u \in replica[p] /\ u \notin Queued(p)
    BY DEF Confirmed, Queued, Elems
  <2>2. u \in logged
    BY <2>1 DEF DurableInv, CausalInv
  <2> QED BY <2>2 DEF Applied, DurableInv, CausalInv
<1>2. TypeOK /\ JobOK /\ DurableInv /\ CausalInv /\ [Next]_vars => CausalInv'
  BY CausalStep
<1> QED BY <1>1, <1>2, CausalInit, DurableInit, DurableStep, TypeCorrect, PTL DEF Spec

-----------------------------------------------------------------------------
(***************************************************************************)
(* Nothing is missed.                                                      *)
(***************************************************************************)

(* A HELLO's version vector is read when the socket opens. *)
LEMMA HelloStep == TypeOK /\ DurableInv /\ HelloInv /\ [Next]_vars => HelloInv'
<1> SUFFICES ASSUME TypeOK, DurableInv, HelloInv, [Next]_vars, NEW d \in Conns,
                    pc'[d] = "hello"
             PROVE  vv'[d] \subseteq replica'[PeerOf[d]]
  BY DEF HelloInv
<1>t. pc \in [Conns -> PcStates] /\ vv \in [Conns -> SUBSET Updates]
  BY DEF TypeOK
<1>r. replica[PeerOf[d]] \subseteq replica'[PeerOf[d]]
  BY ReplicaStep, PeerOfType
<1>u. pc'[d] = pc[d] /\ vv'[d] = vv[d] => vv'[d] \subseteq replica'[PeerOf[d]]
  BY <1>r DEF HelloInv
<1>1. ASSUME NEW c \in Conns, Connect(c) PROVE vv'[d] \subseteq replica'[PeerOf[d]]
  <2>1. pc' = [pc EXCEPT ![c] = "hello"] /\ UNCHANGED replica
        /\ vv' = [vv EXCEPT ![c] = Applied(replica[PeerOf[c]])]
    BY <1>1 DEF Connect, Goto
  <2>2. CASE d = c
    BY <1>t, <2>1, <2>2, AppliedSubset
  <2>3. CASE d # c
    BY <1>t, <1>u, <2>1, <2>3
  <2> QED BY <2>2, <2>3
<1>2. ASSUME NEW c \in Conns, SessionStep(c)
      PROVE  vv'[d] \subseteq replica'[PeerOf[d]]
  <2>1. CASE Join(c) \/ HandshakeFails(c)
    <3>1. vv' = [vv EXCEPT ![c] = {}] /\ \E l \in {"loop", "closed"} : Goto(c, l)
      BY <2>1 DEF Join, HandshakeFails
    <3> QED BY <1>t, <1>u, <3>1 DEF Goto
  <2>2. CASE Leave(c)
    <3>1. UNCHANGED vv /\ Goto(c, "closed")
      BY <2>2 DEF Leave
    <3> QED BY <1>t, <1>u, <3>1 DEF Goto
  <2>3. CASE Deliver(c)
    BY <1>u, <2>3 DEF Deliver, taskVars, helloVars
  <2>4. CASE \/ LoopEnds(c) \/ ReadUpdate(c) \/ ReadOther(c) \/ AccessLost(c)
             \/ UpdateRefused(c) \/ Acquire(c) \/ AppendOk(c) \/ AppendFails(c)
             \/ Import(c) \/ SnapshotInUpdate(c) \/ FanoutUpdate(c) \/ Receipt(c)
             \/ HandlePresence(c) \/ HandleHeartbeat(c) \/ RateLimited(c)
    <3>1. Inside(c)
      BY <2>4, InsideActions
    <3>2. UNCHANGED vv
      BY <2>4 DEF LoopEnds, ReadUpdate, ReadOther, AccessLost, UpdateRefused,
         Acquire, AppendOk, AppendFails, Import, SnapshotInUpdate, FanoutUpdate,
         Receipt, HandlePresence, HandleHeartbeat, RateLimited, helloVars
    <3>3. d # c
      BY <3>1, InSessionNames DEF Inside
    <3> QED BY <1>u, <3>1, <3>2, <3>3 DEF Inside
  <2> QED BY <1>2, <2>1, <2>2, <2>3, <2>4 DEF SessionStep
<1>3. CASE \/ \E p \in Peers, u \in Updates : LocalEdit(p, u)
           \/ \E p \in Peers : ClientClose(p)
           \/ \E c \in Conns : Send(c)
           \/ \E gone \in SUBSET presence : SweepPresence(gone)
           \/ MaintSnapshotBegin \/ MaintSnapshotStamp \/ MaintSnapshotEnd \/ UNCHANGED vars
  <2>1. UNCHANGED <<pc, vv>>
    BY <1>3 DEF LocalEdit, ClientClose, Send, SweepPresence, MaintSnapshotBegin,
       MaintSnapshotStamp,
                MaintSnapshotEnd, vars, taskVars, helloVars
  <2> QED BY <1>u, <2>1
<1>4. CASE Crash
  <2>1. pc'[d] \in {"idle", "closed"}
    BY <1>4 DEF Crash
  <2> QED BY <2>1
<1> QED BY <1>1, <1>2, <1>3, <1>4 DEF Next

(* What is to be fanned out stays so in the steps of other tasks, and of a task *)
(* that has nothing to fan out.                                                 *)
LEMMA UnsentKept ==
    ASSUME NEW c \in Conns, pc[c] \notin {"snap", "fanout"},
           \A e \in Conns : e # c => pc'[e] = pc[e] /\ job'[e] = job[e]
    PROVE  Unsent \subseteq Unsent'
BY DEF Unsent

(* A client that joins gets everything with its welcome. *)
LEMMA JoinMissesNothing ==
    ASSUME TypeOK, DurableInv, CausalInv, HelloInv, NEW c \in Conns, Join(c),
           Registered(c)'
    PROVE  imported' \subseteq replica'[PeerOf[c]] \cup Carried(queue'[c])
<1> DEFINE q == [queue EXCEPT ![c] = Append(@, Welcome(Catchup(c)))]
<1>1. RelayPost([sessions EXCEPT ![PeerOf[c]] = c], presence \cup {PeerOf[c]}, q,
                close, {}, {})
  BY RelayActions
<1>2. queue \in [Conns -> Seq(Frames)] /\ Welcome(Catchup(c)) \in Frames
      /\ Welcome(Catchup(c)).ups = Catchup(c)
  BY AppliedSubset, FrameTypes DEF Catchup, Welcome, TypeOK
<1>3. Carried(q[c]) = Carried(queue[c]) \cup Catchup(c)
  BY <1>2, CarriedAppend
<1> HIDE DEF q
<1>4. Carried(q[c]) \subseteq Carried(queue'[c])
  BY <1>1 DEF RelayPost, Registered
<1>5. imported \subseteq Applied(imported)
  BY DEF Applied, DurableInv, CausalInv
<1>6. vv[c] \subseteq replica[PeerOf[c]] /\ UNCHANGED <<replica, imported>>
  BY DEF Join, HelloInv, docVars, clientVars
<1> QED BY <1>3, <1>4, <1>5, <1>6 DEF Catchup

(* A new update is on its way to the fan-out once it is in the authority. *)
LEMMA ImportUnsent ==
    ASSUME TypeOK, JobOK, DurableInv, CausalInv, NEW c \in Conns, Import(c)
    PROVE  imported' \subseteq imported \cup Unsent' /\ Unsent \subseteq Unsent'
<1>1. /\ pc[c] = "import" /\ imported' = imported \cup {job[c]} /\ UNCHANGED job
      /\ \E l : pc' = [pc EXCEPT ![c] = l]
  BY DEF Import, Goto
<1>2. Unsent \subseteq Unsent'
  BY <1>1, UnsentKept DEF TypeOK
<1>3. Deps[job[c]] \subseteq imported
  BY <1>1 DEF CausalInv, JobCausal, Sendable, HandlesUpdate, Holding
<1>4. CASE job[c] \notin imported
  <2>1. job[c] \in Applied(imported') /\ job[c] \notin Applied(imported)
    BY <1>1, <1>3, <1>4 DEF Applied
  <2>2. Goto(c, IF dirty + 1 >= SnapshotEvery THEN "snap" ELSE "fanout")
    BY <1>1, <2>1 DEF Import
  <2>3. pc'[c] \in {"snap", "fanout"}
    BY <2>2 DEF Goto, TypeOK
  <2>4. job[c] \in Unsent'
    BY <1>1, <2>3 DEF Unsent
  <2> QED BY <1>1, <1>2, <2>4
<1> QED BY <1>1, <1>2, <1>4

(* The channel of a slot that survives a fan-out or an eviction keeps its frames. *)
LEMMA ChannelKept ==
    ASSUME NEW ups, NEW except, NEW d \in Conns, Registered(d)',
           RelayPost(sessions, presence, queue, close, ups, except)
    PROVE  /\ Registered(d)
           /\ Carried(queue[d]) \subseteq Carried(queue'[d])
           /\ PeerOf[d] \notin except => ups \subseteq Carried(queue'[d])
BY PeerOfType DEF RelayPost, Registered

MissesNothing(d) ==
    Registered(d) /\ Attached(d) =>
        imported \subseteq replica[PeerOf[d]] \cup Carried(queue[d]) \cup Unsent

(* The strengthened NoUpdateMissed is inductive: what a step adds to the         *)
(* authority is still to be fanned out, and a fan-out fills every channel it     *)
(* leaves registered.                                                            *)
LEMMA MissedStep ==
    TypeOK /\ JobOK /\ SessionInv /\ DurableInv /\ CausalInv /\ HelloInv
        /\ NothingMissed /\ [Next]_vars => NothingMissed'
<1> SUFFICES ASSUME TypeOK, JobOK, SessionInv, DurableInv, CausalInv, HelloInv,
                    NothingMissed, [Next]_vars, NEW d \in Conns
             PROVE  MissesNothing(d)'
  BY DEF NothingMissed, MissesNothing
<1>t. /\ pc \in [Conns -> PcStates] /\ job \in [Conns -> Updates \cup {NoUpdate}]
      /\ queue \in [Conns -> Seq(Frames)] /\ PeerOf[d] \in Peers /\ d # NoConn
      /\ sessions \in [Peers -> Conns \cup {NoConn}]
  BY PeerOfType DEF TypeOK
<1>r. replica[PeerOf[d]] \subseteq replica'[PeerOf[d]]
  BY ReplicaStep, <1>t
<1>c. Registered(d) => pc[d] \in InSession
  BY <1>t DEF Registered, SessionInv, SlotsLive
<1>a. Registered(d) /\ Attached(d)' => Attached(d)
  BY <1>c, AttachedStep, InSessionNames DEF Connect
<1>0. Registered(d) /\ Attached(d) =>
        imported \subseteq replica[PeerOf[d]] \cup Carried(queue[d]) \cup Unsent
  BY DEF NothingMissed
<1>q. ASSUME imported' = imported, Unsent \subseteq Unsent', Registered(d)' => Registered(d),
             Registered(d)' => Carried(queue[d]) \subseteq Carried(queue'[d])
      PROVE  MissesNothing(d)'
  BY <1>q, <1>a, <1>0, <1>r DEF MissesNothing
<1>1. ASSUME NEW c \in Conns, Join(c) PROVE MissesNothing(d)'
  <2>1. CASE d = c
    BY <1>1, <2>1, JoinMissesNothing DEF MissesNothing
  <2>2. CASE d # c
    <3> DEFINE s == [sessions EXCEPT ![PeerOf[c]] = c]
               q == [queue EXCEPT ![c] = Append(@, Welcome(Catchup(c)))]
    <3>1. RelayPost(s, presence \cup {PeerOf[c]}, q, close, {}, {})
      BY <1>1, RelayActions
    <3>2. q[d] = queue[d] /\ (s[PeerOf[d]] = d => Registered(d))
      BY <1>t, <2>2 DEF Registered
    <3> HIDE DEF s, q
    <3>3. Registered(d)' => Registered(d) /\ Carried(queue[d]) \subseteq Carried(queue'[d])
      BY <1>t, <3>1, <3>2 DEF RelayPost, Registered
    <3>4. imported' = imported /\ Unsent \subseteq Unsent'
      <4>1. UNCHANGED <<job, imported>> /\ pc[c] = "hello" /\ pc' = [pc EXCEPT ![c] = "loop"]
        BY <1>1 DEF Join, Goto, docVars
      <4> QED BY <1>t, <4>1, UnsentKept
    <3> QED BY <1>q, <3>3, <3>4
  <2> QED BY <2>1, <2>2
<1>2. ASSUME NEW c \in Conns, Leave(c) PROVE MissesNothing(d)'
  <2>1. /\ UNCHANGED <<job, imported>> /\ pc[c] = "leaving"
        /\ pc' = [pc EXCEPT ![c] = "closed"]
    BY <1>2 DEF Leave, Goto, docVars
  <2>2. Unsent \subseteq Unsent'
    BY <1>t, <2>1, UnsentKept
  <2>3. SessionInv'
    BY <1>2, LeaveStep
  <2>4. sessions'[PeerOf[d]] = sessions[PeerOf[d]] \/ sessions'[PeerOf[d]] = NoConn
    <3>1. \A e \in Conns : ~Join(e)
      <4>1. ASSUME NEW e \in Conns, Join(e) PROVE FALSE
        <5>1. pc[e] = "hello" /\ pc'[e] = "loop"
          BY <1>t, <4>1 DEF Join, Goto
        <5> QED BY <1>t, <2>1, <5>1
      <4> QED BY <4>1
    <3> QED BY <1>t, <3>1, SlotsShrink DEF SlotsOnlyLost
  <2>5. Registered(d)' => Registered(d) /\ d # c
    <3>1. Registered(d)' => pc'[d] \in InSession
      BY <1>t, <2>3 DEF Registered, SessionInv, SlotsLive
    <3>2. pc'[c] \notin InSession
      BY <1>t, <2>1, InSessionNames
    <3> QED BY <1>t, <2>4, <3>1, <3>2 DEF Registered
  <2>6. Registered(d)' => Carried(queue[d]) \subseteq Carried(queue'[d])
    <3> SUFFICES ASSUME Registered(d)' PROVE Carried(queue[d]) \subseteq Carried(queue'[d])
      OBVIOUS
    <3> DEFINE q == [queue EXCEPT ![c] = << >>]
    <3>1. q[d] = queue[d]
      BY <1>t, <2>5
    <3>2. CASE Mine(c)
      <4>1. RelayPost([sessions EXCEPT ![PeerOf[c]] = NoConn], presence \ {PeerOf[c]}, q,
                      [close EXCEPT ![c] = "normal"], {}, {})
        BY <1>2, <3>2, RelayActions
      <4> HIDE DEF q
      <4> QED BY <3>1, <4>1 DEF RelayPost, Registered
    <3>3. CASE ~Mine(c)
      BY <1>2, <3>1, <3>3 DEF Leave
    <3> QED BY <3>2, <3>3
  <2> QED BY <1>q, <2>1, <2>2, <2>5, <2>6
<1>3. ASSUME NEW c \in Conns, Deliver(c) PROVE MissesNothing(d)'
  <2>1. /\ UNCHANGED <<pc, job, sessions, imported>>
        /\ queue[c] \in Seq(Frames) /\ queue[c] # << >>
        /\ queue' = [queue EXCEPT ![c] = Tail(queue[c])]
    BY <1>t, <1>3 DEF Deliver, taskVars, docVars
  <2>2. (Registered(d)' <=> Registered(d)) /\ Unsent' = Unsent
    BY <2>1 DEF Registered, Unsent
  <2>3. CASE d # c
    <3>1. queue'[d] = queue[d]
      BY <1>t, <2>1, <2>3
    <3> QED BY <1>q, <2>1, <2>2, <3>1
  <2>4. CASE d = c
    <3> SUFFICES ASSUME Registered(d)', Attached(d)'
                 PROVE  imported' \subseteq replica'[PeerOf[d]] \cup Carried(queue'[d])
                                                \cup Unsent'
      BY DEF MissesNothing
    <3>1. Registered(d) /\ Attached(d)
      BY <1>a, <2>2
    <3>2. Carried(queue[d]) = Head(queue[d]).ups \cup Carried(queue'[d])
      BY <1>t, <2>1, <2>4, CarriedHeadTail
    <3>3. Head(queue[d]).ups \subseteq replica'[PeerOf[d]]
      <4>1. Receive(PeerOf[d], Head(queue[d]))
        BY <1>3, <2>4, <3>1 DEF Deliver
      <4>2. Head(queue[d]) \in Frames
        BY <2>1, <2>4, HeadTailProperties
      <4>3. CASE Head(queue[d]).kind = "presence"
        <5>1. Head(queue[d]).ups = {}
          BY <4>2, <4>3 DEF Frames, PresenceFrame
        <5> QED BY <5>1
      <4>4. CASE Detach(PeerOf[d], Stopped)
        BY <1>t, <4>4, ConnAssumption DEF Detach, TypeOK, Attached, ConnAssumption
      <4>5. CASE replica' = [replica EXCEPT ![PeerOf[d]] = @ \cup Head(queue[d]).ups]
        BY <1>t, <4>5 DEF TypeOK
      <4> QED BY <4>1, <4>3, <4>4, <4>5 DEF Receive
    <3> QED BY <1>0, <1>r, <2>1, <2>2, <3>1, <3>2, <3>3
  <2> QED BY <2>3, <2>4
<1>4. ASSUME NEW c \in Conns, FanoutUpdate(c) PROVE MissesNothing(d)'
  <2>1. /\ UNCHANGED <<job, imported>> /\ pc[c] = "fanout"
        /\ pc' = [pc EXCEPT ![c] = "receipt"]
    BY <1>4 DEF FanoutUpdate, Goto, docVars
  <2>2. job[c] \in Updates /\ job[c] \in replica[PeerOf[c]]
    BY <2>1 DEF JobOK, CausalInv, JobCausal, Sendable, HandlesUpdate, Holding
  <2>3. Unsent \subseteq Unsent' \cup {job[c]}
    BY <1>t, <2>1 DEF Unsent
  <2>4. RelayPost(sessions, presence, queue, close, {job[c]}, {PeerOf[c]})
    BY <1>4, <2>2, RelayActions
  <2> SUFFICES ASSUME Registered(d)', Attached(d)'
               PROVE  imported' \subseteq replica'[PeerOf[d]] \cup Carried(queue'[d])
                                              \cup Unsent'
    BY DEF MissesNothing
  <2>5. /\ Registered(d) /\ Attached(d)
        /\ Carried(queue[d]) \subseteq Carried(queue'[d])
        /\ PeerOf[d] # PeerOf[c] => job[c] \in Carried(queue'[d])
    <3>1. /\ Registered(d)
          /\ Carried(queue[d]) \subseteq Carried(queue'[d])
          /\ PeerOf[d] \notin {PeerOf[c]} => {job[c]} \subseteq Carried(queue'[d])
      BY <2>4, ChannelKept
    <3> QED BY <1>a, <3>1
  <2>6. job[c] \in replica'[PeerOf[d]] \cup Carried(queue'[d])
    BY <1>r, <2>2, <2>5
  <2> QED BY <1>0, <1>r, <2>1, <2>3, <2>5, <2>6
<1>5. ASSUME NEW c \in Conns, Import(c) PROVE MissesNothing(d)'
  <2>1. imported' \subseteq imported \cup Unsent' /\ Unsent \subseteq Unsent'
    BY <1>5, ImportUnsent
  <2>2. UNCHANGED relayVars
    BY <1>5, RelayUntouched
  <2>3. (Registered(d)' <=> Registered(d)) /\ queue'[d] = queue[d]
    BY <2>2 DEF relayVars, Registered
  <2> QED BY <1>0, <1>a, <1>r, <2>1, <2>3 DEF MissesNothing
<1>6. ASSUME NEW c \in Conns, HandlePresence(c) \/ RateLimited(c)
      PROVE  MissesNothing(d)'
  <2>1. RelayPost(sessions, presence, queue, close, {}, {})
    BY <1>6, RelayActions
  <2>2. /\ UNCHANGED <<job, imported>> /\ pc[c] \in {"presence", "flood"}
        /\ \E l : pc' = [pc EXCEPT ![c] = l]
    BY <1>6 DEF HandlePresence, RateLimited, Goto, docVars
  <2>3. Unsent \subseteq Unsent'
    BY <1>t, <2>2, UnsentKept
  <2>4. Registered(d)' => Registered(d) /\ Carried(queue[d]) \subseteq Carried(queue'[d])
    BY <2>1, ChannelKept
  <2> QED BY <1>q, <2>2, <2>3, <2>4
<1>7. ASSUME NEW gone \in SUBSET presence, SweepPresence(gone) PROVE MissesNothing(d)'
  <2>1. RelayPost(sessions, presence, queue, close, {}, {})
    BY <1>7, RelayActions
  <2>2. UNCHANGED <<pc, job, imported>>
    BY <1>7 DEF SweepPresence, taskVars, docVars
  <2>3. Unsent' = Unsent
    BY <2>2 DEF Unsent
  <2>4. Registered(d)' => Registered(d) /\ Carried(queue[d]) \subseteq Carried(queue'[d])
    BY <2>1, ChannelKept
  <2> QED BY <1>q, <2>2, <2>3, <2>4
<1>8. ASSUME NEW c \in Conns,
             \/ Connect(c) \/ HandshakeFails(c) \/ LoopEnds(c) \/ ReadUpdate(c)
             \/ ReadOther(c) \/ AccessLost(c) \/ UpdateRefused(c) \/ Acquire(c)
             \/ AppendOk(c) \/ AppendFails(c) \/ Receipt(c) \/ HandleHeartbeat(c)
      PROVE  MissesNothing(d)'
  <2>1. UNCHANGED relayVars
    BY <1>8, RelayUntouched
  <2>2. /\ imported' = imported /\ pc[c] \notin {"snap", "fanout"}
        /\ \E l : pc' = [pc EXCEPT ![c] = l]
        /\ job' = job \/ \E u : job' = [job EXCEPT ![c] = u]
    BY <1>8 DEF Connect, HandshakeFails, LoopEnds, ReadUpdate, ReadOther, AccessLost,
       UpdateRefused, Acquire, AppendOk, AppendFails, Receipt, HandleHeartbeat, Goto,
       CanRead, docVars
  <2>3. Unsent \subseteq Unsent'
    BY <1>t, <2>2, UnsentKept
  <2>4. (Registered(d)' <=> Registered(d)) /\ queue'[d] = queue[d]
    BY <2>1 DEF relayVars, Registered
  <2> QED BY <1>q, <2>2, <2>3, <2>4
<1>9. ASSUME NEW c \in Conns, SnapshotInUpdate(c) PROVE MissesNothing(d)'
  <2>1. UNCHANGED relayVars
    BY <1>9, RelayUntouched
  <2>2. /\ UNCHANGED <<job, imported>> /\ pc' = [pc EXCEPT ![c] = "fanout"]
    BY <1>9 DEF SnapshotInUpdate, Goto
  <2>3. Unsent \subseteq Unsent'
    BY <1>t, <2>2 DEF Unsent
  <2>4. (Registered(d)' <=> Registered(d)) /\ queue'[d] = queue[d]
    BY <2>1 DEF relayVars, Registered
  <2> QED BY <1>q, <2>2, <2>3, <2>4
<1>10. CASE \/ \E p \in Peers, u \in Updates : LocalEdit(p, u)
            \/ \E p \in Peers : ClientClose(p)
            \/ \E c \in Conns : Send(c)
            \/ MaintSnapshotBegin \/ MaintSnapshotStamp \/ MaintSnapshotEnd \/ UNCHANGED vars
  <2>1. UNCHANGED <<pc, job, sessions, queue, imported>>
    BY <1>10 DEF LocalEdit, ClientClose, Send, MaintSnapshotBegin,
       MaintSnapshotStamp, MaintSnapshotEnd,
       vars, taskVars, relayVars, docVars
  <2>2. Unsent' = Unsent /\ (Registered(d)' <=> Registered(d)) /\ queue'[d] = queue[d]
    BY <2>1 DEF Unsent, Registered
  <2> QED BY <1>q, <2>1, <2>2
<1>11. CASE Crash
  <2>1. sessions'[PeerOf[d]] = NoConn
    BY <1>t, <1>11 DEF Crash
  <2> QED BY <1>t, <2>1 DEF MissesNothing, Registered
<1>12. ASSUME NEW c \in Conns, Connect(c) \/ Send(c) \/ SessionStep(c)
       PROVE  MissesNothing(d)'
  BY <1>1, <1>2, <1>3, <1>4, <1>5, <1>6, <1>8, <1>9, <1>10, <1>12 DEF SessionStep
<1> QED BY <1>7, <1>10, <1>11, <1>12 DEF Next

(* With receipts, what the authority has applied is in the replica of every      *)
(* connected client, in its channel, or about to be fanned out: the catch-up of a *)
(* join, taken under the gate, and the fan-outs, which follow the import in a     *)
(* step of their own, leave no gap between them.                                  *)
THEOREM ConnectedMissNothing == Receipts = TRUE => (Spec => []NoUpdateMissed)
<1> SUFFICES ASSUME Receipts = TRUE PROVE Spec => []NoUpdateMissed
  OBVIOUS
<1>1. NothingMissed => NoUpdateMissed
  BY AppliedSubset DEF NothingMissed, NoUpdateMissed
<1>2. Init => HelloInv /\ NothingMissed
  BY PeerOfType DEF Init, HelloInv, NothingMissed, Registered
<1>3. Init => SessionInv
  BY InSessionNames DEF Init, SessionInv, Generations, SlotsLive, LiveOrSignalled
<1>4. TypeOK /\ JobOK /\ DurableInv /\ CausalInv /\ [Next]_vars => CausalInv'
  BY CausalStep
<1> QED BY <1>1, <1>2, <1>3, <1>4, CausalInit, DurableInit, DurableStep,
           SessionStepInv,
           HelloStep, MissedStep, TypeCorrect, PTL DEF Spec
=============================================================================
