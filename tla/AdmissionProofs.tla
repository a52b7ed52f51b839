--------------------------- MODULE AdmissionProofs --------------------------
(***************************************************************************)
(* That a withdrawn key dies and that updates are authorized, for all      *)
(* sessions, tokens, keys, limits and scenes.                              *)
(*                                                                         *)
(* Both are about a step; what they need of the state before it is KeyInv, *)
(* which bounds the age of everything that vouches for a token, and        *)
(* FrameInv, which says what a session knows about the frame it handles.   *)
(* Then the registry, which hands a session the room of its document.      *)
(***************************************************************************)
EXTENDS Admission, Registry, TLAPS, FiniteSetTheorems

Moment == Int \cup {Never}

(* How long a cached token lives, and how long what a withdrawn key        *)
(* vouched for.                                                            *)
Life == Max({CacheTtl, 1})
Bound(k) == withdrawn[k] + FetchTimeout + MaxAge

ClockOK ==
    /\ now \in Nat /\ lastOk \in Moment /\ DOMAIN pc = Sessions
    /\ withdrawn \in [Keys -> Moment] /\ cache \in [Tokens -> Moment]
    /\ lastOk # Never => lastOk <= now

(* A withdrawn key is not published, was withdrawn in the past ...         *)
ProviderOK ==
    \A k \in Keys : withdrawn[k] # Never => withdrawn[k] <= now /\ k \notin published

(* ... an answer that still names it was asked for before, ...             *)
FetchOK ==
    fetch # NoFetch =>
        /\ fetch.at \in Nat /\ fetch.at <= now
        /\ \A k \in Keys : k \in fetch.keys /\ withdrawn[k] # Never => fetch.at <= withdrawn[k]

(* ... keys that still have it are at most one request younger, ...        *)
KeysOK ==
    \A k \in Keys : k \in keys /\ lastOk # Never /\ withdrawn[k] # Never => lastOk <= withdrawn[k] + FetchTimeout

(* ... and so is, for a cached token, the moment it was checked.           *)
CacheOK ==
    \A t \in Tokens : cache[t] # Never =>
        /\ t \in Genuine /\ cache[t] <= ExpOf[t] /\ cache[t] <= now + Life
        /\ withdrawn[KeyOf[t]] # Never => cache[t] <= Bound(KeyOf[t]) + Life

KeyInv == ClockOK /\ ProviderOK /\ FetchOK /\ KeysOK /\ CacheOK

-----------------------------------------------------------------------------
(* Max and Min of two numbers. *)
LEMMA TwoNumbers ==
    ASSUME NEW a \in Int, NEW b \in Int
    PROVE  /\ Max({a, b}) = IF a >= b THEN a ELSE b
           /\ Min({a, b}) = IF a <= b THEN a ELSE b
<1> DEFINE big == IF a >= b THEN a ELSE b
           small == IF a <= b THEN a ELSE b
<1>1. big \in {a, b} /\ \A y \in {a, b} : big >= y
  OBVIOUS
<1>2. small \in {a, b} /\ \A y \in {a, b} : small <= y
  OBVIOUS
<1>3. \A x \in {a, b} : (\A y \in {a, b} : x >= y) => x = big
  OBVIOUS
<1>4. \A x \in {a, b} : (\A y \in {a, b} : x <= y) => x = small
  OBVIOUS
<1> QED BY <1>1, <1>2, <1>3, <1>4 DEF Max, Min

LEMMA LifeIs == Life \in Int /\ Life >= 1 /\ (CacheTtl > 0 => Life = CacheTtl)
BY TwoNumbers, AdmissionAssumption DEF Life

(* What validate accepts was vouched for by keys that are not too old. *)
LEMMA ValidatedInTime ==
    ASSUME KeyInv, NEW t \in Tokens, Validate(t)
    PROVE  /\ t \in Genuine /\ now <= ExpOf[t] + Leeway
           /\ withdrawn[KeyOf[t]] # Never => now <= Bound(KeyOf[t])
<1>1. KeyOf[t] \in Keys
  BY AdmissionAssumption
<1>2. KeyByKid(KeyOf[t])
  BY DEF Validate
<1>3. ASSUME withdrawn[KeyOf[t]] # Never PROVE now <= Bound(KeyOf[t])
  BY <1>1, <1>2, <1>3, AdmissionAssumption DEF KeyByKid, KeyInv, ClockOK, KeysOK, Bound, Moment
<1> QED BY <1>3 DEF Validate

(* A token that was served or validated is still good. *)
LEMMA VerifiedInTime ==
    ASSUME KeyInv, NEW t \in Tokens, Verified(t)
    PROVE  /\ t \in Genuine /\ now <= ExpOf[t] + Leeway
           /\ withdrawn[KeyOf[t]] # Never => now < Bound(KeyOf[t]) + Life
<1>1. KeyOf[t] \in Keys /\ ExpOf[t] \in Nat /\ Leeway \in Nat /\ FetchTimeout \in Nat /\ MaxAge \in Nat
  BY AdmissionAssumption
<1>2. CASE Served(t)
  <2>1. cache[t] \in Int /\ now < cache[t] /\ cache[t] # Never
    BY <1>2 DEF Served, CacheHit, KeyInv, ClockOK, Moment
  <2> QED BY <1>1, <2>1, LifeIs DEF KeyInv, ClockOK, CacheOK, Bound, Moment
<1>3. CASE Validate(t)
  BY <1>1, <1>3, ValidatedInTime, LifeIs DEF KeyInv, ClockOK, Bound, Moment
<1> QED BY <1>2, <1>3 DEF Verified

(* The token cache only forgets, but for a token that was just validated. *)
LEMMA CacheKeeps ==
    ASSUME KeyInv, NEW t \in Tokens
    PROVE  /\ CacheAfter(t) \in [Tokens -> Moment]
           /\ \A u \in Tokens : CacheAfter(t)[u] # Never =>
                \/ CacheAfter(t)[u] = cache[u]
                \/ /\ u = t /\ CacheTtl > 0 /\ Validate(t)
                   /\ CacheAfter(t)[u] <= ExpOf[t] /\ CacheAfter(t)[u] <= now + CacheTtl
<1>1. cache \in [Tokens -> Moment] /\ now \in Nat /\ ExpOf[t] \in Nat /\ CacheTtl \in Nat
  BY AdmissionAssumption DEF KeyInv, ClockOK
<1>2. /\ CacheGet(t) \in [Tokens -> Moment]
      /\ \A u \in Tokens : CacheGet(t)[u] # Never => CacheGet(t)[u] = cache[u]
  BY <1>1 DEF CacheGet, Moment
<1>3. ASSUME CacheTtl > 0
      PROVE  LET c == CacheGet(t)
                 d == CacheInsert(c, t)
             IN  /\ d \in [Tokens -> Moment]
                 /\ \A u \in Tokens : d[u] # Never =>
                      \/ d[u] = c[u]
                      \/ u = t /\ d[u] <= ExpOf[t] /\ d[u] <= now + CacheTtl
  <2> DEFINE c == CacheGet(t)
             until == Min({ExpOf[t], Max({now + CacheTtl, 1})})
             full(d) == Cardinality({u \in Tokens : d[u] # Never}) >= MaxEntries
             live == [u \in Tokens |-> IF c[u] # Never /\ now < c[u] THEN c[u] ELSE Never]
             kept == IF ~full(c) THEN c ELSE IF ~full(live) THEN live ELSE [u \in Tokens |-> Never]
  <2>1. Max({now + CacheTtl, 1}) = now + CacheTtl
    BY <1>1, <1>3, TwoNumbers
  <2>2. until \in Int /\ until <= ExpOf[t] /\ until <= now + CacheTtl
    <3>1. ExpOf[t] \in Int /\ now + CacheTtl \in Int
      BY <1>1
    <3>2. until = IF ExpOf[t] <= now + CacheTtl THEN ExpOf[t] ELSE now + CacheTtl
      BY <2>1, <3>1, TwoNumbers
    <3> QED BY <3>1, <3>2
  <2>3. c \in [Tokens -> Moment] /\ live \in [Tokens -> Moment] /\ [u \in Tokens |-> Never] \in [Tokens -> Moment]
    BY <1>2 DEF Moment
  <2>4. kept \in [Tokens -> Moment] /\ \A u \in Tokens : kept[u] # Never => kept[u] = c[u]
    <3> HIDE DEF full
    <3> QED BY <2>3
  <2>5. CacheInsert(c, t) = [kept EXCEPT ![t] = until]
    BY DEF CacheInsert
  <2> HIDE DEF kept, until, c
  <2>6. until \in Moment
    BY <2>2 DEF Moment
  <2>7. [kept EXCEPT ![t] = until] \in [Tokens -> Moment]
    BY <2>4, <2>6
  <2>8. \A u \in Tokens : [kept EXCEPT ![t] = until][u] = IF u = t THEN until ELSE kept[u]
    BY <2>4
  <2> QED BY <2>2, <2>4, <2>5, <2>7, <2>8 DEF c
<1>4. CASE CacheTtl = 0 \/ Served(t)
  BY <1>1, <1>4 DEF CacheAfter
<1>5. CASE CacheTtl > 0 /\ ~Served(t) /\ Validate(t)
  <2>1. CacheAfter(t) = CacheInsert(CacheGet(t), t)
    BY <1>5, <1>1 DEF CacheAfter
  <2> QED BY <1>2, <1>3, <1>5, <2>1
<1>6. CASE CacheTtl > 0 /\ ~Served(t) /\ ~Validate(t)
  <2>1. CacheAfter(t) = CacheGet(t)
    BY <1>6, <1>1 DEF CacheAfter
  <2> QED BY <1>2, <2>1
<1> QED BY <1>1, <1>4, <1>5, <1>6

-----------------------------------------------------------------------------
(* What KeyInv is about, and what an action that is about sessions only    *)
(* leaves alone of it.                                                     *)
keyVars == <<now, published, withdrawn, keys, lastOk, fetch, cache>>

(* The steps of a session that do not ask. *)
Moves(s) ==
    \/ AppAnswers(s) \/ Denied(s) \/ Handshake(s) \/ Join(s)
    \/ RefreshAccess(s) \/ Acquire(s) \/ Policy(s) \/ VerifySeed(s) \/ Import(s)

LEMMA MovesLeaveKeys ==
    ASSUME NEW s \in Sessions, Moves(s)
    PROVE  /\ UNCHANGED keyVars
           /\ \E p \in {"answered", "closed", "joining", "open", "waiting", "policy", "importing", "verifying"} :
                pc' = [pc EXCEPT ![s] = p]
<1>1. CASE AppAnswers(s)
  BY <1>1 DEF AppAnswers, keyVars, idpVars, jwksVars
<1>2. CASE Denied(s)
  BY <1>2 DEF Denied, Close, keyVars, idpVars, jwksVars
<1>3. CASE Handshake(s)
  BY <1>3 DEF Handshake, Close, keyVars, idpVars, jwksVars
<1>4. CASE Join(s)
  BY <1>4 DEF Join, Stay, keyVars, idpVars, jwksVars
<1>5. CASE RefreshAccess(s)
  BY <1>5 DEF RefreshAccess, Close, Stay, keyVars, idpVars, jwksVars
<1>6. CASE Acquire(s)
  BY <1>6 DEF Acquire, keyVars, idpVars, jwksVars
<1>7. CASE Policy(s)
  BY <1>7 DEF Policy, Pass, Reject, Stay, keyVars, idpVars, jwksVars
<1>8. CASE VerifySeed(s)
  BY <1>8 DEF VerifySeed, Pass, Reject, Stay, keyVars, idpVars, jwksVars
<1>9. CASE Import(s)
  BY <1>9 DEF Import, Stay, keyVars, idpVars, jwksVars
<1> QED BY <1>1, <1>2, <1>3, <1>4, <1>5, <1>6, <1>7, <1>8, <1>9 DEF Moves

LEMMA KeyVarsKeep ==
    ASSUME KeyInv, UNCHANGED keyVars, DOMAIN pc' = Sessions
    PROVE  KeyInv'
BY DEF KeyInv, keyVars, ClockOK, ProviderOK, FetchOK, KeysOK, CacheOK, Bound, Life, Moment

LEMMA KeyInvInit == Init => KeyInv
<1> SUFFICES ASSUME Init PROVE KeyInv
  OBVIOUS
<1>1. ClockOK
  BY DEF Init, ClockOK, Moment
<1>2. ProviderOK /\ KeysOK /\ CacheOK /\ FetchOK
  BY DEF Init, ProviderOK, KeysOK, CacheOK, FetchOK
<1> QED BY <1>1, <1>2 DEF KeyInv

LEMMA KeyInvTick == ASSUME KeyInv, Tick PROVE KeyInv'
<1>1. /\ now' = now + 1 /\ now \in Nat
      /\ UNCHANGED <<published, withdrawn, keys, lastOk, fetch, cache, pc>>
  BY DEF Tick, KeyInv, ClockOK, idpVars, jwksVars
<1>2. ClockOK'
  BY <1>1 DEF KeyInv, ClockOK, Moment
<1>3. ProviderOK'
  BY <1>1 DEF KeyInv, ClockOK, ProviderOK, Moment
<1>4. FetchOK'
  BY <1>1 DEF KeyInv, FetchOK
<1>5. KeysOK'
  BY <1>1 DEF KeyInv, KeysOK
<1>6. CacheOK'
  <2>1. Life' = Life /\ \A k \in Keys : Bound(k)' = Bound(k)
    BY <1>1 DEF Life, Bound
  <2>2. \A t \in Tokens : cache[t] # Never => cache[t] \in Int
    BY DEF KeyInv, ClockOK, Moment
  <2>3. \A t \in Tokens : KeyOf[t] \in Keys
    BY AdmissionAssumption
  <2>4. \A t \in Tokens : cache[t] # Never => cache[t] <= now' + Life
    BY <1>1, <2>2, LifeIs DEF KeyInv, CacheOK
  <2> QED BY <1>1, <2>1, <2>3, <2>4 DEF KeyInv, CacheOK
<1> QED BY <1>2, <1>3, <1>4, <1>5, <1>6 DEF KeyInv

LEMMA KeyInvWithdraw == ASSUME KeyInv, NEW k \in Keys, Withdraw(k) PROVE KeyInv'
<1>1. /\ k \in published /\ published' = published \ {k}
      /\ withdrawn' = [withdrawn EXCEPT ![k] = now] /\ now \in Nat
      /\ UNCHANGED <<now, keys, lastOk, fetch, cache, pc>>
  BY DEF Withdraw, KeyInv, ClockOK, jwksVars
<1>2. \A j \in Keys : withdrawn'[j] = IF j = k THEN now ELSE withdrawn[j]
  BY <1>1 DEF KeyInv, ClockOK
<1>3. ClockOK'
  BY <1>1 DEF KeyInv, ClockOK, Moment
<1>4. ProviderOK'
  BY <1>1, <1>2 DEF KeyInv, ProviderOK
<1>5. FetchOK'
  BY <1>1, <1>2 DEF KeyInv, FetchOK
<1>6. KeysOK'
  BY <1>1, <1>2, AdmissionAssumption DEF KeyInv, ClockOK, KeysOK, Moment
<1>7. CacheOK'
  <2>1. Life' = Life
    BY DEF Life
  <2> SUFFICES ASSUME NEW t \in Tokens, cache[t] # Never
               PROVE  /\ t \in Genuine /\ cache[t] <= ExpOf[t] /\ cache[t] <= now + Life
                      /\ withdrawn'[KeyOf[t]] # Never => cache[t] <= (withdrawn'[KeyOf[t]] + FetchTimeout + MaxAge) + Life
    BY <1>1, <2>1 DEF CacheOK, Bound
  <2>2. cache[t] \in Int /\ KeyOf[t] \in Keys /\ FetchTimeout \in Nat /\ MaxAge \in Nat
    BY AdmissionAssumption DEF KeyInv, ClockOK, Moment
  <2>3. t \in Genuine /\ cache[t] <= ExpOf[t] /\ cache[t] <= now + Life
    BY DEF KeyInv, CacheOK
  <2>4. CASE KeyOf[t] = k
    BY <1>1, <1>2, <2>2, <2>3, <2>4, LifeIs
  <2>5. CASE KeyOf[t] # k
    BY <1>2, <2>2, <2>3, <2>5 DEF KeyInv, CacheOK, Bound
  <2> QED BY <2>4, <2>5
<1> QED BY <1>3, <1>4, <1>5, <1>6, <1>7 DEF KeyInv

LEMMA KeyInvFetch == ASSUME KeyInv, RefreshAsks \/ Refreshed \/ RefreshFails PROVE KeyInv'
<1>1. UNCHANGED <<now, published, withdrawn, cache, pc>> /\ now \in Nat
  BY DEF RefreshAsks, Refreshed, RefreshFails, idpVars, KeyInv, ClockOK
<1>2. ProviderOK' /\ CacheOK'
  BY <1>1 DEF KeyInv, ProviderOK, CacheOK, Bound, Life
<1>3. CASE RefreshAsks
  <2>1. fetch' = [at |-> now, keys |-> published] /\ UNCHANGED <<keys, lastOk>>
    BY <1>3 DEF RefreshAsks
  <2>2. ClockOK' /\ KeysOK'
    BY <1>1, <2>1 DEF KeyInv, ClockOK, KeysOK, Moment
  <2>3. FetchOK'
    BY <1>1, <2>1 DEF KeyInv, ProviderOK, FetchOK
  <2> QED BY <1>2, <2>2, <2>3 DEF KeyInv
<1>4. CASE Refreshed
  <2>1. /\ fetch # NoFetch /\ now - fetch.at <= FetchTimeout
        /\ keys' = fetch.keys /\ lastOk' = now /\ fetch' = NoFetch
    BY <1>4 DEF Refreshed
  <2>2. ClockOK'
    BY <1>1, <2>1 DEF KeyInv, ClockOK, Moment
  <2>3. KeysOK'
    <3>1. fetch.at \in Nat /\ \A k \in Keys : k \in fetch.keys /\ withdrawn[k] # Never => fetch.at <= withdrawn[k]
      BY <2>1 DEF KeyInv, FetchOK
    <3>2. \A k \in Keys : withdrawn[k] # Never => withdrawn[k] \in Int
      BY DEF KeyInv, ClockOK, Moment
    <3> QED BY <1>1, <2>1, <3>1, <3>2, AdmissionAssumption DEF KeysOK
  <2>4. FetchOK'
    BY <2>1 DEF FetchOK, NoFetch
  <2> QED BY <1>2, <2>2, <2>3, <2>4 DEF KeyInv
<1>5. CASE RefreshFails
  <2>1. fetch' = NoFetch /\ UNCHANGED <<keys, lastOk>>
    BY <1>5 DEF RefreshFails
  <2>2. ClockOK' /\ KeysOK'
    BY <1>1, <2>1 DEF KeyInv, ClockOK, KeysOK, Moment
  <2>3. FetchOK'
    BY <2>1 DEF FetchOK, NoFetch
  <2> QED BY <1>2, <2>2, <2>3 DEF KeyInv
<1> QED BY <1>3, <1>4, <1>5

(* A frame that asks may put its token into the cache, for a while. *)
LEMMA KeyInvAsk == ASSUME KeyInv, NEW s \in Sessions, NEW f, Ask(s, f) PROVE KeyInv'
<1> DEFINE t == TokenOf[s]
<1>1. t \in Tokens
  BY AdmissionAssumption
<1>2. /\ cache' = CacheAfter(t) /\ UNCHANGED <<now, published, withdrawn, keys, lastOk, fetch>>
      /\ \E p \in {"closed", "asking"} : pc' = [pc EXCEPT ![s] = p]
  BY DEF Ask, Close, idpVars, jwksVars
<1> HIDE DEF t
<1>3. ClockOK'
  BY <1>1, <1>2, CacheKeeps DEF KeyInv, ClockOK, Moment
<1>4. ProviderOK' /\ FetchOK' /\ KeysOK'
  BY <1>2 DEF KeyInv, ProviderOK, FetchOK, KeysOK
<1>5. CacheOK'
  <2> SUFFICES ASSUME NEW u \in Tokens, cache'[u] # Never
               PROVE  /\ u \in Genuine /\ cache'[u] <= ExpOf[u] /\ cache'[u] <= now + Life
                      /\ withdrawn[KeyOf[u]] # Never => cache'[u] <= Bound(KeyOf[u]) + Life
    BY <1>2 DEF CacheOK, Bound, Life
  <2>1. CASE cache'[u] = cache[u]
    BY <2>1 DEF KeyInv, CacheOK
  <2>2. CASE /\ u = t /\ CacheTtl > 0 /\ Validate(t)
             /\ cache'[u] <= ExpOf[t] /\ cache'[u] <= now + CacheTtl
    <3>1. /\ t \in Genuine
          /\ withdrawn[KeyOf[t]] # Never => now <= Bound(KeyOf[t])
      BY <1>1, <2>2, ValidatedInTime
    <3>2. /\ Life = CacheTtl /\ CacheTtl \in Nat /\ now \in Nat
          /\ withdrawn[KeyOf[t]] # Never => Bound(KeyOf[t]) \in Int
      BY <1>1, <2>2, LifeIs, AdmissionAssumption DEF KeyInv, ClockOK, Bound, Moment
    <3>3. cache'[u] \in Int
      <4>1. cache'[u] \in Moment
        BY <1>1, <1>2, CacheKeeps
      <4> QED BY <4>1 DEF Moment
    <3> QED BY <2>2, <3>1, <3>2, <3>3
  <2> QED BY <1>1, <1>2, <2>1, <2>2, CacheKeeps
<1> QED BY <1>3, <1>4, <1>5 DEF KeyInv

(* The steps that are about something else altogether. *)
LEMMA Others ==
    ASSUME (\E u \in Subjects, r \in scene.roles : SetMember(u, r)) \/ (\E b \in scene.bodies : SaveBody(b)) \/ UNCHANGED vars
    PROVE  UNCHANGED keyVars /\ pc' = pc
BY DEF SetMember, SaveBody, vars, keyVars, idpVars, jwksVars

LEMMA KeyInvNext == KeyInv /\ [Next]_vars => KeyInv'
<1> SUFFICES ASSUME KeyInv, [Next]_vars PROVE KeyInv'
  OBVIOUS
<1>1. DOMAIN pc = Sessions
  BY DEF KeyInv, ClockOK
<1>2. ASSUME NEW s \in Sessions, Moves(s) PROVE KeyInv'
  BY <1>1, <1>2, MovesLeaveKeys, KeyVarsKeep
<1>3. ASSUME NEW s \in Sessions, Connect(s) \/ (\E f \in scene.frames : Receive(s, f)) PROVE KeyInv'
  BY <1>3, KeyInvAsk DEF Connect, Receive
<1>4. ASSUME (\E u \in Subjects, r \in scene.roles : SetMember(u, r)) \/ (\E b \in scene.bodies : SaveBody(b)) \/ UNCHANGED vars
      PROVE  KeyInv'
  BY <1>1, <1>4, Others, KeyVarsKeep
<1> QED BY <1>2, <1>3, <1>4, KeyInvTick, KeyInvWithdraw, KeyInvFetch DEF Next, Moves

-----------------------------------------------------------------------------
(* A session starts to ask only with a token that was verified. *)
LEMMA AsksVerified ==
    ASSUME KeyInv, [Next]_vars, NEW s \in Sessions, pc[s] \in {"closed", "open"}, pc'[s] = "asking"
    PROVE  Verified(TokenOf[s])
<1>1. DOMAIN pc = Sessions /\ pc[s] # "asking"
  BY DEF KeyInv, ClockOK
<1>2. ~UNCHANGED pc
  BY <1>1
<1>3. \A z \in Sessions : ~Moves(z)
  <2> SUFFICES ASSUME NEW z \in Sessions, Moves(z) PROVE FALSE
    OBVIOUS
  <2>1. PICK p \in {"answered", "closed", "joining", "open", "waiting", "policy", "importing", "verifying"} :
            pc' = [pc EXCEPT ![z] = p]
    BY MovesLeaveKeys
  <2>2. pc'[s] = IF s = z THEN p ELSE pc[s]
    BY <1>1, <2>1
  <2> QED BY <1>1, <2>1, <2>2
<1>4. ~(Tick \/ RefreshAsks \/ Refreshed \/ RefreshFails \/ \E k \in Keys : Withdraw(k))
  BY <1>2 DEF Tick, RefreshAsks, Refreshed, RefreshFails, Withdraw
<1>5. PICK z \in Sessions : Connect(z) \/ \E f \in scene.frames : Receive(z, f)
  BY <1>2, <1>3, <1>4, Others DEF Next, Moves
<1>6. PICK f : Ask(z, f)
  BY <1>5 DEF Connect, Receive
<1>7. CASE ~Verified(TokenOf[z]) /\ Close(z)
  <2>1. pc'[s] = IF s = z THEN "closed" ELSE pc[s]
    BY <1>1, <1>7 DEF Close
  <2> QED BY <1>1, <2>1
<1>8. CASE Verified(TokenOf[z]) /\ pc' = [pc EXCEPT ![z] = "asking"]
  <2>1. s = z
    BY <1>1, <1>8
  <2> QED BY <1>8, <2>1
<1> QED BY <1>6, <1>7, <1>8 DEF Ask

(* A token is honoured no longer than its expiry and the leeway, and a     *)
(* withdrawn key no longer than one fetch, the age the keys may have and   *)
(* the life of a cached token together (key_by_kid, refresh, TokenCache).  *)
THEOREM WithdrawnKeysDie == Spec => WithdrawnKeyDies
<1>1. KeyInv /\ [Next]_vars =>
        [\A s \in Sessions : pc[s] \in {"closed", "open"} /\ pc'[s] = "asking" =>
           LET t == TokenOf[s]
               w == withdrawn[KeyOf[t]] IN
           /\ t \in Genuine /\ now <= ExpOf[t] + Leeway
           /\ w # Never => now < w + FetchTimeout + MaxAge + Max({CacheTtl, 1})]_vars
  <2> SUFFICES ASSUME KeyInv, [Next]_vars, NEW s \in Sessions,
                      pc[s] \in {"closed", "open"}, pc'[s] = "asking"
               PROVE  /\ TokenOf[s] \in Genuine /\ now <= ExpOf[TokenOf[s]] + Leeway
                      /\ withdrawn[KeyOf[TokenOf[s]]] # Never =>
                           now < withdrawn[KeyOf[TokenOf[s]]] + FetchTimeout + MaxAge + Max({CacheTtl, 1})
    OBVIOUS
  <2>1. TokenOf[s] \in Tokens
    BY AdmissionAssumption
  <2> QED BY <2>1, AsksVerified, VerifiedInTime DEF Bound, Life
<1> QED BY <1>1, KeyInvInit, KeyInvNext, PTL DEF Spec, WithdrawnKeyDies

-----------------------------------------------------------------------------
(***************************************************************************)
(* The rights of an update.  FrameInv says what a session knows at each    *)
(* await between the arrival of a frame and its import.                    *)
(***************************************************************************)

Inside == {"policy", "verifying", "importing"}

FrameShape ==
    /\ now \in Nat /\ scene \in Scenes
    /\ DOMAIN pc = Sessions /\ DOMAIN role = Sessions /\ DOMAIN frame = Sessions /\ DOMAIN got = Sessions
    /\ DOMAIN arrived = Sessions /\ DOMAIN bodies = Sessions
    /\ member \in [Subjects -> Roles \cup {NoRole}]
    /\ seen \in [Sessions -> SUBSET (Roles \cup {NoRole})]
    /\ touched \in [{PeerOf[s] : s \in Sessions} -> Moment]

(* Whoever judges the text or imports has the mutex. *)
LockOK == \A s \in Sessions : pc[s] \in Inside => lock = s

(* The history of a frame goes up to now. *)
Witnessed(s) ==
    pc[s] \notin {"closed", "open"} =>
        /\ arrived[s] \in Nat /\ arrived[s] <= now
        /\ member[SubjectOf[TokenOf[s]]] \in seen[s] /\ body \in bodies[s]

(* The answer is a membership that the app had since the frame came. *)
Answered(s) == pc[s] \notin {"closed", "open", "asking"} => got[s] \in seen[s]

(* A session that pushes has the role that the answer gives it. *)
Entitled(s) ==
    pc[s] \in {"waiting"} \cup Inside =>
        role[s] \in {"author", "reviewer"} /\ role[s] = Resolved(TokenOf[s], got[s])

(* What a reviewer's update was let through for. *)
MayImport(s) ==
    \/ ~TouchesText(s)
    \/ frame[s].review
    \/ text # Empty /\ touched[PeerOf[s]] # Never /\ touched[PeerOf[s]] + Window >= arrived[s]
    \/ text = Empty /\ TextAfter(s) \in bodies[s]

Judged(s) ==
    /\ pc[s] = "verifying" => text = Empty /\ TouchesText(s)
    /\ pc[s] = "importing" /\ role[s] = "reviewer" => MayImport(s)

SessionOK(s) == Witnessed(s) /\ Answered(s) /\ Entitled(s) /\ Judged(s)

FrameInv == FrameShape /\ LockOK /\ \A s \in Sessions : SessionOK(s)

(* A role that is resolved is within the membership and within the token.  *)
LEMMA ResolvedIsGranted ==
    ASSUME NEW t \in Tokens, NEW m \in Roles \cup {NoRole}, Resolved(t, m) # NoRole
    PROVE  /\ Resolved(t, m) \in Roles /\ m \in Roles /\ Rank[Resolved(t, m)] <= Rank[m]
           /\ \E q \in RolesIn[t] : Rank[Resolved(t, m)] <= Rank[q]
<1> DEFINE top == MaxRole(RolesIn[t])
<1>1. m \in Roles /\ RolesIn[t] # {} /\ RolesIn[t] \subseteq Roles /\ Resolved(t, m) = LeastPrivileged(m, top)
  BY AdmissionAssumption DEF Resolved
<1>2. Rank["author"] = 2 /\ Rank["reviewer"] = 1 /\ Rank["read-only"] = 0
  BY DEF Rank, Roles
<1>3. \E r \in RolesIn[t] : \A q \in RolesIn[t] : Rank[q] <= Rank[r]
  <2>1. CASE "author" \in RolesIn[t]
    BY <1>1, <1>2, <2>1 DEF Roles
  <2>2. CASE "author" \notin RolesIn[t] /\ "reviewer" \in RolesIn[t]
    BY <1>1, <1>2, <2>2 DEF Roles
  <2>3. CASE "author" \notin RolesIn[t] /\ "reviewer" \notin RolesIn[t]
    BY <1>1, <1>2, <2>3 DEF Roles
  <2> QED BY <2>1, <2>2, <2>3
<1>4. top \in RolesIn[t]
  BY <1>3 DEF MaxRole
<1> HIDE DEF top
<1>5. \A r \in Roles : Rank[r] \in Int
  BY <1>2 DEF Roles
<1>6. Rank[LeastPrivileged(m, top)] <= Rank[m] /\ Rank[LeastPrivileged(m, top)] <= Rank[top]
  BY <1>1, <1>4, <1>5 DEF LeastPrivileged
<1> QED BY <1>1, <1>4, <1>6 DEF LeastPrivileged

(* A session that does nothing keeps what it knows, if the room's text and *)
(* records are changed by the holder of the mutex only.                    *)
Idle(s) ==
    /\ pc'[s] = pc[s] /\ role'[s] = role[s] /\ frame'[s] = frame[s] /\ got'[s] = got[s]
    /\ arrived'[s] = arrived[s] /\ seen'[s] = seen[s] /\ bodies'[s] = bodies[s]

LEMMA IdleKeeps ==
    ASSUME NEW s \in Sessions, SessionOK(s), Idle(s), UNCHANGED <<now, member, body>>,
           UNCHANGED <<text, touched>> \/ pc[s] \notin Inside
    PROVE  SessionOK(s)'
<1>1. Witnessed(s)' /\ Answered(s)' /\ Entitled(s)'
  BY DEF SessionOK, Idle, Witnessed, Answered, Entitled
<1>2. Judged(s)'
  <2>1. CASE UNCHANGED <<text, touched>>
    BY <2>1 DEF SessionOK, Idle, Judged, MayImport, TouchesText, TextAfter
  <2>2. CASE pc[s] \notin Inside
    BY <2>2 DEF Idle, Judged, Inside
  <2> QED BY <2>1, <2>2
<1> QED BY <1>1, <1>2 DEF SessionOK

(* Between frames there is nothing to know. *)
LEMMA RestingKnowsNothing ==
    ASSUME NEW s \in Sessions, pc[s] \in {"closed", "open"} PROVE SessionOK(s)
BY DEF SessionOK, Witnessed, Answered, Entitled, Judged, Inside

-----------------------------------------------------------------------------
LEMMA FrameInvInit == Init => FrameInv
<1> SUFFICES ASSUME Init PROVE FrameInv
  OBVIOUS
<1>1. FrameShape
  <2>1. touched \in [{PeerOf[s] : s \in Sessions} -> Moment]
    BY DEF Init, Moment
  <2>2. member \in [Subjects -> Roles \cup {NoRole}]
    BY AdmissionAssumption DEF Init
  <2> QED BY <2>1, <2>2 DEF Init, FrameShape
<1>2. \A s \in Sessions : pc[s] = "closed"
  BY DEF Init
<1>3. LockOK
  BY <1>2 DEF LockOK, Inside
<1> QED BY <1>1, <1>2, <1>3, RestingKnowsNothing DEF FrameInv

(* Time and keys go on under the sessions. *)
LEMMA FrameInvClock ==
    ASSUME FrameInv, now' \in Nat, now <= now',
           UNCHANGED <<scene, appVars, pc, role, frame, got, roomVars, seenVars>>
    PROVE  FrameInv'
<1>1. UNCHANGED <<scene, member, body, pc, role, frame, got, text, touched, lock, arrived, seen, bodies>>
  BY DEF appVars, roomVars, seenVars
<1>2. FrameShape' /\ LockOK'
  BY <1>1 DEF FrameInv, FrameShape, LockOK
<1>3. ASSUME NEW s \in Sessions PROVE SessionOK(s)'
  <2>1. Answered(s)' /\ Entitled(s)' /\ Judged(s)'
    BY <1>1 DEF FrameInv, SessionOK, Answered, Entitled, Judged, MayImport, TouchesText, TextAfter
  <2>2. Witnessed(s)'
    BY <1>1 DEF FrameInv, FrameShape, SessionOK, Witnessed
  <2> QED BY <2>1, <2>2 DEF SessionOK
<1> QED BY <1>2, <1>3 DEF FrameInv

(* The app's changes join the history of every frame under way. *)
LEMMA FrameInvApp ==
    ASSUME FrameInv,
           (\E u \in Subjects, r \in scene.roles : SetMember(u, r)) \/ (\E b \in scene.bodies : SaveBody(b))
    PROVE  FrameInv'
<1>1. UNCHANGED <<scene, now, pc, role, frame, got, text, touched, lock, arrived>>
  BY DEF SetMember, SaveBody, roomVars
<1>2. LockOK'
  BY <1>1 DEF FrameInv, LockOK
<1>3. CASE \E u \in Subjects, r \in scene.roles : SetMember(u, r)
  <2>1. PICK u \in Subjects, r \in scene.roles : SetMember(u, r)
    BY <1>3
  <2>2. r \in Roles \cup {NoRole}
    BY AdmissionAssumption DEF FrameInv, FrameShape
  <2>3. /\ member' = [member EXCEPT ![u] = r] /\ UNCHANGED <<body, bodies>>
        /\ seen' = [s \in Sessions |->
              IF SubjectOf[TokenOf[s]] = u /\ seen[s] # {} THEN seen[s] \cup {r} ELSE seen[s]]
    BY <2>1 DEF SetMember
  <2>4. FrameShape'
    BY <1>1, <2>2, <2>3 DEF FrameInv, FrameShape
  <2>5. ASSUME NEW s \in Sessions PROVE SessionOK(s)'
    <3>1. /\ seen[s] \subseteq seen'[s]
          /\ seen[s] # {} => r \in seen'[s] \/ SubjectOf[TokenOf[s]] # u
      BY <2>3
    <3>2. SubjectOf[TokenOf[s]] \in Subjects
      BY AdmissionAssumption
    <3>3. member'[SubjectOf[TokenOf[s]]] = IF SubjectOf[TokenOf[s]] = u THEN r ELSE member[SubjectOf[TokenOf[s]]]
      BY <2>3, <3>2 DEF FrameInv, FrameShape
    <3>4. Witnessed(s)'
      BY <1>1, <2>3, <3>1, <3>3 DEF FrameInv, SessionOK, Witnessed
    <3>5. Answered(s)' /\ Entitled(s)' /\ Judged(s)'
      BY <1>1, <2>3, <3>1
      DEF FrameInv, SessionOK, Answered, Entitled, Judged, MayImport, TouchesText, TextAfter
    <3> QED BY <3>4, <3>5 DEF SessionOK
  <2> QED BY <1>2, <2>4, <2>5 DEF FrameInv
<1>4. CASE \E b \in scene.bodies : SaveBody(b)
  <2>1. PICK b \in scene.bodies : SaveBody(b)
    BY <1>4
  <2>2. /\ body' = b /\ UNCHANGED <<member, seen>>
        /\ bodies' = [s \in Sessions |-> IF bodies[s] = {} THEN {} ELSE bodies[s] \cup {b}]
    BY <2>1 DEF SaveBody
  <2>3. FrameShape'
    BY <1>1, <2>2 DEF FrameInv, FrameShape
  <2>4. ASSUME NEW s \in Sessions PROVE SessionOK(s)'
    <3>1. /\ bodies[s] \subseteq bodies'[s]
          /\ bodies[s] # {} => b \in bodies'[s]
      BY <2>2
    <3>2. Witnessed(s)'
      BY <1>1, <2>2, <3>1 DEF FrameInv, SessionOK, Witnessed
    <3>3. Answered(s)' /\ Entitled(s)'
      BY <1>1, <2>2 DEF FrameInv, SessionOK, Answered, Entitled
    <3>4. Judged(s)'
      BY <1>1, <2>2, <3>1 DEF FrameInv, SessionOK, Judged, MayImport, TouchesText, TextAfter
    <3> QED BY <3>2, <3>3, <3>4 DEF SessionOK
  <2> QED BY <1>2, <2>3, <2>4 DEF FrameInv
<1> QED BY <1>3, <1>4

-----------------------------------------------------------------------------
(* A step of session z: the others are idle. *)
Only(z) ==
    /\ UNCHANGED <<scene, now, member, body>>
    /\ DOMAIN pc' = Sessions /\ DOMAIN role' = Sessions /\ DOMAIN frame' = Sessions /\ DOMAIN got' = Sessions
    /\ DOMAIN arrived' = Sessions /\ DOMAIN bodies' = Sessions
    /\ seen' \in [Sessions -> SUBSET (Roles \cup {NoRole})]
    /\ \A s \in Sessions \ {z} : Idle(s)

LEMMA QuietOnly ==
    ASSUME FrameShape, NEW z \in Sessions, Quiet(z), UNCHANGED <<scene, now, member, body>>,
           DOMAIN pc' = Sessions, DOMAIN role' = Sessions,
           \A s \in Sessions \ {z} : pc'[s] = pc[s] /\ role'[s] = role[s]
    PROVE  Only(z)
BY DEF FrameShape, Quiet, Only, Idle

LEMMA ShutOnly ==
    ASSUME FrameShape, NEW z \in Sessions, Stay(z) \/ Close(z), UNCHANGED <<scene, now, member, body>>
    PROVE  Only(z) /\ pc'[z] \in {"closed", "open"}
<1>1. Quiet(z) /\ DOMAIN pc' = Sessions /\ DOMAIN role' = Sessions
      /\ \A s \in Sessions \ {z} : pc'[s] = pc[s] /\ role'[s] = role[s]
  BY DEF FrameShape, Stay, Close
<1>2. pc'[z] \in {"closed", "open"}
  BY DEF FrameShape, Stay, Close
<1> QED BY <1>1, <1>2, QuietOnly

(* What is to be shown of a step of z. *)
LEMMA StepKeeps ==
    ASSUME FrameInv, NEW z \in Sessions, Only(z), SessionOK(z)',
           touched' \in [{PeerOf[s] : s \in Sessions} -> Moment],
           UNCHANGED <<text, touched>> \/ pc[z] \in Inside,
           lock' = lock \/ lock = NoOne \/ lock = z,
           pc'[z] \in Inside => lock' = z
    PROVE  FrameInv'
<1>1. FrameShape'
  BY DEF FrameInv, FrameShape, Only
<1>2. \A s \in Sessions \ {z} : pc[s] \in Inside => lock = s
  BY DEF FrameInv, LockOK
<1>3. pc[z] \in Inside => lock = z
  BY DEF FrameInv, LockOK
<1>4. LockOK'
  <2> SUFFICES ASSUME NEW s \in Sessions \ {z}, pc[s] \in Inside PROVE lock' = s
    BY DEF LockOK, Only, Idle
  <2> QED BY <1>2, AdmissionAssumption
<1>5. ASSUME NEW s \in Sessions \ {z} PROVE SessionOK(s)'
  <2>1. UNCHANGED <<text, touched>> \/ pc[s] \notin Inside
    BY <1>2, <1>3
  <2> QED BY <2>1, IdleKeeps DEF FrameInv, Only
<1> QED BY <1>1, <1>4, <1>5 DEF FrameInv

(* A frame that is over, or a session that ends. *)
LEMMA ShutKeeps ==
    ASSUME FrameInv, NEW z \in Sessions, Stay(z) \/ Close(z), UNCHANGED <<scene, now, member, body>>,
           touched' \in [{PeerOf[s] : s \in Sessions} -> Moment],
           UNCHANGED <<text, touched, lock>> \/ (pc[z] \in Inside /\ lock' = NoOne)
    PROVE  FrameInv'
<1>1. Only(z) /\ pc'[z] \in {"closed", "open"}
  BY ShutOnly DEF FrameInv
<1>2. SessionOK(z)'
  BY <1>1, RestingKnowsNothing DEF SessionOK, Witnessed, Answered, Entitled, Judged, Inside
<1>3. lock' = lock \/ lock = z
  BY DEF FrameInv, LockOK
<1> QED BY <1>1, <1>2, <1>3, StepKeeps DEF Inside

(* A frame arrives: its history begins. *)
LEMMA AskKeeps == ASSUME FrameInv, NEW z \in Sessions, NEW f, Ask(z, f) PROVE FrameInv'
<1>1. UNCHANGED <<scene, now, member, body, text, touched, lock>>
  BY DEF Ask, appVars, roomVars
<1>2. touched' \in [{PeerOf[s] : s \in Sessions} -> Moment]
  BY <1>1 DEF FrameInv, FrameShape
<1>3. CASE Close(z)
  BY <1>1, <1>2, <1>3, ShutKeeps
<1>4. CASE ~Close(z)
  <2>1. /\ pc' = [pc EXCEPT ![z] = "asking"]
        /\ frame' = [frame EXCEPT ![z] = f] /\ arrived' = [arrived EXCEPT ![z] = now]
        /\ seen' = [seen EXCEPT ![z] = {member[SubjectOf[TokenOf[z]]]}]
        /\ bodies' = [bodies EXCEPT ![z] = {body}] /\ UNCHANGED <<role, got>>
    BY <1>4 DEF Ask
  <2>2. member[SubjectOf[TokenOf[z]]] \in Roles \cup {NoRole}
    BY AdmissionAssumption DEF FrameInv, FrameShape
  <2>3. Only(z)
    <3>1. seen' \in [Sessions -> SUBSET (Roles \cup {NoRole})]
      BY <2>1, <2>2 DEF FrameInv, FrameShape
    <3> QED BY <1>1, <2>1, <3>1 DEF FrameInv, FrameShape, Only, Idle
  <2>4. SessionOK(z)'
    BY <1>1, <2>1 DEF FrameInv, FrameShape, SessionOK, Witnessed, Answered, Entitled, Judged, Inside
  <2>5. pc'[z] \notin Inside
    BY <2>1 DEF FrameInv, FrameShape, Inside
  <2> QED BY <1>1, <1>2, <2>3, <2>4, <2>5, StepKeeps
<1> QED BY <1>3, <1>4

(* The app answers while the membership is among those seen. *)
LEMMA AnswerKeeps == ASSUME FrameInv, NEW z \in Sessions, AppAnswers(z) PROVE FrameInv'
<1>1. /\ pc[z] = "asking" /\ pc' = [pc EXCEPT ![z] = "answered"]
      /\ got' = [got EXCEPT ![z] = member[SubjectOf[TokenOf[z]]]]
      /\ UNCHANGED <<scene, now, member, body, role, frame, arrived, seen, bodies, text, touched, lock>>
  BY DEF AppAnswers, appVars, roomVars, seenVars
<1>2. touched' \in [{PeerOf[s] : s \in Sessions} -> Moment]
  BY <1>1 DEF FrameInv, FrameShape
<1>3. Only(z)
  BY <1>1 DEF FrameInv, FrameShape, Only, Idle
<1>4. pc'[z] = "answered" /\ got'[z] = member[SubjectOf[TokenOf[z]]]
  BY <1>1 DEF FrameInv, FrameShape
<1>5. SessionOK(z)'
  BY <1>1, <1>4 DEF FrameInv, SessionOK, Witnessed, Answered, Entitled, Judged, Inside
<1> QED BY <1>1, <1>2, <1>3, <1>4, <1>5, StepKeeps DEF Inside

(* Only the session that joined has a role, and it keeps that of its HELLO.*)
LEMMA HandshakeKeeps == ASSUME FrameInv, NEW z \in Sessions, Handshake(z) PROVE FrameInv'
<1>1. UNCHANGED <<scene, now, member, body, text, touched, lock>> /\ pc[z] = "answered"
  BY DEF Handshake, appVars, roomVars
<1>2. touched' \in [{PeerOf[s] : s \in Sessions} -> Moment]
  BY <1>1 DEF FrameInv, FrameShape
<1>3. CASE Close(z)
  BY <1>1, <1>2, <1>3, ShutKeeps
<1>4. CASE ~Close(z)
  <2>1. /\ pc' = [pc EXCEPT ![z] = "joining"] /\ role' = [role EXCEPT ![z] = Resolved(TokenOf[z], got[z])]
        /\ UNCHANGED <<frame, got, arrived, seen, bodies>>
    BY <1>4 DEF Handshake, seenVars
  <2>2. Only(z)
    BY <1>1, <2>1 DEF FrameInv, FrameShape, Only, Idle
  <2>3. pc'[z] = "joining"
    BY <2>1 DEF FrameInv, FrameShape
  <2>4. SessionOK(z)'
    BY <1>1, <2>1, <2>3 DEF FrameInv, SessionOK, Witnessed, Answered, Entitled, Judged, Inside
  <2> QED BY <1>1, <1>2, <2>2, <2>3, <2>4, StepKeeps DEF Inside
<1> QED BY <1>3, <1>4

(* The role of a frame that pushes is the one the answer gives. *)
LEMMA RefreshKeeps == ASSUME FrameInv, NEW z \in Sessions, RefreshAccess(z) PROVE FrameInv'
<1>1. UNCHANGED <<scene, now, member, body, text, touched, lock>> /\ pc[z] = "answered"
  BY DEF RefreshAccess, appVars, roomVars
<1>2. touched' \in [{PeerOf[s] : s \in Sessions} -> Moment]
  BY <1>1 DEF FrameInv, FrameShape
<1>3. CASE Close(z) \/ Stay(z)
  BY <1>1, <1>2, <1>3, ShutKeeps
<1>4. CASE ~(Close(z) \/ Stay(z))
  <2>1. /\ pc' = [pc EXCEPT ![z] = "waiting"] /\ UNCHANGED <<role, frame, got, arrived, seen, bodies>>
        /\ KeepsAccess(z) /\ role[z] # "read-only"
    BY <1>4 DEF RefreshAccess, seenVars
  <2>2. Only(z)
    BY <1>1, <2>1 DEF FrameInv, FrameShape, Only, Idle
  <2>3. pc'[z] = "waiting"
    BY <2>1 DEF FrameInv, FrameShape
  <2>4. TokenOf[z] \in Tokens /\ got[z] \in Roles \cup {NoRole}
    BY <1>1, AdmissionAssumption DEF FrameInv, FrameShape, SessionOK, Answered
  <2>5. role[z] \in {"author", "reviewer"} /\ role[z] = Resolved(TokenOf[z], got[z])
    BY <2>1, <2>4, ResolvedIsGranted DEF KeepsAccess, Roles
  <2>6. SessionOK(z)'
    <3>1. Witnessed(z)' /\ Answered(z)'
      BY <1>1, <2>1, <2>3 DEF FrameInv, SessionOK, Witnessed, Answered
    <3>2. Entitled(z)'
      BY <2>1, <2>5 DEF Entitled, Resolved
    <3>3. Judged(z)'
      BY <2>3 DEF Judged
    <3> QED BY <3>1, <3>2, <3>3 DEF SessionOK
  <2> QED BY <1>1, <1>2, <2>2, <2>3, <2>6, StepKeeps DEF Inside
<1> QED BY <1>3, <1>4

LEMMA EndKeeps == ASSUME FrameInv, NEW z \in Sessions, Denied(z) \/ Join(z) PROVE FrameInv'
<1>1. UNCHANGED <<scene, now, member, body, text, touched, lock>> /\ (Close(z) \/ Stay(z))
  BY DEF Denied, Join, appVars, roomVars
<1>2. touched' \in [{PeerOf[s] : s \in Sessions} -> Moment]
  BY <1>1 DEF FrameInv, FrameShape
<1> QED BY <1>1, <1>2, ShutKeeps

(* An author's update goes straight to the import. *)
LEMMA AcquireKeeps == ASSUME FrameInv, NEW z \in Sessions, Acquire(z) PROVE FrameInv'
<1>1. /\ pc[z] = "waiting" /\ lock = NoOne /\ lock' = z
      /\ pc' = [pc EXCEPT ![z] = IF role[z] = "reviewer" THEN "policy" ELSE "importing"]
      /\ UNCHANGED <<scene, now, member, body, role, frame, got, arrived, seen, bodies, text, touched>>
  BY DEF Acquire, appVars, seenVars
<1>2. touched' \in [{PeerOf[s] : s \in Sessions} -> Moment]
  BY <1>1 DEF FrameInv, FrameShape
<1>3. Only(z)
  BY <1>1 DEF FrameInv, FrameShape, Only, Idle
<1>4. pc'[z] = IF role[z] = "reviewer" THEN "policy" ELSE "importing"
  BY <1>1 DEF FrameInv, FrameShape
<1>5. SessionOK(z)'
  <2>1. Witnessed(z)' /\ Answered(z)' /\ Judged(z)'
    BY <1>1, <1>4 DEF FrameInv, SessionOK, Witnessed, Answered, Judged
  <2>2. Entitled(z)'
    BY <1>1, <1>4 DEF FrameInv, SessionOK, Entitled, Inside, Resolved
  <2> QED BY <2>1, <2>2 DEF SessionOK
<1> QED BY <1>1, <1>2, <1>3, <1>5, StepKeeps

(* An update that is let through, for a reason that holds afterwards. *)
LEMMA PassKeeps ==
    ASSUME FrameInv, NEW z \in Sessions, pc[z] \in Inside, Pass(z), UNCHANGED <<scene, now, member, body, text>>,
           touched' \in [{PeerOf[s] : s \in Sessions} -> Moment], MayImport(z)'
    PROVE  FrameInv'
<1>1. pc' = [pc EXCEPT ![z] = "importing"] /\ UNCHANGED <<role, frame, got, lock, arrived, seen, bodies>>
  BY DEF Pass, seenVars
<1>2. Only(z)
  BY <1>1 DEF FrameInv, FrameShape, Only, Idle
<1>3. pc'[z] = "importing"
  BY <1>1 DEF FrameInv, FrameShape
<1>4. Witnessed(z)' /\ Answered(z)'
  BY <1>1, <1>3 DEF FrameInv, SessionOK, Witnessed, Answered, Inside
<1>5. Entitled(z)'
  BY <1>1, <1>3 DEF FrameInv, SessionOK, Entitled, Inside, Resolved
<1>6. Judged(z)'
  BY <1>3 DEF Judged
<1>7. SessionOK(z)'
  BY <1>4, <1>5, <1>6 DEF SessionOK
<1>8. lock = z
  BY DEF FrameInv, LockOK
<1> QED BY <1>1, <1>2, <1>7, <1>8, StepKeeps

(* The policy lets an update through for what it is itself, or for a       *)
(* review record of the same peer that is still in the window.             *)
LEMMA PolicyKeeps == ASSUME FrameInv, NEW z \in Sessions, Policy(z) PROVE FrameInv'
<1>1. /\ pc[z] = "policy" /\ UNCHANGED <<scene, now, member, body, text>>
      /\ touched' = IF frame[z].review THEN [touched EXCEPT ![PeerOf[z]] = now] ELSE touched
  BY DEF Policy, appVars
<1>2. touched' \in [{PeerOf[s] : s \in Sessions} -> Moment]
  BY <1>1 DEF FrameInv, FrameShape, Moment
<1>3. pc[z] \in Inside /\ lock = z
  BY <1>1 DEF FrameInv, LockOK, Inside
<1> DEFINE free == ~TouchesText(z) \/ frame[z].review
<1>4. CASE free /\ Pass(z)
  <2>1. frame'[z] = frame[z]
    BY <1>4 DEF Pass
  <2>2. MayImport(z)'
    BY <1>1, <1>4, <2>1 DEF MayImport, TouchesText, TextAfter
  <2> QED BY <1>1, <1>2, <1>3, <1>4, <2>2, PassKeeps
<1>5. CASE ~free /\ text # Empty /\ InWindow(PeerOf[z]) /\ Pass(z)
  <2>1. touched' = touched /\ arrived' = arrived
    BY <1>1, <1>5 DEF Pass, seenVars
  <2>2. touched[PeerOf[z]] \in Moment /\ arrived[z] \in Nat /\ arrived[z] <= now /\ now \in Nat
    BY <1>1 DEF FrameInv, FrameShape, SessionOK, Witnessed
  <2>3. touched[PeerOf[z]] # Never /\ touched[PeerOf[z]] + Window >= arrived[z]
    BY <1>5, <2>2, AdmissionAssumption DEF InWindow, Moment
  <2>4. MayImport(z)'
    BY <1>1, <1>5, <2>1, <2>3 DEF MayImport
  <2> QED BY <1>1, <1>2, <1>3, <1>5, <2>4, PassKeeps
<1>6. CASE Reject(z)
  BY <1>1, <1>2, <1>3, <1>6, ShutKeeps DEF Reject
<1>7. CASE /\ ~free /\ text = Empty /\ pc' = [pc EXCEPT ![z] = "verifying"]
           /\ UNCHANGED <<role, frame, got, lock, seenVars>>
  <2>1. /\ UNCHANGED <<role, frame, got, lock, arrived, seen, bodies>> /\ TouchesText(z) /\ text = Empty
        /\ pc' = [pc EXCEPT ![z] = "verifying"]
    BY <1>7 DEF seenVars
  <2>2. Only(z)
    BY <1>1, <2>1 DEF FrameInv, FrameShape, Only, Idle
  <2>3. pc'[z] = "verifying"
    BY <2>1 DEF FrameInv, FrameShape
  <2>4. Witnessed(z)' /\ Answered(z)'
    BY <1>1, <2>1, <2>3 DEF FrameInv, SessionOK, Witnessed, Answered
  <2>5. Entitled(z)'
    BY <1>1, <2>1, <2>3 DEF FrameInv, SessionOK, Entitled, Inside, Resolved
  <2>6. Judged(z)'
    BY <1>1, <2>1, <2>3 DEF Judged, TouchesText, TextAfter
  <2>7. SessionOK(z)'
    BY <2>4, <2>5, <2>6 DEF SessionOK
  <2> QED BY <1>2, <1>3, <2>1, <2>2, <2>7, StepKeeps
<1> QED BY <1>4, <1>5, <1>6, <1>7 DEF Policy

(* A seed is the body the app has at that moment. *)
LEMMA VerifyKeeps == ASSUME FrameInv, NEW z \in Sessions, VerifySeed(z) PROVE FrameInv'
<1>1. pc[z] = "verifying" /\ UNCHANGED <<scene, now, member, body, text, touched>>
  BY DEF VerifySeed, appVars
<1>2. touched' \in [{PeerOf[s] : s \in Sessions} -> Moment] /\ pc[z] \in Inside
  BY <1>1 DEF FrameInv, FrameShape, Inside
<1>3. CASE body = frame[z].text /\ Pass(z)
  <2>1. frame' = frame /\ bodies' = bodies
    BY <1>3 DEF Pass, seenVars
  <2>2. text = Empty /\ TouchesText(z) /\ body \in bodies[z]
    BY <1>1 DEF FrameInv, SessionOK, Judged, Witnessed
  <2>3. TextAfter(z) = body
    BY <1>3, <2>2 DEF TouchesText, TextAfter
  <2>4. MayImport(z)'
    BY <1>1, <2>1, <2>2, <2>3 DEF MayImport, TextAfter
  <2> QED BY <1>1, <1>2, <1>3, <2>4, PassKeeps
<1>4. CASE Reject(z)
  BY <1>1, <1>2, <1>4, ShutKeeps DEF Reject
<1> QED BY <1>3, <1>4 DEF VerifySeed

LEMMA ImportKeeps == ASSUME FrameInv, NEW z \in Sessions, Import(z) PROVE FrameInv'
<1>1. /\ pc[z] \in Inside /\ lock' = NoOne /\ Stay(z)
      /\ UNCHANGED <<scene, now, member, body, touched>>
  BY DEF Import, appVars, Inside
<1>2. touched' \in [{PeerOf[s] : s \in Sessions} -> Moment]
  BY <1>1 DEF FrameInv, FrameShape
<1> QED BY <1>1, <1>2, ShutKeeps

LEMMA FrameInvNext == FrameInv /\ [Next]_vars => FrameInv'
<1> SUFFICES ASSUME FrameInv, [Next]_vars PROVE FrameInv'
  OBVIOUS
<1>1. now \in Nat
  BY DEF FrameInv, FrameShape
<1>2. CASE Tick \/ RefreshAsks \/ Refreshed \/ RefreshFails \/ (\E k \in Keys : Withdraw(k)) \/ UNCHANGED vars
  <2>1. /\ now' \in {now, now + 1}
        /\ UNCHANGED <<scene, appVars, pc, role, frame, got, roomVars, seenVars>>
    BY <1>2 DEF Tick, RefreshAsks, Refreshed, RefreshFails, Withdraw, vars
  <2>2. now' \in Nat /\ now <= now'
    BY <1>1, <2>1
  <2> QED BY <2>1, <2>2, FrameInvClock
<1>3. CASE (\E u \in Subjects, r \in scene.roles : SetMember(u, r)) \/ (\E b \in scene.bodies : SaveBody(b))
  BY <1>3, FrameInvApp
<1>4. ASSUME NEW z \in Sessions, Connect(z) \/ (\E f \in scene.frames : Receive(z, f)) PROVE FrameInv'
  BY <1>4, AskKeeps DEF Connect, Receive
<1>5. ASSUME NEW z \in Sessions, Moves(z) PROVE FrameInv'
  BY <1>5, AnswerKeeps, EndKeeps, HandshakeKeeps, RefreshKeeps, AcquireKeeps, PolicyKeeps, VerifyKeeps, ImportKeeps
  DEF Moves
<1> QED BY <1>2, <1>3, <1>4, <1>5 DEF Next, Moves

-----------------------------------------------------------------------------
(* Only Import goes from "importing" to "open". *)
LEMMA ImportsImport ==
    ASSUME FrameInv, [Next]_vars, NEW s \in Sessions, Imports(s)
    PROVE  Import(s)
<1>1. DOMAIN pc = Sessions /\ pc[s] = "importing" /\ pc'[s] = "open"
  BY DEF FrameInv, FrameShape, Imports
<1>2. pc' # pc
  BY <1>1
<1>3. PICK z \in Sessions : Connect(z) \/ (\E f \in scene.frames : Receive(z, f)) \/ Moves(z)
  BY <1>2, Others DEF Next, Moves, Tick, RefreshAsks, Refreshed, RefreshFails, Withdraw
<1>4. \E p : pc' = [pc EXCEPT ![z] = p]
  BY <1>3, MovesLeaveKeys DEF Connect, Receive, Ask, Close
<1>5. s = z
  BY <1>1, <1>4
<1>6. ~Connect(s) /\ ~(\E f \in scene.frames : Receive(s, f))
  BY <1>1 DEF Connect, Receive
<1> QED BY <1>1, <1>3, <1>5, <1>6
    DEF Moves, AppAnswers, Denied, Handshake, Join, RefreshAccess, Acquire, Policy, VerifySeed

(* An update is taken only with a role that the token and a membership of  *)
(* the time of its frame both give, and a reviewer's text only with, just  *)
(* after, or instead of a review record (refresh_access, least_privileged, *)
(* enforce_reviewer_policy, HttpSeedVerifier).                             *)
THEOREM PushesAreAuthorized == Spec => UpdatesAuthorized
<1>1. FrameInv /\ [Next]_vars =>
        [\A s \in Sessions : Imports(s) =>
           /\ role[s] \in {"author", "reviewer"}
           /\ \E r \in RolesIn[TokenOf[s]] : Rank[role[s]] <= Rank[r]
           /\ \E r \in seen[s] \ {NoRole} : Rank[role[s]] <= Rank[r]
           /\ role[s] = "reviewer" /\ text' # text =>
                \/ frame[s].review
                \/ text # Empty /\ touched[PeerOf[s]] # Never /\ touched[PeerOf[s]] + Window >= arrived[s]
                \/ text = Empty /\ text' \in bodies[s]]_vars
  <2> SUFFICES ASSUME FrameInv, [Next]_vars, NEW s \in Sessions, Imports(s)
               PROVE  /\ role[s] \in {"author", "reviewer"}
                      /\ \E r \in RolesIn[TokenOf[s]] : Rank[role[s]] <= Rank[r]
                      /\ \E r \in seen[s] \ {NoRole} : Rank[role[s]] <= Rank[r]
                      /\ role[s] = "reviewer" /\ text' # text =>
                           \/ frame[s].review
                           \/ /\ text # Empty /\ touched[PeerOf[s]] # Never
                              /\ touched[PeerOf[s]] + Window >= arrived[s]
                           \/ text = Empty /\ text' \in bodies[s]
    OBVIOUS
  <2>1. pc[s] = "importing" /\ text' \in {TextAfter(s), text}
    BY ImportsImport DEF Import
  <2>2. /\ role[s] \in {"author", "reviewer"} /\ role[s] = Resolved(TokenOf[s], got[s])
        /\ got[s] \in seen[s] /\ seen[s] \subseteq Roles \cup {NoRole} /\ TokenOf[s] \in Tokens
        /\ role[s] = "reviewer" => MayImport(s)
    BY <2>1, AdmissionAssumption
    DEF FrameInv, FrameShape, SessionOK, Answered, Entitled, Judged, Inside
  <2>3. /\ got[s] \in Roles /\ Rank[role[s]] <= Rank[got[s]]
        /\ \E r \in RolesIn[TokenOf[s]] : Rank[role[s]] <= Rank[r]
    BY <2>2, ResolvedIsGranted DEF NoRole
  <2>4. got[s] # NoRole
    BY <2>3 DEF Roles, NoRole
  <2>5. role[s] = "reviewer" /\ text' # text =>
          \/ frame[s].review
          \/ text # Empty /\ touched[PeerOf[s]] # Never /\ touched[PeerOf[s]] + Window >= arrived[s]
          \/ text = Empty /\ text' \in bodies[s]
    BY <2>1, <2>2 DEF MayImport, TouchesText
  <2> QED BY <2>2, <2>3, <2>4, <2>5
<1> QED BY <1>1, FrameInvInit, FrameInvNext, PTL DEF Spec, UpdatesAuthorized

-----------------------------------------------------------------------------
(* The room that a session which was let in gets: how far the registry can *)
(* outgrow its cap, and that concurrent opens of a document agree on one   *)
(* room, for any documents, tasks and cap.                                 *)

(* Tasks that may still insert a room: they have passed the comparison with  *)
(* the cap, or evicted a room to make place.                                 *)
Openers ==
    {t \in Tasks : \/ stage[t] \in {"opening", "inserting"}
                   \/ stage[t] \in {"evicting", "removing"} /\ made[t]}

(* Live rooms and the rooms that may still come are bounded together. *)
CountInv ==
    /\ TypeOK
    /\ \A t \in Tasks : stage[t] \notin {"evicting", "removing"} => ~made[t]
    /\ Cardinality(Live) + Cardinality(Openers)
           <= MaxRooms + Cardinality(Tasks) - 1

(* An empty registry is well typed. *)
LEMMA TypeInit == RegistryInit => TypeOK
BY RegistryAssumption DEF RegistryInit, TypeOK, NoRoom, RegistryAssumption

(* A task that starts over is well typed. *)
LEMMA FinishType ==
    ASSUME TypeOK, NEW t \in Tasks, Finish(t)
    PROVE  /\ stage' \in [Tasks -> {"start", "evicting", "removing", "opening",
                                "inserting", "handed", "joined"}]
           /\ doc' \in [Tasks -> Docs \cup {NoDoc}]
           /\ \A s \in Tasks : stage'[s] # "start" => doc'[s] \in Docs
           /\ room' \in [Tasks -> 0 .. MaxOpens]
           /\ \A s \in Tasks : stage'[s] = "removing" => stage[s] = "removing"
<1> USE RegistryAssumption DEF RegistryAssumption, NoRoom
<1>1. stage' = [stage EXCEPT ![t] = "start"] /\ doc' = [doc EXCEPT ![t] = NoDoc]
      /\ room' = [room EXCEPT ![t] = 0]
  BY DEF Finish, Goto
<1>2. 0 \in 0 .. MaxOpens
  OBVIOUS
<1>3. room' \in [Tasks -> 0 .. MaxOpens]
  BY <1>1, <1>2 DEF TypeOK
<1> QED BY <1>1, <1>3 DEF TypeOK

(* Every step keeps the types. *)
LEMMA TypeStep == TypeOK /\ [RegistryNext]_registryVars => TypeOK'
<1> SUFFICES ASSUME TypeOK, [RegistryNext]_registryVars PROVE TypeOK'
  OBVIOUS
<1> USE RegistryAssumption DEF RegistryAssumption, NoRoom
<1>1. ASSUME NEW t \in Tasks, NEW d \in Docs, GetOrOpen(t, d) PROVE TypeOK'
  BY <1>1 DEF GetOrOpen, Goto, TypeOK, mapVars, docVars, evictVars
<1>2. ASSUME NEW t \in Tasks, NEW d \in Docs, PickVictim(t, d) PROVE TypeOK'
  BY <1>2 DEF PickVictim, Goto, TypeOK, mapVars, docVars
<1>3. ASSUME NEW t \in Tasks, RemoveVictim(t) PROVE TypeOK'
  BY <1>3 DEF RemoveVictim, Goto, TypeOK, docVars
<1>4. ASSUME NEW t \in Tasks, EvictEmptyEnds(t) PROVE TypeOK'
  <2>1. made' \in [Tasks -> BOOLEAN]
    BY <1>4 DEF EvictEmptyEnds, TypeOK
  <2>2. CASE made[t]
    BY <1>4, <2>1, <2>2 DEF EvictEmptyEnds, Goto, TypeOK, mapVars, docVars
  <2>3. CASE ~made[t]
    <3>1. Finish(t) /\ UNCHANGED <<rooms, built, evicted, authority, logged, victim, idle>>
      BY <1>4, <2>3 DEF EvictEmptyEnds, mapVars, docVars
    <3> QED BY <2>1, <3>1, FinishType DEF TypeOK
  <2> QED BY <2>2, <2>3
<1>5. ASSUME NEW t \in Tasks, Open(t) PROVE TypeOK'
  <2>1. built + 1 \in 1 .. MaxOpens /\ doc[t] \in Docs
    BY <1>5 DEF Open, TypeOK
  <2>2. authority' \in [1 .. MaxOpens -> SUBSET Updates]
    BY <1>5, <2>1 DEF Open, TypeOK
  <2> QED BY <1>5, <2>1, <2>2 DEF Open, Goto, TypeOK, evictVars
<1>6. ASSUME NEW t \in Tasks, Insert(t) PROVE TypeOK'
  <2>1. rooms' \in [Docs -> 0 .. MaxOpens] /\ doc[t] \in Docs
    BY <1>6 DEF Insert, TypeOK
  <2> QED BY <1>6, <2>1 DEF Insert, Goto, TypeOK, docVars, evictVars
<1>7. ASSUME NEW t \in Tasks, HandshakeFails(t) \/ Leave(t) PROVE TypeOK'
  <2>1. Finish(t) /\ UNCHANGED <<rooms, built, evicted, authority, logged, victim, made,
                                  idle>>
    BY <1>7 DEF HandshakeFails, Leave, mapVars, docVars, evictVars
  <2> QED BY <2>1, FinishType DEF TypeOK
<1>8. ASSUME NEW t \in Tasks, JoinRoom(t) PROVE TypeOK'
  BY <1>8 DEF JoinRoom, Goto, TypeOK, mapVars, docVars, evictVars
<1>9. ASSUME NEW t \in Tasks, NEW u \in Updates, HandleUpdate(t, u) PROVE TypeOK'
  <2>1. logged' \in [Docs -> SUBSET Updates]
    BY <1>9 DEF HandleUpdate, TypeOK
  <2>2. authority' \in [1 .. MaxOpens -> SUBSET Updates]
    BY <1>9 DEF HandleUpdate, TypeOK
  <2> QED BY <1>9, <2>1, <2>2 DEF HandleUpdate, TypeOK, mapVars, taskVars, evictVars
<1>10. ASSUME NEW found \in SUBSET EmptyRooms, CollectIdle(found) PROVE TypeOK'
  BY <1>10 DEF CollectIdle, EmptyRooms, Live, TypeOK, mapVars, docVars, taskVars,
               evictVars
<1>11. ASSUME NEW d \in Docs, RemoveIdle(d) PROVE TypeOK'
  BY <1>11 DEF RemoveIdle, TypeOK, docVars, taskVars, evictVars
<1>12. CASE UNCHANGED registryVars
  BY <1>12 DEF registryVars, TypeOK, mapVars, docVars, taskVars, evictVars
<1> QED
  BY <1>1, <1>2, <1>3, <1>4, <1>5, <1>6, <1>7, <1>8, <1>9, <1>10, <1>11, <1>12
     DEF RegistryNext, TaskStep

(* Both sets are finite, and so are their successors. *)
LEMMA Sizes ==
    /\ IsFiniteSet(Live) /\ Cardinality(Live) \in Nat
    /\ IsFiniteSet(Openers) /\ Cardinality(Openers) \in Nat
    /\ Cardinality(Openers) <= Cardinality(Tasks)
    /\ IsFiniteSet(Tasks) /\ Cardinality(Tasks) \in Nat
<1>1. Live \subseteq Docs /\ Openers \subseteq Tasks
  BY DEF Live, Openers
<1> QED BY <1>1, RegistryAssumption, FS_Subset, FS_CardinalityType
        DEF RegistryAssumption

(* Cardinalities when a set grows or shrinks by at most one element. *)
LEMMA AtMostOne ==
    ASSUME NEW S, IsFiniteSet(S), NEW x
    PROVE  /\ \A T : T \subseteq S \cup {x} => Cardinality(T) <= Cardinality(S) + 1
           /\ \A T : T \subseteq S => Cardinality(T) <= Cardinality(S)
           /\ x \in S => Cardinality(S \ {x}) = Cardinality(S) - 1
<1>1. Cardinality(S) \in Nat
  BY FS_CardinalityType
<1>2. IsFiniteSet(S \cup {x}) /\ Cardinality(S \cup {x}) <= Cardinality(S) + 1
  BY <1>1, FS_AddElement
<1>3. \A T : T \subseteq S \cup {x} => /\ Cardinality(T) <= Cardinality(S \cup {x})
                                       /\ IsFiniteSet(T)
  BY <1>2, FS_Subset
<1>4. \A T : T \subseteq S \cup {x} => Cardinality(T) \in Nat
  BY <1>3, FS_CardinalityType
<1>5. Cardinality(S \cup {x}) \in Nat
  BY <1>2, FS_CardinalityType
<1>6. \A T : T \subseteq S => Cardinality(T) <= Cardinality(S)
  BY FS_Subset
<1>7. x \in S => Cardinality(S \ {x}) = Cardinality(S) - 1
  BY FS_RemoveElement
<1> QED BY <1>1, <1>2, <1>3, <1>4, <1>5, <1>6, <1>7

(* Every step keeps the count: a task that passes the comparison finds fewer *)
(* than MaxRooms live rooms, one that evicts trades a room for its own, and  *)
(* one that inserts is no longer an opener.                                  *)
LEMMA CountStep == CountInv /\ [RegistryNext]_registryVars => CountInv'
<1> SUFFICES ASSUME CountInv, [RegistryNext]_registryVars PROVE CountInv'
  OBVIOUS
<1> USE RegistryAssumption DEF RegistryAssumption
<1> DEFINE Flags == \A t \in Tasks : stage[t] \notin {"evicting", "removing"} => ~made[t]
           Count == Cardinality(Live) + Cardinality(Openers)
                        <= MaxRooms + Cardinality(Tasks) - 1
<1>0. TypeOK /\ TypeOK' /\ Flags /\ Count
  BY TypeStep DEF CountInv
<1>s. /\ IsFiniteSet(Live) /\ Cardinality(Live) \in Nat
      /\ IsFiniteSet(Openers) /\ Cardinality(Openers) \in Nat
      /\ Cardinality(Openers) <= Cardinality(Tasks)
      /\ IsFiniteSet(Tasks) /\ Cardinality(Tasks) \in Nat
  BY Sizes
<1>p. /\ Cardinality(Live') \in Nat /\ Cardinality(Openers') \in Nat
      /\ Cardinality(Openers') <= Cardinality(Tasks)
  <2>1. Live' \subseteq Docs /\ Openers' \subseteq Tasks
    BY DEF Live, Openers
  <2> QED BY <2>1, FS_Subset, FS_CardinalityType
<1>k. ASSUME Live' \subseteq Live, Openers' \subseteq Openers PROVE Count'
  <2>1. Cardinality(Live') <= Cardinality(Live)
        /\ Cardinality(Openers') <= Cardinality(Openers)
    BY <1>k, <1>s, FS_Subset
  <2> QED BY <1>0, <1>s, <1>p, <2>1
<1>1. ASSUME NEW t \in Tasks, NEW d \in Docs, GetOrOpen(t, d) PROVE Flags' /\ Count'
  <2>1. Live' = Live /\ made' = made /\ stage[t] = "start" /\ ~made[t]
    BY <1>0, <1>1 DEF GetOrOpen, mapVars, evictVars, Live
  <2>2. Flags'
    BY <1>0, <1>1, <2>1 DEF GetOrOpen, Goto, TypeOK
  <2>3. CASE stage'[t] = "opening"
    <3>1. Cardinality(Live) <= MaxRooms - 1
      BY <1>0, <1>1, <1>s, <2>3 DEF GetOrOpen, Goto, TypeOK
    <3> QED BY <1>s, <1>p, <2>1, <2>2, <3>1
  <2>4. CASE stage'[t] # "opening"
    <3>1. Openers' \subseteq Openers
      BY <1>0, <1>1, <2>1, <2>4 DEF GetOrOpen, Goto, TypeOK, Openers
    <3> QED BY <1>k, <2>1, <2>2, <3>1
  <2> QED BY <2>3, <2>4
<1>2. ASSUME NEW t \in Tasks, NEW d \in Docs, PickVictim(t, d) PROVE Flags' /\ Count'
  <2>1. Live' = Live /\ Openers' \subseteq Openers /\ Flags'
    BY <1>0, <1>2 DEF PickVictim, Goto, mapVars, Live, Openers, TypeOK
  <2> QED BY <1>k, <2>1
<1>3. ASSUME NEW t \in Tasks, RemoveVictim(t) PROVE Flags' /\ Count'
  <2>0. /\ victim[t] \in Docs /\ stage[t] = "removing"
        /\ stage' = [stage EXCEPT ![t] = "evicting"]
        /\ rooms' = [rooms EXCEPT ![victim[t]] = NoRoom]
        /\ made' = [made EXCEPT ![t] = @ \/ rooms[victim[t]] # NoRoom]
    BY <1>0, <1>3 DEF RemoveVictim, Goto, TypeOK
  <2>1. Flags'
    BY <1>0, <2>0 DEF TypeOK
  <2>2. Live' = Live \ {victim[t]}
    BY <1>0, <2>0 DEF Live, TypeOK
  <2>3. CASE victim[t] \in Live
    <3>1. Openers' \subseteq Openers \cup {t}
      BY <1>0, <2>0 DEF Openers, TypeOK
    <3>2. Cardinality(Openers') <= Cardinality(Openers) + 1
      BY <1>s, <3>1, AtMostOne
    <3>3. Cardinality(Live') = Cardinality(Live) - 1
      BY <1>s, <2>2, <2>3, AtMostOne
    <3> QED BY <1>0, <1>s, <1>p, <2>1, <3>2, <3>3
  <2>4. CASE victim[t] \notin Live
    <3>1. Openers' \subseteq Openers
      BY <1>0, <2>0, <2>4 DEF Openers, Live, TypeOK
    <3> QED BY <1>k, <2>1, <2>2, <3>1
  <2> QED BY <2>3, <2>4
<1>4. ASSUME NEW t \in Tasks, EvictEmptyEnds(t) PROVE Flags' /\ Count'
  <2>0. /\ stage[t] = "evicting" /\ made' = [made EXCEPT ![t] = FALSE] /\ Live' = Live
        /\ \/ made[t] /\ stage' = [stage EXCEPT ![t] = "opening"]
           \/ ~made[t] /\ stage' = [stage EXCEPT ![t] = "start"]
    BY <1>4 DEF EvictEmptyEnds, Finish, Goto, mapVars, Live
  <2>1. Flags'
    BY <1>0, <2>0 DEF TypeOK
  <2>2. Openers' \subseteq Openers
    BY <1>0, <2>0 DEF Openers, TypeOK
  <2> QED BY <1>k, <2>0, <2>1, <2>2
<1>5. ASSUME NEW t \in Tasks, Open(t) PROVE Flags' /\ Count'
  <2>1. Live' = Live /\ Openers' \subseteq Openers /\ Flags'
    BY <1>0, <1>5 DEF Open, Goto, evictVars, Live, Openers, TypeOK
  <2> QED BY <1>k, <2>1
<1>6. ASSUME NEW t \in Tasks, Insert(t) PROVE Flags' /\ Count'
  <2>0. /\ stage[t] = "inserting" /\ stage' = [stage EXCEPT ![t] = "handed"] /\ made' = made
        /\ rooms' = [rooms EXCEPT ![doc[t]] = IF @ = NoRoom THEN room[t] ELSE @]
    BY <1>6 DEF Insert, Goto, evictVars
  <2>1. Flags'
    BY <1>0, <2>0 DEF TypeOK
  <2>2. Live' \subseteq Live \cup {doc[t]}
    BY <1>0, <2>0 DEF Live, TypeOK
  <2>3. t \in Openers /\ Openers' \subseteq Openers \ {t}
    BY <1>0, <2>0 DEF Openers, TypeOK
  <2>4. Cardinality(Live') <= Cardinality(Live) + 1
    BY <1>s, <2>2, AtMostOne
  <2>5. Cardinality(Openers') <= Cardinality(Openers) - 1
    <3>1. IsFiniteSet(Openers \ {t}) /\ Cardinality(Openers \ {t}) = Cardinality(Openers) - 1
      BY <1>s, <2>3, FS_RemoveElement
    <3> QED BY <2>3, <3>1, FS_Subset
  <2> QED BY <1>0, <1>s, <1>p, <2>1, <2>4, <2>5
<1>7. ASSUME NEW t \in Tasks, HandshakeFails(t) \/ Leave(t) \/ JoinRoom(t)
      PROVE  Flags' /\ Count'
  <2>0. /\ stage[t] \in {"opening", "handed", "joined"}
        /\ \E l \in {"start", "joined"} : stage' = [stage EXCEPT ![t] = l]
        /\ made' = made /\ Live' = Live
    BY <1>7 DEF HandshakeFails, Leave, JoinRoom, Finish, Goto, mapVars, evictVars, Live
  <2>1. Flags' /\ Openers' \subseteq Openers
    BY <1>0, <2>0 DEF Openers, TypeOK
  <2> QED BY <1>k, <2>0, <2>1
<1>8. ASSUME NEW t \in Tasks, NEW u \in Updates, HandleUpdate(t, u)
      PROVE  Flags' /\ Count'
  <2>1. Live' = Live /\ Openers' = Openers /\ Flags'
    BY <1>0, <1>8 DEF HandleUpdate, mapVars, taskVars, evictVars, Live, Openers
  <2> QED BY <1>k, <2>1
<1>9. ASSUME NEW found \in SUBSET EmptyRooms, CollectIdle(found) PROVE Flags' /\ Count'
  <2>1. Live' = Live /\ Openers' = Openers /\ Flags'
    BY <1>0, <1>9 DEF CollectIdle, mapVars, taskVars, evictVars, Live, Openers
  <2> QED BY <1>k, <2>1
<1>10. ASSUME NEW d \in Docs, RemoveIdle(d) PROVE Flags' /\ Count'
  <2>1. Openers' = Openers /\ Flags'
    BY <1>0, <1>10 DEF RemoveIdle, taskVars, evictVars, Openers
  <2>2. Live' \subseteq Live
    BY <1>0, <1>10 DEF RemoveIdle, Live, TypeOK
  <2> QED BY <1>k, <2>1, <2>2
<1>11. ASSUME UNCHANGED registryVars PROVE Flags' /\ Count'
  <2>1. Live' = Live /\ Openers' = Openers /\ Flags'
    BY <1>0, <1>11 DEF registryVars, mapVars, taskVars, evictVars, Live, Openers
  <2> QED BY <1>k, <2>1
<1>12. Flags' /\ Count'
  <2> HIDE DEF Flags, Count
  <2> QED
    BY <1>1, <1>2, <1>3, <1>4, <1>5, <1>6, <1>7, <1>8, <1>9, <1>10, <1>11
       DEF RegistryNext, TaskStep
<1> QED BY <1>0, <1>12 DEF CountInv

(* The rooms in the registry exceed the cap by less than the number of tasks *)
(* that can be inside get_or_open at once.                                   *)
THEOREM RoomsStayBounded == RegistrySpec => [](TypeOK /\ RoomsBounded)
<1>1. RegistryInit => CountInv
  <2> SUFFICES ASSUME RegistryInit PROVE CountInv
    OBVIOUS
  <2>1. Live = {} /\ Openers = {}
    BY DEF RegistryInit, Live, Openers
  <2>2. Cardinality({}) = 0
    BY FS_EmptySet
  <2>3. Cardinality(Tasks) \in Nat /\ MaxRooms \in Nat \ {0}
    BY RegistryAssumption, FS_CardinalityType DEF RegistryAssumption
  <2>4. \A t \in Tasks : ~made[t]
    BY DEF RegistryInit
  <2> QED BY <2>1, <2>2, <2>3, <2>4, TypeInit DEF CountInv
<1>2. CountInv /\ [RegistryNext]_registryVars => CountInv'
  BY CountStep
<1>3. CountInv => TypeOK /\ RoomsBounded
  BY Sizes, RegistryAssumption DEF CountInv, RoomsBounded, RegistryAssumption
<1> QED BY <1>1, <1>2, <1>3, PTL DEF RegistrySpec

-----------------------------------------------------------------------------
(* Rooms in the map and on their way into it were built. *)
BuiltOK ==
    /\ \A d \in Docs : rooms[d] <= built
    /\ \A t \in Tasks : stage[t] = "inserting" => room[t] \in 1 .. built

(* Until its room is evicted, everybody who was given a room of a document   *)
(* was given the registered one, and nothing is logged through another.      *)
AgreeOK ==
    /\ \A t \in Tasks : stage[t] \in {"handed", "joined"} /\ doc[t] \notin evicted =>
            rooms[doc[t]] # NoRoom /\ room[t] = rooms[doc[t]]
    /\ \A d \in Docs \ evicted : rooms[d] = NoRoom => logged[d] = {}
    /\ \A d \in Docs \ evicted : rooms[d] # NoRoom =>
            logged[d] \subseteq authority[rooms[d]]

CurrentInv == TypeOK /\ BuiltOK /\ AgreeOK

(* Every step keeps the agreement. *)
LEMMA CurrentStep == CurrentInv /\ [RegistryNext]_registryVars => CurrentInv'
<1> SUFFICES ASSUME CurrentInv, [RegistryNext]_registryVars PROVE CurrentInv'
  OBVIOUS
<1> USE RegistryAssumption DEF RegistryAssumption, NoRoom
<1>0. TypeOK /\ BuiltOK /\ AgreeOK /\ TypeOK'
  BY TypeStep DEF CurrentInv
<1>1. ASSUME NEW t \in Tasks, NEW d \in Docs, GetOrOpen(t, d)
      PROVE  BuiltOK' /\ AgreeOK'
  BY <1>0, <1>1
     DEF GetOrOpen, Goto, TypeOK, BuiltOK, AgreeOK, mapVars, docVars
<1>2. ASSUME NEW t \in Tasks, NEW d \in Docs, PickVictim(t, d)
      PROVE  BuiltOK' /\ AgreeOK'
  BY <1>0, <1>2
     DEF PickVictim, Goto, TypeOK, BuiltOK, AgreeOK, mapVars, docVars
<1>3. ASSUME NEW t \in Tasks, RemoveVictim(t) PROVE BuiltOK' /\ AgreeOK'
  BY <1>0, <1>3 DEF RemoveVictim, Goto, TypeOK, BuiltOK, AgreeOK, docVars
<1>4. ASSUME NEW t \in Tasks, EvictEmptyEnds(t) PROVE BuiltOK' /\ AgreeOK'
  <2>1. /\ \E l \in {"start", "opening"} : Goto(t, l)
        /\ \A s \in Tasks : s # t => doc'[s] = doc[s] /\ room'[s] = room[s]
        /\ UNCHANGED <<rooms, built, evicted, authority, logged>>
    BY <1>0, <1>4 DEF EvictEmptyEnds, Finish, TypeOK, mapVars, docVars
  <2> QED BY <1>0, <2>1 DEF Goto, TypeOK, BuiltOK, AgreeOK
<1>5. ASSUME NEW t \in Tasks, Open(t) PROVE BuiltOK' /\ AgreeOK'
  <2>1. BuiltOK'
    BY <1>0, <1>5 DEF Open, Goto, TypeOK, BuiltOK
  <2>2. \A d \in Docs : rooms[d] # NoRoom => authority'[rooms[d]] = authority[rooms[d]]
    BY <1>0, <1>5 DEF Open, TypeOK, BuiltOK
  <2> QED BY <1>0, <1>5, <2>1, <2>2 DEF Open, Goto, TypeOK, AgreeOK
<1>6. ASSUME NEW t \in Tasks, Insert(t) PROVE BuiltOK' /\ AgreeOK'
  <2>1. /\ doc[t] \in Docs /\ room[t] \in 1 .. built
        /\ rooms'[doc[t]] = (IF rooms[doc[t]] = NoRoom THEN room[t] ELSE rooms[doc[t]])
        /\ \A d \in Docs : d # doc[t] => rooms'[d] = rooms[d]
        /\ UNCHANGED <<built, evicted, authority, logged, doc>>
        /\ stage' = [stage EXCEPT ![t] = "handed"]
        /\ room' = [room EXCEPT ![t] = rooms'[doc[t]]]
    BY <1>0, <1>6 DEF Insert, Goto, TypeOK, BuiltOK, docVars
  <2>2. \A s \in Tasks : s # t => stage'[s] = stage[s] /\ room'[s] = room[s]
    BY <1>0, <2>1 DEF TypeOK
  <2>3. stage'[t] = "handed" /\ room'[t] = rooms'[doc[t]]
    BY <1>0, <2>1 DEF TypeOK
  <2>4. BuiltOK'
    <3>0. built \in Nat /\ room[t] <= built /\ \A d \in Docs : rooms[d] <= built
      BY <1>0, <2>1 DEF TypeOK, BuiltOK
    <3>1. \A d \in Docs : rooms'[d] <= built'
      <4> SUFFICES ASSUME NEW d \in Docs PROVE rooms'[d] <= built
        BY <2>1
      <4>1. rooms'[d] = room[t] \/ rooms'[d] = rooms[d]
        BY <2>1
      <4> QED BY <3>0, <4>1
    <3>2. \A s \in Tasks : stage'[s] = "inserting" => room'[s] \in 1 .. built'
      BY <1>0, <2>1, <2>2, <2>3 DEF BuiltOK
    <3> QED BY <3>1, <3>2 DEF BuiltOK
  <2>5. AgreeOK'
    <3>1. \A s \in Tasks : stage'[s] \in {"handed", "joined"} /\ doc'[s] \notin evicted' =>
              rooms'[doc'[s]] # NoRoom /\ room'[s] = rooms'[doc'[s]]
      <4> SUFFICES ASSUME NEW s \in Tasks, stage'[s] \in {"handed", "joined"},
                          doc[s] \notin evicted
                   PROVE  rooms'[doc[s]] # NoRoom /\ room'[s] = rooms'[doc[s]]
        BY <2>1
      <4>1. CASE s = t
        BY <2>1, <2>3, <4>1
      <4>2. CASE s # t
        <5>1. rooms[doc[s]] # NoRoom /\ room[s] = rooms[doc[s]] /\ doc[s] \in Docs
          BY <1>0, <2>2, <4>2 DEF AgreeOK, TypeOK
        <5> QED BY <2>1, <2>2, <4>2, <5>1
      <4> QED BY <4>1, <4>2
    <3>2. \A d \in Docs \ evicted' : rooms'[d] = NoRoom => logged'[d] = {}
      BY <1>0, <2>1 DEF AgreeOK
    <3>3. \A d \in Docs \ evicted' : rooms'[d] # NoRoom =>
              logged'[d] \subseteq authority'[rooms'[d]]
      BY <1>0, <2>1 DEF AgreeOK
    <3> QED BY <3>1, <3>2, <3>3 DEF AgreeOK
  <2> QED BY <2>4, <2>5
<1>7. ASSUME NEW t \in Tasks, HandshakeFails(t) \/ Leave(t)
      PROVE  BuiltOK' /\ AgreeOK'
  <2>1. Finish(t) /\ UNCHANGED <<rooms, built, evicted, authority, logged>>
    BY <1>7 DEF HandshakeFails, Leave, mapVars, docVars
  <2> QED BY <1>0, <2>1 DEF Finish, Goto, TypeOK, BuiltOK, AgreeOK
<1>8. ASSUME NEW t \in Tasks, JoinRoom(t) PROVE BuiltOK' /\ AgreeOK'
  BY <1>0, <1>8 DEF JoinRoom, Goto, TypeOK, BuiltOK, AgreeOK, mapVars, docVars
<1>9. ASSUME NEW t \in Tasks, NEW u \in Updates, HandleUpdate(t, u)
      PROVE  BuiltOK' /\ AgreeOK'
  <2>1. /\ stage[t] = "joined" /\ doc[t] \in Docs
        /\ UNCHANGED <<rooms, built, evicted, stage, doc, room>>
    BY <1>0, <1>9 DEF HandleUpdate, TypeOK, mapVars, taskVars
  <2>2. \A r \in 1 .. MaxOpens : authority[r] \subseteq authority'[r]
    BY <1>0, <1>9 DEF HandleUpdate, TypeOK
  <2>3. \A d \in Docs : d # doc[t] => logged'[d] = logged[d]
    BY <1>0, <1>9 DEF HandleUpdate, TypeOK
  <2>4. ASSUME doc[t] \notin evicted
        PROVE  rooms[doc[t]] # NoRoom /\ logged'[doc[t]] \subseteq authority'[rooms[doc[t]]]
    <3>1. room[t] = rooms[doc[t]] /\ room[t] \in 1 .. MaxOpens
      BY <1>0, <2>1, <2>4 DEF TypeOK, AgreeOK
    <3>2. logged[doc[t]] \subseteq authority[room[t]]
      BY <1>0, <2>1, <2>4, <3>1 DEF AgreeOK
    <3> QED BY <1>0, <1>9, <2>1, <3>1, <3>2 DEF HandleUpdate, TypeOK
  <2>5. \A d \in Docs \ evicted : rooms[d] = NoRoom => logged'[d] = {}
    BY <1>0, <2>1, <2>3, <2>4 DEF AgreeOK
  <2>6. \A d \in Docs \ evicted : rooms[d] # NoRoom =>
            logged'[d] \subseteq authority'[rooms[d]]
    <3> SUFFICES ASSUME NEW d \in Docs \ evicted, rooms[d] # NoRoom
                 PROVE  logged'[d] \subseteq authority'[rooms[d]]
      OBVIOUS
    <3>1. CASE d = doc[t]
      BY <2>4, <3>1
    <3>2. CASE d # doc[t]
      <4>1. rooms[d] \in 1 .. MaxOpens
        BY <1>0 DEF TypeOK
      <4> QED BY <1>0, <2>2, <2>3, <3>2, <4>1 DEF AgreeOK
    <3> QED BY <3>1, <3>2
  <2> QED BY <1>0, <2>1, <2>5, <2>6 DEF BuiltOK, AgreeOK
<1>10. ASSUME NEW found \in SUBSET EmptyRooms, CollectIdle(found)
       PROVE  BuiltOK' /\ AgreeOK'
  BY <1>0, <1>10 DEF CollectIdle, BuiltOK, AgreeOK, mapVars, docVars, taskVars
<1>11. ASSUME NEW d \in Docs, RemoveIdle(d) PROVE BuiltOK' /\ AgreeOK'
  BY <1>0, <1>11 DEF RemoveIdle, TypeOK, BuiltOK, AgreeOK, docVars, taskVars
<1>12. ASSUME UNCHANGED registryVars PROVE BuiltOK' /\ AgreeOK'
  BY <1>0, <1>12 DEF registryVars, BuiltOK, AgreeOK, mapVars, docVars, taskVars
<1>13. BuiltOK' /\ AgreeOK'
  BY <1>1, <1>2, <1>3, <1>4, <1>5, <1>6, <1>7, <1>8, <1>9, <1>10, <1>11, <1>12
     DEF RegistryNext, TaskStep
<1> QED BY <1>0, <1>13 DEF CurrentInv

(* However many sessions open a document at once, the room that is           *)
(* registered has the document's whole log, until the document's room is     *)
(* evicted for the first time (get_or_open, or_insert).                      *)
THEOREM OpensAgree == RegistrySpec => []RoomCurrent
<1>1. RegistryInit => CurrentInv
  BY TypeInit DEF RegistryInit, CurrentInv, BuiltOK, AgreeOK, NoRoom
<1>2. CurrentInv /\ [RegistryNext]_registryVars => CurrentInv'
  BY CurrentStep
<1>3. CurrentInv => RoomCurrent
  BY DEF CurrentInv, AgreeOK, RoomCurrent, Live
<1> QED BY <1>1, <1>2, <1>3, PTL DEF RegistrySpec
=============================================================================
