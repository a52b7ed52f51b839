----------------------------- MODULE Admission ------------------------------
(***************************************************************************)
(* Who may write to a document of the sync service: the verification of    *)
(* tokens and its two caches (services/sync/src/oidc.rs), the app's answer *)
(* about a membership, the checks of a session (session.rs) and what a     *)
(* reviewer may push (enforce_reviewer_policy in room.rs, seed.rs).        *)
(*                                                                         *)
(* A session is a task that goes from one await to the next.  Time is a    *)
(* counter.  The text of a document is a name for its content; the room is *)
(* reduced to that text and the updates mutex (SyncRoom models the rest).  *)
(***************************************************************************)
EXTENDS Integers, FiniteSets, FiniteSetsExt

CONSTANTS
    Sessions, PeerOf, TokenOf,      \* connections, their peers and bearer tokens
    Tokens, Keys, Subjects,
    KeyOf, ExpOf, SubjectOf,        \* per token: kid, exp and sub
    Genuine,        \* tokens that any key would find well-formed, ours and signed by it
    RolesIn,        \* per token: the roles claim
    Leeway, MaxAge, CacheTtl, MaxEntries,   \* leeway_secs, max_age, ttl_secs, max_entries
    FetchTimeout,   \* the HTTP client's bound on a request
    Window,         \* REVIEWER_TEXT_WINDOW_MS
    Scenes,         \* what a behaviour may do: records with the fields
                    \* sessions, frames, roles, bodies, keys and until
    Empty, Same,    \* the empty text; a frame that leaves the text alone
    NoOne, Never

Roles == {"author", "reviewer", "read-only"}
NoRole == "none"

ASSUME AdmissionAssumption ==
    /\ TokenOf \in [Sessions -> Tokens] /\ KeyOf \in [Tokens -> Keys]
    /\ ExpOf \in [Tokens -> Nat] /\ SubjectOf \in [Tokens -> Subjects]
    /\ RolesIn \in [Tokens -> SUBSET Roles] /\ Genuine \subseteq Tokens
    /\ Leeway \in Nat /\ MaxAge \in Nat /\ CacheTtl \in Nat /\ MaxEntries \in Nat \ {0}
    /\ FetchTimeout \in Nat /\ Window \in Nat
    /\ NoOne \notin Sessions /\ Never \notin Int
    /\ \A c \in Scenes : c.roles \subseteq Roles \cup {NoRole}

VARIABLES
    scene, now,
    published, withdrawn,   \* the identity provider: its keys, when one was withdrawn
    keys, lastOk, fetch,    \* JwksCache, and the refresh under way
    cache,                  \* TokenCache: expires_at_unix per token, Never if absent
    member, body,           \* the app: memberships, the stored body of the document
    pc, role, frame, got,   \* per session: its await, role, frame, the app's answer
    text, touched, lock,    \* the room: its text, review_touched, the updates mutex
    arrived, seen, bodies   \* history: since when a session checks its frame, and the
                            \* memberships and bodies the app has had since

idpVars == <<published, withdrawn>>
jwksVars == <<keys, lastOk, fetch>>
appVars == <<member, body>>
roomVars == <<text, touched, lock>>
seenVars == <<arrived, seen, bodies>>
vars == <<scene, now, idpVars, jwksVars, cache, appVars, pc, role, frame, got, roomVars, seenVars>>

NoFetch == [at |-> Never]
Hello == [op |-> "hello"]

Init ==
    /\ scene \in Scenes /\ now = 0
    /\ published = Keys /\ withdrawn = [k \in Keys |-> Never]
    /\ keys = {} /\ lastOk = Never /\ fetch = NoFetch
    /\ cache = [t \in Tokens |-> Never]
    /\ member \in [Subjects -> scene.roles] /\ body \in scene.bodies
    /\ pc = [s \in Sessions |-> "closed"] /\ role = [s \in Sessions |-> NoRole]
    /\ frame = [s \in Sessions |-> Hello] /\ got = [s \in Sessions |-> NoRole]
    /\ text = Empty /\ touched = [p \in {PeerOf[s] : s \in Sessions} |-> Never] /\ lock = NoOne
    /\ arrived = [s \in Sessions |-> 0] /\ seen = [s \in Sessions |-> {}]
    /\ bodies = [s \in Sessions |-> {}]

-----------------------------------------------------------------------------
(* The environment. *)

Tick ==
    /\ now < scene.until /\ now' = now + 1
    /\ UNCHANGED <<scene, idpVars, jwksVars, cache, appVars, pc, role, frame, got, roomVars, seenVars>>

(* The identity provider stops using a key. *)
Withdraw(k) ==
    /\ scene.keys /\ k \in published
    /\ published' = published \ {k} /\ withdrawn' = [withdrawn EXCEPT ![k] = now]
    /\ UNCHANGED <<scene, now, jwksVars, cache, appVars, pc, role, frame, got, roomVars, seenVars>>

(* Owners change memberships, authors save the document. *)
SetMember(u, r) ==
    /\ r # member[u] /\ member' = [member EXCEPT ![u] = r]
    /\ seen' = [s \in Sessions |-> IF SubjectOf[TokenOf[s]] = u /\ seen[s] # {} THEN seen[s] \cup {r} ELSE seen[s]]
    /\ UNCHANGED <<scene, now, idpVars, jwksVars, cache, body, pc, role, frame, got, roomVars, arrived, bodies>>

SaveBody(b) ==
    /\ b # body /\ body' = b /\ bodies' = [s \in Sessions |-> IF bodies[s] = {} THEN {} ELSE bodies[s] \cup {b}]
    /\ UNCHANGED <<scene, now, idpVars, jwksVars, cache, member, pc, role, frame, got, roomVars, arrived, seen>>

-----------------------------------------------------------------------------
(* run_jwks_refresher: one refresh at a time, retried and repeated.  The   *)
(* answer is what the provider publishes when it is asked.  In a scene     *)
(* where the keys stay, one success is enough.                             *)

RefreshAsks ==
    /\ scene.keys \/ lastOk = Never
    /\ fetch = NoFetch /\ fetch' = [at |-> now, keys |-> published]
    /\ UNCHANGED <<scene, now, idpVars, keys, lastOk, cache, appVars, pc, role, frame, got, roomVars, seenVars>>

Refreshed ==
    /\ fetch # NoFetch /\ now - fetch.at <= FetchTimeout
    /\ keys' = fetch.keys /\ lastOk' = now /\ fetch' = NoFetch
    /\ UNCHANGED <<scene, now, idpVars, cache, appVars, pc, role, frame, got, roomVars, seenVars>>

(* Mutant: a refresh that fails counts as one all the same. *)
RefreshFailsFresh ==
    /\ fetch # NoFetch /\ fetch' = NoFetch /\ lastOk' = now
    /\ UNCHANGED <<scene, now, idpVars, keys, cache, appVars, pc, role, frame, got, roomVars, seenVars>>

(* The old keys are kept, and their age. *)
RefreshFails ==
    /\ fetch # NoFetch /\ fetch' = NoFetch
    /\ UNCHANGED <<scene, now, idpVars, keys, lastOk, cache, appVars, pc, role, frame, got, roomVars, seenVars>>

-----------------------------------------------------------------------------
(* OidcAccessResolver::resolve, up to the call of the app. *)

KeyByKid(k) == lastOk # Never /\ now - lastOk <= MaxAge /\ k \in keys

(* JwtValidator::validate *)
Validate(t) == t \in Genuine /\ KeyByKid(KeyOf[t]) /\ now <= ExpOf[t] + Leeway

(* TokenCache::get *)
CacheHit(t) == cache[t] # Never /\ now < cache[t]

CacheGet(t) == IF CacheHit(t) THEN cache ELSE [cache EXCEPT ![t] = Never]

(* TokenCache::insert: at capacity what has expired goes, then everything. *)
CacheInsert(c, t) ==
    LET full(d) == Cardinality({u \in Tokens : d[u] # Never}) >= MaxEntries
        live == [u \in Tokens |-> IF c[u] # Never /\ now < c[u] THEN c[u] ELSE Never]
        kept == IF ~full(c) THEN c ELSE IF ~full(live) THEN live ELSE [u \in Tokens |-> Never]
    IN  [kept EXCEPT ![t] = Min({ExpOf[t], Max({now + CacheTtl, 1})})]

Served(t) == CacheTtl > 0 /\ CacheHit(t)

Verified(t) == Served(t) \/ Validate(t)

CacheAfter(t) ==
    CASE CacheTtl = 0 \/ Served(t) -> cache
      [] CacheTtl > 0 /\ ~Served(t) /\ Validate(t) -> CacheInsert(CacheGet(t), t)
      [] OTHER -> CacheGet(t)

(* What a session keeps of a frame is gone with it. *)
Quiet(s) ==
    /\ frame' = [frame EXCEPT ![s] = Hello] /\ got' = [got EXCEPT ![s] = NoRole]
    /\ arrived' = [arrived EXCEPT ![s] = 0] /\ seen' = [seen EXCEPT ![s] = {}]
    /\ bodies' = [bodies EXCEPT ![s] = {}]

Stay(s) == pc' = [pc EXCEPT ![s] = "open"] /\ Quiet(s) /\ UNCHANGED role

Close(s) == pc' = [pc EXCEPT ![s] = "closed"] /\ role' = [role EXCEPT ![s] = NoRole] /\ Quiet(s)

(* A HELLO, or an update or heartbeat of an open session, asks for access. *)
Ask(s, f) ==
    /\ cache' = CacheAfter(TokenOf[s])
    /\ \/ ~Verified(TokenOf[s]) /\ Close(s)
       \/ /\ Verified(TokenOf[s]) /\ pc' = [pc EXCEPT ![s] = "asking"]
          /\ frame' = [frame EXCEPT ![s] = f] /\ arrived' = [arrived EXCEPT ![s] = now]
          /\ seen' = [seen EXCEPT ![s] = {member[SubjectOf[TokenOf[s]]]}]
          /\ bodies' = [bodies EXCEPT ![s] = {body}] /\ UNCHANGED <<role, got>>
    /\ UNCHANGED <<scene, now, idpVars, jwksVars, appVars, roomVars>>

Connect(s) == s \in scene.sessions /\ pc[s] = "closed" /\ Ask(s, Hello)

Receive(s, f) == pc[s] = "open" /\ Ask(s, f)

(* The app looks the membership up ... *)
AppAnswers(s) ==
    /\ pc[s] = "asking"
    /\ got' = [got EXCEPT ![s] = member[SubjectOf[TokenOf[s]]]] /\ pc' = [pc EXCEPT ![s] = "answered"]
    /\ UNCHANGED <<scene, now, idpVars, jwksVars, cache, appVars, role, frame, roomVars, seenVars>>

(* ... or does not answer in time, with an error, or the socket is closed. *)
Denied(s) ==
    /\ pc[s] \in {"asking", "answered", "joining", "open"} /\ Close(s)
    /\ UNCHANGED <<scene, now, idpVars, jwksVars, cache, appVars, roomVars>>

Rank == [r \in Roles |-> CASE r = "author" -> 2 [] r = "reviewer" -> 1 [] OTHER -> 0]

LeastPrivileged(a, b) == IF Rank[a] <= Rank[b] THEN a ELSE b

MaxRole(roles) == CHOOSE r \in roles : \A q \in roles : Rank[q] <= Rank[r]

(* The membership's role, clamped by the token's. *)
Resolved(t, membership) ==
    IF membership = NoRole \/ RolesIn[t] = {} THEN NoRole
    ELSE LeastPrivileged(membership, MaxRole(RolesIn[t]))

(* handshake: the role is the session's from now on. *)
Handshake(s) ==
    /\ pc[s] = "answered" /\ frame[s] = Hello
    /\ LET r == Resolved(TokenOf[s], got[s]) IN
       \/ r = NoRole /\ Close(s)
       \/ /\ r # NoRole /\ role' = [role EXCEPT ![s] = r]
          /\ pc' = [pc EXCEPT ![s] = "joining"] /\ UNCHANGED <<frame, got, seenVars>>
    /\ UNCHANGED <<scene, now, idpVars, jwksVars, cache, appVars, roomVars>>

(* get_or_open and join. *)
Join(s) ==
    /\ pc[s] = "joining" /\ Stay(s)
    /\ UNCHANGED <<scene, now, idpVars, jwksVars, cache, appVars, roomVars>>

(* Mutant: any role will do for a session that has one. *)
KeepsAnyRole(s) == Resolved(TokenOf[s], got[s]) # NoRole

(* refresh_access: only the role the session joined with. *)
KeepsAccess(s) == Resolved(TokenOf[s], got[s]) # NoRole /\ Resolved(TokenOf[s], got[s]) = role[s]

RefreshAccess(s) ==
    /\ pc[s] = "answered" /\ frame[s] # Hello
    /\ LET pushes == frame[s].op = "update" /\ role[s] # "read-only" IN
       \/ ~KeepsAccess(s) /\ Close(s)
       \/ KeepsAccess(s) /\ ~pushes /\ Stay(s)
       \/ /\ KeepsAccess(s) /\ pushes
          /\ pc' = [pc EXCEPT ![s] = "waiting"] /\ UNCHANGED <<role, frame, got, seenVars>>
    /\ UNCHANGED <<scene, now, idpVars, jwksVars, cache, appVars, roomVars>>

-----------------------------------------------------------------------------
(* handle_update.  An update turns the text into what it names and may     *)
(* change the review records.                                              *)

TextAfter(s) == IF frame[s].text = Same THEN text ELSE frame[s].text

TouchesText(s) == TextAfter(s) # text

InWindow(p) == touched[p] # Never /\ now - touched[p] <= Window

(* The mutex is taken after the role was checked. *)
Acquire(s) ==
    /\ pc[s] = "waiting" /\ lock = NoOne /\ lock' = s
    /\ pc' = [pc EXCEPT ![s] = IF role[s] = "reviewer" THEN "policy" ELSE "importing"]
    /\ UNCHANGED <<scene, now, idpVars, jwksVars, cache, appVars, role, frame, got, text, touched, seenVars>>

(* The policy is satisfied: on to the import. *)
Pass(s) == pc' = [pc EXCEPT ![s] = "importing"] /\ UNCHANGED <<role, frame, got, lock, seenVars>>

(* The update is refused, the session goes on. *)
Reject(s) == Stay(s) /\ lock' = NoOne

(* enforce_reviewer_policy: records may be changed freely, the text only   *)
(* together with them, shortly after them, or as the seed of an empty text.*)
Policy(s) ==
    /\ pc[s] = "policy"
    /\ touched' = IF frame[s].review THEN [touched EXCEPT ![PeerOf[s]] = now] ELSE touched
    /\ LET free == ~TouchesText(s) \/ frame[s].review IN
       \/ free /\ Pass(s)
       \/ /\ ~free /\ text = Empty /\ pc' = [pc EXCEPT ![s] = "verifying"]
          /\ UNCHANGED <<role, frame, got, lock, seenVars>>
       \/ ~free /\ text # Empty /\ InWindow(PeerOf[s]) /\ Pass(s)
       \/ ~free /\ text # Empty /\ ~InWindow(PeerOf[s]) /\ Reject(s)
    /\ UNCHANGED <<scene, now, idpVars, jwksVars, cache, appVars, text>>

(* HttpSeedVerifier::verify: the app's body, or no answer. *)
VerifySeed(s) ==
    /\ pc[s] = "verifying"
    /\ \/ body = frame[s].text /\ Pass(s)
       \/ Reject(s)
    /\ UNCHANGED <<scene, now, idpVars, jwksVars, cache, appVars, text, touched>>

(* import_and_persist, and the end of the frame; an append that fails      *)
(* imports nothing.                                                        *)
Import(s) ==
    /\ pc[s] = "importing"
    /\ text' \in {TextAfter(s), text} /\ lock' = NoOne /\ Stay(s)
    /\ UNCHANGED <<scene, now, idpVars, jwksVars, cache, appVars, touched>>

Next ==
    \/ Tick \/ RefreshAsks \/ Refreshed \/ RefreshFails
    \/ \E k \in Keys : Withdraw(k)
    \/ \E u \in Subjects, r \in scene.roles : SetMember(u, r)
    \/ \E b \in scene.bodies : SaveBody(b)
    \/ \E s \in Sessions :
         \/ Connect(s) \/ AppAnswers(s) \/ Denied(s) \/ Handshake(s) \/ Join(s)
         \/ \E f \in scene.frames : Receive(s, f)
         \/ RefreshAccess(s) \/ Acquire(s) \/ Policy(s) \/ VerifySeed(s) \/ Import(s)

Spec == Init /\ [][Next]_vars
-----------------------------------------------------------------------------
(* Properties. *)

Imports(s) == pc[s] = "importing" /\ pc'[s] = "open"

(* An update is taken only from a session whose token and membership both  *)
(* give it the role it is pushed with, the membership as the app had it    *)
(* while this very frame was checked; and a reviewer's update changes the  *)
(* text only with a review record, within the window after one of the same *)
(* peer, or as the seed that was the app's body meanwhile (refresh_access, *)
(* least_privileged, enforce_reviewer_policy).                             *)
UpdatesAuthorized ==
    [][\A s \in Sessions : Imports(s) =>
         /\ role[s] \in {"author", "reviewer"}
         /\ \E r \in RolesIn[TokenOf[s]] : Rank[role[s]] <= Rank[r]
         /\ \E r \in seen[s] \ {NoRole} : Rank[role[s]] <= Rank[r]
         /\ role[s] = "reviewer" /\ text' # text =>
              \/ frame[s].review
              \/ text # Empty /\ touched[PeerOf[s]] # Never /\ touched[PeerOf[s]] + Window >= arrived[s]
              \/ text = Empty /\ text' \in bodies[s]]_vars

(* A token is honoured no longer than its expiry, but for the leeway, and  *)
(* a key that the identity provider has withdrawn no longer than one fetch,*)
(* the age the cached keys may have and the life of a cached token         *)
(* together, whatever fails meanwhile (key_by_kid, refresh, TokenCache).   *)
WithdrawnKeyDies ==
    [][\A s \in Sessions : pc[s] \in {"closed", "open"} /\ pc'[s] = "asking" =>
         LET t == TokenOf[s]
             w == withdrawn[KeyOf[t]] IN
         /\ t \in Genuine /\ now <= ExpOf[t] + Leeway
         /\ w # Never => now < w + FetchTimeout + MaxAge + Max({CacheTtl, 1})]_vars
=============================================================================
