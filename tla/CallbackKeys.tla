---------------------------- MODULE CallbackKeys ----------------------------
(***************************************************************************)
(* The validator of the callbacks' bearer tokens (security/acs_callback.py):*)
(* its cached metadata and key set, its refresh lock and its cooldowns,     *)
(* under concurrent validations and a provider that rotates its keys.       *)
(*                                                                          *)
(* A validation is a coroutine.  It awaits the lock or a document, and a    *)
(* step runs it from there to its next await.  A token stands for the id of *)
(* its key; what else is wrong with a token never gets to the caches, and   *)
(* is left out.  The provider keeps its issuer and its jwks_uri, so that    *)
(* there are two documents, the metadata and the keys.                      *)
(***************************************************************************)
EXTENDS Naturals, FiniteSets, SequencesExt

CONSTANTS
    Validations,  \* validations in progress at a time
    Kids,         \* key ids
    TTL,          \* cache_ttl_seconds
    Cooldown,     \* REFRESH_COOLDOWN_SECONDS
    Timeout,      \* request_timeout_seconds
    MaxTime,      \* bound: where the clock stops
    MaxChanges,   \* bound: keys published or withdrawn
    MaxFaults,    \* bound: fetches that fail
    None

ASSUME KeysAssumption ==
    /\ {TTL, Cooldown, Timeout} \subseteq Nat \ {0} /\ {MaxTime, MaxChanges, MaxFaults} \subseteq Nat
    /\ Timeout < Cooldown /\ None \notin Nat

VARIABLES
    metadata, keySet,   \* the two caches
    nextFetch,          \* document -> when it may be fetched again
    lock,               \* _refresh_lock: its holder, then who waits for it, first come first
    val,                \* validation -> its coroutine
    provider,           \* key -> when it was published and withdrawn
    now, changes, faults,
    fetched, failedAt,  \* the key set last fetched, and when a fetch last came to nothing
    verdict             \* what the last step answered to a validation, if it ended one

caches == <<metadata, keySet, fetched>>
world == <<provider, now, changes>>
failures == <<faults, failedAt>>
vars == <<caches, nextFetch, lock, val, world, failures, verdict>>
-----------------------------------------------------------------------------
Documents == {"metadata", "keys"}
Times == 0 .. (MaxTime + TTL + Cooldown)
Metadata == [expiresAt: Times]
KeySets == [keys: SUBSET Kids, expiresAt: Times]
Results == {"accepted", "refused", "unavailable"}

ASSUME NoneAssumption == None \notin Metadata \cup KeySets \cup Results

(* What the validation waits to do under the lock. *)
Wants == {"metadata", "keys", "again"}

NoValidation == [pc |-> "idle", want |-> "metadata", kid |-> None, expected |-> None,
                 reply |-> {}, limit |-> 0]

Unpublished == [since |-> None, until |-> None]
Published(k) == provider[k].since # None

Init ==
    /\ metadata = None /\ keySet = None /\ fetched = None
    /\ nextFetch = [d \in Documents |-> 0]
    /\ lock = <<>>
    /\ val = [v \in Validations |-> NoValidation]
    /\ provider \in [Kids -> {Unpublished, [since |-> 0, until |-> None]}]
    /\ now = 0 /\ changes = 0 /\ faults = 0 /\ failedAt = None /\ verdict = None
-----------------------------------------------------------------------------
(* Mutant: a cached value is used past its expiry. *)
FreshForEver(x) == x # None

Fresh(x) == x # None /\ x.expiresAt > now

Cooling(d) == nextFetch[d] > now

Suspend(v, x, pc) == val' = [val EXCEPT ![v] = [x EXCEPT !.pc = pc]] /\ verdict' = None
Finish(v, result) == val' = [val EXCEPT ![v] = NoValidation] /\ verdict' = result

(* Waiting for the lock, behind q. *)
Queue(v, x, q) == lock' = Append(q, v) /\ Suspend(v, x, "lock") /\ UNCHANGED nextFetch

(* _fetch_json, with the lock held and q waiting: the cooldown is armed     *)
(* before the request is sent.                                              *)
Fetch(v, x, q, d) ==
    \/ /\ Cooling(d)
       /\ lock' = q /\ Finish(v, "unavailable") /\ UNCHANGED nextFetch
    \/ /\ ~Cooling(d)
       /\ nextFetch' = [nextFetch EXCEPT ![d] = now + Cooldown]
       /\ lock' = <<v>> \o q /\ Suspend(v, x, "fetch")

(* The end of _validate: the key is known or not. *)
Conclude(v, x, set, q) ==
    /\ Finish(v, IF x.kid \in set.keys THEN "accepted" ELSE "refused")
    /\ lock' = q /\ UNCHANGED nextFetch

(* What _refresh_key_set serves from the cache, with the lock held: a set   *)
(* that another validation refreshed, or one that is cooling.               *)
Served(x, cached) == Fresh(cached) /\ (cached # x.expected \/ Cooling("keys"))

(* The second _refresh_key_set of _validate. *)
RefreshAgain(v, x, q, cached) ==
    \/ Served(x, cached) /\ Conclude(v, x, cached, q)
    \/ ~Served(x, cached) /\ Fetch(v, x, q, "keys")

(* Mutant: an unknown key id is refused at once. *)
LookUpOnce(v, x, set, q) == Conclude(v, x, set, q)

(* The first look at the keys; an unknown key id is worth one more refresh. *)
LookUp(v, x, set, q) ==
    LET again == [x EXCEPT !.want = "again", !.expected = set] IN
    \/ x.kid \in set.keys /\ Conclude(v, x, set, q)
    \/ x.kid \notin set.keys /\ q = <<>> /\ RefreshAgain(v, again, q, set)
    \/ x.kid \notin set.keys /\ q # <<>> /\ Queue(v, again, q)

(* The _refresh_key_set of _get_key_set. *)
Refresh(v, x, q, cached) ==
    \/ Served(x, cached) /\ LookUp(v, x, cached, q)
    \/ ~Served(x, cached) /\ Fetch(v, x, q, "keys")

(* _get_key_set, for a validation that has its metadata; q is the lock.     *)
GetKeySet(v, x, q, cached) ==
    LET wanting == [x EXCEPT !.want = "keys", !.expected = cached] IN
    \/ Fresh(cached) /\ LookUp(v, x, cached, q)
    \/ ~Fresh(cached) /\ q = <<>> /\ Refresh(v, wanting, q, cached)
    \/ ~Fresh(cached) /\ q # <<>> /\ Queue(v, wanting, q)

(* The second look of _get_metadata, with the lock held and q waiting.      *)
GetMetadata(v, x, q) ==
    \/ Fresh(metadata) /\ GetKeySet(v, x, q, keySet)
    \/ ~Fresh(metadata) /\ Fetch(v, x, q, "metadata")
-----------------------------------------------------------------------------
(* A callback with a well-formed token arrives. *)
Validate(v, kid) ==
    /\ val[v].pc = "idle"
    /\ Suspend(v, [NoValidation EXCEPT !.kid = kid, !.limit = now + Timeout], "ready")
    /\ UNCHANGED <<caches, nextFetch, lock, world, failures>>

(* _validate runs to its first await. *)
Begin(v) ==
    /\ val[v].pc = "ready"
    /\ \/ Fresh(metadata) /\ GetKeySet(v, val[v], lock, keySet)
       \/ ~Fresh(metadata) /\ lock = <<>> /\ GetMetadata(v, val[v], lock)
       \/ ~Fresh(metadata) /\ lock # <<>> /\ Queue(v, val[v], lock)
    /\ UNCHANGED <<caches, world, failures>>

(* The lock is handed to the validation that has waited longest. *)
Enter(v) ==
    /\ val[v].pc = "lock" /\ Head(lock) = v
    /\ CASE val[v].want = "metadata" -> GetMetadata(v, val[v], Tail(lock))
         [] val[v].want = "keys" -> Refresh(v, val[v], Tail(lock), keySet)
         [] val[v].want = "again" -> RefreshAgain(v, val[v], Tail(lock), keySet)
    /\ UNCHANGED <<caches, world, failures>>

(* The provider reads the document, which then travels to the validation.   *)
Serve(v) ==
    /\ val[v].pc = "fetch"
    /\ Suspend(v, [val[v] EXCEPT !.reply = IF val[v].want = "metadata" THEN {}
                                           ELSE {k \in Kids : Published(k)}], "served")
    /\ UNCHANGED <<caches, nextFetch, lock, world, failures>>

MetadataArrived(v) ==
    /\ val[v].want = "metadata"
    /\ metadata' = [expiresAt |-> now + TTL] /\ keySet' = None /\ UNCHANGED fetched
    /\ GetKeySet(v, val[v], Tail(lock), None)

KeysArrived(v) ==
    LET x == [val[v] EXCEPT !.reply = {}]
        new == [keys |-> val[v].reply, expiresAt |-> now + TTL]
    IN /\ keySet' = new /\ fetched' = new /\ UNCHANGED metadata
       /\ \/ x.want = "keys" /\ LookUp(v, x, new, Tail(lock))
          \/ x.want = "again" /\ Conclude(v, x, new, Tail(lock))

Fetched(v) ==
    /\ val[v].pc = "served"
    /\ MetadataArrived(v) \/ KeysArrived(v)
    /\ UNCHANGED <<world, failures>>

(* The request fails, or its document is refused. *)
FetchFails(v) ==
    /\ val[v].pc \in {"fetch", "served"}
    /\ faults < MaxFaults /\ faults' = faults + 1 /\ failedAt' = now
    /\ lock' = Tail(lock) /\ Finish(v, "unavailable")
    /\ UNCHANGED <<caches, nextFetch, world>>

(* Mutant: a validation that is given up keeps its place in the lock. *)
TimeOutInLock(v) ==
    /\ val[v].pc \in {"lock", "fetch", "served"} /\ now >= val[v].limit
    /\ Finish(v, "unavailable")
    /\ failedAt' = IF val[v].pc = "lock" THEN failedAt ELSE now
    /\ UNCHANGED <<caches, nextFetch, lock, world, faults>>

(* asyncio.timeout over the whole validation, waits for the lock included.  *)
TimeOut(v) ==
    /\ val[v].pc \in {"lock", "fetch", "served"} /\ now >= val[v].limit
    /\ \E i \in DOMAIN lock : lock[i] = v /\ lock' = RemoveAt(lock, i)
    /\ Finish(v, "unavailable")
    /\ failedAt' = IF val[v].pc = "lock" THEN failedAt ELSE now
    /\ UNCHANGED <<caches, nextFetch, world, faults>>

(* The provider publishes a key or withdraws one. *)
Rotate(k) ==
    /\ changes < MaxChanges /\ changes' = changes + 1
    /\ provider' = [provider EXCEPT ![k] = IF Published(k) THEN [since |-> None, until |-> now]
                                           ELSE [since |-> now, until |-> None]]
    /\ verdict' = None
    /\ UNCHANGED <<caches, nextFetch, lock, val, now, failures>>

(* The clock passes no timer that is due and no coroutine that can start.   *)
Tick ==
    /\ now < MaxTime /\ now' = now + 1 /\ verdict' = None
    /\ \A v \in Validations : val[v].pc = "idle" \/ (val[v].pc # "ready" /\ now < val[v].limit)
    /\ UNCHANGED <<caches, nextFetch, lock, val, provider, changes, failures>>

Next ==
    \/ \E v \in Validations, k \in Kids : Validate(v, k)
    \/ \E v \in Validations :
         Begin(v) \/ Enter(v) \/ Serve(v) \/ Fetched(v) \/ FetchFails(v) \/ TimeOut(v)
    \/ \E k \in Kids : Rotate(k)
    \/ Tick

Spec == Init /\ [][Next]_vars
-----------------------------------------------------------------------------
(* The state is of its type; the lock is queued for by running validations  *)
(* only, each of them once, and the one that fetches is the one that holds. *)
TypeOK ==
    /\ metadata \in Metadata \cup {None} /\ {keySet, fetched} \subseteq KeySets \cup {None}
    /\ nextFetch \in [Documents -> Times] /\ verdict \in Results \cup {None}
    /\ \A v \in Validations :
         /\ val[v].pc \in {"idle", "ready", "lock", "fetch", "served"} /\ val[v].want \in Wants
         /\ val[v].kid \in Kids \cup {None} /\ val[v].reply \subseteq Kids
         /\ Cardinality({i \in DOMAIN lock : lock[i] = v})
               = IF val[v].pc \in {"lock", "fetch", "served"} THEN 1 ELSE 0
         /\ val[v].pc \in {"fetch", "served"} => Head(lock) = v

Ends(v, result) == val[v].pc # "idle" /\ val'[v].pc = "idle" /\ verdict' = result

(* The last instant at which the key was published. *)
LastSeen(h) == IF h.since # None THEN now ELSE h.until

(* A key that the provider has withdrawn is refused once the caches and a   *)
(* fetch that was on its way may have kept it no longer: a token is only    *)
(* accepted by a key that was published within the cache's time to live and *)
(* one timeout before.                                                      *)
WithdrawnKeyRefused ==
    [][\A v \in Validations : Ends(v, "accepted") =>
          LET h == provider[val[v].kid] IN
          h # Unpublished /\ now <= LastSeen(h) + TTL + Timeout]_vars

(* Key rotation is noticed after the cooldown: a token whose key has been   *)
(* published for longer than the cooldown and a timeout is not refused,     *)
(* unless a fetch has come to nothing within the cooldown.                  *)
RotationNoticed ==
    [][\A v \in Validations : Ends(v, "refused") =>
          LET h == provider[val[v].kid] IN
          \/ h.since = None \/ now <= h.since + Cooldown + Timeout
          \/ failedAt # None /\ now < failedAt + Cooldown]_vars

(* "Valid cached keys remain usable": a validation that has its key in the  *)
(* set last fetched, which is not expired, is not answered "unavailable" as *)
(* long as every fetch succeeds in time.                                    *)
CachedKeysUsable ==
    [][\A v \in Validations :
          Ends(v, "unavailable") /\ failedAt' = None =>
             ~(Fresh(fetched) /\ val[v].kid \in fetched.keys)]_vars
=============================================================================
