----------------------------- MODULE FallbackCache -----------------------------
(***************************************************************************)
(* pkg/ai/cache/memory_fallback.go: answers kept for a scope and a key, to *)
(* be served again while fresh ("exact") and, when the provider is down,   *)
(* for a while after ("stale").  One RWMutex guards the map; the clock is  *)
(* read outside of it, by Set before it takes the lock and by Get after it *)
(* gave it back, so that both take two steps here.  A call whose context   *)
(* is done, and a nil cache, touch nothing.                                *)
(***************************************************************************)
EXTENDS Integers

CONSTANTS
  Tenants, UserScopes, QueryHashes,   \* what an answer is kept under
  TTLs,            \* ttl arguments of Set
  StaleTTLs,       \* values of MemoryFallbackConfig.StaleTTL
  CacheClients,    \* goroutines that call Get and Set
  MaxCacheClock    \* bound: the latest time

ASSUME CacheAssumption ==
  /\ TTLs \subseteq Int
  /\ StaleTTLs \subseteq Int
  /\ MaxCacheClock \in Nat

VARIABLES
  cacheClock,   \* what Now() returns
  staleTTL,     \* staleTTL
  entries,      \* entries, a function on all addresses; Absent is a missing key
  op            \* per client: the call it is in, and the entry it carries

cacheVars == <<cacheClock, staleTTL, entries, op>>

Addresses == [tenant : Tenants, user : UserScopes, key : QueryHashes]

Absent == [created |-> -1]
Never  == -1          \* the zero time of ExpiresAt
Idling == [kind |-> "idle"]

\* Mutant: answers are shared by the users of a tenant.
MapKeyOfTenant(address) ==
  [address EXCEPT !.user = CHOOSE user \in UserScopes : TRUE]

\* newMemoryCacheKey
MapKey(address) == address

CacheInit ==
  /\ cacheClock = 0
  /\ staleTTL \in StaleTTLs
  /\ entries = [address \in Addresses |-> Absent]
  /\ op = [client \in CacheClients |-> Idling]

-------------------------------------------------------------------------------

\* Set up to the lock: a ttl that is not positive never expires.  What was
\* asked for (of, ttl) is history.
Stamp(client, address, ttl) ==
  /\ op[client] = Idling
  /\ op' = [op EXCEPT ![client] =
       [kind |-> "set", address |-> address,
        entry |-> [created |-> cacheClock,
                   expires |-> IF ttl > 0 THEN cacheClock + ttl ELSE Never,
                   of |-> address, ttl |-> ttl]]]
  /\ UNCHANGED <<cacheClock, staleTTL, entries>>

\* Mutant: the time to live starts when the entry is stored.
StoredRestamped(entry) ==
  IF entry.expires = Never THEN entry
  ELSE [entry EXCEPT !.expires = cacheClock + entry.ttl]

Stored(entry) == entry

Store(client) ==
  /\ op[client].kind = "set"
  /\ entries' = [entries EXCEPT ![MapKey(op[client].address)] =
                   Stored(op[client].entry)]
  /\ op' = [op EXCEPT ![client] = Idling]
  /\ UNCHANGED <<cacheClock, staleTTL>>

\* Get under the read lock.
LookupMisses(client, address) ==
  /\ op[client] = Idling
  /\ entries[MapKey(address)] = Absent
  /\ UNCHANGED cacheVars

LookupFinds(client, address) ==
  /\ op[client] = Idling
  /\ entries[MapKey(address)] # Absent
  /\ op' = [op EXCEPT ![client] = [kind |-> "get", address |-> address,
                                   entry |-> entries[MapKey(address)]]]
  /\ UNCHANGED <<cacheClock, staleTTL, entries>>

\* sourceFor: both ends belong to the interval.
SourceFor(entry) ==
  IF entry.expires = Never \/ cacheClock <= entry.expires THEN "exact"
  ELSE IF staleTTL > 0 /\ cacheClock <= entry.expires + staleTTL THEN "stale"
  ELSE "none"

\* Get after the lock: the clock is read only now.
Judge(client, source) ==
  /\ op[client].kind = "get"
  /\ source = SourceFor(op[client].entry)
  /\ op' = [op EXCEPT ![client] = Idling]
  /\ UNCHANGED <<cacheClock, staleTTL, entries>>

CacheTick ==
  /\ cacheClock < MaxCacheClock
  /\ cacheClock' = cacheClock + 1
  /\ UNCHANGED <<staleTTL, entries, op>>

CacheNext ==
  \/ \E client \in CacheClients :
       \/ \E address \in Addresses, ttl \in TTLs : Stamp(client, address, ttl)
       \/ Store(client)
       \/ \E address \in Addresses : LookupMisses(client, address)
       \/ \E address \in Addresses : LookupFinds(client, address)
       \/ \E source \in {"exact", "stale", "none"} : Judge(client, source)
  \/ CacheTick

CacheSpec == CacheInit /\ [][CacheNext]_cacheVars

-------------------------------------------------------------------------------
(* Properties. *)

Entry == [created : 0 .. MaxCacheClock, expires : Int, of : Addresses, ttl : TTLs]

ExpiresAsAsked(entry) ==
  entry.expires = IF entry.ttl > 0 THEN entry.created + entry.ttl ELSE Never

\* Types; an entry expires exactly when the Set that wrote it asked for, also
\* while it is on its way into the map or out of it.
CacheTypeOK ==
  /\ cacheClock \in 0 .. MaxCacheClock
  /\ staleTTL \in StaleTTLs
  /\ entries \in [Addresses -> Entry \cup {Absent}]
  /\ op \in [CacheClients ->
               [kind : {"set", "get"}, address : Addresses, entry : Entry]
               \cup {Idling}]
  /\ \A address \in Addresses :
       entries[address] # Absent => ExpiresAsAsked(entries[address])
  /\ \A client \in CacheClients :
       op[client] # Idling => ExpiresAsAsked(op[client].entry)

Age(entry) == cacheClock - entry.created

\* memory_fallback.go:84-85, cache.go:184: an answer is called exact for no
\* longer than the ttl its Set was called with, served at all for no longer
\* than StaleTTL more, and thrown away only when it is too old for both; all
\* counted from the moment Set was called, however late the entry got into the
\* map and however late a reader judges what it found.
ServedByAge ==
  [][\A client \in CacheClients : LET entry == op[client].entry IN
       /\ Judge(client, "exact") => entry.ttl <= 0 \/ Age(entry) <= entry.ttl
       /\ Judge(client, "stale") => /\ entry.ttl > 0
                                    /\ Age(entry) > entry.ttl
                                    /\ Age(entry) <= entry.ttl + staleTTL
       /\ Judge(client, "none") => /\ entry.ttl > 0
                                   /\ Age(entry) > entry.ttl
                                   /\ Age(entry) > entry.ttl + staleTTL
    ]_cacheVars

\* cache.go:16, :189: nobody is served what was computed for another tenant or
\* another user, however their calls interleave.
AnswersItsScope ==
  [][\A client \in CacheClients, source \in {"exact", "stale"} :
       Judge(client, source) => op[client].entry.of = op[client].address]_cacheVars

\* What the cache promises: an entry expires as its Set asked for, and is served
\* by its age alone and to its scope alone, whatever happens between the steps
\* of Get and Set.
AnswersAsAsked == []CacheTypeOK /\ ServedByAge /\ AnswersItsScope
===============================================================================
