----------------------------- MODULE PageCache -----------------------------
(***************************************************************************)
(* The page cache of the MCP server: _fetch_one() as fetch_url() and       *)
(* fetch_urls() call it, and clear_cache().  An OrderedDict in LRU order   *)
(* and a count of its bytes are shared by all calls in one event loop; a   *)
(* call is suspended from its miss to the moment it stores the page.       *)
(*                                                                         *)
(* A call is for a key (url, format), and may carry actions on the page.   *)
(* Bytes are in units, time is in ticks.                                   *)
(***************************************************************************)
EXTENDS Integers, SequencesExt

CONSTANTS
    Callers,        \* tool calls that may run at once
    Urls, Formats,
    Sizes,          \* sizes of an entry
    MaxEntries,     \* _PAGE_CACHE_MAX
    MaxBytes,       \* _PAGE_CACHE_MAX_BYTES
    Ttl,            \* _PAGE_CACHE_TTL
    FetchTicks,     \* the longest fetch
    Nothing,        \* no fetch; nothing served
    Horizon         \* bound on the clock

ASSUME CacheAssumption ==
    /\ Sizes \subseteq Nat \ {0}
    /\ MaxEntries \in Nat \ {0} /\ MaxBytes \in Nat
    /\ Ttl \in Nat /\ FetchTicks \in Nat /\ Horizon \in Nat

VARIABLES
    now,        \* time.monotonic()
    cache,      \* _page_cache, the least recently used entry first
    bytes,      \* _page_cache_bytes
    call,       \* call[c]: the fetch c waits for, or Nothing
    served      \* history: the entry the last step served, or Nothing

cacheVars == <<now, cache, bytes, call, served>>

Key == Urls \X Formats

\* `since' is when the fetch began.
Fetch == [key : Key, since : Nat]
Entry == [key : Key, since : Nat, size : Sizes, expires : Nat]

CacheTypeOK ==
    /\ now \in Nat
    /\ cache \in Seq(Entry)
    /\ bytes \in Int
    /\ call \in [Callers -> Fetch \cup {Nothing}]
    /\ served \in Entry \cup {Nothing}

CacheInit ==
    /\ now = 0
    /\ cache = <<>>
    /\ bytes = 0
    /\ call = [c \in Callers |-> Nothing]
    /\ served = Nothing

-----------------------------------------------------------------------------
(* The OrderedDict *)

\* The bytes of the entries of q.
Total(q) ==
    LET sum[n \in 0..Len(q)] == IF n = 0 THEN 0 ELSE sum[n - 1] + q[n].size
    IN sum[Len(q)]

\* The entries of q but those of the keys.
Without(q, keys) ==
    LET rest[n \in 0..Len(q)] ==
            IF n = 0 THEN <<>>
            ELSE IF q[n].key \in keys THEN rest[n - 1] ELSE Append(rest[n - 1], q[n])
    IN rest[Len(q)]

\* The entry of a key; a hit is one that has not expired.
Of(k) == {e \in ToSet(cache) : e.key = k}
Hits(k) == {e \in Of(k) : now < e.expires}

\* Mutant of Evicted: one entry is evicted at most.
EvictedOnce(q, n) == IF Len(q) > MaxEntries \/ n > MaxBytes THEN 1 ELSE 0

\* How many entries are popped from the front of q until both caps hold, n
\* being the count of bytes.
Evicted(q, n) ==
    Min({d \in 0..Len(q) :
            \/ d = Len(q)
            \/ Len(q) - d <= MaxEntries /\ n - Total(SubSeq(q, 1, d)) <= MaxBytes})

-----------------------------------------------------------------------------
(* _fetch_one() *)

\* The page is in the cache.
ServePage(c, k) ==
    /\ call[c] = Nothing
    /\ \E e \in Hits(k) :
          /\ cache' = Append(Without(cache, {k}), e)
          /\ served' = e
    /\ UNCHANGED <<now, bytes, call>>

\* It is not, or the call carries actions, or captures the network, and does
\* not look.
Miss(c, k, bypass) ==
    /\ call[c] = Nothing
    /\ bypass \/ Hits(k) = {}
    /\ call' = [call EXCEPT ![c] = [key |-> k, since |-> now]]
    /\ served' = Nothing
    /\ UNCHANGED <<now, cache, bytes>>

\* Mutant of Expiry: the time to live runs from the end of the fetch.
ExpiryFromStore(f) == now + Ttl

\* The time to live runs from the lookup.
Expiry(f) == f.since + Ttl

\* Mutant of Replaced: the bytes of the entry that is replaced stay counted.
ReplacedStaysCounted(k) == 0

\* The bytes of the entry of k that a new one replaces.
Replaced(k) == IF Of(k) = {} THEN 0 ELSE (CHOOSE e \in Of(k) : TRUE).size

\* The page has been fetched and converted: it replaces the entry of its key,
\* and the least recently used ones make room.
Store(c) ==
    /\ call[c] # Nothing
    /\ \E s \in Sizes :
          LET f == call[c]
              e == [key |-> f.key, since |-> f.since, size |-> s,
                    expires |-> Expiry(f)]
              q == Append(Without(cache, {f.key}), e)
              n == bytes - Replaced(f.key) + s
              d == Evicted(q, n)
          IN /\ cache' = SubSeq(q, d + 1, Len(q))
             /\ bytes' = n - Total(SubSeq(q, 1, d))
    /\ call' = [call EXCEPT ![c] = Nothing]
    /\ served' = Nothing
    /\ UNCHANGED now

\* The fetch or the conversion raises: nothing is stored.
Fail(c) ==
    /\ call[c] # Nothing
    /\ call' = [call EXCEPT ![c] = Nothing]
    /\ served' = Nothing
    /\ UNCHANGED <<now, cache, bytes>>

-----------------------------------------------------------------------------
(* clear_cache(): all entries, or those of one URL; the count stays as it is *)

Clear(us) ==
    /\ cache' = Without(cache, us \X Formats)
    /\ served' = Nothing
    /\ UNCHANGED <<now, bytes, call>>

ClearAll == Clear(Urls)
ClearUrl(u) == Clear({u})

\* A fetch has a timeout.
Tick ==
    /\ now < Horizon
    /\ \A c \in Callers : call[c] # Nothing => now - call[c].since < FetchTicks
    /\ now' = now + 1
    /\ served' = Nothing
    /\ UNCHANGED <<cache, bytes, call>>

CacheNext ==
    \/ Tick
    \/ ClearAll
    \/ \E u \in Urls : ClearUrl(u)
    \/ \E c \in Callers :
          \/ Store(c) \/ Fail(c)
          \/ \E k \in Key : ServePage(c, k) \/ \E bypass \in BOOLEAN : Miss(c, k, bypass)

CacheSpec == CacheInit /\ [][CacheNext]_cacheVars

-----------------------------------------------------------------------------
(* Properties *)

\* The caps hold for what is really in the cache, whatever the count of bytes
\* has become by clear_cache() and by concurrent fetches of a key.
CapsHold == Len(cache) <= MaxEntries /\ Total(cache) <= MaxBytes

\* A page served from the cache was asked of the site less than the time to
\* live ago, however long its fetch took.
ServedIsFresh == served # Nothing => now - served.since < Ttl

Drift == bytes - Total(cache)

\* Stores and evictions keep the count at the sum of the sizes, also when two
\* calls fetch one key at once: only clear_cache() takes it off.
OnlyClearDrifts == [][Drift' # Drift => \E us \in SUBSET Urls : Clear(us)]_cacheVars

=============================================================================
