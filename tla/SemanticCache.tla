----------------------------- MODULE SemanticCache -----------------------------
(***************************************************************************)
(* SemanticCache of semantic_cache.go: answers kept in the store with a    *)
(* time to live and found again by similarity.  A call is several steps:   *)
(* the clock is read, then a transaction of its own scans, then keys are   *)
(* deleted one by one.  Goroutines may share a handle, and with it two     *)
(* counters and the array behind the prefix, to which append writes.       *)
(*                                                                         *)
(* All Gets ask with one embedding and one threshold, so an entry is known *)
(* by its score, which is Incomparable where the lengths differ.  Keys     *)
(* have one length and are written whole.  Stats changes nothing and is    *)
(* left out.                                                               *)
(***************************************************************************)
EXTENDS Naturals

CONSTANTS
    Actors, Handles,
    CacheKeys, Scores, Threshold, TTLs,
    MaxClock, MaxCalls,   \* bounds
    Incomparable, NoEntry, NoKey

(* What a Put carries, and what the store holds: history, which Put it was. *)
Entry == [key : CacheKeys, score : Scores \cup {Incomparable}, at : Nat, ttl : TTLs]

StoredEntry == [key : CacheKeys, score : Scores \cup {Incomparable}, at : Nat,
                ttl : TTLs, put : Nat]

ASSUME CacheAssumption ==
    /\ Scores \subseteq Nat /\ Threshold \in Nat /\ TTLs \subseteq Nat
    /\ MaxClock \in Nat /\ MaxCalls \in Nat
    /\ NoEntry \notin StoredEntry

VARIABLES
    cached,         \* the entries in the store
    clock,
    handleOf,
    spare,          \* has the array behind the prefix room for a key?
    tail,           \* what was last appended to a handle's prefix
    hits, misses,   \* per handle
    phase,          \* what each actor is about to do, or has done
    began,          \* the time a Get or a PurgeExpired works with
    appended, entry,   \* the key, and what is being put
    best, counter,  \* the match, and the counter as it was read
    doomed,         \* the keys to be deleted
    seen, puts,     \* history: the Puts there were, and those a scan saw
    unread,         \* history: the keys a scan did not come to
    gets,           \* history: the Gets of a handle since its last Clear
    calls

storeVars == <<cached, puts>>
handleVars == <<handleOf, spare, tail, hits, misses, gets>>
callVars == <<began, appended, entry, best, counter, doomed, seen, unread>>
cacheVars == <<storeVars, clock, handleVars, phase, callVars, calls>>

AtRest == {"idle", "got", "cleared", "purged"}

Cached == DOMAIN cached

WithEntry(k, e) == [j \in Cached \cup {k} |-> IF j = k THEN e ELSE cached[j]]
WithoutKey(k) == [j \in Cached \ {k} |-> cached[j]]

(* A time to live of 0 is none. *)
Expired(e, now) == e.ttl > 0 /\ now > e.at + e.ttl

CacheInit ==
    /\ cached = [k \in {} |-> NoEntry] /\ puts = 0
    /\ clock = 1
    /\ handleOf \in [Actors -> Handles] /\ spare \in BOOLEAN
    /\ tail = [h \in Handles |-> NoKey]
    /\ hits = [h \in Handles |-> 0] /\ misses = hits /\ gets = hits
    /\ phase = [a \in Actors |-> "idle"] /\ calls = 0
    /\ began = [a \in Actors |-> 0] /\ counter = began /\ seen = began
    /\ appended = [a \in Actors |-> NoKey]
    /\ entry = [a \in Actors |-> NoEntry] /\ best = entry
    /\ doomed = [a \in Actors |-> {}] /\ unread = doomed

Tick ==
    /\ clock < MaxClock /\ clock' = clock + 1
    /\ UNCHANGED <<storeVars, handleVars, phase, callVars, calls>>

Begins(a, next) ==
    /\ phase[a] \in AtRest /\ phase' = [phase EXCEPT ![a] = next]
    /\ calls < MaxCalls /\ calls' = calls + 1
    /\ UNCHANGED clock

Goes(a, from, to) ==
    /\ phase[a] = from /\ phase' = [phase EXCEPT ![a] = to]
    /\ UNCHANGED <<clock, calls>>

-----------------------------------------------------------------------------
(* Put and Delete *)

(* Mutant: the handle's key is built once and used again. *)
AppendsOnce(a, k) ==
    /\ appended' = [appended EXCEPT ![a] = k]
    /\ tail' = [tail EXCEPT ![handleOf[a]] = IF @ = NoKey THEN k ELSE @]

(* append(c.prefix, key...) *)
Appends(a, k) ==
    /\ appended' = [appended EXCEPT ![a] = k]
    /\ tail' = [tail EXCEPT ![handleOf[a]] = k]

(* With room to spare, the slice that append returned lies in the array    *)
(* that all calls on the handle append to.                                 *)
KeyUsed(a) == IF spare THEN tail[handleOf[a]] ELSE appended[a]

(* The call is over, and its locals with it. *)
Forgets(a) ==
    /\ appended' = [appended EXCEPT ![a] = NoKey]
    /\ entry' = [entry EXCEPT ![a] = NoEntry]
    /\ UNCHANGED <<began, best, counter, doomed, seen, unread>>

PutBegins(a, k, score, ttl) ==
    /\ Begins(a, "put") /\ Appends(a, k)
    /\ entry' = [entry EXCEPT ![a] =
                   [key |-> k, score |-> score, at |-> clock, ttl |-> ttl]]
    /\ UNCHANGED <<storeVars, handleOf, spare, hits, misses, gets, began, best,
                   counter, doomed, seen, unread>>

PutStores(a) ==
    /\ Goes(a, "put", "idle")
    /\ puts' = puts + 1
    /\ cached' = WithEntry(KeyUsed(a),
                   [key |-> entry[a].key, score |-> entry[a].score,
                    at |-> entry[a].at, ttl |-> entry[a].ttl, put |-> puts'])
    /\ Forgets(a) /\ UNCHANGED handleVars

DeleteBegins(a, k) ==
    /\ Begins(a, "delete") /\ Appends(a, k)
    /\ UNCHANGED <<storeVars, handleOf, spare, hits, misses, gets, began, entry,
                   best, counter, doomed, seen, unread>>

DeleteRemoves(a) ==
    /\ Goes(a, "delete", "idle")
    /\ cached' = WithoutKey(KeyUsed(a))
    /\ Forgets(a) /\ UNCHANGED <<puts, handleVars>>

PutOrDeleteFails(a) ==
    /\ Goes(a, "put", "idle") \/ Goes(a, "delete", "idle")
    /\ Forgets(a) /\ UNCHANGED <<storeVars, handleVars>>

-----------------------------------------------------------------------------
(* Get *)

ReadsClock(a, next) ==
    /\ Begins(a, next)
    /\ began' = [began EXCEPT ![a] = clock]
    /\ UNCHANGED <<storeVars, handleVars, appended, entry, best, counter, doomed,
                   seen, unread>>

GetBegins(a) == ReadsClock(a, "get")

(* Next is false at the end and after an error alike, and no call asks     *)
(* iter.Err: a scan that breaks off looks as if it had ended.  The order   *)
(* of the keys is left out, so what it read until then may be any part.    *)
ScanReads(a, read) ==
    /\ read \subseteq Cached
    /\ seen' = [seen EXCEPT ![a] = puts]
    /\ unread' = [unread EXCEPT ![a] = Cached \ read]

Matches(read, now) ==
    {k \in read : /\ ~Expired(cached[k], now)
                  /\ cached[k].score # Incomparable
                  /\ cached[k].score > Threshold}

(* Mutant: the best score is not raised with the best match. *)
AnyMatch(read, now) == Matches(read, now)

(* The entries of which the scan keeps the first. *)
BestMatches(read, now) ==
    {k \in Matches(read, now) :
       \A j \in Matches(read, now) : cached[j].score =< cached[k].score}

GetScans(a) ==
    /\ Goes(a, "get", "count")
    /\ \E read \in SUBSET Cached :
         /\ ScanReads(a, read)
         /\ \/ /\ Matches(read, began[a]) = {}
               /\ best' = [best EXCEPT ![a] = NoEntry]
            \/ \E k \in BestMatches(read, began[a]) :
                 best' = [best EXCEPT ![a] = cached[k]]
    /\ UNCHANGED <<storeVars, handleVars, began, appended, entry, counter, doomed>>

(* The counter is read, and written back. *)
CountReads(a) ==
    /\ Goes(a, "count", "add")
    /\ counter' = [counter EXCEPT ![a] =
         IF best[a] = NoEntry THEN misses[handleOf[a]] ELSE hits[handleOf[a]]]
    /\ UNCHANGED <<storeVars, handleVars, began, appended, entry, best, doomed, seen, unread>>

CountWrites(a) ==
    /\ Goes(a, "add", "got")
    /\ LET Added(f) == [f EXCEPT ![handleOf[a]] = counter[a] + 1]
       IN  IF best[a] = NoEntry
           THEN misses' = Added(misses) /\ UNCHANGED hits
           ELSE hits' = Added(hits) /\ UNCHANGED misses
    /\ gets' = [gets EXCEPT ![handleOf[a]] = @ + 1]
    /\ counter' = [counter EXCEPT ![a] = 0]
    /\ UNCHANGED <<storeVars, handleOf, spare, tail, began, appended, entry, best,
                   doomed, seen, unread>>

-----------------------------------------------------------------------------
(* Clear and PurgeExpired *)

ClearScans(a) ==
    /\ Begins(a, "clear")
    /\ \E read \in SUBSET Cached :
         /\ ScanReads(a, read)
         /\ doomed' = [doomed EXCEPT ![a] = read]
    /\ UNCHANGED <<storeVars, handleVars, began, appended, entry, best, counter>>

PurgeBegins(a) == ReadsClock(a, "purge")

(* Mutant: what has a time to live at all. *)
Mortal(read, now) == {k \in read : cached[k].ttl > 0}

Condemned(read, now) == {k \in read : Expired(cached[k], now)}

PurgeScans(a) ==
    /\ Goes(a, "purge", "purging")
    /\ \E read \in SUBSET Cached :
         /\ ScanReads(a, read)
         /\ doomed' = [doomed EXCEPT ![a] = Condemned(read, began[a])]
    /\ UNCHANGED <<storeVars, handleVars, began, appended, entry, best, counter>>

Deletes(a, k) ==
    /\ phase[a] \in {"clear", "purging"} /\ k \in doomed[a]
    /\ cached' = WithoutKey(k)
    /\ doomed' = [doomed EXCEPT ![a] = @ \ {k}]
    /\ UNCHANGED <<puts, clock, handleVars, phase, calls, began, appended, entry,
                   best, counter, seen, unread>>

(* Mutant: a key that cannot be deleted is passed over. *)
DeletePassesOver(a, k) ==
    /\ phase[a] \in {"clear", "purging"} /\ k \in doomed[a]
    /\ doomed' = [doomed EXCEPT ![a] = @ \ {k}]
    /\ UNCHANGED <<storeVars, clock, handleVars, phase, calls, began, appended,
                   entry, best, counter, seen, unread>>

(* The call returns with the error; a Clear then resets nothing. *)
DeleteFails(a, k) ==
    /\ k \in doomed[a]
    /\ Goes(a, "clear", "idle") \/ Goes(a, "purging", "idle")
    /\ doomed' = [doomed EXCEPT ![a] = {}]
    /\ UNCHANGED <<storeVars, handleVars, began, appended, entry, best, counter,
                   seen, unread>>

(* Mutant: the counters are not reset. *)
ClearEndsOnly(a) ==
    /\ Goes(a, "clear", "cleared") /\ doomed[a] = {}
    /\ gets' = [gets EXCEPT ![handleOf[a]] = 0]
    /\ UNCHANGED <<storeVars, handleOf, spare, tail, hits, misses, callVars>>

ClearResets(a) ==
    /\ Goes(a, "clear", "cleared") /\ doomed[a] = {}
    /\ hits' = [hits EXCEPT ![handleOf[a]] = 0]
    /\ misses' = [misses EXCEPT ![handleOf[a]] = 0]
    /\ gets' = [gets EXCEPT ![handleOf[a]] = 0]
    /\ UNCHANGED <<storeVars, handleOf, spare, tail, callVars>>

PurgeEnds(a) ==
    /\ Goes(a, "purging", "purged") /\ doomed[a] = {}
    /\ UNCHANGED <<storeVars, handleVars, callVars>>

CacheStep(a) ==
    \/ \E k \in CacheKeys, score \in Scores \cup {Incomparable}, ttl \in TTLs :
         PutBegins(a, k, score, ttl)
    \/ \E k \in CacheKeys : DeleteBegins(a, k)
    \/ PutStores(a) \/ DeleteRemoves(a) \/ PutOrDeleteFails(a)
    \/ GetBegins(a) \/ GetScans(a) \/ CountReads(a) \/ CountWrites(a)
    \/ ClearScans(a) \/ ClearResets(a)
    \/ PurgeBegins(a) \/ PurgeScans(a) \/ PurgeEnds(a)
    \/ \E k \in CacheKeys : Deletes(a, k) \/ DeleteFails(a, k)

CacheNext == Tick \/ \E a \in Actors : CacheStep(a)

CacheSpec == CacheInit /\ [][CacheNext]_cacheVars
=============================================================================
