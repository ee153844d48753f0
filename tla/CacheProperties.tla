---------------------------- MODULE CacheProperties ----------------------------
(***************************************************************************)
(* What the calls on a semantic cache can promise while others go on       *)
(* putting and deleting between their steps.                               *)
(***************************************************************************)
EXTENDS SemanticCache

Shared(h) == \E a, b \in Actors : a # b /\ handleOf[a] = h /\ handleOf[b] = h

(* The Put came after the scan of a's call. *)
PutSince(a, k) == cached[k].put > seen[a]

(* An entry lies under its own key, whatever others put and delete, as     *)
(* long as no two goroutines share a handle whose prefix has room for a    *)
(* key behind it.                                                          *)
KeysMatch ==
    ~(spare /\ \E h \in Handles : Shared(h)) =>
      \A k \in Cached : cached[k].key = k

(* PurgeExpired deletes only what has expired, or was put again since it   *)
(* scanned: an entry that is alive when it scans, it leaves alone.         *)
PurgeSparesLive ==
    \A a \in Actors : phase[a] = "purging" =>
      \A k \in doomed[a] \cap Cached : Expired(cached[k], began[a]) \/ PutSince(a, k)

(* What the scan of a's call could not tell: an entry that was put after   *)
(* it, or that lay behind the place where it broke off.                    *)
Missed(a, k) == PutSince(a, k) \/ k \in unread[a]

(* When Clear returns, no entry that its scan came to is left, and when    *)
(* PurgeExpired returns, none of those that had expired when it began,     *)
(* whatever others put and delete meanwhile.  A scan that broke off is     *)
(* reported by neither call, and what lay behind the break stays; without  *)
(* a break, unread is empty.                                               *)
SweepsComplete ==
    \A a \in Actors, k \in Cached :
      /\ phase[a] = "cleared" => Missed(a, k)
      /\ phase[a] = "purged" /\ Expired(cached[k], began[a]) => Missed(a, k)

(* The answer of Get was alive when it began and exceeds the threshold,    *)
(* and an entry that would have been better had expired by then, came too  *)
(* late, or lay behind the place where the scan broke off: Get takes such  *)
(* a break for the end, and answers with the best it has met.              *)
BestHit ==
    \A a \in Actors : phase[a] = "got" =>
      /\ best[a] # NoEntry => /\ ~Expired(best[a], began[a])
                              /\ best[a].score > Threshold
      /\ \A k \in Cached :
           /\ cached[k].score # Incomparable
           /\ cached[k].score > IF best[a] = NoEntry THEN Threshold ELSE best[a].score
           => Expired(cached[k], began[a]) \/ Missed(a, k)

(* The counters of a handle that one goroutine uses count its Gets since   *)
(* the last Clear.                                                         *)
CountsExact ==
    \A h \in Handles : ~Shared(h) => hits[h] + misses[h] = gets[h]
=============================================================================
