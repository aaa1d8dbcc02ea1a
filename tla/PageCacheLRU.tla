----------------------------- MODULE PageCacheLRU -----------------------------
(***************************************************************************)
(* The replacement policy of PageFile::readCache.  PageFile.h:93 says the  *)
(* static members "implement LRU caching"; what a client gets from LRU is  *)
(* that a page it has read stays cached until CACHE_COUNT other pages have *)
(* been read.  This module adds to PageFile the history needed to say so.  *)
(***************************************************************************)
EXTENDS PageFile, Functions

CONSTANT MaxTick   \* bound: the clock value at which reading stops

ASSUME LRUAssumption == MaxTick \in Nat

VARIABLE since   \* history: the pages read after each page that was read

lruVars == <<vars, since>>

LRUInit == Init /\ since = <<>>

AfterRead(k) == [j \in DOMAIN since \cup {k} |-> IF j = k THEN {} ELSE since[j] \cup {k}]

(* A written page and the pages of a closed descriptor leave the cache. *)
Forgotten(K) == Restrict(since, DOMAIN since \ K)

LRUNext ==
  /\ Next
  /\ cacheClock' <= MaxTick
  /\ since' =
       CASE call'.op = "start" -> <<>>
         [] call'.op = "read" /\ call'.rc \in {"OK", "RC_FILE_READ_FAILED"}
              -> AfterRead(<<fd[call'.by], call'.pid>>)
         [] call'.op = "write" /\ call'.rc = "OK"
              -> Forgotten({<<fd[call'.by], call'.pid>>})
         [] call'.op = "close" /\ call'.rc = "OK"
              -> Forgotten({fd[call'.by]} \X Pids)
         [] OTHER -> since

LRUSpec == LRUInit /\ [][LRUNext]_lruVars

(* The state without the histories no step depends on, for TLC *)
WithoutHistory == <<disk, table, object, cached, since>>

(* PageFile.h:93, "LRU caching": a page that was read is still cached as   *)
(* long as fewer than CACHE_COUNT different pages were read after it.      *)
RecentlyReadIsCached ==
  \A k \in DOMAIN since : Cardinality(since[k]) < CACHE_COUNT => InCache(k[1], k[2])
=============================================================================
