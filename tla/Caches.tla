------------------------------- MODULE Caches -------------------------------
(***************************************************************************)
(* The interface cache.Cache over its two implementations, as newCache of  *)
(* internal/experiment/runner.go builds them: type is that of the cache    *)
(* configuration of a run, and a call goes to the implementation it names. *)
(***************************************************************************)
EXTENDS LRU, ARC

\* newCache; keys are the keys the directory of an ARC cache may come to know.
NewCache(type, keys, max) ==
  IF type = "arc" THEN NewARCCache(keys, max) ELSE NewLRUCache(max)

CacheHit(type, c, key, now) ==
  IF type = "arc" THEN IsARCHit(c, key, now) ELSE IsHit(c, key, now)

CacheGet(type, c, key, now) ==
  IF type = "arc" THEN ARCGet(c, key, now) ELSE Get(c, key, now)

CachePut(type, c, item) ==
  IF type = "arc" THEN ARCPut(c, item) ELSE Put(c, item)

\* The keys a cache holds items for, expired ones included.
CachedKeys(type, c) ==
  IF type = "arc" THEN { k \in DOMAIN c.ownerOf : Active(c, k) } ELSE KeysOf(c.list)
=============================================================================
