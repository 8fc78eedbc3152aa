----------------------------- MODULE CacheItems -----------------------------
(***************************************************************************)
(* The items of internal/cache/cache.go and the linked lists that both     *)
(* cache implementations keep them in.                                     *)
(*                                                                         *)
(* An item is a record [key, size, expiry]; the opaque Value is left out.  *)
(* Instants are naturals and 0 is the zero time.Time.  A list of the code  *)
(* is a sequence, its front first, and the map from keys to list elements  *)
(* is the position of a key in the sequence.                               *)
(***************************************************************************)

EXTENDS Integers, Sequences, SequencesExt

NoExpiry == 0

\* now.After(Expiry), for an item that has an expiry.
Expired(item, now) == item.expiry # NoExpiry /\ now > item.expiry

\* The sizes of the items of a list, summed up.
Bytes(list) ==
  LET sum[n \in 0 .. Len(list)] == IF n = 0 THEN 0 ELSE sum[n - 1] + list[n].size
  IN  sum[Len(list)]

KeysOf(list) == { list[i].key : i \in DOMAIN list }

Position(list, key) == CHOOSE i \in DOMAIN list : list[i].key = key

Lookup(list, key) == list[Position(list, key)]

RemoveKey(list, key) == RemoveAt(list, Position(list, key))
=============================================================================
