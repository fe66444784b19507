---------------------------- MODULE TtlLruCache ----------------------------
(***************************************************************************)
(* The methods of socket/lib/cache.js as functions of the cache's entries.  *)
(* A JavaScript Map iterates in insertion order, so the entries are a       *)
(* sequence: the least recently used first, the most recently used last.    *)
(***************************************************************************)
EXTENDS Integers, Sequences

CONSTANT MaxEntries  \* how many entries the cache keeps

Miss == "miss"

Has(entries, key) == \E i \in DOMAIN entries : entries[i].key = key
Position(entries, key) == CHOOSE i \in DOMAIN entries : entries[i].key = key
EntryOf(entries, key) == entries[Position(entries, key)]

Without(entries, key) ==
  IF Has(entries, key)
    THEN SubSeq(entries, 1, Position(entries, key) - 1)
           \o SubSeq(entries, Position(entries, key) + 1, Len(entries))
    ELSE entries

(* An entry is dead from the instant it expires at.                          *)
Fresh_OneTooLong(entry, now) == entry.expiresAt >= now
Fresh(entry, now) == entry.expiresAt > now

Hits(entries, key, now) ==
  Has(entries, key) /\ Fresh(EntryOf(entries, key), now)

(* get(): what it returns ...                                                *)
GetValue(entries, key, now) ==
  IF Hits(entries, key, now) THEN EntryOf(entries, key).value ELSE Miss

(* ... and what it leaves: a hit moves to the recent end, an expired entry   *)
(* goes.                                                                     *)
Get_NotMoved(entries, key, now) ==
  IF Hits(entries, key, now) THEN entries ELSE Without(entries, key)
Get(entries, key, now) ==
  IF Hits(entries, key, now)
    THEN Append(Without(entries, key), EntryOf(entries, key))
    ELSE Without(entries, key)

(* The loop that drops the first key while there are too many.               *)
Evict_OneTooMany(entries) ==
  IF Len(entries) > MaxEntries + 1 THEN SubSeq(entries, 2, Len(entries)) ELSE entries
Evict(entries) ==
  IF Len(entries) > MaxEntries
    THEN SubSeq(entries, Len(entries) - MaxEntries + 1, Len(entries))
    ELSE entries

(* set(): a ttl of zero stores nothing and drops the previous value.         *)
Set(entries, key, value, ttl, now) ==
  IF ttl > 0
    THEN Evict(Append(Without(entries, key),
                 [key |-> key, value |-> value, expiresAt |-> now + ttl]))
    ELSE Without(entries, key)
=============================================================================
