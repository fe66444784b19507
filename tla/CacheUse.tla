------------------------------ MODULE CacheUse ------------------------------
(***************************************************************************)
(* A TtlLruCache under any sequence of calls while time passes, with what a *)
(* caller remembers of its own calls.                                       *)
(***************************************************************************)
EXTENDS Naturals, Sequences, FiniteSets, TtlLruCache

CONSTANTS
  Keys, Values,
  MaxTtl,  \* bound: the longest lifetime asked for
  MaxNow   \* bound: when the clock stops

MaxAssumption == MaxEntries \in Nat \ {0}
TtlAssumption == MaxTtl \in Nat /\ MaxNow \in Nat
ValuesAssumption == "miss" \notin Values /\ "none" \notin Keys

VARIABLES
  now,
  entries,  \* cache.entries, in Map order
  result,   \* what the last get() returned, and for which key
  lastSet,  \* history: the last value set for a key and when it expires
  since     \* history: the keys set or hit since a key was last set or hit

vars == <<now, entries, result, lastSet, since>>

NeverSet == [value |-> Miss, expiresAt |-> 0]
NoCall == [key |-> "none", value |-> Miss]

TypeOK ==
  /\ now \in 0..MaxNow
  /\ entries \in Seq([key : Keys, value : Values,
                      expiresAt : 1..(MaxNow + MaxTtl)])
  /\ result \in [key : Keys \cup {"none"}, value : Values \cup {Miss}]
  /\ lastSet \in [Keys -> [value : Values \cup {Miss},
                           expiresAt : 0..(MaxNow + MaxTtl)]]
  /\ since \in [Keys -> SUBSET Keys]
  /\ \A i, j \in DOMAIN entries : entries[i].key = entries[j].key => i = j

Init ==
  /\ now = 0
  /\ entries = <<>>
  /\ result = NoCall
  /\ lastSet = [k \in Keys |-> NeverSet]
  /\ since = [k \in Keys |-> {}]

Touch(key) ==
  [k \in Keys |-> IF k = key THEN {} ELSE since[k] \cup {key}]

CallSet(key, value, ttl) ==
  /\ entries' = Set(entries, key, value, ttl, now)
  /\ lastSet' = [lastSet EXCEPT
                   ![key] = [value |-> value, expiresAt |-> now + ttl]]
  /\ since' = IF ttl > 0 THEN Touch(key) ELSE since
  /\ UNCHANGED <<now, result>>

CallGet(key) ==
  /\ result' = [key |-> key, value |-> GetValue(entries, key, now)]
  /\ entries' = Get(entries, key, now)
  /\ since' = IF Hits(entries, key, now) THEN Touch(key) ELSE since
  /\ UNCHANGED <<now, lastSet>>

(* delete() and clear().                                                     *)
Forget(keys) ==
  [k \in Keys |-> IF k \in keys THEN NeverSet ELSE lastSet[k]]

CallDelete(key) ==
  /\ entries' = Without(entries, key)
  /\ lastSet' = Forget({key})
  /\ UNCHANGED <<now, result, since>>

CallClear ==
  /\ entries' = <<>>
  /\ lastSet' = Forget(Keys)
  /\ UNCHANGED <<now, result, since>>

Tick ==
  /\ now < MaxNow
  /\ now' = now + 1
  /\ result' = NoCall
  /\ UNCHANGED <<entries, lastSet, since>>

Next ==
  \/ \E key \in Keys, value \in Values, ttl \in 0..MaxTtl :
       CallSet(key, value, ttl)
  \/ \E key \in Keys : CallGet(key) \/ CallDelete(key)
  \/ CallClear
  \/ Tick

Spec == Init /\ [][Next]_vars
-----------------------------------------------------------------------------
(* get() returns the last value set for its key, and only before it expires. *)
ServesLastSet ==
  \A key \in Keys :
    CallGet(key) /\ result'.value # Miss
      => /\ result'.value = lastSet[key].value
         /\ now < lastSet[key].expiresAt

(* The cache keeps at most MaxEntries, and gives up the least recently used: *)
(* a key is there, until it expires or is set again, as long as fewer than   *)
(* MaxEntries others were set or hit after it.                               *)
RecentKeysKept ==
  /\ Len(entries) <= MaxEntries
  /\ \A key \in Keys :
       lastSet[key].expiresAt > now /\ Cardinality(since[key]) < MaxEntries
         => Has(entries, key)
=============================================================================
