-------------------------- MODULE OnboardingContext --------------------------
(***************************************************************************)
(* What the onboarding remembers: services/onboarding-context.js.  A value  *)
(* is held in the service's data, and when it is to be persisted also in    *)
(* localStorage or, while that is full, in a memory cache; an index of the  *)
(* persisted keys is kept the same way.  Every value is a set, so that the  *)
(* index and the values of keys can be held by one function.                *)
(***************************************************************************)
EXTENDS Naturals, FiniteSets

CONSTANTS
    Keys, Values,
    Sensitive   \* password, password_confirmation, oauth_intent

KeysAssumption ==
    /\ "__keys__" \notin Keys /\ Sensitive \subseteq Keys
    /\ {"undefined"} \notin Values /\ Values # {}

VARIABLES
    ui,         \* data, _memoryCache; deleted: the keys deleted and not set since
    calls,      \* no call of this service waits
    db          \* localStorage, by key

vars == <<ui, calls, db>>

Index == "__keys__"
Undefined == {"undefined"}
Nothing == [k \in Keys \cup {Index} |-> Undefined]

Init ==
    /\ ui = [data |-> Nothing, memory |-> Nothing, quotaExceeded |-> FALSE, deleted |-> {}]
    /\ calls = {}
    /\ db = Nothing

Becomes(s) == ui' = s.ui /\ db' = s.db /\ UNCHANGED calls

-----------------------------------------------------------------------------
(* Reading and writing with the fallback; s is [ui, db].                   *)

(* A write that takes more room may find the storage full. *)
IsQuotaError(s, key, value) == value # Undefined /\ ~(value \subseteq s.db[key])

Written(f, keys, values) == [k \in DOMAIN f |-> IF k \in keys THEN values[k] ELSE f[k]]

(* The values of several keys; those that find no room are kept in memory.  *)
SafeSetAll(s, keys, values) ==
    {[ui |-> [s.ui EXCEPT !.memory = Written(@, full, values), !.quotaExceeded = @ \/ full # {}],
      db |-> Written(s.db, keys \ full, values)] :
        full \in SUBSET {k \in keys : IsQuotaError(s, k, values[k])}}

SafeSet(s, key, value) == SafeSetAll(s, {key}, [k \in {key} |-> value])

SafeGet(s, key) == IF s.db[key] # Undefined THEN s.db[key] ELSE s.ui.memory[key]

KeysIndex(s) == IF SafeGet(s, Index) = Undefined THEN {} ELSE SafeGet(s, Index)

Get(key) == IF ui.data[key] # Undefined THEN ui.data[key] ELSE SafeGet([ui |-> ui, db |-> db], key)
GetFromCache(key) == SafeGet([ui |-> ui, db |-> db], key)

Restore ==
    [k \in {k \in KeysIndex([ui |-> ui, db |-> db]) : GetFromCache(k) # Undefined} |-> GetFromCache(k)]

-----------------------------------------------------------------------------
Filtered(keys) == keys \ Sensitive

InData(keys, values) ==
    [ui |-> [ui EXCEPT !.data = Written(@, keys, values), !.deleted = @ \ keys], db |-> db]

(* merge(data, options), and set(key, value, options) for a single key. *)
Merge ==
    \E keys \in SUBSET Keys, values \in [Keys -> Values], persist \in BOOLEAN :
        /\ keys # {} /\ \A k \in Keys \ keys : values[k] = CHOOSE v \in Values : TRUE
        /\ LET given == Filtered(keys)
               s == InData(given, values) IN
           \/ ~persist /\ Becomes(s)
           \/ /\ persist
              /\ \E t \in SafeSetAll(s, given, values) :
                     \E u \in SafeSet(t, Index, KeysIndex(s) \cup given) : Becomes(u)

(* Mutant: del leaves the memory cache alone. *)
Forget_Storage(memory, key) == memory

Forget(memory, key) == [memory EXCEPT ![key] = Undefined]

Del ==
    \E key \in Keys :
        LET s == [ui |-> [ui EXCEPT !.data[key] = Undefined, !.deleted = @ \cup {key}], db |-> db]
        IN  \E t \in SafeSet(s, key, Undefined) : \E u \in SafeSet(t, Index, KeysIndex(s) \ {key}) :
                Becomes([u EXCEPT !.ui.memory = Forget(@, key)])

Reset ==
    LET s == [ui |-> ui, db |-> db] IN
    \E t \in SafeSetAll(s, KeysIndex(s), Nothing) : \E u \in SafeSet(t, Index, {}) :
        Becomes([u EXCEPT !.ui.memory = Nothing, !.ui.data = Nothing, !.ui.quotaExceeded = FALSE])

(* The page is loaded again. *)
PageLoad ==
    /\ ui' = [ui EXCEPT !.data = Nothing, !.memory = Nothing, !.quotaExceeded = FALSE]
    /\ UNCHANGED <<calls, db>>

Next == Merge \/ Del \/ Reset \/ PageLoad

-----------------------------------------------------------------------------
TypeOK ==
    /\ \A k \in Keys : {ui.data[k], ui.memory[k], db[k]} \subseteq Values \cup {Undefined}
    /\ \A s \in Sensitive : Get(s) = Undefined
    /\ KeysIndex([ui |-> ui, db |-> db]) \subseteq Keys

(* del(key) removes the key "from memory and cache" (line 191): wherever    *)
(* its value was written while the storage was full or not, it is not read  *)
(* or restored until somebody sets it again, not even after a page load.    *)
DeletedStaysDeleted ==
    \A k \in ui.deleted : Get(k) = Undefined /\ k \notin DOMAIN Restore
=============================================================================
