--------------------------- MODULE ResponseCache ---------------------------
(***************************************************************************)
(* The response cache of the API (analytics-cache.ts): answers by key, one *)
(* load per entry, stale answers while an entry is refreshed, and a bound  *)
(* on the number of entries.                                               *)
(*                                                                         *)
(* Everything runs on one thread, but a load settles in two microtasks:    *)
(* its then or catch handler, and its finally handler, between which any   *)
(* other request may run.  An entry is an object: a load writes into the   *)
(* object it was started for, whether or not the map still holds it.       *)
(***************************************************************************)
EXTENDS Integers, FiniteSets, FiniteSetsExt, SequencesExt

CONSTANTS
  Keys,        \* the keys of the cache
  Loads,       \* loads that may be under way together: a bound on requests
  MaxEntries,  \* options.maxEntries
  CacheClock   \* bounds the clock; an answer is fresh for one tick

ASSUME ResponseCacheConstants == /\ MaxEntries \in Nat \ {0} /\ CacheClock \in Nat
                                 /\ IsFiniteSet(Keys) /\ IsFiniteSet(Loads)
                                 /\ "none" \notin Loads

VARIABLES
  order,     \* the keys of the map, in the order of their insertion
  slot,      \* the entry object the map holds under each key
  object,    \* the entry objects
  load,      \* the loads: promises of refresh
  cacheTime  \* the clock

cacheVars == <<order, slot, object, load, cacheTime>>

Objects == 1 .. Cardinality(Keys) + Cardinality(Loads)
NoObject == 0
NoLoad == "none"
NoValue == -1

Blank == [refreshedAt |-> NoValue, accessedAt |-> 0, refresh |-> NoLoad]
Waiting == [pc |-> "idle", key |-> NoLoad, object |-> NoObject]

Idle(l) == load[l].pc = "idle"
Pending == {l \in Loads : ~Idle(l)}

(* Every variable keeps its type; a key is in the map exactly if it has an *)
(* object, and no object is held under two keys.                           *)
CacheTypeOK ==
  /\ order \in Seq(Keys) /\ IsInjective(order)
  /\ slot \in [Keys -> Objects \cup {NoObject}]
  /\ \A k \in Keys : slot[k] # NoObject <=> k \in ToSet(order)
  /\ \A k, m \in Keys : slot[k] = slot[m] /\ k # m => slot[k] = NoObject
  /\ object \in [Objects -> [refreshedAt : NoValue .. CacheClock, accessedAt : 0 .. CacheClock,
                             refresh : Loads \cup {NoLoad}]]
  /\ load \in [Loads -> [pc : {"idle", "loading", "settled"}, key : Keys \cup {NoLoad},
                         object : Objects \cup {NoObject}]]
  /\ cacheTime \in 0 .. CacheClock

CacheInit ==
  /\ order = <<>>
  /\ slot = [k \in Keys |-> NoObject]
  /\ object = [o \in Objects |-> Blank]
  /\ load = [l \in Loads |-> Waiting]
  /\ cacheTime = 0

-----------------------------------------------------------------------------
(* An object nothing refers to is garbage: it goes, and its number is used *)
(* again.                                                                  *)
Live(held, loading) == {held[k] : k \in Keys} \cup {loading[l].object : l \in Loads}

Collected(objects, held, loading) ==
  [o \in Objects |-> IF o \in Live(held, loading) THEN objects[o] ELSE Blank]

NewObject == Min(Objects \ Live(slot, load))

(* Map.delete keeps the order of the other keys.                           *)
Without(keys, gone) ==
  LET kept[i \in 0 .. Len(keys)] ==
        IF i = 0 THEN <<>>
        ELSE IF keys[i] \in gone THEN kept[i - 1] ELSE Append(kept[i - 1], keys[i])
  IN kept[Len(keys)]

HasValue(o) == object[o].refreshedAt # NoValue
Expired(o) == object[o].refreshedAt + 1 <= cacheTime

Fetch(l, k, o) == load' = [load EXCEPT ![l] = [pc |-> "loading", key |-> k, object |-> o]]

(* get: a value is answered at once, and refreshed in the background when  *)
(* it has expired; without one the caller joins the load of the entry or   *)
(* starts it.                                                              *)
Get(k) ==
  LET o == slot[k] IN
  \/ /\ o # NoObject /\ HasValue(o) /\ (Expired(o) => object[o].refresh # NoLoad)
     /\ object' = [object EXCEPT ![o].accessedAt = cacheTime]
     /\ UNCHANGED <<order, slot, load, cacheTime>>
  \/ /\ o # NoObject /\ ~HasValue(o) /\ object[o].refresh # NoLoad
     /\ object' = [object EXCEPT ![o].accessedAt = cacheTime]
     /\ UNCHANGED <<order, slot, load, cacheTime>>
  \/ \E l \in Loads :
       /\ Idle(l) /\ o # NoObject /\ (HasValue(o) => Expired(o)) /\ object[o].refresh = NoLoad
       /\ object' = [object EXCEPT ![o].accessedAt = cacheTime, ![o].refresh = l]
       /\ Fetch(l, k, o)
       /\ UNCHANGED <<order, slot, cacheTime>>
  \/ \E l \in Loads :
       /\ Idle(l) /\ o = NoObject
       /\ order' = Append(order, k)
       /\ slot' = [slot EXCEPT ![k] = NewObject]
       /\ object' = [object EXCEPT ![NewObject] =
                       [refreshedAt |-> NoValue, accessedAt |-> cacheTime, refresh |-> l]]
       /\ Fetch(l, k, NewObject)
       /\ UNCHANGED cacheTime

Settled(l) == load' = [load EXCEPT ![l].pc = "settled", ![l].object = NoObject]

(* The then handler: the value goes into the object the load began with.   *)
Loaded(l) ==
  /\ load[l].pc = "loading"
  /\ object' = [object EXCEPT ![load[l].object].refreshedAt = cacheTime,
                              ![load[l].object].accessedAt = cacheTime]
  /\ Settled(l)
  /\ UNCHANGED <<order, slot, cacheTime>>

(* The catch handler deletes the key, whatever object it holds by now.     *)
Failed(l) ==
  LET k == load[l].key IN
  /\ load[l].pc = "loading"
  /\ Settled(l)
  /\ IF HasValue(load[l].object) THEN UNCHANGED <<order, slot>>
     ELSE order' = Without(order, {k}) /\ slot' = [slot EXCEPT ![k] = NoObject]
  /\ object' = Collected(object, slot', load')
  /\ UNCHANGED cacheTime

(* prune: the least recently used of the other keys without a load go      *)
(* until the map fits; equal times keep the order of insertion.            *)
EvictedTo(size, protected, obj) ==
  LET candidates == {k \in ToSet(order) \ {protected} : obj[slot[k]].refresh = NoLoad}
      OlderThan(k) == {m \in candidates :
        \/ obj[slot[m]].accessedAt < obj[slot[k]].accessedAt
        \/ /\ obj[slot[m]].accessedAt = obj[slot[k]].accessedAt
           /\ \E i, j \in DOMAIN order : i < j /\ order[i] = m /\ order[j] = k}
  IN {k \in candidates : Cardinality(OlderThan(k)) < Len(order) - size}

EvictedLate(protected, obj) == EvictedTo(MaxEntries + 1, protected, obj)
Evicted(protected, obj) == EvictedTo(MaxEntries, protected, obj)

(* The finally handler clears the promise of the entry the key has now and *)
(* enforces the capacity.                                                  *)
Finally(l) ==
  LET k == load[l].key
      cleared == IF slot[k] = NoObject THEN object
                 ELSE [object EXCEPT ![slot[k]].refresh = NoLoad]
      gone == Evicted(k, cleared)
  IN /\ load[l].pc = "settled"
     /\ order' = Without(order, gone)
     /\ slot' = [m \in Keys |-> IF m \in gone THEN NoObject ELSE slot[m]]
     /\ load' = [load EXCEPT ![l] = Waiting]
     /\ object' = Collected(cleared, slot', load')
     /\ UNCHANGED cacheTime

CacheTick == cacheTime < CacheClock /\ cacheTime' = cacheTime + 1 /\ UNCHANGED <<order, slot, object, load>>

CacheNext ==
  \/ \E k \in Keys : Get(k)
  \/ \E l \in Loads : Loaded(l) \/ Failed(l) \/ Finally(l)
  \/ CacheTick

CacheSpec == CacheInit /\ [][CacheNext]_cacheVars

-----------------------------------------------------------------------------
(* Entries beyond the capacity, and entries without a value, are only     *)
(* there for a load under way: the finally handlers of loads that end      *)
(* together, each of which protects its own key, leave no entry too many,  *)
(* and no failure, eviction or overlapping load of a key leaves an entry   *)
(* whose requests are never answered (refresh, prune).                     *)
EntriesAccounted ==
  /\ Len(order) <= MaxEntries + Cardinality(Pending)
  /\ \A k \in Keys : slot[k] # NoObject =>
       \/ HasValue(slot[k])
       \/ \E l \in Loads : load[l].pc = "loading" /\ load[l].object = slot[k]
=============================================================================
