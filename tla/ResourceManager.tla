--------------------------- MODULE ResourceManager ---------------------------
(***************************************************************************)
(* SrsResourceManager: the object every connection is handed to, which     *)
(* finds it by name, peer address or fast id while it lives, and frees it  *)
(* in a coroutine of its own once somebody removed it.                     *)
(*                                                                         *)
(* The manager is a record, and an operation an operator that returns the  *)
(* next one.  No operation switches coroutines: the disposing handlers     *)
(* only mark themselves, and p_disposing_ is set only while they run, so   *)
(* no other coroutine ever sees it.  What follows a dispose, the           *)
(* destructors of the batch, does switch: the module that composes the     *)
(* manager with its resources takes them one at a time.                    *)
(***************************************************************************)
EXTENDS Integers, Sequences, FiniteSets, Functions

CONSTANTS
    Resource,   \* the objects that are handed to the manager
    Key,        \* what conns_name_ and conns_id_ are indexed by
    FastId,     \* addresses as integers, which conns_fast_id_ is indexed by
    Slots       \* bound: nn_level0_cache_

Slot == 0..Slots - 1

\* The code folds the upper half of the 64-bit id into the lower first, with
\* id | id >> 32; here an id has no upper half.
SlotOf(id) == id % Slots

\* One item of the level-0 cache; a fast id of 0 is none, impl_ is the set of
\* the object it points to.
FastItem == [available : BOOLEAN, collisions : Int,
             id : FastId \union {0}, impl : SUBSET Resource]

NoItem == [available |-> FALSE, collisions |-> 0, id |-> 0, impl |-> {}]

NoMap == [k \in {} |-> k]

NewManager ==
    [conns |-> {}, byKey |-> NoMap, byFast |-> NoMap,
     level0 |-> [slot \in Slot |-> NoItem],
     handlers |-> {}, unsubs |-> {},
     zombies |-> <<>>, batch |-> <<>>, pc |-> "waiting"]

\* "waiting" on the condition; "ready" to look at the zombies; "freeing" the
\* batch it disposed of.
ManagerPc == {"waiting", "ready", "freeing"}

PartialMap(D, R) == UNION {[d -> R] : d \in SUBSET D}

Manager == [conns    : SUBSET Resource,
            byKey    : PartialMap(Key, Resource),
            byFast   : PartialMap(FastId, Resource),
            level0   : [Slot -> FastItem],
            handlers : SUBSET Resource,
            unsubs   : SUBSET Resource,
            zombies  : Seq(Resource),
            batch    : Seq(Resource),
            pc       : ManagerPc]
-----------------------------------------------------------------------------
(***************************************************************************)
(* Adding and finding.                                                     *)
(***************************************************************************)

Put(map, k, r) ==
    [j \in DOMAIN map \union {k} |-> IF j = k THEN r ELSE map[j]]

Add(m, r) == [m EXCEPT !.conns = @ \union {r}]

\* add_with_id, and add_with_name.
AddWithKey(m, k, r) == [Add(m, r) EXCEPT !.byKey = Put(@, k, r)]

\* The item of a resource that was not known before.
Fresh(item, id, r) ==
    IF item.id = id THEN item
    ELSE IF item.id = 0
    THEN [available |-> TRUE, collisions |-> 1, id |-> id, impl |-> {r}]
    ELSE [item EXCEPT !.collisions = @ + 1, !.available = FALSE]

\* Only a resource that add() had not seen builds the level-0 cache.
AddWithFastId(m, id, r) ==
    LET n == [Add(m, r) EXCEPT !.byFast = Put(@, id, r)] IN
    IF r \in m.conns THEN n
    ELSE [n EXCEPT !.level0[SlotOf(id)] = Fresh(@, id, r)]

\* The finds answer the set of the resource, empty for none.
FindByKey(m, k) == {m.byKey[j] : j \in {k} \intersect DOMAIN m.byKey}

FindByFastId(m, id) ==
    LET item == m.level0[SlotOf(id)] IN
    IF item.available /\ item.id = id THEN item.impl
    ELSE {m.byFast[j] : j \in {id} \intersect DOMAIN m.byFast}
-----------------------------------------------------------------------------
(***************************************************************************)
(* The disposing handlers.                                                 *)
(***************************************************************************)

Subscribe(m, h) == [m EXCEPT !.handlers = @ \union {h}, !.unsubs = @ \ {h}]

Unsubscribe(m, h) == [m EXCEPT !.handlers = @ \ {h}, !.unsubs = @ \union {h}]

\* Those that remove() tells of a resource.
Told(m) == m.handlers \ m.unsubs
-----------------------------------------------------------------------------
(***************************************************************************)
(* Removing, and the coroutine of the manager.                             *)
(***************************************************************************)

InZombie(m, r) == r \in Range(m.zombies)

\* Mutant: it does not look whether the resource is a zombie already.
RemovedAgain(m, r) ==
    [m EXCEPT !.zombies = Append(@, r),
              !.pc = IF @ = "waiting" THEN "ready" ELSE @]

\* do_remove: the signal wakes the coroutine only if it waits.
Removed(m, r) ==
    IF InZombie(m, r) THEN m
    ELSE [m EXCEPT !.zombies = Append(@, r),
                   !.pc = IF @ = "waiting" THEN "ready" ELSE @]

\* Mutant: dispose leaves the maps alone.
WithoutNone(map, R) == map

\* What dispose leaves of a map.
Without(map, R) == [k \in {j \in DOMAIN map : map[j] \notin R} |-> map[k]]

\* The fast ids of an item that dispose erases each take one collision off,
\* and empty the item when they take the last one.
Drained(item, n) ==
    IF item.collisions \in 1..n
    THEN [item EXCEPT !.collisions = @ - n, !.id = 0, !.available = FALSE]
    ELSE [item EXCEPT !.collisions = @ - n]

Erased(m, R, slot) ==
    {id \in DOMAIN m.byFast : m.byFast[id] \in R /\ SlotOf(id) = slot}

\* clear() up to its destructors: every zombie is disposed of.
Clear(m) ==
    LET R == Range(m.zombies) IN
    [m EXCEPT
        !.conns = m.conns \ R,
        !.byKey = Without(m.byKey, R), !.byFast = Without(m.byFast, R),
        !.level0 = [slot \in Slot |->
                    Drained(m.level0[slot], Cardinality(Erased(m, R, slot)))],
        !.unsubs = {},
        !.batch = m.zombies, !.zombies = <<>>, !.pc = "freeing"]

\* Mutant: it clears once, then waits for a signal.
TurnOnce(m) ==
    IF m.pc = "ready" /\ m.zombies # <<>> THEN Clear(m)
    ELSE [m EXCEPT !.pc = "waiting"]

\* The cycle of the manager: clear while there are zombies, then wait.
Looks(m) == m.pc = "ready" \/ (m.pc = "freeing" /\ m.batch = <<>>)

Turn(m) ==
    IF m.zombies # <<>> THEN Clear(m) ELSE [m EXCEPT !.pc = "waiting"]

\* The destructor of the next object of the batch returned.
FreedNext(m) == [m EXCEPT !.batch = Tail(@)]
=============================================================================
