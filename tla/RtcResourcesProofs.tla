------------------------- MODULE RtcResourcesProofs --------------------------
(***************************************************************************)
(* What TLAPS proves of the connection manager and its RTC resources, for  *)
(* every number of sessions, connections, addresses and slots.             *)
(***************************************************************************)
EXTENDS RtcResources, FiniteSetTheorems, TLAPS

-----------------------------------------------------------------------------
(***************************************************************************)
(* The operations of the manager, on any manager m.                        *)
(***************************************************************************)

\* Queueing r: the zombies gain r, at most once, and nothing else changes but
\* that the coroutine of the manager may be ready.
LEMMA RemovedFacts ==
    ASSUME NEW m \in M!Manager, IsInjective(m.zombies),
           NEW r \in Resource
    PROVE  /\ M!Removed(m, r) \in M!Manager
           /\ IsInjective(M!Removed(m, r).zombies)
           /\ Range(M!Removed(m, r).zombies) = Range(m.zombies) \union {r}
           /\ M!Removed(m, r).batch = m.batch
           /\ M!Removed(m, r).conns = m.conns
           /\ M!Removed(m, r).byKey = m.byKey
           /\ M!Removed(m, r).byFast = m.byFast
           /\ M!Removed(m, r).level0 = m.level0
           /\ m.pc # "waiting" => M!Removed(m, r).pc = m.pc
<1> DEFINE n == [m EXCEPT !.zombies = Append(@, r),
                          !.pc = IF @ = "waiting" THEN "ready" ELSE @]
<1>1. CASE M!InZombie(m, r)
  <2>1. M!Removed(m, r) = m
    BY <1>1 DEF M!Removed
  <2>2. r \in Range(m.zombies)
    BY <1>1 DEF M!InZombie, M!Range, Range
  <2> QED
    BY <2>1, <2>2
<1>2. CASE ~M!InZombie(m, r)
  <2>1. M!Removed(m, r) = n
    BY <1>2 DEF M!Removed
  <2>2. r \notin Range(m.zombies)
    BY <1>2 DEF M!InZombie, M!Range, Range
  <2>3. /\ n.zombies = Append(m.zombies, r)
        /\ n.pc = (IF m.pc = "waiting" THEN "ready" ELSE m.pc)
        /\ n.batch = m.batch /\ n.conns = m.conns /\ n.byKey = m.byKey
        /\ n.byFast = m.byFast /\ n.level0 = m.level0
    BY DEF M!Manager
  <2>4. m.zombies \in Seq(Resource)
    BY DEF M!Manager
  <2>5. /\ Range(n.zombies) = Range(m.zombies) \union {r}
        /\ IsInjective(n.zombies)
    BY <2>2, <2>3, <2>4 DEF Range, IsInjective
  <2>6. Append(m.zombies, r) \in Seq(Resource)
    BY <2>4
  <2>7. (IF m.pc = "waiting" THEN "ready" ELSE m.pc) \in M!ManagerPc
    BY DEF M!Manager, M!ManagerPc
  <2>8. n \in M!Manager
    BY <2>6, <2>7 DEF M!Manager
  <2> QED
    BY <2>1, <2>3, <2>5, <2>8
<1> QED
  BY <1>1, <1>2

\* Taking the head of the batch, which is there once, off it.
LEMMA FreedNextFacts ==
    ASSUME NEW m \in M!Manager, m.batch # <<>>, IsInjective(m.batch)
    PROVE  /\ M!FreedNext(m) \in M!Manager
           /\ Head(m.batch) \in Range(m.batch) /\ Head(m.batch) \in Resource
           /\ IsInjective(M!FreedNext(m).batch)
           /\ Range(M!FreedNext(m).batch) = Range(m.batch) \ {Head(m.batch)}
           /\ M!FreedNext(m).zombies = m.zombies
           /\ M!FreedNext(m).conns = m.conns
           /\ M!FreedNext(m).byKey = m.byKey
           /\ M!FreedNext(m).byFast = m.byFast
           /\ M!FreedNext(m).level0 = m.level0
           /\ M!FreedNext(m).pc = m.pc
<1>1. m.batch \in Seq(Resource) /\ Tail(m.batch) \in Seq(Resource)
  <2>1. m.batch \in Seq(Resource)
    BY DEF M!Manager
  <2> QED
    BY <2>1
<1>2. /\ M!FreedNext(m) \in M!Manager
      /\ M!FreedNext(m).batch = Tail(m.batch)
      /\ M!FreedNext(m).zombies = m.zombies
      /\ M!FreedNext(m).conns = m.conns
      /\ M!FreedNext(m).byKey = m.byKey
      /\ M!FreedNext(m).byFast = m.byFast
      /\ M!FreedNext(m).level0 = m.level0
      /\ M!FreedNext(m).pc = m.pc
  BY <1>1 DEF M!FreedNext, M!Manager
<1>3. /\ Len(m.batch) \in Nat \ {0} /\ DOMAIN m.batch = 1..Len(m.batch)
      /\ Head(m.batch) = m.batch[1]
      /\ Len(Tail(m.batch)) = Len(m.batch) - 1
      /\ DOMAIN Tail(m.batch) = 1..Len(m.batch) - 1
      /\ \A i \in 1..Len(m.batch) - 1 : Tail(m.batch)[i] = m.batch[i + 1]
  BY <1>1
<1>4. Head(m.batch) \in Range(m.batch) /\ Head(m.batch) \in Resource
  BY <1>1, <1>3 DEF Range
<1>5. IsInjective(Tail(m.batch))
  BY <1>3 DEF IsInjective
<1>6. Range(Tail(m.batch)) = Range(m.batch) \ {Head(m.batch)}
  <2>1. ASSUME NEW x \in Range(Tail(m.batch))
        PROVE  x \in Range(m.batch) \ {Head(m.batch)}
    <3>1. PICK i \in 1..Len(m.batch) - 1 : x = m.batch[i + 1]
      BY <1>3, <2>1 DEF Range
    <3>2. i + 1 \in 1..Len(m.batch) /\ 1 \in 1..Len(m.batch) /\ i + 1 # 1
      BY <1>3, <3>1
    <3>3. m.batch[i + 1] # m.batch[1]
      BY <1>3, <3>2 DEF IsInjective
    <3> QED
      BY <1>3, <3>1, <3>2, <3>3 DEF Range
  <2>2. ASSUME NEW x \in Range(m.batch), x # Head(m.batch)
        PROVE  x \in Range(Tail(m.batch))
    <3>1. PICK i \in 1..Len(m.batch) : x = m.batch[i]
      BY <1>3, <2>2 DEF Range
    <3>2. i - 1 \in 1..Len(m.batch) - 1
      BY <1>3, <2>2, <3>1
    <3>3. x = Tail(m.batch)[i - 1]
      BY <1>3, <3>1, <3>2
    <3> QED
      BY <1>3, <3>2, <3>3 DEF Range
  <2> QED
    BY <2>1, <2>2
<1> QED
  BY <1>2, <1>4, <1>5, <1>6

LEMMA SubscribeFacts ==
    ASSUME NEW m \in M!Manager, NEW h \in Resource,
           NEW n \in {M!Subscribe(m, h), M!Unsubscribe(m, h)}
    PROVE  /\ n \in M!Manager
           /\ n.zombies = m.zombies /\ n.batch = m.batch /\ n.pc = m.pc
           /\ n.conns = m.conns /\ n.byKey = m.byKey
           /\ n.byFast = m.byFast /\ n.level0 = m.level0
<1>1. CASE n = M!Subscribe(m, h)
  BY <1>1 DEF M!Manager, M!Subscribe
<1>2. CASE n = M!Unsubscribe(m, h)
  BY <1>2 DEF M!Manager, M!Unsubscribe
<1> QED
  BY <1>1, <1>2

\* Partial maps: with one more entry, and with the entries of some values gone.
LEMMA PartialMaps ==
    ASSUME NEW D, NEW R, NEW f \in M!PartialMap(D, R)
    PROVE  /\ DOMAIN f \subseteq D /\ \A x \in DOMAIN f : f[x] \in R
           /\ \A k \in D, r \in R : M!Put(f, k, r) \in M!PartialMap(D, R)
           /\ \A S : M!Without(f, S) \in M!PartialMap(D, R)
<1>1. PICK d \in SUBSET D : f \in [d -> R]
  BY DEF M!PartialMap
<1>2. DOMAIN f = d /\ \A x \in d : f[x] \in R
  BY <1>1
<1>3. ASSUME NEW k \in D, NEW r \in R
      PROVE  M!Put(f, k, r) \in M!PartialMap(D, R)
  <2>1. M!Put(f, k, r) \in [d \union {k} -> R]
    BY <1>2, <1>3 DEF M!Put
  <2>2. d \union {k} \in SUBSET D
    BY <1>3
  <2> QED
    BY <2>1, <2>2 DEF M!PartialMap
<1>4. ASSUME NEW S
      PROVE  M!Without(f, S) \in M!PartialMap(D, R)
  <2> DEFINE e == {j \in d : f[j] \notin S}
  <2>1. M!Without(f, S) \in [e -> R]
    BY <1>2 DEF M!Without
  <2>2. e \in SUBSET D
    OBVIOUS
  <2> QED
    BY <2>1, <2>2 DEF M!PartialMap
<1> QED
  BY <1>2, <1>3, <1>4

LEMMA AddWithKeyFacts ==
    ASSUME NEW m \in M!Manager, NEW k \in Key, NEW r \in Resource
    PROVE  /\ M!AddWithKey(m, k, r) \in M!Manager
           /\ M!AddWithKey(m, k, r).conns = m.conns \union {r}
           /\ M!AddWithKey(m, k, r).byKey = M!Put(m.byKey, k, r)
           /\ M!AddWithKey(m, k, r).byFast = m.byFast
           /\ M!AddWithKey(m, k, r).level0 = m.level0
           /\ M!AddWithKey(m, k, r).zombies = m.zombies
           /\ M!AddWithKey(m, k, r).batch = m.batch
           /\ M!AddWithKey(m, k, r).pc = m.pc
<1>1. M!Put(m.byKey, k, r) \in M!PartialMap(Key, Resource)
  BY PartialMaps DEF M!Manager
<1> QED
  BY <1>1 DEF M!AddWithKey, M!Add, M!Manager

\* A resource the manager knows leaves the level-0 cache as it is.
LEMMA AddWithFastIdFacts ==
    ASSUME NEW m \in M!Manager, NEW a \in Addr, NEW r \in m.conns
    PROVE  /\ M!AddWithFastId(m, a, r) \in M!Manager
           /\ M!AddWithFastId(m, a, r).conns = m.conns
           /\ M!AddWithFastId(m, a, r).byKey = m.byKey
           /\ M!AddWithFastId(m, a, r).byFast = M!Put(m.byFast, a, r)
           /\ M!AddWithFastId(m, a, r).level0 = m.level0
           /\ M!AddWithFastId(m, a, r).zombies = m.zombies
           /\ M!AddWithFastId(m, a, r).batch = m.batch
           /\ M!AddWithFastId(m, a, r).pc = m.pc
<1>1. r \in Resource
  BY DEF M!Manager
<1>2. M!Put(m.byFast, a, r) \in M!PartialMap(Addr, Resource)
  BY <1>1, PartialMaps DEF M!Manager
<1> QED
  BY <1>1, <1>2 DEF M!AddWithFastId, M!Add, M!Manager

\* The items of the level-0 cache keep their type, and none becomes available.
LEMMA DrainedFacts ==
    ASSUME NEW item \in M!FastItem, NEW n \in Nat
    PROVE  /\ M!Drained(item, n) \in M!FastItem
           /\ M!Drained(item, n).available => item.available
<1>1. item.collisions - n \in Int
  BY DEF M!FastItem
<1> QED
  BY <1>1 DEF M!Drained, M!FastItem

LEMMA SameCardinality ==
    ASSUME NEW S
    PROVE  M!Cardinality(S) = Cardinality(S)
BY DEF M!Cardinality, Cardinality

\* Clearing: the zombies become the batch, and are found no more.
LEMMA ClearFacts ==
    ASSUME NEW m \in M!Manager
    PROVE  /\ M!Clear(m) \in M!Manager
           /\ M!Clear(m).conns = m.conns \ Range(m.zombies)
           /\ M!Clear(m).byKey = M!Without(m.byKey, Range(m.zombies))
           /\ M!Clear(m).byFast = M!Without(m.byFast, Range(m.zombies))
           /\ \A slot \in M!Slot : M!Clear(m).level0[slot].available
                                      => m.level0[slot].available
           /\ M!Clear(m).zombies = <<>> /\ M!Clear(m).batch = m.zombies
           /\ M!Clear(m).pc = "freeing"
<1> DEFINE R == Range(m.zombies)
           l == [slot \in M!Slot |->
                   M!Drained(m.level0[slot], M!Cardinality(M!Erased(m, R, slot)))]
<1>1. M!Without(m.byKey, R) \in M!PartialMap(Key, Resource)
  BY PartialMaps DEF M!Manager
<1>2. M!Without(m.byFast, R) \in M!PartialMap(Addr, Resource)
  BY PartialMaps DEF M!Manager
<1>3. ASSUME NEW slot \in M!Slot
      PROVE  l[slot] \in M!FastItem
             /\ (l[slot].available => m.level0[slot].available)
  <2>1. M!Erased(m, R, slot) \subseteq Addr
    BY PartialMaps DEF M!Erased, M!Manager
  <2>2. M!Cardinality(M!Erased(m, R, slot)) \in Nat
    BY <2>1, SameCardinality, ResourcesAssumption, FS_Subset, FS_CardinalityType
       DEF ResourcesAssumption
  <2>3. m.level0[slot] \in M!FastItem
    BY DEF M!Manager
  <2> QED
    BY <2>2, <2>3, DrainedFacts
<1>4. l \in [M!Slot -> M!FastItem]
  BY <1>3
<1>6. M!Clear(m) = [m EXCEPT
        !.conns = m.conns \ R, !.byKey = M!Without(m.byKey, R),
        !.byFast = M!Without(m.byFast, R), !.level0 = l, !.unsubs = {},
        !.batch = m.zombies, !.zombies = <<>>, !.pc = "freeing"]
  BY DEF M!Clear, M!Range, Range
<1>7. <<>> \in Seq(Resource) /\ m.zombies \in Seq(Resource)
  BY DEF M!Manager
<1>8. M!Clear(m) \in M!Manager
  BY <1>1, <1>2, <1>4, <1>6, <1>7 DEF M!Manager, M!ManagerPc
<1>9. /\ M!Clear(m).conns = m.conns \ R
      /\ M!Clear(m).byKey = M!Without(m.byKey, R)
      /\ M!Clear(m).byFast = M!Without(m.byFast, R)
      /\ M!Clear(m).level0 = l
      /\ M!Clear(m).zombies = <<>> /\ M!Clear(m).batch = m.zombies
      /\ M!Clear(m).pc = "freeing"
  BY <1>6 DEF M!Manager
<1> QED
  BY <1>3, <1>8, <1>9
-----------------------------------------------------------------------------
(***************************************************************************)
(* The inductive invariant.                                                *)
(***************************************************************************)

Zombies == Range(mgr.zombies)
Batch == Range(mgr.batch)

\* Nothing is queued twice, and no session before it exists.
QueueInv ==
    /\ IsInjective(mgr.zombies) /\ IsInjective(mgr.batch)
    /\ \A s \in Session :
          SessionOf(s) \in Zombies \union Batch => life[SessionOf(s)] # "unborn"

\* The life of a TCP connection: its executor is queued once its cycle ended,
\* its handle once the executor is freed.
TcpInv ==
    \A t \in Tcp :
        LET E == ExecutorOf(t)
            H == HandleOf(t)
        IN  /\ tcp[t].pc = "none" => life[E] = "unborn" /\ life[H] = "unborn"
            /\ tcp[t].pc \notin {"none", "done"} =>
                  life[E] = "alive" /\ life[H] = "alive"
            /\ tcp[t].pc = "done" => /\ life[E] \in {"alive", "freed"}
                                     /\ life[H] \in {"alive", "freed"}
            /\ life[H] = "freed" => life[E] = "freed"
            /\ tcp[t].running => tcp[t].pc \notin {"none", "done"}
            /\ E \in Zombies \union Batch => tcp[t].pc = "done" /\ life[E] = "alive"
            /\ H \in Zombies \union Batch => life[E] = "freed" /\ life[H] = "alive"
            /\ E \notin Zombies \intersect Batch
            /\ H \notin Zombies \intersect Batch

\* What is found is a session that exists and is not disposed of, under the
\* same address in both maps, and the level-0 cache is never used.
MapsInv ==
    /\ mgr.conns \subseteq {SessionOf(s) : s \in Session}
    /\ \A r \in mgr.conns : life[r] = "alive" /\ r \notin Batch
    /\ \A k \in DOMAIN mgr.byKey : mgr.byKey[k] \in mgr.conns
    /\ \A a \in Addr :
          /\ a \in DOMAIN mgr.byFast <=> PeerOf(a) \in DOMAIN mgr.byKey
          /\ a \in DOMAIN mgr.byFast => mgr.byFast[a] = mgr.byKey[PeerOf(a)]
    /\ \A slot \in M!Slot : ~mgr.level0[slot].available
    /\ \A s \in Session :
          /\ SessionOf(s) \in mgr.conns => \A a \in peers[s] :
                a \in DOMAIN mgr.byFast /\ mgr.byFast[a] = SessionOf(s)
          /\ life[SessionOf(s)] = "unborn" => peers[s] = {}

\* A session a TCP connection points at exists, and is not freed as long as its
\* network is owned by this connection.
PointerInv ==
    \A t \in Tcp : \A s \in tcp[t].session :
        /\ life[SessionOf(s)] # "unborn"
        /\ t \in owner[s] => ~Freed(s)

ResourcesInv ==
    ResourcesTypeOK /\ QueueInv /\ TcpInv /\ MapsInv /\ PointerInv

\* The kinds of resources, and of keys, are apart.
LEMMA Tags ==
    /\ \A s, r \in Session : SessionOf(s) = SessionOf(r) => s = r
    /\ \A t, u \in Tcp : /\ ExecutorOf(t) = ExecutorOf(u) => t = u
                         /\ HandleOf(t) = HandleOf(u) => t = u
                         /\ ExecutorOf(t) # HandleOf(u)
    /\ \A s \in Session, t \in Tcp : /\ SessionOf(s) # ExecutorOf(t)
                                     /\ SessionOf(s) # HandleOf(t)
    /\ \A a, b \in Addr : PeerOf(a) = PeerOf(b) => a = b
    /\ \A a \in Addr, s \in Session : PeerOf(a) # NameOf(s)
    /\ \A s \in Session : SessionOf(s) \in Resource /\ NameOf(s) \in Key
    /\ \A t \in Tcp : ExecutorOf(t) \in Resource /\ HandleOf(t) \in Resource
    /\ \A a \in Addr : PeerOf(a) \in Key
BY DEF SessionOf, ExecutorOf, HandleOf, PeerOf, NameOf, Resource, Key

LEMMA InitResourcesInv == ResourcesInit => ResourcesInv
<1> SUFFICES ASSUME ResourcesInit PROVE ResourcesInv
  OBVIOUS
<1> USE DEF ResourcesInit
<1>1. ASSUME NEW D, NEW R
      PROVE  M!NoMap \in M!PartialMap(D, R) /\ DOMAIN M!NoMap = {}
  <2>1. M!NoMap \in [{} -> R]
    BY DEF M!NoMap
  <2> QED
    BY <2>1 DEF M!PartialMap
<1>2. M!NoItem \in M!FastItem /\ ~M!NoItem.available
  BY DEF M!NoItem, M!FastItem
<1>3. /\ mgr \in M!Manager
      /\ mgr.zombies = <<>> /\ mgr.batch = <<>> /\ mgr.conns = {}
      /\ mgr.byKey = M!NoMap /\ mgr.byFast = M!NoMap
      /\ mgr.level0 = [slot \in M!Slot |-> M!NoItem]
  BY <1>1, <1>2 DEF M!NewManager, M!Manager, M!ManagerPc
<1>4. Zombies = {} /\ Batch = {} /\ IsInjective(<<>>)
  BY <1>3 DEF Zombies, Batch, Range, IsInjective
<1>5. \A t \in Tcp : /\ tcp[t].pc = "none" /\ tcp[t].session = {}
                     /\ tcp[t].running = FALSE /\ tcp[t] \in TcpRec
  BY DEF TcpRec
<1>6. ResourcesTypeOK
  BY <1>3, <1>5 DEF ResourcesTypeOK, Life
<1>7. QueueInv
  BY <1>3, <1>4 DEF QueueInv
<1>8. TcpInv
  BY <1>4, <1>5, Tags DEF TcpInv
<1>9. MapsInv
  BY <1>1, <1>2, <1>3 DEF MapsInv
<1>10. PointerInv
  BY <1>5 DEF PointerInv
<1> QED
  BY <1>6, <1>7, <1>8, <1>9, <1>10 DEF ResourcesInv

-----------------------------------------------------------------------------
(***************************************************************************)
(* What a step that leaves most of the state alone preserves.              *)
(***************************************************************************)

LEMMA MapsKept ==
    ASSUME MapsInv,
           mgr'.conns = mgr.conns, mgr'.byKey = mgr.byKey,
           mgr'.byFast = mgr.byFast, mgr'.level0 = mgr.level0,
           peers' = peers, Batch' \subseteq Batch,
           \A r \in mgr.conns : life'[r] = "alive",
           \A s \in Session : life'[SessionOf(s)] = "unborn"
                                => life[SessionOf(s)] = "unborn"
    PROVE  MapsInv'
BY DEF MapsInv

LEMMA PointersKept ==
    ASSUME PointerInv, owner' = owner,
           \A t \in Tcp : tcp'[t].session \subseteq tcp[t].session,
           \A s \in Session : /\ life[SessionOf(s)] # "unborn"
                                  => life'[SessionOf(s)] # "unborn"
                              /\ Freed(s)' => Freed(s),
           \A t \in Tcp : tcp[t].session \subseteq Session
    PROVE  PointerInv'
BY DEF PointerInv

LEMMA TcpKept ==
    ASSUME TcpInv,
           \A t \in Tcp : /\ tcp'[t].pc = tcp[t].pc
                          /\ tcp'[t].running = tcp[t].running
                          /\ life'[ExecutorOf(t)] = life[ExecutorOf(t)]
                          /\ life'[HandleOf(t)] = life[HandleOf(t)]
                          /\ \A r \in {ExecutorOf(t), HandleOf(t)} :
                                /\ r \in Zombies' => r \in Zombies \union Batch
                                /\ r \in Batch' => r \in Zombies \union Batch
                                /\ r \in Zombies' /\ r \in Batch'
                                      => r \in Zombies /\ r \in Batch
    PROVE  TcpInv'
BY DEF TcpInv

\* A coroutine that runs while the manager waits, and leaves it alone.
LEMMA ManagerKept ==
    ASSUME ResourcesInv, mgr' = mgr, life' = life, peers' = peers, owner' = owner,
           \A t \in Tcp : /\ tcp'[t].pc = tcp[t].pc
                              \/ {tcp[t].pc, tcp'[t].pc} \subseteq
                                    {"handshaking", "reading", "inside"}
                          /\ tcp'[t].running = tcp[t].running
                          /\ tcp'[t].session \subseteq tcp[t].session
    PROVE  mgr' \in M!Manager /\ QueueInv' /\ TcpInv' /\ MapsInv' /\ PointerInv'
<1>1. mgr \in M!Manager /\ \A t \in Tcp : tcp[t].session \subseteq Session
  BY DEF ResourcesInv, ResourcesTypeOK, TcpRec
<1>2. Zombies' = Zombies /\ Batch' = Batch
  BY DEF Zombies, Batch
<1>3. QueueInv'
  BY <1>2 DEF ResourcesInv, QueueInv
<1>4. TcpInv'
  BY <1>2 DEF ResourcesInv, TcpInv
<1>5. MapsInv'
  BY <1>2 DEF ResourcesInv, MapsInv
<1>6. PointerInv'
  BY <1>1, PointersKept DEF ResourcesInv, Freed
<1> QED
  BY <1>1, <1>3, <1>4, <1>5, <1>6

\* A coroutine that removes a session.
LEMMA SessionQueued ==
    ASSUME ResourcesInv, NEW s \in Session, life[SessionOf(s)] # "unborn",
           mgr' = M!Removed(mgr, SessionOf(s)),
           UNCHANGED <<life, peers, owner, tcp>>
    PROVE  mgr' \in M!Manager /\ QueueInv' /\ TcpInv' /\ MapsInv' /\ PointerInv'
<1>1. mgr \in M!Manager /\ \A t \in Tcp : tcp[t].session \subseteq Session
  BY DEF ResourcesInv, ResourcesTypeOK, TcpRec
<1>2. /\ SessionOf(s) \in Resource
      /\ \A t \in Tcp : SessionOf(s) \notin {ExecutorOf(t), HandleOf(t)}
      /\ \A r \in Session : SessionOf(r) = SessionOf(s) => r = s
  BY Tags
<1>3. IsInjective(mgr.zombies) /\ IsInjective(mgr.batch)
  BY DEF ResourcesInv, QueueInv
<1>4. /\ mgr' \in M!Manager
      /\ IsInjective(mgr'.zombies) /\ IsInjective(mgr'.batch)
      /\ Zombies' = Zombies \union {SessionOf(s)} /\ Batch' = Batch
      /\ mgr'.conns = mgr.conns /\ mgr'.byKey = mgr.byKey
      /\ mgr'.byFast = mgr.byFast /\ mgr'.level0 = mgr.level0
  BY <1>1, <1>2, <1>3, RemovedFacts DEF Zombies, Batch
<1>5. QueueInv'
  BY <1>4, <1>2 DEF ResourcesInv, QueueInv
<1>6. TcpInv'
  BY <1>4, <1>2, TcpKept DEF ResourcesInv
<1>7. MapsInv'
  BY <1>4, MapsKept DEF ResourcesInv, MapsInv
<1>8. PointerInv'
  BY <1>1, PointersKept DEF ResourcesInv, Freed
<1> QED
  BY <1>4, <1>5, <1>6, <1>7, <1>8

-----------------------------------------------------------------------------
(***************************************************************************)
(* What the finds answer.                                                  *)
(***************************************************************************)

LEMMA FindFacts ==
    ASSUME ResourcesInv
    PROVE  /\ \A k \in Key : M!FindByKey(mgr, k) \subseteq mgr.conns
           /\ \A a \in Addr :
                 /\ M!FindByFastId(mgr, a) = M!FindByKey(mgr, PeerOf(a))
                 /\ M!FindByFastId(mgr, a)
                       = {mgr.byFast[b] : b \in {a} \intersect DOMAIN mgr.byFast}
<1>1. mgr \in M!Manager /\ MapsInv
  BY DEF ResourcesInv, ResourcesTypeOK
<1>2. ASSUME NEW k \in Key
      PROVE  M!FindByKey(mgr, k) \subseteq mgr.conns
  BY <1>1 DEF M!FindByKey, MapsInv
<1>3. ASSUME NEW a \in Addr
      PROVE  /\ M!FindByFastId(mgr, a) = M!FindByKey(mgr, PeerOf(a))
             /\ M!FindByFastId(mgr, a)
                   = {mgr.byFast[b] : b \in {a} \intersect DOMAIN mgr.byFast}
  <2>1. M!SlotOf(a) \in M!Slot
    BY ResourcesAssumption DEF ResourcesAssumption, M!SlotOf, M!Slot
  <2>2. ~mgr.level0[M!SlotOf(a)].available
    BY <1>1, <2>1 DEF MapsInv
  <2>3. M!FindByFastId(mgr, a)
           = {mgr.byFast[b] : b \in {a} \intersect DOMAIN mgr.byFast}
    BY <2>2 DEF M!FindByFastId
  <2>4. M!FindByKey(mgr, PeerOf(a))
           = {mgr.byKey[j] : j \in {PeerOf(a)} \intersect DOMAIN mgr.byKey}
    BY DEF M!FindByKey
  <2>5. /\ a \in DOMAIN mgr.byFast <=> PeerOf(a) \in DOMAIN mgr.byKey
        /\ a \in DOMAIN mgr.byFast => mgr.byFast[a] = mgr.byKey[PeerOf(a)]
    BY <1>1 DEF MapsInv
  <2> QED
    BY <2>3, <2>4, <2>5
<1> QED
  BY <1>2, <1>3

\* A packet is given to a session that is neither freed nor disposed of.
LEMMA FoundFacts ==
    ASSUME ResourcesInv, NEW a \in Addr
    PROVE  /\ \A s \in Found(a) : /\ s \in Session /\ SessionOf(s) \in mgr.conns
                                  /\ life[SessionOf(s)] = "alive"
                                  /\ a \in DOMAIN mgr.byFast
                                  /\ mgr.byFast[a] = SessionOf(s)
           /\ a \in DOMAIN mgr.byFast => Found(a) # {}
<1>1. mgr \in M!Manager /\ MapsInv
  BY DEF ResourcesInv, ResourcesTypeOK
<1>2. Found(a) = SessionsIn({mgr.byFast[b] : b \in {a} \intersect DOMAIN mgr.byFast})
  BY FindFacts DEF Found
<1>3. a \in DOMAIN mgr.byFast => /\ mgr.byFast[a] \in mgr.conns
                                 /\ life[mgr.byFast[a]] = "alive"
  BY <1>1, Tags DEF MapsInv
<1>4. \A r \in mgr.conns : \E s \in Session : r = SessionOf(s)
  BY <1>1 DEF MapsInv
<1> QED
  BY <1>2, <1>3, <1>4 DEF SessionsIn
-----------------------------------------------------------------------------
(***************************************************************************)
(* The steps.                                                              *)
(***************************************************************************)

LEMMA CrashStep ==
    ASSUME ResourcesInv, Crash
    PROVE  ResourcesInv'
BY DEF ResourcesInv, ResourcesTypeOK, QueueInv, TcpInv, MapsInv, PointerInv,
       Crash, sessions, Zombies, Batch, Freed

\* The API, a timeout, or an alert.
LEMMA RemoveSessionStep ==
    ASSUME ResourcesInv, NEW s \in Session, life[SessionOf(s)] # "unborn",
           RemoveSession(s),
           UNCHANGED <<life, started, peers, owner, up, tcp, inside, crashed>>
    PROVE  ResourcesInv'
<1>1. mgr' \in M!Manager /\ QueueInv' /\ TcpInv' /\ MapsInv' /\ PointerInv'
  BY SessionQueued DEF RemoveSession
<1>2. disposing' \subseteq Session
  BY DEF RemoveSession, Told, ResourcesInv, ResourcesTypeOK
<1> QED
  BY <1>1, <1>2 DEF ResourcesInv, ResourcesTypeOK

LEMMA RemovalStep ==
    ASSUME ResourcesInv, NEW s \in Session,
           Kick(s) \/ Timeout(s) \/ \E a \in Addr : UdpAlert(a)
    PROVE  ResourcesInv'
<1>1. CASE Kick(s)
  BY <1>1, RemoveSessionStep DEF Kick
<1>2. CASE Timeout(s)
  BY <1>2, RemoveSessionStep DEF Timeout, ResourcesInv, MapsInv
<1>3. ASSUME NEW a \in Addr, UdpAlert(a)
      PROVE  ResourcesInv'
  BY <1>3, FoundFacts, RemoveSessionStep DEF UdpAlert
<1> QED
  BY <1>1, <1>2, <1>3

LEMMA CreateSessionStep ==
    ASSUME ResourcesInv, NEW s \in Session, CreateSession(s)
    PROVE  ResourcesInv'
<1> DEFINE r == SessionOf(s)
           m == M!Subscribe(mgr, r)
<1>1. /\ mgr \in M!Manager /\ life \in [Resource -> Life]
      /\ r \in Resource /\ NameOf(s) \in Key
      /\ \A t \in Tcp : tcp[t].session \subseteq Session
  BY Tags DEF ResourcesInv, ResourcesTypeOK, TcpRec
<1>2. /\ m \in M!Manager
      /\ m.zombies = mgr.zombies /\ m.batch = mgr.batch /\ m.pc = mgr.pc
      /\ m.conns = mgr.conns /\ m.byKey = mgr.byKey
      /\ m.byFast = mgr.byFast /\ m.level0 = mgr.level0
  BY <1>1, SubscribeFacts
<1>3. /\ mgr' \in M!Manager
      /\ mgr'.zombies = mgr.zombies /\ mgr'.batch = mgr.batch
      /\ mgr'.conns = mgr.conns \union {r}
      /\ mgr'.byKey = M!Put(mgr.byKey, NameOf(s), r)
      /\ mgr'.byFast = mgr.byFast /\ mgr'.level0 = mgr.level0
  <2>1. mgr' = M!AddWithKey(m, NameOf(s), r)
    BY DEF CreateSession
  <2> HIDE DEF m
  <2> QED
    BY <1>1, <1>2, <2>1, AddWithKeyFacts
<1>4. /\ life[r] = "unborn"
      /\ life' = [life EXCEPT ![r] = "alive"]
      /\ UNCHANGED <<disposing, started, peers, owner, up, tcp, inside, crashed>>
  BY DEF CreateSession, sessions
<1>5. Zombies' = Zombies /\ Batch' = Batch
  BY <1>3 DEF Zombies, Batch
<1>6. ResourcesTypeOK'
  BY <1>1, <1>3, <1>4 DEF ResourcesInv, ResourcesTypeOK, Life
<1>7. QueueInv'
  BY <1>1, <1>3, <1>4, <1>5, Tags DEF ResourcesInv, QueueInv
<1>8. TcpInv'
  BY <1>1, <1>4, <1>5, Tags, TcpKept DEF ResourcesInv
<1>9. MapsInv'
  <2>1. r \notin Batch /\ r \notin mgr.conns /\ peers[s] = {}
    BY <1>4 DEF ResourcesInv, QueueInv, MapsInv
  <2>2. \A q \in mgr'.conns : life'[q] = "alive" /\ q \notin Batch'
    BY <1>1, <1>3, <1>4, <1>5, <2>1 DEF ResourcesInv, MapsInv, M!Manager
  <2>3. mgr'.conns \subseteq {SessionOf(q) : q \in Session}
    BY <1>3 DEF ResourcesInv, MapsInv
  <2>4. \A k \in DOMAIN mgr'.byKey : mgr'.byKey[k] \in mgr'.conns
    BY <1>3 DEF ResourcesInv, MapsInv, M!Put
  <2>5. \A a \in Addr :
           /\ a \in DOMAIN mgr'.byFast <=> PeerOf(a) \in DOMAIN mgr'.byKey
           /\ a \in DOMAIN mgr'.byFast => mgr'.byFast[a] = mgr'.byKey[PeerOf(a)]
    BY <1>3, Tags DEF ResourcesInv, MapsInv, M!Put
  <2>6. ASSUME NEW q \in Session
        PROVE  /\ SessionOf(q) \in mgr'.conns => \A a \in peers'[q] :
                     a \in DOMAIN mgr'.byFast /\ mgr'.byFast[a] = SessionOf(q)
               /\ life'[SessionOf(q)] = "unborn" => peers'[q] = {}
    <3>1. CASE q = s
      BY <3>1, <1>4, <2>1
    <3>2. CASE q # s
      <4>1. SessionOf(q) # r /\ SessionOf(q) \in Resource
        BY <3>2, Tags
      <4> QED
        BY <1>1, <1>3, <1>4, <4>1 DEF ResourcesInv, MapsInv
    <3> QED
      BY <3>1, <3>2
  <2>7. \A slot \in M!Slot : ~mgr'.level0[slot].available
    BY <1>3 DEF ResourcesInv, MapsInv
  <2> HIDE DEF r
  <2> QED
    BY <2>2, <2>3, <2>4, <2>5, <2>6, <2>7 DEF MapsInv
<1>10. PointerInv'
  BY <1>1, <1>4, Tags, PointersKept DEF ResourcesInv, Freed
<1> QED
  BY <1>6, <1>7, <1>8, <1>9, <1>10 DEF ResourcesInv

LEMMA TcpAcceptStep ==
    ASSUME ResourcesInv, NEW t \in Tcp, TcpAccept(t)
    PROVE  ResourcesInv'
<1> DEFINE E == ExecutorOf(t)
           H == HandleOf(t)
<1>1. /\ mgr \in M!Manager /\ life \in [Resource -> Life]
      /\ tcp \in [Tcp -> TcpRec] /\ E \in Resource /\ H \in Resource
  BY Tags DEF ResourcesInv, ResourcesTypeOK
<1>2. /\ tcp[t].pc = "none" /\ mgr' = mgr
      /\ tcp' = [tcp EXCEPT ![t].pc = "handshaking", ![t].running = TRUE]
      /\ life' = [life EXCEPT ![E] = "alive", ![H] = "alive"]
      /\ UNCHANGED <<disposing, started, peers, owner, up, inside, crashed>>
  BY DEF TcpAccept, sessions
<1>3. Zombies' = Zombies /\ Batch' = Batch
  BY <1>2 DEF Zombies, Batch
<1>4. \A q \in Session : life'[SessionOf(q)] = life[SessionOf(q)]
  BY <1>1, <1>2, Tags
<1>5. /\ tcp' \in [Tcp -> TcpRec]
      /\ tcp'[t].pc = "handshaking" /\ tcp'[t].running = TRUE
      /\ tcp'[t].session = tcp[t].session
      /\ \A u \in Tcp : u # t => tcp'[u] = tcp[u]
  BY <1>1, <1>2 DEF TcpRec
<1>6. ResourcesTypeOK'
  BY <1>1, <1>2, <1>5 DEF ResourcesInv, ResourcesTypeOK, Life
<1>7. QueueInv'
  BY <1>2, <1>3, <1>4 DEF ResourcesInv, QueueInv
<1>8. TcpInv'
  <2>1. E \notin Zombies \union Batch /\ H \notin Zombies \union Batch
    BY <1>2 DEF ResourcesInv, TcpInv
  <2>2. life'[E] = "alive" /\ life'[H] = "alive"
    BY <1>1, <1>2
  <2>3. \A u \in Tcp : u # t => /\ life'[ExecutorOf(u)] = life[ExecutorOf(u)]
                                /\ life'[HandleOf(u)] = life[HandleOf(u)]
    BY <1>1, <1>2, Tags
  <2> HIDE DEF E, H
  <2>4. E = ExecutorOf(t) /\ H = HandleOf(t)
    BY DEF E, H
  <2> QED
    BY <1>3, <1>5, <2>1, <2>2, <2>3, <2>4 DEF ResourcesInv, TcpInv
<1>9. MapsInv'
  <2>1. \A r \in mgr.conns : life'[r] = life[r]
    BY <1>4 DEF ResourcesInv, MapsInv
  <2> QED
    BY <1>2, <1>3, <1>4, <2>1 DEF ResourcesInv, MapsInv
<1>10. PointerInv'
  <2>1. /\ \A u \in Tcp : /\ tcp'[u].session \subseteq tcp[u].session
                          /\ tcp[u].session \subseteq Session
    BY <1>1, <1>5 DEF TcpRec
  <2> QED
    BY <1>2, <1>4, <2>1, PointersKept DEF ResourcesInv, Freed
<1> QED
  BY <1>6, <1>7, <1>8, <1>9, <1>10 DEF ResourcesInv

LEMMA UdpBindingStep ==
    ASSUME ResourcesInv, NEW a \in Addr, NEW n \in Session, UdpBinding(a, n)
    PROVE  ResourcesInv'
<1>1. /\ mgr \in M!Manager /\ peers \in [Session -> SUBSET Addr]
      /\ PeerOf(a) \in Key /\ NameOf(n) \in Key
      /\ \A t \in Tcp : tcp[t].session \subseteq Session
  BY Tags DEF ResourcesInv, ResourcesTypeOK, TcpRec
<1>2. PICK d \in FoundOrNamed(a, n) :
          /\ peers' = [peers EXCEPT ![d] = @ \union {a}]
          /\ mgr' = IF a \in peers[d] THEN mgr
                    ELSE M!AddWithFastId(
                            M!AddWithKey(mgr, PeerOf(a), SessionOf(d)),
                            a, SessionOf(d))
          /\ inside' = Serving(d)
  BY DEF UdpBinding
<1>3. UNCHANGED <<life, disposing, started, owner, up, tcp, crashed>>
  BY DEF UdpBinding
<1>4. /\ d \in Session /\ SessionOf(d) \in mgr.conns
      /\ a \in DOMAIN mgr.byFast => mgr.byFast[a] = SessionOf(d)
  <2>1. CASE Found(a) # {}
    BY <1>2, <2>1, FoundFacts DEF FoundOrNamed
  <2>2. CASE Found(a) = {}
    BY <1>1, <1>2, <2>2, FoundFacts, FindFacts DEF FoundOrNamed, SessionsIn
  <2> QED
    BY <2>1, <2>2
<1>5. /\ mgr' \in M!Manager
      /\ mgr'.zombies = mgr.zombies /\ mgr'.batch = mgr.batch
      /\ mgr'.conns = mgr.conns /\ mgr'.level0 = mgr.level0
      /\ \/ mgr' = mgr /\ a \in peers[d]
         \/ /\ mgr'.byKey = M!Put(mgr.byKey, PeerOf(a), SessionOf(d))
            /\ mgr'.byFast = M!Put(mgr.byFast, a, SessionOf(d))
  <2>1. CASE a \in peers[d]
    BY <1>1, <1>2, <2>1
  <2>2. CASE a \notin peers[d]
    <3> DEFINE m == M!AddWithKey(mgr, PeerOf(a), SessionOf(d))
    <3>1. SessionOf(d) \in Resource
      BY <1>4, Tags
    <3>2. /\ m \in M!Manager /\ m.conns = mgr.conns
          /\ m.byKey = M!Put(mgr.byKey, PeerOf(a), SessionOf(d))
          /\ m.byFast = mgr.byFast /\ m.level0 = mgr.level0
          /\ m.zombies = mgr.zombies /\ m.batch = mgr.batch
      <4>1. mgr.conns \union {SessionOf(d)} = mgr.conns
        BY <1>4
      <4> QED
        BY <1>1, <3>1, <4>1, AddWithKeyFacts
    <3>3. mgr' = M!AddWithFastId(m, a, SessionOf(d))
      BY <1>2, <2>2
    <3> HIDE DEF m
    <3> QED
      BY <1>4, <3>2, <3>3, AddWithFastIdFacts
  <2> QED
    BY <2>1, <2>2
<1>6. Zombies' = Zombies /\ Batch' = Batch
  BY <1>5 DEF Zombies, Batch
<1>7. peers' \in [Session -> SUBSET Addr] /\ inside' \subseteq Call
  BY <1>1, <1>2, <1>4 DEF Serving, Call
<1>8. ResourcesTypeOK'
  BY <1>3, <1>5, <1>7 DEF ResourcesInv, ResourcesTypeOK
<1>9. QueueInv'
  BY <1>3, <1>5, <1>6 DEF ResourcesInv, QueueInv
<1>10. TcpInv'
  BY <1>3, <1>6 DEF ResourcesInv, TcpInv
<1>11. MapsInv'
  <2>1. \A k \in DOMAIN mgr'.byKey : mgr'.byKey[k] \in mgr'.conns
    BY <1>4, <1>5 DEF ResourcesInv, MapsInv, M!Put
  <2>2. \A b \in Addr :
           /\ b \in DOMAIN mgr'.byFast <=> PeerOf(b) \in DOMAIN mgr'.byKey
           /\ b \in DOMAIN mgr'.byFast => mgr'.byFast[b] = mgr'.byKey[PeerOf(b)]
    BY <1>5, Tags DEF ResourcesInv, MapsInv, M!Put
  <2>3. \A b \in Addr : b \in DOMAIN mgr.byFast =>
           b \in DOMAIN mgr'.byFast /\ mgr'.byFast[b] = mgr.byFast[b]
    BY <1>4, <1>5 DEF M!Put
  <2>4. a \in DOMAIN mgr'.byFast /\ mgr'.byFast[a] = SessionOf(d)
    BY <1>4, <1>5 DEF M!Put, ResourcesInv, MapsInv
  <2>5. life[SessionOf(d)] # "unborn"
    BY <1>4 DEF ResourcesInv, MapsInv
  <2>6. ASSUME NEW q \in Session
        PROVE  /\ SessionOf(q) \in mgr'.conns => \A b \in peers'[q] :
                     b \in DOMAIN mgr'.byFast /\ mgr'.byFast[b] = SessionOf(q)
               /\ life'[SessionOf(q)] = "unborn" => peers'[q] = {}
    <3>1. CASE q = d
      <4>1. peers'[d] = peers[d] \union {a}
        BY <1>1, <1>2, <1>4
      <4> QED
        BY <1>1, <1>3, <1>4, <1>5, <2>3, <2>4, <2>5, <3>1, <4>1
           DEF ResourcesInv, MapsInv
    <3>2. CASE q # d
      <4>1. peers'[q] = peers[q]
        BY <1>1, <1>2, <3>2
      <4> QED
        BY <1>1, <1>3, <1>5, <2>3, <4>1 DEF ResourcesInv, MapsInv
    <3> QED
      BY <3>1, <3>2
  <2> QED
    BY <1>3, <1>5, <1>6, <2>1, <2>2, <2>6 DEF ResourcesInv, MapsInv
<1>12. PointerInv'
  BY <1>1, <1>3, PointersKept DEF ResourcesInv, Freed
<1> QED
  BY <1>8, <1>9, <1>10, <1>11, <1>12 DEF ResourcesInv

\* What a packet starts, and what a call that returns started, is typed.
LEMMA CallFacts ==
    ASSUME ResourcesInv
    PROVE  /\ \A s \in Session : Calls(s) \subseteq Call /\ Serving(s) \subseteq Call
           /\ \A c \in Call : c.session \in Session
                              /\ \A S \in Starts(c) : S \subseteq Session
<1>1. \A s \in Session : Calls(s) \subseteq Call /\ Serving(s) \subseteq Call
  BY DEF Calls, Serving, Call
<1>2. \A c \in Call : c.session \in Session
  BY DEF Call
<1> QED
  BY <1>1, <1>2 DEF Starts

LEMMA UdpPacketStep ==
    ASSUME ResourcesInv, NEW a \in Addr, UdpPacket(a)
    PROVE  ResourcesInv'
<1>1. /\ inside' \subseteq Call
      /\ UNCHANGED <<mgr, life, disposing, started, peers, owner, up, tcp, crashed>>
  BY FoundFacts, CallFacts DEF UdpPacket, sessions
<1>2. mgr' \in M!Manager /\ QueueInv' /\ TcpInv' /\ MapsInv' /\ PointerInv'
  BY <1>1, ManagerKept
<1> QED
  BY <1>1, <1>2 DEF ResourcesInv, ResourcesTypeOK

LEMMA UdpDoneStep ==
    ASSUME ResourcesInv, UdpDone
    PROVE  ResourcesInv'
<1>1. PICK c \in inside :
        IF Freed(c.session) THEN Crash
        ELSE /\ inside' = {}
             /\ \E S \in Starts(c) : started' = started \union S
             /\ UNCHANGED <<mgr, life, disposing, peers, owner, up, tcp, crashed>>
  BY DEF UdpDone
<1>2. CASE Freed(c.session)
  BY <1>1, <1>2, CrashStep
<1>3. CASE ~Freed(c.session)
  <2>1. c \in Call
    BY DEF ResourcesInv, ResourcesTypeOK
  <2>2. started' \subseteq Session
    BY <1>1, <1>3, <2>1, CallFacts DEF ResourcesInv, ResourcesTypeOK
  <2>3. mgr' \in M!Manager /\ QueueInv' /\ TcpInv' /\ MapsInv' /\ PointerInv'
    BY <1>1, <1>3, ManagerKept
  <2> QED
    BY <1>1, <1>3, <2>2, <2>3 DEF ResourcesInv, ResourcesTypeOK
<1> QED
  BY <1>2, <1>3

\* The coroutine of a TCP connection enters or leaves a call of its session.
LEMMA TcpMoves ==
    ASSUME ResourcesInv, NEW t \in Tcp, tcp[t].pc \in {"reading", "inside"},
           NEW pc \in {"reading", "inside"}, NEW c \in SUBSET Call,
           tcp' = [tcp EXCEPT ![t].call = c, ![t].pc = pc],
           UNCHANGED <<mgr, life, peers, owner>>
    PROVE  /\ mgr' \in M!Manager /\ tcp' \in [Tcp -> TcpRec]
           /\ QueueInv' /\ TcpInv' /\ MapsInv' /\ PointerInv'
<1>1. tcp \in [Tcp -> TcpRec]
  BY DEF ResourcesInv, ResourcesTypeOK
<1>2. /\ tcp' \in [Tcp -> TcpRec]
      /\ tcp'[t].pc = pc /\ tcp'[t].running = tcp[t].running
      /\ tcp'[t].session = tcp[t].session
      /\ \A u \in Tcp : u # t => tcp'[u] = tcp[u]
  BY <1>1 DEF TcpRec
<1> QED
  BY <1>2, ManagerKept

LEMMA TcpPacketStep ==
    ASSUME ResourcesInv, NEW t \in Tcp, TcpPacket(t)
    PROVE  ResourcesInv'
<1>1. PICK s \in tcp[t].session :
          IF Freed(s) THEN Crash
          ELSE /\ \E c \in Calls(s) :
                     tcp' = [tcp EXCEPT ![t].call = {c}, ![t].pc = "inside"]
               /\ UNCHANGED <<mgr, life, sessions, inside, crashed>>
  BY DEF TcpPacket
<1>2. CASE Freed(s)
  BY <1>1, <1>2, CrashStep
<1>3. CASE ~Freed(s)
  <2>1. s \in Session /\ tcp[t].pc = "reading"
    BY DEF ResourcesInv, ResourcesTypeOK, TcpRec, TcpPacket
  <2>2. PICK c \in Calls(s) :
             tcp' = [tcp EXCEPT ![t].call = {c}, ![t].pc = "inside"]
    BY <1>1, <1>3
  <2>3. UNCHANGED <<mgr, life, disposing, started, peers, owner, up, inside, crashed>>
    BY <1>1, <1>3 DEF sessions
  <2>4. {c} \in SUBSET Call
    BY <2>1, CallFacts
  <2>5. /\ mgr' \in M!Manager /\ tcp' \in [Tcp -> TcpRec]
        /\ QueueInv' /\ TcpInv' /\ MapsInv' /\ PointerInv'
    BY <2>1, <2>2, <2>3, <2>4, TcpMoves
  <2> QED
    BY <2>3, <2>5 DEF ResourcesInv, ResourcesTypeOK
<1> QED
  BY <1>2, <1>3

LEMMA TcpDoneStep ==
    ASSUME ResourcesInv, NEW t \in Tcp, TcpDone(t)
    PROVE  ResourcesInv'
<1>1. PICK c \in tcp[t].call :
          IF Freed(c.session) THEN Crash
          ELSE /\ tcp' = [tcp EXCEPT ![t].call = {}, ![t].pc = "reading"]
               /\ \E S \in Starts(c) : started' = started \union S /\ up' = up \union S
               /\ UNCHANGED <<mgr, life, disposing, peers, owner, inside, crashed>>
  BY DEF TcpDone
<1>2. CASE Freed(c.session)
  BY <1>1, <1>2, CrashStep
<1>3. CASE ~Freed(c.session)
  <2>1. c \in Call /\ tcp[t].pc = "inside"
    BY DEF ResourcesInv, ResourcesTypeOK, TcpRec, TcpDone
  <2>2. started' \subseteq Session /\ up' \subseteq Session
    BY <1>1, <1>3, <2>1, CallFacts DEF ResourcesInv, ResourcesTypeOK
  <2>3. /\ {} \in SUBSET Call
        /\ tcp' = [tcp EXCEPT ![t].call = {}, ![t].pc = "reading"]
        /\ UNCHANGED <<mgr, life, disposing, peers, owner, inside, crashed>>
    BY <1>1, <1>3
  <2>4. /\ mgr' \in M!Manager /\ tcp' \in [Tcp -> TcpRec]
        /\ QueueInv' /\ TcpInv' /\ MapsInv' /\ PointerInv'
    BY <2>1, <2>3, TcpMoves
  <2> QED
    BY <2>2, <2>3, <2>4 DEF ResourcesInv, ResourcesTypeOK
<1> QED
  BY <1>2, <1>3

LEMMA TcpAlertStep ==
    ASSUME ResourcesInv, NEW t \in Tcp, TcpAlert(t)
    PROVE  ResourcesInv'
<1>1. PICK s \in tcp[t].session :
          IF Freed(s) THEN Crash
          ELSE /\ RemoveSession(s)
               /\ UNCHANGED <<life, started, peers, owner, up, tcp, inside, crashed>>
  BY DEF TcpAlert
<1>2. s \in Session /\ life[SessionOf(s)] # "unborn"
  BY DEF ResourcesInv, ResourcesTypeOK, TcpRec, PointerInv
<1> QED
  BY <1>1, <1>2, CrashStep, RemoveSessionStep

LEMMA TcpHandshakeStep ==
    ASSUME ResourcesInv, NEW t \in Tcp, NEW s \in Session, TcpHandshake(t, s)
    PROVE  ResourcesInv'
<1>1. /\ mgr \in M!Manager /\ tcp \in [Tcp -> TcpRec]
      /\ owner \in [Session -> SUBSET Tcp] /\ NameOf(s) \in Key
  BY Tags DEF ResourcesInv, ResourcesTypeOK
<1>2. /\ tcp[t].pc = "handshaking"
      /\ owner' = [owner EXCEPT ![s] = {t}]
      /\ tcp' = [tcp EXCEPT ![t].session = {s}, ![t].call = Serving(s),
                             ![t].pc = "inside"]
      /\ UNCHANGED <<mgr, life, disposing, started, peers, up, inside, crashed>>
  BY DEF TcpHandshake
<1>3. life[SessionOf(s)] = "alive"
  BY <1>1, FindFacts DEF TcpHandshake, SessionsIn, ResourcesInv, MapsInv
<1>4. /\ tcp' \in [Tcp -> TcpRec]
      /\ tcp'[t].pc = "inside" /\ tcp'[t].running = tcp[t].running
      /\ tcp'[t].session = {s}
      /\ \A u \in Tcp : u # t => tcp'[u] = tcp[u]
  BY <1>1, <1>2, CallFacts DEF TcpRec
<1>5. owner' \in [Session -> SUBSET Tcp]
  BY <1>1, <1>2
<1>6. Zombies' = Zombies /\ Batch' = Batch
  BY <1>2 DEF Zombies, Batch
<1>7. ResourcesTypeOK'
  BY <1>1, <1>2, <1>4, <1>5 DEF ResourcesInv, ResourcesTypeOK
<1>8. QueueInv'
  BY <1>2, <1>6 DEF ResourcesInv, QueueInv
<1>9. TcpInv'
  BY <1>2, <1>4, <1>6 DEF ResourcesInv, TcpInv
<1>10. MapsInv'
  BY <1>2, <1>6 DEF ResourcesInv, MapsInv
<1>11. PointerInv'
  <2>1. ASSUME NEW u \in Tcp, NEW q \in tcp'[u].session
        PROVE  /\ life[SessionOf(q)] # "unborn"
               /\ u \in owner'[q] => ~Freed(q)
    <3>1. CASE u = t
      BY <1>3, <1>4, <2>1, <3>1 DEF Freed
    <3>2. CASE u # t
      <4>1. q \in tcp[u].session /\ q \in Session
        BY <1>1, <1>4, <2>1, <3>2 DEF TcpRec
      <4>2. u \in owner'[q] => u \in owner[q]
        BY <1>1, <1>2, <3>2, <4>1
      <4> QED
        BY <4>1, <4>2 DEF ResourcesInv, PointerInv
    <3> QED
      BY <3>1, <3>2
  <2>2. life' = life
    BY <1>2
  <2> QED
    BY <2>1, <2>2 DEF PointerInv, Freed
<1> QED
  BY <1>7, <1>8, <1>9, <1>10, <1>11 DEF ResourcesInv

\* on_executor_done and the removals that follow: the executor was not queued,
\* for its coroutine ran.
LEMMA TcpEndStep ==
    ASSUME ResourcesInv, NEW t \in Tcp, TcpEnd(t)
    PROVE  ResourcesInv'
<1> DEFINE E == ExecutorOf(t)
<1>1. /\ mgr \in M!Manager /\ tcp \in [Tcp -> TcpRec] /\ up \subseteq Session
      /\ disposing \subseteq Session /\ E \in Resource
      /\ \A u \in Tcp : tcp[u].session \subseteq Session
      /\ IsInjective(mgr.zombies) /\ IsInjective(mgr.batch)
  BY Tags DEF ResourcesInv, ResourcesTypeOK, QueueInv, TcpRec
<1>2. CASE Crash
  BY <1>2, CrashStep
<1>3. CASE ~Crash
  <2>1. /\ tcp[t].pc \in {"handshaking", "reading"}
        /\ tcp' = [tcp EXCEPT ![t] = Done(@)]
        /\ UNCHANGED <<life, started, peers, owner, inside, crashed>>
    BY <1>3 DEF TcpEnd
  <2>2. /\ tcp' \in [Tcp -> TcpRec]
        /\ tcp'[t].pc = "done" /\ tcp'[t].running = FALSE
        /\ tcp'[t].session = tcp[t].session
        /\ \A u \in Tcp : u # t => tcp'[u] = tcp[u]
    BY <1>1, <2>1 DEF TcpRec, Done
  <2> DEFINE Queued ==
                 /\ mgr' \in M!Manager
                 /\ IsInjective(mgr'.zombies) /\ Batch' = Batch
                 /\ mgr'.batch = mgr.batch /\ mgr'.conns = mgr.conns
                 /\ mgr'.byKey = mgr.byKey /\ mgr'.byFast = mgr.byFast
                 /\ mgr'.level0 = mgr.level0
                 /\ \E S \in SUBSET tcp[t].session :
                       Zombies' = Zombies \union {E} \union {SessionOf(s) : s \in S}
                 /\ disposing' \subseteq Session /\ up' \subseteq Session
  <2>3. Queued
    <3>1. CASE mgr' = M!Removed(mgr, E) /\ UNCHANGED <<disposing, up>>
      <4>1. /\ mgr' \in M!Manager
            /\ IsInjective(mgr'.zombies) /\ mgr'.batch = mgr.batch
            /\ mgr'.conns = mgr.conns
            /\ mgr'.byKey = mgr.byKey /\ mgr'.byFast = mgr.byFast
            /\ mgr'.level0 = mgr.level0
            /\ Range(mgr'.zombies) = Range(mgr.zombies) \union {E}
        BY <1>1, <3>1, RemovedFacts
      <4>2. Zombies' = Zombies \union {E} \union {SessionOf(s) : s \in {}}
        BY <4>1 DEF Zombies
      <4> QED
        BY <1>1, <3>1, <4>1, <4>2 DEF Batch
    <3>2. ASSUME NEW s \in tcp[t].session \intersect up,
                 mgr' = M!Removed(M!Removed(mgr, SessionOf(s)), E),
                 disposing' = disposing \union Told(s), up' = up \ {s}
          PROVE  Queued
      <4> DEFINE n == M!Removed(mgr, SessionOf(s))
      <4>1. s \in Session /\ SessionOf(s) \in Resource
        BY <1>1, Tags
      <4>2. /\ n \in M!Manager
            /\ IsInjective(n.zombies) /\ n.batch = mgr.batch
            /\ n.conns = mgr.conns
            /\ n.byKey = mgr.byKey /\ n.byFast = mgr.byFast
            /\ n.level0 = mgr.level0
            /\ Range(n.zombies) = Range(mgr.zombies) \union {SessionOf(s)}
        BY <1>1, <4>1, RemovedFacts
      <4>3. mgr' = M!Removed(n, E)
        BY <3>2
      <4> HIDE DEF n
      <4>4. /\ mgr' \in M!Manager
            /\ IsInjective(mgr'.zombies) /\ mgr'.batch = mgr.batch
            /\ mgr'.conns = mgr.conns
            /\ mgr'.byKey = mgr.byKey /\ mgr'.byFast = mgr.byFast
            /\ mgr'.level0 = mgr.level0
            /\ Range(mgr'.zombies) = Range(n.zombies) \union {E}
        BY <1>1, <4>2, <4>3, RemovedFacts
      <4>5. Zombies' = Zombies \union {E} \union {SessionOf(q) : q \in {s}}
        BY <4>2, <4>4 DEF Zombies
      <4>6. disposing' \subseteq Session /\ up' \subseteq Session
        BY <1>1, <3>2, <4>1 DEF Told
      <4>7. {s} \in SUBSET tcp[t].session
        OBVIOUS
      <4>8. Batch' = Batch
        BY <4>4 DEF Batch
      <4> QED
        BY <4>4, <4>5, <4>6, <4>7, <4>8
    <3>3. \/ mgr' = M!Removed(mgr, E) /\ UNCHANGED <<disposing, up>>
          \/ \E s \in tcp[t].session \intersect up :
                /\ mgr' = M!Removed(M!Removed(mgr, SessionOf(s)), E)
                /\ disposing' = disposing \union Told(s) /\ up' = up \ {s}
      BY <1>3 DEF TcpEnd
    <3> HIDE DEF Queued
    <3> QED
      BY <3>1, <3>2, <3>3
  <2>4. PICK S \in SUBSET tcp[t].session :
              Zombies' = Zombies \union {E} \union {SessionOf(s) : s \in S}
    BY <2>3
  <2>5. \A s \in S : s \in Session /\ life[SessionOf(s)] # "unborn"
    BY <1>1 DEF ResourcesInv, PointerInv
  <2>6. ResourcesTypeOK'
    BY <2>1, <2>2, <2>3 DEF ResourcesInv, ResourcesTypeOK
  <2>7. QueueInv'
    <3>1. \A s \in Session : SessionOf(s) \in Zombies' => SessionOf(s) \in Zombies \/ s \in S
      BY <2>4, <2>5, Tags
    <3> QED
      BY <1>1, <2>1, <2>3, <2>5, <3>1 DEF ResourcesInv, QueueInv
  <2>8. TcpInv'
    <3>1. \A u \in Tcp : \A r \in {ExecutorOf(u), HandleOf(u)} :
             r # E => (r \in Zombies' => r \in Zombies)
      BY <2>4, <2>5, Tags
    <3>2. life[E] = "alive" /\ life[HandleOf(t)] = "alive" /\ E \notin Batch
      BY <2>1 DEF ResourcesInv, TcpInv
    <3>3. \A u \in Tcp : HandleOf(u) # E /\ (u # t => ExecutorOf(u) # E)
      BY Tags
    <3> HIDE DEF E
    <3>4. E = ExecutorOf(t)
      BY DEF E
    <3>5. ASSUME NEW u \in Tcp, u # t
          PROVE  /\ tcp'[u] = tcp[u]
                 /\ ExecutorOf(u) \in Zombies' => ExecutorOf(u) \in Zombies
                 /\ HandleOf(u) \in Zombies' => HandleOf(u) \in Zombies
      BY <2>2, <3>1, <3>3, <3>5
    <3>6. HandleOf(t) \notin Zombies' /\ HandleOf(t) \notin Batch
      BY <2>1, <3>1, <3>3, <3>2 DEF ResourcesInv, TcpInv
    <3> QED
      BY <2>1, <2>2, <2>3, <3>2, <3>4, <3>5, <3>6 DEF ResourcesInv, TcpInv
  <2>9. MapsInv'
    BY <2>1, <2>3, MapsKept DEF ResourcesInv, MapsInv
  <2>10. PointerInv'
    <3>1. \A u \in Tcp : tcp'[u].session \subseteq tcp[u].session
      BY <2>2
    <3> QED
      BY <1>1, <2>1, <3>1, PointersKept DEF ResourcesInv, Freed
  <2> QED
    BY <2>6, <2>7, <2>8, <2>9, <2>10 DEF ResourcesInv
<1> QED
  BY <1>2, <1>3

\* The zombies become the batch, and nobody finds them any more.
LEMMA ManagerLooksStep ==
    ASSUME ResourcesInv, ManagerLooks
    PROVE  ResourcesInv'
<1>1. /\ mgr \in M!Manager /\ mgr' = M!Turn(mgr)
      /\ UNCHANGED <<life, disposing, started, peers, owner, up, tcp, inside, crashed>>
      /\ \A t \in Tcp : tcp[t].session \subseteq Session
  BY DEF ResourcesInv, ResourcesTypeOK, TcpRec, ManagerLooks, sessions
<1>2. CASE mgr.zombies = <<>>
  <2>1. mgr' = [mgr EXCEPT !.pc = "waiting"]
    BY <1>1, <1>2 DEF M!Turn
  <2>2. /\ mgr' \in M!Manager
        /\ mgr'.zombies = mgr.zombies /\ mgr'.batch = mgr.batch
        /\ mgr'.conns = mgr.conns /\ mgr'.byKey = mgr.byKey
        /\ mgr'.byFast = mgr.byFast /\ mgr'.level0 = mgr.level0
    BY <1>1, <2>1 DEF M!Manager, M!ManagerPc
  <2>3. Zombies' = Zombies /\ Batch' = Batch
    BY <2>2 DEF Zombies, Batch
  <2>4. ResourcesTypeOK'
    BY <1>1, <2>2 DEF ResourcesInv, ResourcesTypeOK
  <2>5. QueueInv' /\ TcpInv'
    BY <1>1, <2>2, <2>3 DEF ResourcesInv, QueueInv, TcpInv
  <2>6. MapsInv' /\ PointerInv'
    BY <1>1, <2>2, <2>3 DEF ResourcesInv, MapsInv, PointerInv, Freed
  <2> QED
    BY <2>4, <2>5, <2>6 DEF ResourcesInv
<1>3. CASE mgr.zombies # <<>>
  <2>1. mgr' = M!Clear(mgr)
    BY <1>1, <1>3 DEF M!Turn
  <2>2. /\ mgr' \in M!Manager
        /\ mgr'.conns = mgr.conns \ Zombies
        /\ mgr'.byKey = M!Without(mgr.byKey, Zombies)
        /\ mgr'.byFast = M!Without(mgr.byFast, Zombies)
        /\ \A slot \in M!Slot :
              mgr'.level0[slot].available => mgr.level0[slot].available
        /\ mgr'.zombies = <<>> /\ mgr'.batch = mgr.zombies
    BY <1>1, <2>1, ClearFacts DEF Zombies
  <2>3. Zombies' = {} /\ Batch' = Zombies /\ IsInjective(<<>>)
    BY <2>2 DEF Zombies, Batch, Range, IsInjective
  <2>4. ResourcesTypeOK'
    BY <1>1, <2>2 DEF ResourcesInv, ResourcesTypeOK
  <2>5. QueueInv'
    BY <1>1, <2>2, <2>3 DEF ResourcesInv, QueueInv
  <2>6. TcpInv'
    BY <1>1, <2>3 DEF ResourcesInv, TcpInv
  <2>7. MapsInv'
    <3>1. mgr'.conns \subseteq {SessionOf(s) : s \in Session}
      BY <2>2 DEF ResourcesInv, MapsInv
    <3>2. \A r \in mgr'.conns : life'[r] = "alive" /\ r \notin Batch'
      BY <1>1, <2>2, <2>3 DEF ResourcesInv, MapsInv
    <3>3. \A k \in DOMAIN mgr'.byKey : mgr'.byKey[k] \in mgr'.conns
      BY <2>2 DEF ResourcesInv, MapsInv, M!Without
    <3>4. \A a \in Addr :
             /\ a \in DOMAIN mgr'.byFast <=> PeerOf(a) \in DOMAIN mgr'.byKey
             /\ a \in DOMAIN mgr'.byFast => mgr'.byFast[a] = mgr'.byKey[PeerOf(a)]
      BY <2>2 DEF ResourcesInv, MapsInv, M!Without
    <3>5. \A s \in Session :
             /\ SessionOf(s) \in mgr'.conns => \A a \in peers'[s] :
                   a \in DOMAIN mgr'.byFast /\ mgr'.byFast[a] = SessionOf(s)
             /\ life'[SessionOf(s)] = "unborn" => peers'[s] = {}
      BY <1>1, <2>2 DEF ResourcesInv, MapsInv, M!Without
    <3>6. \A slot \in M!Slot : ~mgr'.level0[slot].available
      BY <2>2 DEF ResourcesInv, MapsInv
    <3> QED
      BY <3>1, <3>2, <3>3, <3>4, <3>5, <3>6 DEF MapsInv
  <2>8. PointerInv'
    BY <1>1, PointersKept DEF ResourcesInv, Freed
  <2> QED
    BY <2>4, <2>5, <2>6, <2>7, <2>8 DEF ResourcesInv
<1> QED
  BY <1>2, <1>3

\* The destructor of a session: the session leaves the batch when it returns.
LEMMA FreeSessionStep ==
    ASSUME ResourcesInv, NEW s \in Session, FreeSession(s)
    PROVE  ResourcesInv'
<1> DEFINE r == SessionOf(s)
<1>1. /\ mgr \in M!Manager /\ life \in [Resource -> Life]
      /\ tcp \in [Tcp -> TcpRec] /\ r \in Resource
      /\ \A t \in Tcp : tcp[t].session \subseteq Session
      /\ IsInjective(mgr.batch) /\ mgr.batch # <<>> /\ Head(mgr.batch) = r
      /\ \A t \in Tcp : r \notin {ExecutorOf(t), HandleOf(t)}
  BY Tags DEF ResourcesInv, ResourcesTypeOK, QueueInv, TcpRec, FreeSession, IsNext
<1>2. r \in Batch /\ r \notin mgr.conns
  BY <1>1, FreedNextFacts DEF Batch, ResourcesInv, MapsInv
<1>3. CASE Crash
  BY <1>3, CrashStep
<1>4. CASE ~Crash
  <2>1. /\ UNCHANGED <<disposing, started, peers, owner, up, inside, crashed>>
        /\ life[r] \in {"alive", "dying"}
        /\ life' \in {[life EXCEPT ![r] = "dying"], [life EXCEPT ![r] = "freed"]}
    BY <1>4 DEF FreeSession, sessions
  <2>2. /\ life' \in [Resource -> Life]
        /\ life'[r] # "unborn"
        /\ \A q \in Resource : q # r => life'[q] = life[q]
    BY <1>1, <2>1 DEF Life
  <2>3. \/ tcp' = tcp /\ life'[r] # "freed"
        \/ FreeNetworks(s)
    BY <1>1, <1>4 DEF FreeSession
  <2>4. \A t \in Tcp :
           /\ tcp'[t] \in TcpRec
           /\ tcp'[t].pc = tcp[t].pc /\ tcp'[t].running = tcp[t].running
           /\ tcp'[t].session \subseteq tcp[t].session
           /\ t \in owner[s] /\ life'[r] = "freed" => tcp'[t].session = {}
    <3>1. CASE tcp' = tcp /\ life'[r] # "freed"
      BY <1>1, <3>1
    <3>2. CASE FreeNetworks(s)
      BY <1>1, <3>2 DEF FreeNetworks, Interrupted, TcpRec
    <3> QED
      BY <2>3, <3>1, <3>2
  <2>5. tcp' \in [Tcp -> TcpRec]
    <3>1. CASE tcp' = tcp
      BY <1>1, <3>1
    <3>2. CASE FreeNetworks(s)
      BY <2>4, <3>2 DEF FreeNetworks
    <3> QED
      BY <2>3, <3>1, <3>2
  <2>6. /\ mgr' \in M!Manager
        /\ IsInjective(mgr'.batch)
        /\ mgr'.zombies = mgr.zombies
        /\ Zombies' = Zombies /\ Batch' \subseteq Batch
        /\ mgr'.conns = mgr.conns /\ mgr'.byKey = mgr.byKey
        /\ mgr'.byFast = mgr.byFast /\ mgr'.level0 = mgr.level0
    <3> DEFINE n == M!Unsubscribe(mgr, r)
    <3>1. /\ n \in M!Manager
          /\ n.zombies = mgr.zombies /\ n.batch = mgr.batch
          /\ n.conns = mgr.conns /\ n.byKey = mgr.byKey
          /\ n.byFast = mgr.byFast /\ n.level0 = mgr.level0
      BY <1>1, SubscribeFacts
    <3>2. mgr' \in {n, M!FreedNext(n), M!FreedNext(mgr)}
      BY <1>4 DEF FreeSession
    <3> HIDE DEF n
    <3>3. ASSUME NEW m \in {n, mgr}, mgr' = M!FreedNext(m)
          PROVE  <2>6
      <4>1. /\ m \in M!Manager /\ m.batch = mgr.batch
            /\ m.zombies = mgr.zombies
            /\ m.conns = mgr.conns /\ m.byKey = mgr.byKey
            /\ m.byFast = mgr.byFast /\ m.level0 = mgr.level0
        BY <1>1, <3>1
      <4> QED
        BY <1>1, <3>3, <4>1, FreedNextFacts DEF Zombies, Batch
    <3>4. CASE mgr' = n
      BY <1>1, <3>1, <3>4 DEF Zombies, Batch
    <3> QED
      BY <3>2, <3>3, <3>4
  <2>7. ResourcesTypeOK'
    BY <2>1, <2>2, <2>5, <2>6 DEF ResourcesInv, ResourcesTypeOK
  <2>8. QueueInv'
    <3>1. \A q \in Session : life'[SessionOf(q)] = "unborn" => life[SessionOf(q)] = "unborn"
      BY <2>2, Tags
    <3> QED
      BY <2>6, <3>1 DEF ResourcesInv, QueueInv
  <2>9. TcpInv'
    <3>1. \A t \in Tcp : /\ life'[ExecutorOf(t)] = life[ExecutorOf(t)]
                         /\ life'[HandleOf(t)] = life[HandleOf(t)]
      BY <1>1, <2>2, Tags
    <3> QED
      BY <2>4, <2>6, <3>1, TcpKept DEF ResourcesInv
  <2>10. MapsInv'
    <3>1. \A q \in mgr.conns : life'[q] = "alive"
      BY <1>1, <1>2, <2>2 DEF ResourcesInv, MapsInv, M!Manager
    <3>2. \A q \in Session : life'[SessionOf(q)] = "unborn" => life[SessionOf(q)] = "unborn"
      BY <2>2, Tags
    <3> QED
      BY <2>1, <2>6, <3>1, <3>2, MapsKept DEF ResourcesInv
  <2>11. PointerInv'
    <3>1. ASSUME NEW t \in Tcp, NEW q \in tcp'[t].session
          PROVE  /\ life'[SessionOf(q)] # "unborn"
                 /\ t \in owner[q] => life'[SessionOf(q)] # "freed"
      <4>1. q \in tcp[t].session /\ q \in Session
        BY <1>1, <2>4, <3>1
      <4>2. CASE q = s
        BY <2>2, <2>4, <3>1, <4>2
      <4>3. CASE q # s
        <5>1. life'[SessionOf(q)] = life[SessionOf(q)]
          BY <2>2, <4>1, <4>3, Tags
        <5> QED
          BY <4>1, <5>1 DEF ResourcesInv, PointerInv, Freed
      <4> QED
        BY <4>2, <4>3
    <3> QED
      BY <2>1, <3>1 DEF PointerInv, Freed
  <2> QED
    BY <2>7, <2>8, <2>9, <2>10, <2>11 DEF ResourcesInv
<1> QED
  BY <1>3, <1>4

\* The destructor of an executor removes the handle, which was not queued.
LEMMA FreeExecutorStep ==
    ASSUME ResourcesInv, NEW t \in Tcp, FreeExecutor(t)
    PROVE  ResourcesInv'
<1> DEFINE E == ExecutorOf(t)
           H == HandleOf(t)
           n == M!FreedNext(mgr)
<1>1. /\ mgr \in M!Manager /\ life \in [Resource -> Life]
      /\ E \in Resource /\ H \in Resource
      /\ \A u \in Tcp : tcp[u].session \subseteq Session
      /\ IsInjective(mgr.zombies) /\ IsInjective(mgr.batch)
      /\ mgr.batch # <<>> /\ Head(mgr.batch) = E
  BY Tags DEF ResourcesInv, ResourcesTypeOK, QueueInv, TcpRec, FreeExecutor, IsNext
<1>2. /\ n \in M!Manager /\ E \in Batch
      /\ IsInjective(n.batch) /\ Range(n.batch) = Batch \ {E}
      /\ n.zombies = mgr.zombies /\ n.conns = mgr.conns
      /\ n.byKey = mgr.byKey /\ n.byFast = mgr.byFast /\ n.level0 = mgr.level0
  BY <1>1, FreedNextFacts DEF Batch
<1>3. /\ E \notin Zombies /\ tcp[t].pc = "done" /\ life[E] = "alive"
      /\ H \notin Zombies \union Batch /\ life[H] = "alive"
  BY <1>2 DEF ResourcesInv, TcpInv
<1>4. /\ life' = [life EXCEPT ![E] = "freed"] /\ mgr' = M!Removed(n, H)
      /\ UNCHANGED <<disposing, started, peers, owner, up, tcp, inside, crashed>>
  BY <1>3 DEF FreeExecutor, sessions
<1> HIDE DEF n
<1>5. /\ mgr' \in M!Manager
      /\ IsInjective(mgr'.zombies) /\ IsInjective(mgr'.batch)
      /\ Zombies' = Zombies \union {H} /\ Batch' = Batch \ {E}
      /\ mgr'.conns = mgr.conns /\ mgr'.byKey = mgr.byKey
      /\ mgr'.byFast = mgr.byFast /\ mgr'.level0 = mgr.level0
  BY <1>1, <1>2, <1>4, RemovedFacts DEF Zombies, Batch
<1>6. /\ life' \in [Resource -> Life] /\ life'[E] = "freed"
      /\ \A q \in Resource : q # E => life'[q] = life[q]
  BY <1>1, <1>4 DEF Life
<1>7. \A s \in Session : /\ life'[SessionOf(s)] = life[SessionOf(s)]
                         /\ SessionOf(s) # H /\ SessionOf(s) # E
  BY <1>6, Tags
<1>8. ResourcesTypeOK'
  BY <1>4, <1>5, <1>6 DEF ResourcesInv, ResourcesTypeOK
<1>9. QueueInv'
  BY <1>5, <1>7 DEF ResourcesInv, QueueInv
<1>10. TcpInv'
  <2>1. ASSUME NEW u \in Tcp, u # t
        PROVE  /\ ExecutorOf(u) \notin {E, H} /\ HandleOf(u) \notin {E, H}
               /\ life'[ExecutorOf(u)] = life[ExecutorOf(u)]
               /\ life'[HandleOf(u)] = life[HandleOf(u)]
    BY <1>6, <2>1, Tags
  <2>2. E # H /\ life'[H] = "alive"
    BY <1>1, <1>3, <1>6, Tags
  <2> HIDE DEF E, H
  <2>3. E = ExecutorOf(t) /\ H = HandleOf(t)
    BY DEF E, H
  <2> QED
    BY <1>3, <1>4, <1>5, <1>6, <2>1, <2>2, <2>3 DEF ResourcesInv, TcpInv
<1>11. MapsInv'
  BY <1>4, <1>5, <1>7, MapsKept DEF ResourcesInv, MapsInv
<1>12. PointerInv'
  BY <1>1, <1>4, <1>7, PointersKept DEF ResourcesInv, Freed
<1> QED
  BY <1>8, <1>9, <1>10, <1>11, <1>12 DEF ResourcesInv

LEMMA FreeHandleStep ==
    ASSUME ResourcesInv, NEW t \in Tcp, FreeHandle(t)
    PROVE  ResourcesInv'
<1> DEFINE E == ExecutorOf(t)
           H == HandleOf(t)
<1>1. /\ mgr \in M!Manager /\ life \in [Resource -> Life]
      /\ E \in Resource /\ H \in Resource
      /\ \A u \in Tcp : tcp[u].session \subseteq Session
      /\ IsInjective(mgr.batch) /\ mgr.batch # <<>> /\ Head(mgr.batch) = H
  BY Tags DEF ResourcesInv, ResourcesTypeOK, QueueInv, TcpRec, FreeHandle, IsNext
<1>2. /\ H \in Batch /\ M!FreedNext(mgr) \in M!Manager
      /\ IsInjective(M!FreedNext(mgr).batch)
      /\ Range(M!FreedNext(mgr).batch) = Batch \ {H}
      /\ M!FreedNext(mgr).zombies = mgr.zombies
      /\ M!FreedNext(mgr).conns = mgr.conns
      /\ M!FreedNext(mgr).byKey = mgr.byKey
      /\ M!FreedNext(mgr).byFast = mgr.byFast
      /\ M!FreedNext(mgr).level0 = mgr.level0
  BY <1>1, FreedNextFacts DEF Batch
<1>3. /\ H \notin Zombies /\ life[H] = "alive" /\ life[E] = "freed"
      /\ E \notin Zombies \union Batch
  BY <1>2 DEF ResourcesInv, TcpInv
<1>4. /\ life' = [life EXCEPT ![H] = "freed"] /\ mgr' = M!FreedNext(mgr)
      /\ UNCHANGED <<disposing, started, peers, owner, up, tcp, inside, crashed>>
  BY <1>3 DEF FreeHandle, sessions
<1>5. /\ mgr' \in M!Manager /\ IsInjective(mgr'.batch)
      /\ mgr'.zombies = mgr.zombies
      /\ Zombies' = Zombies /\ Batch' = Batch \ {H}
      /\ mgr'.conns = mgr.conns /\ mgr'.byKey = mgr.byKey
      /\ mgr'.byFast = mgr.byFast /\ mgr'.level0 = mgr.level0
  BY <1>2, <1>4 DEF Zombies, Batch
<1>6. /\ life' \in [Resource -> Life] /\ life'[H] = "freed"
      /\ \A q \in Resource : q # H => life'[q] = life[q]
  BY <1>1, <1>4 DEF Life
<1>7. \A s \in Session : life'[SessionOf(s)] = life[SessionOf(s)]
  BY <1>6, Tags
<1>8. ResourcesTypeOK'
  BY <1>4, <1>5, <1>6 DEF ResourcesInv, ResourcesTypeOK
<1>9. QueueInv'
  BY <1>5, <1>7 DEF ResourcesInv, QueueInv
<1>10. TcpInv'
  <2>1. ASSUME NEW u \in Tcp, u # t
        PROVE  /\ life'[ExecutorOf(u)] = life[ExecutorOf(u)]
               /\ life'[HandleOf(u)] = life[HandleOf(u)]
    BY <1>6, <2>1, Tags
  <2>2. life'[E] = life[E]
    BY <1>1, <1>6, Tags
  <2> HIDE DEF E, H
  <2>3. E = ExecutorOf(t) /\ H = HandleOf(t)
    BY DEF E, H
  <2> QED
    BY <1>3, <1>4, <1>5, <1>6, <2>1, <2>2, <2>3 DEF ResourcesInv, TcpInv
<1>11. MapsInv'
  BY <1>4, <1>5, <1>7, MapsKept DEF ResourcesInv, MapsInv
<1>12. PointerInv'
  BY <1>1, <1>4, <1>7, PointersKept DEF ResourcesInv, Freed
<1> QED
  BY <1>8, <1>9, <1>10, <1>11, <1>12 DEF ResourcesInv
-----------------------------------------------------------------------------
LEMMA NextResourcesInv ==
    ResourcesInv /\ [ResourcesNext]_vars => ResourcesInv'
<1> SUFFICES ASSUME ResourcesInv, [ResourcesNext]_vars
             PROVE  ResourcesInv'
  OBVIOUS
<1>1. CASE UNCHANGED vars
  BY <1>1 DEF vars, ResourcesInv, ResourcesTypeOK, QueueInv, TcpInv, MapsInv,
              PointerInv, Zombies, Batch, Freed
<1>2. CASE Others
  <2>1. \A s \in Session : CreateSession(s) \/ Kick(s) \/ Timeout(s) => ResourcesInv'
    BY CreateSessionStep, RemovalStep
  <2>2. \A a \in Addr : UdpPacket(a) => ResourcesInv'
    BY UdpPacketStep
  <2>3. \A a \in Addr : UdpAlert(a) => ResourcesInv'
    BY RemovalStep DEF UdpAlert, Found, SessionsIn
  <2>4. \A a \in Addr, s \in Session : UdpBinding(a, s) => ResourcesInv'
    BY UdpBindingStep
  <2>5. UdpDone => ResourcesInv'
    BY UdpDoneStep
  <2>6. \A t \in Tcp : TcpAccept(t) \/ TcpPacket(t) \/ TcpDone(t)
                          \/ TcpAlert(t) \/ TcpEnd(t) => ResourcesInv'
    BY TcpAcceptStep, TcpPacketStep, TcpDoneStep, TcpAlertStep, TcpEndStep
  <2>7. \A t \in Tcp, s \in Session : TcpHandshake(t, s) => ResourcesInv'
    BY TcpHandshakeStep
  <2> QED
    BY <1>2, <2>1, <2>2, <2>3, <2>4, <2>5, <2>6, <2>7 DEF Others
<1>3. CASE ManagerLooks
  BY <1>3, ManagerLooksStep
<1>4. CASE ManagerFrees
  BY <1>4, FreeSessionStep, FreeExecutorStep, FreeHandleStep DEF ManagerFrees
<1> QED
  BY <1>1, <1>2, <1>3, <1>4 DEF ResourcesNext

LEMMA InvariantResources == ResourcesSpec => []ResourcesInv
<1> QED
  BY InitResourcesInv, NextResourcesInv, PTL DEF ResourcesSpec

\* The manager, the sessions and the connections keep their types.
THEOREM ResourcesTypeCorrect == ResourcesSpec => []ResourcesTypeOK
<1>1. ResourcesInv => ResourcesTypeOK
  BY DEF ResourcesInv
<1> QED
  BY <1>1, InvariantResources, PTL

\* No object is a zombie twice, and an executor or a handle is queued only
\* while it exists, in one queue: nothing of a TCP connection is freed twice.
THEOREM QueuedOnce == ResourcesSpec => []EachFreedOnce
<1>1. ResourcesInv => EachFreedOnce
  <2> SUFFICES ASSUME ResourcesInv PROVE EachFreedOnce
    OBVIOUS
  <2>1. IsInjective(mgr.zombies) /\ IsInjective(mgr.batch)
    BY DEF ResourcesInv, QueueInv
  <2>2. ASSUME NEW t \in Tcp, NEW r \in {ExecutorOf(t), HandleOf(t)}
        PROVE  /\ r \in Zombies \union Batch => Alive(r)
               /\ r \notin Zombies \intersect Batch
    BY DEF ResourcesInv, TcpInv, Alive
  <2> QED
    BY <2>1, <2>2 DEF EachFreedOnce, Zombies, Batch
<1> QED
  BY <1>1, InvariantResources, PTL

\* The finds of the manager answer what lives and is not disposed of, the two
\* maps and the cache agree, and a session is found by each address it learned.
THEOREM LookupsAreExact == ResourcesSpec => []LookupsExact
<1>1. ResourcesInv => LookupsExact
  <2> SUFFICES ASSUME ResourcesInv PROVE LookupsExact
    OBVIOUS
  <2>1. \A r \in mgr.conns : Alive(r)
    BY DEF ResourcesInv, MapsInv, Alive
  <2>2. ASSUME NEW s \in Session, SessionOf(s) \in mgr.conns, NEW a \in peers[s]
        PROVE  Found(a) = {s}
    <3>1. /\ a \in Addr /\ a \in DOMAIN mgr.byFast /\ mgr.byFast[a] = SessionOf(s)
      BY <2>2 DEF ResourcesInv, ResourcesTypeOK, MapsInv
    <3>2. \A q \in Found(a) : q = s
      BY <3>1, FoundFacts, Tags
    <3> QED
      BY <3>1, <3>2, FoundFacts
  <2> QED
    BY <2>1, <2>2, FindFacts DEF LookupsExact
<1> QED
  BY <1>1, InvariantResources, PTL

\* A TCP connection that owns the network of a session never points at freed
\* memory: the session clears the pointer before it is freed.
THEOREM PointersStayAlive == ResourcesSpec => []PointersAlive
<1>1. ResourcesInv => PointersAlive
  BY DEF ResourcesInv, TcpInv, PointerInv, PointersAlive
<1> QED
  BY <1>1, InvariantResources, PTL
=============================================================================
