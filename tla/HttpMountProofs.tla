--------------------------- MODULE HttpMountProofs ---------------------------
(***************************************************************************)
(* Proofs about HttpMount, for any number of streams and viewers.          *)
(*                                                                         *)
(* The argument: the queue holds each disposing entry once (QueueOK), so   *)
(* the entry of the running task is disposing; nothing mounts a disposing  *)
(* entry, so it stays disabled while its task runs (EnabledOK), and no     *)
(* viewer can enter it between the poll that finds it empty and its end.   *)
(***************************************************************************)
EXTENDS HttpMount, TLAPS

QueueOK ==
    /\ \A u \in Url : entry[u] = "disposing" <=>
           \E i \in 1..Len(destroyQ) : destroyQ[i] = u
    /\ \A i, j \in 1..Len(destroyQ) : destroyQ[i] = destroyQ[j] => i = j

EnabledOK ==
    /\ running => destroyQ # <<>> /\ ~enabled[Head(destroyQ)]
    /\ \A u \in Url : enabled[u] => entry[u] \in {"mounted", "disposing"}

\* The inductive invariant.
HttpInv ==
    HttpTypeOK /\ QueueOK /\ EnabledOK /\ ViewersHaveEntry /\ MountedIsEnabled

-----------------------------------------------------------------------------
LEMMA HttpInitInv == HttpInit => HttpInv
<1> SUFFICES ASSUME HttpInit PROVE HttpInv
    OBVIOUS
<1>1. HttpTypeOK
    <2>1. entry \in [Url -> EntryState]
        BY DEF HttpInit, EntryState
    <2>2. enabled \in [Url -> BOOLEAN] /\ running \in BOOLEAN /\ up \in BOOLEAN
        BY DEF HttpInit
    <2>3. destroyQ \in Seq(Url)
        BY DEF HttpInit
    <2>4. viewers \in [Url -> SUBSET Viewer]
        BY DEF HttpInit
    <2> QED BY <2>1, <2>2, <2>3, <2>4 DEF HttpTypeOK
<1>2. QueueOK
    <2>1. Len(destroyQ) = 0 /\ 1..Len(destroyQ) = {}
        BY DEF HttpInit
    <2> QED BY <2>1 DEF HttpInit, QueueOK
<1>3. EnabledOK /\ ViewersHaveEntry /\ MountedIsEnabled
    BY DEF HttpInit, EnabledOK, ViewersHaveEntry, MountedIsEnabled
<1> QED BY <1>1, <1>2, <1>3 DEF HttpInv

\* http_mount, alone or by dynamic_match for a viewer that enters: a stream that
\* is not disposing is mounted, or left as it is.
LEMMA MountedInv ==
    ASSUME HttpInv, NEW u \in Url, entry[u] # "disposing",
           UNCHANGED <<destroyQ, running, up>>,
           \/ Mounted(u)
           \/ UNCHANGED <<entry, enabled>>
           \/ /\ viewers[u] = {}
              /\ entry' = [entry EXCEPT ![u] = "unhandled"]
              /\ entry[u] = "none" /\ UNCHANGED enabled,
           viewers' \in [Url -> SUBSET Viewer],
           \A w \in Url : \/ viewers'[w] = viewers[w]
                          \/ w = u /\ entry'[u] = "mounted"
    PROVE  HttpInv'
<1> USE DEF HttpInv
<1>1. /\ destroyQ' = destroyQ /\ running' = running /\ up' = up
      /\ \A w \in Url \ {u} : /\ entry'[w] = entry[w]
                              /\ enabled'[w] = enabled[w]
      /\ \/ entry'[u] = "mounted" /\ enabled'[u] = TRUE
         \/ entry'[u] = entry[u] /\ enabled'[u] = enabled[u]
         \/ /\ entry'[u] = "unhandled" /\ entry[u] = "none"
            /\ viewers[u] = {} /\ enabled'[u] = enabled[u]
      /\ entry'[u] # "disposing"
    BY DEF Mounted, HttpTypeOK
<1>2. HttpTypeOK'
    BY <1>1 DEF HttpTypeOK, Mounted, EntryState
<1>3. QueueOK'
    BY <1>1 DEF QueueOK
<1>4. EnabledOK'
    <2>1. running => Head(destroyQ) # u /\ Head(destroyQ) \in Url
        <3> SUFFICES ASSUME running
                     PROVE  Head(destroyQ) # u /\ Head(destroyQ) \in Url
            OBVIOUS
        <3>1. destroyQ # <<>> /\ destroyQ \in Seq(Url)
            BY DEF EnabledOK, HttpTypeOK
        <3>2. Head(destroyQ) = destroyQ[1] /\ 1 \in 1..Len(destroyQ)
            BY <3>1
        <3>3. destroyQ[1] \in Url
            BY <3>1, <3>2
        <3> QED BY <3>2, <3>3, <1>1 DEF QueueOK
    <2> QED BY <2>1, <1>1 DEF EnabledOK
<1>5. ViewersHaveEntry' /\ MountedIsEnabled'
    BY <1>1 DEF ViewersHaveEntry, MountedIsEnabled
<1> QED BY <1>2, <1>3, <1>4, <1>5

\* http_mount, when it returns and when it fails.
LEMMA MountInv ==
    ASSUME HttpInv, NEW u \in Url, Mount(u) \/ MountError(u),
           UNCHANGED <<destroyQ, running, viewers, up>>
    PROVE  HttpInv'
<1>1. viewers' \in [Url -> SUBSET Viewer]
    BY DEF HttpInv, HttpTypeOK
<1>2. CASE entry[u] = "disposing"
    <2>1. UNCHANGED httpVars
        BY <1>2 DEF Mount, MountError, httpVars
    <2> QED BY <2>1 DEF httpVars, HttpInv, HttpTypeOK, QueueOK, EnabledOK,
                        ViewersHaveEntry, MountedIsEnabled
<1>3. CASE entry[u] # "disposing"
    <2>1. entry[u] = "none" => viewers[u] = {}
        BY DEF HttpInv, ViewersHaveEntry
    <2>2. \/ Mounted(u)
          \/ UNCHANGED <<entry, enabled>>
          \/ /\ viewers[u] = {}
             /\ entry' = [entry EXCEPT ![u] = "unhandled"]
             /\ entry[u] = "none" /\ UNCHANGED enabled
        BY <1>3, <2>1 DEF Mount, MountError
    <2> QED BY <1>1, <1>3, <2>2, MountedInv
<1> QED BY <1>2, <1>3

\* The server ends: nothing but up changes.
LEMMA CrashInv ==
    ASSUME HttpInv, up' = FALSE,
           UNCHANGED <<entry, enabled, destroyQ, running, viewers>>
    PROVE  HttpInv'
BY DEF HttpInv, HttpTypeOK, QueueOK, EnabledOK, ViewersHaveEntry,
       MountedIsEnabled

LEMMA UnmountInv ==
    ASSUME HttpInv, NEW u \in Url, Unmount(u)
    PROVE  HttpInv'
<1> USE DEF HttpInv
<1>1. CASE entry[u] \notin {"unhandled", "mounted"}
    BY <1>1 DEF Unmount, HttpTypeOK, QueueOK, EnabledOK, ViewersHaveEntry,
                MountedIsEnabled
<1>2. CASE entry[u] \in {"unhandled", "mounted"}
    <2>1. /\ entry' = [entry EXCEPT ![u] = "disposing"]
          /\ destroyQ' = Append(destroyQ, u)
          /\ enabled' = enabled /\ running' = running /\ viewers' = viewers
          /\ up' = up
        BY <1>2 DEF Unmount
    <2>2. HttpTypeOK'
        BY <2>1 DEF HttpTypeOK, EntryState
    <2>3. /\ destroyQ \in Seq(Url)
          /\ Len(destroyQ') = Len(destroyQ) + 1
          /\ \A i \in 1..Len(destroyQ) : destroyQ'[i] = destroyQ[i]
          /\ destroyQ'[Len(destroyQ) + 1] = u
          /\ \A i \in 1..Len(destroyQ) : destroyQ[i] # u
        BY <1>2, <2>1 DEF HttpTypeOK, QueueOK
    <2>4. QueueOK'
        <3>1. \A w \in Url : entry'[w] = "disposing" <=>
                  \E i \in 1..Len(destroyQ') : destroyQ'[i] = w
            <4> SUFFICES ASSUME NEW w \in Url
                         PROVE  entry'[w] = "disposing" <=>
                                \E i \in 1..Len(destroyQ') : destroyQ'[i] = w
                OBVIOUS
            <4>1. CASE w = u
                BY <4>1, <2>1, <2>3 DEF HttpTypeOK
            <4>2. CASE w # u
                <5>1. entry'[w] = entry[w]
                    BY <4>2, <2>1 DEF HttpTypeOK
                <5>2. (\E i \in 1..Len(destroyQ) : destroyQ[i] = w) <=>
                      (\E i \in 1..Len(destroyQ') : destroyQ'[i] = w)
                    BY <4>2, <2>3
                <5> QED BY <5>1, <5>2 DEF QueueOK
            <4> QED BY <4>1, <4>2
        <3>2. \A i, j \in 1..Len(destroyQ') :
                  destroyQ'[i] = destroyQ'[j] => i = j
            BY <2>3 DEF QueueOK
        <3> QED BY <3>1, <3>2 DEF QueueOK
    <2>5. EnabledOK'
        <3>1. running => destroyQ # <<>> /\ Head(destroyQ') = Head(destroyQ)
            BY <2>1, <2>3 DEF EnabledOK
        <3>2. destroyQ' # <<>>
            BY <2>3
        <3> QED BY <2>1, <3>1, <3>2 DEF EnabledOK, HttpTypeOK
    <2>6. ViewersHaveEntry' /\ MountedIsEnabled'
        BY <2>1 DEF ViewersHaveEntry, MountedIsEnabled, HttpTypeOK
    <2> QED BY <2>2, <2>4, <2>5, <2>6
<1> QED BY <1>1, <1>2

\* The stream of the first task is disposing.
LEMMA HeadIsDisposing ==
    ASSUME HttpInv, destroyQ # <<>>
    PROVE  /\ Head(destroyQ) \in Url
           /\ entry[Head(destroyQ)] = "disposing"
           /\ Head(destroyQ) = destroyQ[1]
           /\ 1 \in 1..Len(destroyQ)
<1>1. destroyQ \in Seq(Url)
    BY DEF HttpInv, HttpTypeOK
<1>2. Head(destroyQ) = destroyQ[1] /\ 1 \in 1..Len(destroyQ)
    BY <1>1
<1>3. destroyQ[1] \in Url
    BY <1>1, <1>2
<1> QED BY <1>2, <1>3 DEF HttpInv, QueueOK

LEMMA StartDestroyInv ==
    ASSUME HttpInv, StartDestroy
    PROVE  HttpInv'
<1> DEFINE h == Head(destroyQ)
<1>1. /\ destroyQ # <<>> /\ running' = TRUE
      /\ enabled' = [enabled EXCEPT ![h] = FALSE]
      /\ entry' = entry /\ destroyQ' = destroyQ /\ viewers' = viewers
      /\ up' = up
    BY DEF StartDestroy
<1>2. h \in Url /\ entry[h] = "disposing"
    BY <1>1, HeadIsDisposing
<1>3. HttpTypeOK'
    BY <1>1 DEF HttpInv, HttpTypeOK
<1>4. QueueOK' /\ ViewersHaveEntry'
    BY <1>1 DEF HttpInv, QueueOK, ViewersHaveEntry
<1>5. EnabledOK' /\ MountedIsEnabled'
    BY <1>1, <1>2
    DEF HttpInv, HttpTypeOK, EnabledOK, MountedIsEnabled
<1> QED BY <1>3, <1>4, <1>5 DEF HttpInv

LEMMA FinishDestroyInv ==
    ASSUME HttpInv, FinishDestroy
    PROVE  HttpInv'
<1> DEFINE h == Head(destroyQ)
<1>1. /\ running /\ viewers[h] = {} /\ running' = FALSE
      /\ entry' = [entry EXCEPT ![h] = "none"]
      /\ destroyQ' = Tail(destroyQ)
      /\ enabled' = enabled /\ viewers' = viewers /\ up' = up
    BY DEF FinishDestroy
<1>2. /\ destroyQ # <<>> /\ ~enabled[h]
      /\ h \in Url /\ entry[h] = "disposing" /\ h = destroyQ[1]
    BY <1>1, HeadIsDisposing DEF HttpInv, EnabledOK
<1>3. /\ destroyQ \in Seq(Url)
      /\ destroyQ' \in Seq(Url)
      /\ Len(destroyQ') = Len(destroyQ) - 1
      /\ \A i \in 1..Len(destroyQ') : destroyQ'[i] = destroyQ[i + 1]
      /\ \A i \in 1..Len(destroyQ) : i # 1 => destroyQ[i] # h
    BY <1>1, <1>2 DEF HttpInv, HttpTypeOK, QueueOK
<1>4. HttpTypeOK'
    BY <1>1, <1>3 DEF HttpInv, HttpTypeOK, EntryState
<1>5. QueueOK'
    <2>1. \A w \in Url : entry'[w] = "disposing" <=>
              \E i \in 1..Len(destroyQ') : destroyQ'[i] = w
        <3> SUFFICES ASSUME NEW w \in Url
                     PROVE  entry'[w] = "disposing" <=>
                            \E i \in 1..Len(destroyQ') : destroyQ'[i] = w
            OBVIOUS
        <3>1. CASE w = h
            BY <3>1, <1>1, <1>2, <1>3 DEF HttpInv, HttpTypeOK
        <3>2. CASE w # h
            <4>1. entry'[w] = entry[w]
                BY <3>2, <1>1 DEF HttpInv, HttpTypeOK
            <4>2. ASSUME NEW i \in 1..Len(destroyQ), destroyQ[i] = w
                  PROVE  i - 1 \in 1..Len(destroyQ') /\ destroyQ'[i - 1] = w
                BY <3>2, <4>2, <1>2, <1>3
            <4>3. ASSUME NEW i \in 1..Len(destroyQ'), destroyQ'[i] = w
                  PROVE  i + 1 \in 1..Len(destroyQ) /\ destroyQ[i + 1] = w
                BY <4>3, <1>3
            <4> QED BY <4>1, <4>2, <4>3 DEF HttpInv, QueueOK
        <3> QED BY <3>1, <3>2
    <2>2. \A i, j \in 1..Len(destroyQ') :
              destroyQ'[i] = destroyQ'[j] => i = j
        <3> SUFFICES ASSUME NEW i \in 1..Len(destroyQ'),
                            NEW j \in 1..Len(destroyQ'),
                            destroyQ'[i] = destroyQ'[j]
                     PROVE  i = j
            OBVIOUS
        <3>1. /\ i + 1 \in 1..Len(destroyQ) /\ j + 1 \in 1..Len(destroyQ)
              /\ destroyQ[i + 1] = destroyQ[j + 1]
            BY <1>3
        <3>2. i + 1 = j + 1
            BY <3>1 DEF HttpInv, QueueOK
        <3> QED BY <3>2
    <2> QED BY <2>1, <2>2 DEF QueueOK
<1>6. EnabledOK'
    BY <1>1, <1>2 DEF HttpInv, HttpTypeOK, EnabledOK
<1>7. ViewersHaveEntry' /\ MountedIsEnabled'
    BY <1>1, <1>2
    DEF HttpInv, HttpTypeOK, ViewersHaveEntry, MountedIsEnabled
<1> QED BY <1>4, <1>5, <1>6, <1>7 DEF HttpInv

LEMMA ViewerInv ==
    ASSUME HttpInv, NEW u \in Url, NEW v \in Viewer,
           ViewerEnter(v, u) \/ ViewerLeave(v, u)
    PROVE  HttpInv'
<1>1. viewers' \in [Url -> SUBSET Viewer]
    BY DEF HttpInv, HttpTypeOK, ViewerEnter, ViewerLeave
<1>2. \A w \in Url : w # u => viewers'[w] = viewers[w]
    BY DEF HttpInv, HttpTypeOK, ViewerEnter, ViewerLeave
<1>3. CASE ViewerEnter(v, u) /\ ~enabled[u]
    <2>1. /\ Mount(u) /\ u \in RemuxUrl
          /\ UNCHANGED <<destroyQ, running, up>>
        BY <1>3 DEF ViewerEnter
    <2>2. entry[u] # "disposing" /\ Mounted(u) /\ entry'[u] = "mounted"
        BY <2>1 DEF Mount, Mounted, HttpInv, HttpTypeOK
    <2> QED BY <1>1, <1>2, <2>1, <2>2, MountedInv
<1>4. CASE ViewerEnter(v, u) /\ enabled[u]
    <2>1. UNCHANGED <<entry, enabled, destroyQ, running, up>>
        BY <1>4 DEF ViewerEnter
    <2>2. entry[u] \in {"mounted", "disposing"}
        BY <1>4 DEF HttpInv, EnabledOK
    <2> QED BY <1>1, <1>2, <2>1, <2>2
            DEF HttpInv, HttpTypeOK, QueueOK, EnabledOK, ViewersHaveEntry,
                MountedIsEnabled
<1>5. CASE ViewerLeave(v, u)
    <2>1. /\ UNCHANGED <<entry, enabled, destroyQ, running, up>>
          /\ viewers[u] # {}
        BY <1>5 DEF ViewerLeave
    <2> QED BY <1>1, <1>2, <2>1
            DEF HttpInv, HttpTypeOK, QueueOK, EnabledOK, ViewersHaveEntry,
                MountedIsEnabled
<1> QED BY <1>3, <1>4, <1>5

LEMMA HttpNextInv == HttpInv /\ [HttpNext]_httpVars => HttpInv'
<1> SUFFICES ASSUME HttpInv, [HttpNext]_httpVars PROVE HttpInv'
    OBVIOUS
<1>1. ASSUME NEW u \in Url, Mount(u) \/ MountError(u),
             UNCHANGED <<destroyQ, running, viewers, up>>
      PROVE  HttpInv'
    BY <1>1, MountInv
<1>2. ASSUME NEW u \in Url, Unmount(u) PROVE HttpInv'
    BY <1>2, UnmountInv
<1>3. CASE StartDestroy
    BY <1>3, StartDestroyInv
<1>4. CASE FinishDestroy
    BY <1>4, FinishDestroyInv
<1>5. CASE DestroyGivesUp
    BY <1>5, CrashInv DEF DestroyGivesUp
<1>6. ASSUME NEW u \in Url, MountCrash(u) PROVE HttpInv'
    BY <1>6, CrashInv DEF MountCrash
<1>7. ASSUME NEW u \in Url, ViewerRefused(u) PROVE HttpInv'
    BY <1>1, <1>6, <1>7 DEF ViewerRefused
<1>8. ASSUME NEW u \in Url, NEW v \in Viewer,
             ViewerEnter(v, u) \/ ViewerLeave(v, u)
      PROVE  HttpInv'
    BY <1>8, ViewerInv
<1>9. CASE UNCHANGED httpVars
    BY <1>9 DEF httpVars, HttpInv, HttpTypeOK, QueueOK, EnabledOK,
                ViewersHaveEntry, MountedIsEnabled
<1> QED BY <1>1, <1>2, <1>3, <1>4, <1>5, <1>6, <1>7, <1>8, <1>9
        DEF HttpNext, DestroyStep

-----------------------------------------------------------------------------
\* The invariant holds in every reachable state.
THEOREM HttpInvariance == HttpInit /\ [][HttpNext]_httpVars => []HttpInv
BY HttpInitInv, HttpNextInv, PTL

LEMMA InvImplies ==
    HttpInv => /\ HttpTypeOK
               /\ OneDestroyPerEntry
               /\ ViewersHaveEntry
               /\ MountedIsEnabled
BY DEF HttpInv, QueueOK, OneDestroyPerEntry, QueuedFor

\* A disposing entry has exactly one destroy task, and no other entry has any.
THEOREM DestroyedOnce == HttpSpec => []OneDestroyPerEntry
BY HttpInvariance, InvImplies, PTL DEF HttpSpec

\* ~SrsLiveStream never finds a viewer in the stream it frees.
THEOREM NoViewerOfFreedEntry == HttpSpec => []ViewersHaveEntry
BY HttpInvariance, InvImplies, PTL DEF HttpSpec

\* A mounted entry can always be matched.
THEOREM MountedCanBeMatched == HttpSpec => []MountedIsEnabled
BY HttpInvariance, InvImplies, PTL DEF HttpSpec

\* Every variable keeps its type, whatever the streams, tasks and viewers.
THEOREM HttpTypeCorrect == HttpSpec => []HttpTypeOK
BY HttpInvariance, InvImplies, PTL DEF HttpSpec
=============================================================================
