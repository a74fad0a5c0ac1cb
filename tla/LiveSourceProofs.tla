-------------------------- MODULE LiveSourceProofs --------------------------
(***************************************************************************)
(* Proofs about LiveSource, for any number of sessions, players, viewers,  *)
(* sources and streams.                                                    *)
(*                                                                         *)
(* The argument: a publish connection holds the token of its URL from the  *)
(* moment it fetches its source until it leaves (TokenHeld), so at most    *)
(* one connection per URL is inside.  A feeding connection wrote its id in *)
(* its source and closed it to publishing, and only itself opens it again  *)
(* (FeederOwnsSource), because a source is given afresh only when no       *)
(* connection refers to it.                                                *)
(***************************************************************************)
EXTENDS LiveSource, HttpMountProofs

\* What the safety invariants need of the shape of the state.
ShapeOK ==
    /\ tokens \in [Url -> Session \cup {None}]
    /\ pool \in [Url -> Source \cup {None}]
    /\ live \in [Source -> SourceRec]
    /\ pub \in [Session -> PubRec]
    /\ cli \in [Client -> CliRec]
    /\ \A s \in Session : pub[s].pc # "idle" =>
           pub[s].url \in Url /\ pub[s].src \in Source
    /\ \A c \in Client : cli[c].pc # "idle" => cli[c].url \in Url
    /\ \A c \in Player : cli[c].pc # "idle" => cli[c].src \in Source
    /\ \A c \in Client : cli[c].pc = "playing" => cli[c].src \in Source

\* The inductive invariant.
LiveInv == ShapeOK /\ TokenHeld /\ FeederOwnsSource

(***************************************************************************)
(* Which streams a connection asks for plays no part in the proofs: the    *)
(* next-state relation they work with lets it ask for any of them.         *)
(***************************************************************************)
AnyPubStep(s) ==
    \/ \E u \in Url, x \in Source : StartCycle(s, u, x)
    \/ PublishRejected(s)
    \/ AcquirePublish(s)
    \/ HubFails(s)
    \/ MountFails(s)
    \/ MountCrashes(s)
    \/ Published(s)
    \/ EndPublishing(s)
    \/ KickedForIdle(s)
    \/ BeginUnpublish(s)
    \/ FinishUnpublish(s)
    \/ EndCycle(s)

AnyPlayerStep(c) ==
    \/ \E u \in Url, x \in Source : PlayerFetch(c, u, x)
    \/ PlayerRejected(c)
    \/ PlayerStart(c)
    \/ PlayerStop(c)
    \/ PlayerLeft(c)

RefusedStep ==
    /\ \E u \in Url : ViewerRefused(u)
    /\ UNCHANGED <<tokens, pool, live, pub, cli>>

AnyViewerStep(c) ==
    \/ \E u \in Url : ViewerRequest(c, u)
    \/ \E x \in Source : ViewerStart(c, x)
    \/ ViewerQuit(c)
    \/ RefusedStep

AnyCleanup == \E u \in Url : CleanupTick(u)

AnyNext ==
    \/ \E s \in Session : AnyPubStep(s)
    \/ \E c \in Player : AnyPlayerStep(c)
    \/ \E c \in Viewer : AnyViewerStep(c)
    \/ \E x \in Source : DelayElapses(x)
    \/ AnyCleanup
    \/ WorkerStep

LEMMA NextIsAny ==
    ASSUME LiveNext
    PROVE  up /\ AnyNext
<1>1. ASSUME NEW s \in Session, PubStep(s) PROVE AnyPubStep(s)
    <2>1. Asks[s] \subseteq Url
        BY AsksAssumption
    <2> QED BY <1>1, <2>1 DEF PubStep, AnyPubStep
<1>2. ASSUME NEW c \in Player, PlayerStep(c) PROVE AnyPlayerStep(c)
    <2>1. Asks[c] \subseteq Url
        BY AsksAssumption DEF Client
    <2> QED BY <1>2, <2>1 DEF PlayerStep, AnyPlayerStep
<1>3. ASSUME NEW c \in Viewer, ViewerStep(c) PROVE AnyViewerStep(c)
    <2>1. Asks[c] \subseteq Url
        BY AsksAssumption DEF Client
    <2> QED BY <1>3, <2>1 DEF ViewerStep, AnyViewerStep, RefusedStep
<1> QED BY <1>1, <1>2, <1>3 DEF LiveNext, AnyNext, AnyCleanup

-----------------------------------------------------------------------------
\* The sources after a fetch are well typed, and a source some connection
\* refers to is left alone.
LEMMA FetchedSafe ==
    ASSUME ShapeOK, NEW u \in Url, NEW x \in Source, Fetchable(u, x)
    PROVE  /\ Fetched(u, x) \in [Source -> SourceRec]
           /\ \A s \in Session : pub[s].src \in Source =>
                  Fetched(u, x)[pub[s].src] = live[pub[s].src]
BY DEF ShapeOK, Fetchable, Fetched, Unreferenced, NewSource, SourceRec

LEMMA InitInv == LiveInit => LiveInv
<1> SUFFICES ASSUME LiveInit PROVE LiveInv
    OBVIOUS
<1>1. /\ \A s \in Session : pub[s] = Gone
      /\ \A c \in Client : cli[c] = Gone
    BY DEF LiveInit
<1>2. ShapeOK
    <2>1. tokens \in [Url -> Session \cup {None}]
        BY DEF LiveInit, TokenInit
    <2>2. pool \in [Url -> Source \cup {None}]
        BY DEF LiveInit
    <2>3. live \in [Source -> SourceRec]
        BY DEF LiveInit, NewSource, SourceRec
    <2>4. Gone \in PubRec /\ Gone \in CliRec
        BY DEF Gone, PubRec, CliRec, PubPc, CliPc
    <2>5. pub \in [Session -> PubRec] /\ cli \in [Client -> CliRec]
        BY <2>4 DEF LiveInit
    <2> QED BY <1>1, <2>1, <2>2, <2>3, <2>5 DEF ShapeOK, Gone, Client
<1>3. TokenHeld /\ FeederOwnsSource
    BY <1>1 DEF TokenHeld, FeederOwnsSource, Feeding, Gone
<1> QED BY <1>2, <1>3 DEF LiveInv

\* Two connections that hold a token are on different streams.
LEMMA OneInsidePerUrl ==
    ASSUME TokenHeld, NEW s \in Session, NEW t \in Session, s # t,
           pub[s].pc # "idle", pub[t].pc # "idle"
    PROVE  pub[s].url # pub[t].url
BY DEF TokenHeld

\* A connection that leaves gives back its own token only.
LEMMA LeaveCycleInv ==
    ASSUME ShapeOK, TokenHeld, NEW s \in Session, pub[s].pc # "idle",
           LeaveCycle(s)
    PROVE  /\ tokens' \in [Url -> Session \cup {None}]
           /\ pub' \in [Session -> PubRec]
           /\ pub'[s] = Gone
           /\ \A t \in Session : t # s => pub'[t] = pub[t]
           /\ TokenHeld'
<1>1. Gone \in PubRec
    BY DEF Gone, PubRec, PubPc
<1>2. /\ pub' \in [Session -> PubRec]
      /\ pub'[s] = Gone
      /\ \A t \in Session : t # s => pub'[t] = pub[t]
    BY <1>1 DEF LeaveCycle, ShapeOK
<1>3. tokens' \in [Url -> Session \cup {None}]
    BY DEF LeaveCycle, ReleaseToken, ShapeOK
<1>4. TokenHeld'
    <2> SUFFICES ASSUME NEW t \in Session, pub'[t].pc # "idle"
                 PROVE  tokens'[pub'[t].url] = t
        BY DEF TokenHeld
    <2>1. t # s /\ pub'[t] = pub[t]
        BY <1>2 DEF Gone
    <2>2. pub[t].url # pub[s].url
        BY <2>1, OneInsidePerUrl
    <2>3. pub[t].url \in Url /\ tokens[pub[t].url] = t
        BY <2>1 DEF TokenHeld, ShapeOK
    <2> QED BY <2>1, <2>2, <2>3 DEF LeaveCycle, ReleaseToken, ShapeOK
<1> QED BY <1>2, <1>3, <1>4

-----------------------------------------------------------------------------
(***************************************************************************)
(* Every step preserves the invariant.                                     *)
(***************************************************************************)
LEMMA StartCycleInv ==
    ASSUME LiveInv, NEW s \in Session, NEW u \in Url, NEW x \in Source,
           StartCycle(s, u, x)
    PROVE  LiveInv'
<1> USE DEF LiveInv
<1> DEFINE r == [pc |-> "hooks", url |-> u, src |-> x]
<1>1. /\ pub[s].pc = "idle"
      /\ tokens[u] = None
      /\ tokens' = [tokens EXCEPT ![u] = s]
      /\ Fetchable(u, x)
      /\ pool' = [pool EXCEPT ![u] = x]
      /\ live' = Fetched(u, x)
      /\ pub' = [pub EXCEPT ![s] = r]
      /\ cli' = cli
    BY DEF StartCycle, AcquireToken, FetchOrCreate
<1>2. /\ live' \in [Source -> SourceRec]
      /\ \A t \in Session : pub[t].src \in Source =>
             live'[pub[t].src] = live[pub[t].src]
    BY <1>1, FetchedSafe
<1>3. r \in PubRec
    BY DEF PubRec, PubPc
<1> HIDE DEF r
<1>4. /\ pub' \in [Session -> PubRec]
      /\ pub'[s] = r
      /\ \A t \in Session : t # s => pub'[t] = pub[t]
    BY <1>1, <1>3 DEF ShapeOK
<1>5. r.pc = "hooks" /\ r.url = u /\ r.src = x
    BY DEF r
<1>6. ShapeOK'
    BY <1>1, <1>2, <1>4, <1>5 DEF ShapeOK
<1>7. TokenHeld'
    <2> SUFFICES ASSUME NEW t \in Session, pub'[t].pc # "idle"
                 PROVE  tokens'[pub'[t].url] = t
        BY DEF TokenHeld
    <2>1. CASE t = s
        BY <2>1, <1>1, <1>4, <1>5 DEF ShapeOK
    <2>2. CASE t # s
        <3>1. tokens[pub[t].url] = t /\ pub[t].url \in Url
            BY <2>2, <1>4 DEF TokenHeld, ShapeOK
        <3>2. pub[t].url # u
            BY <3>1, <1>1, SessionAssumption
        <3> QED BY <2>2, <3>1, <3>2, <1>1, <1>4 DEF ShapeOK
    <2> QED BY <2>1, <2>2
<1>8. FeederOwnsSource'
    <2> SUFFICES ASSUME NEW t \in Session, Feeding(t)'
                 PROVE  /\ ~live'[pub'[t].src].can_publish
                        /\ live'[pub'[t].src].source_id = t
        BY DEF FeederOwnsSource
    <2>1. t # s /\ pub'[t] = pub[t]
        BY <1>4, <1>5 DEF Feeding
    <2>2. Feeding(t) /\ pub[t].src \in Source
        BY <2>1 DEF Feeding, ShapeOK
    <2> QED BY <1>2, <2>1, <2>2 DEF FeederOwnsSource
<1> QED BY <1>6, <1>7, <1>8

\* A connection that leaves without touching a source: a rejected publish, a
\* refusal of the hub, or the end of the cycle.
LEMMA LeavingInv ==
    ASSUME LiveInv, NEW s \in Session, pub[s].pc # "idle", LeaveCycle(s),
           pool' = pool, live' = live, cli' = cli
    PROVE  LiveInv'
<1> USE DEF LiveInv
<1>1. /\ tokens' \in [Url -> Session \cup {None}]
      /\ pub' \in [Session -> PubRec]
      /\ pub'[s] = Gone
      /\ \A t \in Session : t # s => pub'[t] = pub[t]
      /\ TokenHeld'
    BY LeaveCycleInv
<1>2. ShapeOK'
    BY <1>1 DEF ShapeOK, Gone
<1>3. FeederOwnsSource'
    BY <1>1 DEF FeederOwnsSource, Feeding, Gone
<1> QED BY <1>1, <1>2, <1>3

\* A step that moves one publish connection on and leaves every source as it is.
LEMMA MovingInv ==
    ASSUME LiveInv, NEW s \in Session, NEW p \in PubPc,
           pub[s].pc # "idle",
           p \in {"starting", "publishing", "stopping", "closing"}
               => Feeding(s),
           tokens' = tokens, pool' = pool, live' = live, cli' = cli,
           pub' = [pub EXCEPT ![s].pc = p]
    PROVE  LiveInv'
<1> USE DEF LiveInv
<1>1. /\ pub' \in [Session -> PubRec]
      /\ pub'[s].pc = p
      /\ \A t \in Session : /\ pub'[t].url = pub[t].url
                            /\ pub'[t].src = pub[t].src
                            /\ t # s => pub'[t] = pub[t]
    BY DEF ShapeOK, PubRec
<1>2. ShapeOK'
    BY <1>1 DEF ShapeOK
<1>3. TokenHeld'
    BY <1>1 DEF TokenHeld
<1>4. FeederOwnsSource'
    BY <1>1 DEF FeederOwnsSource, Feeding
<1> QED BY <1>2, <1>3, <1>4

\* Only one connection feeds a source.
LEMMA OneFeeder ==
    ASSUME FeederOwnsSource, NEW s \in Session, NEW t \in Session, s # t,
           Feeding(s), Feeding(t)
    PROVE  pub[s].src # pub[t].src
BY DEF FeederOwnsSource

\* A feeding connection moves on and changes its own source, which stays its
\* own while it feeds.
LEMMA FeedingInv ==
    ASSUME LiveInv, NEW s \in Session, NEW p \in PubPc, NEW y \in SourceRec,
           Feeding(s),
           p \in {"starting", "publishing", "stopping", "closing"}
               => ~y.can_publish /\ y.source_id = s,
           tokens' = tokens, pool' = pool, cli' = cli, p # "idle",
           live' = [live EXCEPT ![pub[s].src] = y],
           pub' = [pub EXCEPT ![s].pc = p]
    PROVE  LiveInv'
<1> USE DEF LiveInv
<1>1. /\ pub' \in [Session -> PubRec]
      /\ pub'[s].pc = p
      /\ \A t \in Session : /\ pub'[t].url = pub[t].url
                            /\ pub'[t].src = pub[t].src
                            /\ t # s => pub'[t] = pub[t]
    BY DEF ShapeOK, PubRec
<1>2. pub[s].pc # "idle" /\ pub[s].src \in Source
    BY DEF Feeding, ShapeOK
<1>3. live' \in [Source -> SourceRec]
    BY <1>2 DEF ShapeOK
<1>4. ShapeOK'
    BY <1>1, <1>2, <1>3 DEF ShapeOK
<1>5. TokenHeld'
    BY <1>1, <1>2 DEF TokenHeld
<1>6. FeederOwnsSource'
    <2> SUFFICES ASSUME NEW t \in Session, Feeding(t)'
                 PROVE  /\ ~live'[pub'[t].src].can_publish
                        /\ live'[pub'[t].src].source_id = t
        BY DEF FeederOwnsSource
    <2>1. CASE t = s
        BY <2>1, <1>1, <1>2 DEF Feeding, ShapeOK
    <2>2. CASE t # s
        <3>1. Feeding(t)
            BY <2>2, <1>1 DEF Feeding
        <3>2. pub[t].src # pub[s].src /\ pub[t].src \in Source
            BY <2>2, <3>1, OneFeeder DEF Feeding, ShapeOK
        <3>3. live'[pub'[t].src] = live[pub[t].src]
            BY <3>2, <1>1, <1>2 DEF ShapeOK
        <3> QED BY <3>1, <3>3 DEF FeederOwnsSource
    <2> QED BY <2>1, <2>2
<1> QED BY <1>4, <1>5, <1>6

\* acquire_publish takes a source that nobody feeds.
LEMMA AcquirePublishInv ==
    ASSUME LiveInv, NEW s \in Session, AcquirePublish(s)
    PROVE  LiveInv'
<1> USE DEF LiveInv
<1> DEFINE x == pub[s].src
<1>1. /\ pub[s].pc = "hooks"
      /\ live[x].can_publish
      /\ live' = [live EXCEPT ![x].can_publish = FALSE, ![x].source_id = s]
      /\ pub' = [pub EXCEPT ![s].pc = "starting"]
      /\ tokens' = tokens /\ pool' = pool /\ cli' = cli
    BY DEF AcquirePublish
<1>2. x \in Source
    BY <1>1 DEF ShapeOK
<1>3. /\ pub' \in [Session -> PubRec]
      /\ pub'[s].pc = "starting"
      /\ \A t \in Session : /\ pub'[t].url = pub[t].url
                            /\ pub'[t].src = pub[t].src
                            /\ t # s => pub'[t] = pub[t]
    BY <1>1 DEF ShapeOK, PubRec, PubPc
<1>4. /\ live' \in [Source -> SourceRec]
      /\ ~live'[x].can_publish
      /\ live'[x].source_id = s
      /\ \A y \in Source : y # x => live'[y] = live[y]
    <2> HIDE DEF x
    <2>1. live \in [Source -> SourceRec] /\ live[x] \in SourceRec
        BY <1>2 DEF ShapeOK
    <2> QED BY <2>1, <1>1, <1>2 DEF SourceRec
<1>5. ShapeOK'
    BY <1>1, <1>3, <1>4 DEF ShapeOK
<1>6. TokenHeld'
    BY <1>1, <1>3 DEF TokenHeld
<1>7. FeederOwnsSource'
    <2> SUFFICES ASSUME NEW t \in Session, Feeding(t)'
                 PROVE  /\ ~live'[pub'[t].src].can_publish
                        /\ live'[pub'[t].src].source_id = t
        BY DEF FeederOwnsSource
    <2>1. CASE t = s
        BY <2>1, <1>3, <1>4
    <2>2. CASE t # s
        <3>1. Feeding(t)
            BY <2>2, <1>3 DEF Feeding
        <3>2. ~live[pub[t].src].can_publish /\ live[pub[t].src].source_id = t
            BY <3>1 DEF FeederOwnsSource
        <3>3. pub[t].src \in Source /\ pub[t].src # x
            BY <3>1, <3>2, <1>1 DEF Feeding, ShapeOK
        <3> QED BY <3>2, <3>3, <1>3, <1>4
    <2> QED BY <2>1, <2>2
<1> QED BY <1>5, <1>6, <1>7

\* http_mount fails: the hub stays active, the connection leaves.
LEMMA MountFailsInv ==
    ASSUME LiveInv, NEW s \in Session, MountFails(s)
    PROVE  LiveInv'
<1> USE DEF LiveInv
<1> DEFINE x == pub[s].src
<1>1. /\ pub[s].pc = "starting"
      /\ live' = [live EXCEPT ![x].active = TRUE]
      /\ LeaveCycle(s)
      /\ pool' = pool /\ cli' = cli
    BY DEF MountFails
<1>2. /\ tokens' \in [Url -> Session \cup {None}]
      /\ pub' \in [Session -> PubRec]
      /\ pub'[s] = Gone
      /\ \A t \in Session : t # s => pub'[t] = pub[t]
      /\ TokenHeld'
    BY <1>1, LeaveCycleInv
<1>3. /\ live' \in [Source -> SourceRec]
      /\ \A y \in Source : /\ live'[y].can_publish = live[y].can_publish
                           /\ live'[y].source_id = live[y].source_id
    <2> HIDE DEF x
    <2>1. live \in [Source -> SourceRec]
        BY DEF ShapeOK
    <2> QED BY <2>1, <1>1 DEF SourceRec
<1>4. ShapeOK'
    BY <1>1, <1>2, <1>3 DEF ShapeOK, Gone
<1>5. FeederOwnsSource'
    BY <1>2, <1>3 DEF FeederOwnsSource, Feeding, Gone, ShapeOK
<1> QED BY <1>2, <1>4, <1>5

\* The publisher's steps.
LEMMA PubStepInv ==
    ASSUME LiveInv, NEW s \in Session, AnyPubStep(s)
    PROVE  LiveInv'
<1> DEFINE x == pub[s].src
<1>1. pub[s].pc # "idle" => x \in Source /\ live[x] \in SourceRec
    BY DEF LiveInv, ShapeOK
<1>2. ASSUME NEW u \in Url, NEW y \in Source, StartCycle(s, u, y)
      PROVE  LiveInv'
    BY <1>2, StartCycleInv
<1>3. CASE PublishRejected(s)
    BY <1>3, LeavingInv DEF PublishRejected
<1>4. CASE AcquirePublish(s)
    BY <1>4, AcquirePublishInv
<1>5. CASE HubFails(s)
    BY <1>5, LeavingInv DEF HubFails
<1>6. CASE MountFails(s)
    BY <1>6, MountFailsInv
<1>7. CASE Published(s)
    <2> DEFINE y == [live[x] EXCEPT !.active = TRUE,
                                    !.idle = @ \/ live[x].consumers = {}]
    <2>1. /\ Feeding(s) /\ x \in Source
          /\ live \in [Source -> SourceRec]
          /\ live' = [live EXCEPT ![x].active = TRUE,
                                  ![x].idle = @ \/ live[x].consumers = {}]
        BY <1>1, <1>7 DEF Published, Feeding, LiveInv, ShapeOK
    <2>2. ~live[x].can_publish /\ live[x].source_id = s
        BY <2>1 DEF LiveInv, FeederOwnsSource
    <2> HIDE DEF x
    <2>3. y \in SourceRec /\ ~y.can_publish /\ y.source_id = s
        BY <2>1, <2>2 DEF SourceRec
    <2>4. live' = [live EXCEPT ![x] = y]
        BY <2>1
    <2> HIDE DEF y
    <2>5. live' = [live EXCEPT ![pub[s].src] = y]
        BY <2>4 DEF x
    <2> QED BY <1>7, <2>1, <2>3, <2>5, FeedingInv DEF Published, PubPc
<1>8. CASE EndPublishing(s)
    BY <1>8, MovingInv DEF EndPublishing, Feeding, PubPc
<1>9. CASE KickedForIdle(s)
    BY <1>9, MovingInv DEF KickedForIdle, EndPublishing, Feeding, PubPc
<1>10. CASE BeginUnpublish(s)
    <2>1. CASE live[x].can_publish
        BY <1>10, <2>1, MovingInv DEF BeginUnpublish, PubPc
    <2>2. CASE ~live[x].can_publish
        <3> DEFINE y == [live[x] EXCEPT !.active = FALSE]
        <3>1. /\ Feeding(s) /\ x \in Source
              /\ live \in [Source -> SourceRec]
              /\ live' = [live EXCEPT ![x].active = FALSE]
            BY <1>1, <1>10, <2>2
            DEF BeginUnpublish, Feeding, LiveInv, ShapeOK
        <3>2. ~live[x].can_publish /\ live[x].source_id = s
            BY <3>1 DEF LiveInv, FeederOwnsSource
        <3> HIDE DEF x
        <3>3. y \in SourceRec /\ ~y.can_publish /\ y.source_id = s
            BY <3>1, <3>2 DEF SourceRec
        <3>4. live' = [live EXCEPT ![x] = y]
            BY <3>1
        <3> HIDE DEF y
        <3>5. live' = [live EXCEPT ![pub[s].src] = y]
            BY <3>4 DEF x
        <3>6. /\ pub' = [pub EXCEPT ![s].pc = "closing"]
              /\ tokens' = tokens /\ pool' = pool /\ cli' = cli
            BY <1>10, <2>2 DEF BeginUnpublish, x
        <3> QED BY <3>1, <3>3, <3>5, <3>6, FeedingInv DEF PubPc
    <2> QED BY <2>1, <2>2
<1>11. CASE FinishUnpublish(s)
    <2> DEFINE y == [live[x] EXCEPT !.source_id = None,
                                    !.dying = @ \/ live[x].consumers = {},
                                    !.can_publish = TRUE]
    <2>1. /\ Feeding(s) /\ x \in Source
          /\ live \in [Source -> SourceRec]
          /\ live' = [live EXCEPT ![x].source_id = None,
                                  ![x].dying = @ \/ live[x].consumers = {},
                                  ![x].can_publish = TRUE]
        BY <1>1, <1>11 DEF FinishUnpublish, Feeding, LiveInv, ShapeOK
    <2> HIDE DEF x
    <2>2. y \in SourceRec
        BY <2>1 DEF SourceRec
    <2>3. live' = [live EXCEPT ![x] = y]
        BY <2>1
    <2> HIDE DEF y
    <2>4. live' = [live EXCEPT ![pub[s].src] = y]
        BY <2>3 DEF x
    <2> QED BY <1>11, <2>1, <2>2, <2>4, FeedingInv DEF FinishUnpublish, PubPc
<1>12. CASE EndCycle(s)
    BY <1>12, LeavingInv DEF EndCycle
<1>13. CASE MountCrashes(s)
    BY <1>13 DEF MountCrashes, LiveInv, ShapeOK, TokenHeld, FeederOwnsSource,
                 Feeding
<1> QED BY <1>2, <1>3, <1>4, <1>5, <1>6, <1>7, <1>8, <1>9, <1>10, <1>11,
           <1>12, <1>13 DEF AnyPubStep

\* A step that is not a publisher's preserves the invariant if it keeps the
\* shape of the state and, in the sources connections refer to, the two fields
\* only publishers write.
LEMMA BystanderInv ==
    ASSUME LiveInv, ShapeOK', tokens' = tokens, pub' = pub,
           \A s \in Session : pub[s].src \in Source =>
               /\ live'[pub[s].src].can_publish = live[pub[s].src].can_publish
               /\ live'[pub[s].src].source_id = live[pub[s].src].source_id
    PROVE  LiveInv'
<1>1. TokenHeld'
    BY DEF LiveInv, TokenHeld
<1>2. FeederOwnsSource'
    BY DEF LiveInv, ShapeOK, FeederOwnsSource, Feeding
<1> QED BY <1>1, <1>2 DEF LiveInv

\* Consumers come and go without touching what publishers write.
LEMMA WithConsumerSafe ==
    ASSUME NEW L \in [Source -> SourceRec], NEW x \in Source, NEW c \in Client
    PROVE  /\ WithConsumer(L, x, c) \in [Source -> SourceRec]
           /\ \A y \in Source :
                /\ WithConsumer(L, x, c)[y].can_publish = L[y].can_publish
                /\ WithConsumer(L, x, c)[y].source_id = L[y].source_id
BY DEF WithConsumer, SourceRec

LEMMA WithoutConsumerSafe ==
    ASSUME live \in [Source -> SourceRec], NEW x \in Source, NEW c \in Client
    PROVE  /\ WithoutConsumer(x, c) \in [Source -> SourceRec]
           /\ \A y \in Source :
                /\ WithoutConsumer(x, c)[y].can_publish = live[y].can_publish
                /\ WithoutConsumer(x, c)[y].source_id = live[y].source_id
<1> DEFINE rest == live[x].consumers \ {c}
           y == [live[x] EXCEPT
                    !.consumers = rest,
                    !.dying = @ \/ (rest = {} /\ live[x].can_publish),
                    !.idle = @ \/ rest = {}]
<1>1. live[x] \in SourceRec
    OBVIOUS
<1>2. rest \in SUBSET Client
    BY <1>1 DEF SourceRec
<1>3. WithoutConsumer(x, c) = [live EXCEPT ![x] = y]
    BY DEF WithoutConsumer
<1> HIDE DEF rest
<1>4. /\ y \in SourceRec
      /\ y.can_publish = live[x].can_publish
      /\ y.source_id = live[x].source_id
    BY <1>1, <1>2 DEF SourceRec
<1> HIDE DEF y
<1> QED BY <1>3, <1>4

\* The RTMP players' steps.
LEMMA PlayerStepInv ==
    ASSUME LiveInv, NEW c \in Player, AnyPlayerStep(c)
    PROVE  LiveInv'
<1>0. /\ ShapeOK /\ live \in [Source -> SourceRec] /\ c \in Client
      /\ Gone \in CliRec
    BY DEF LiveInv, ShapeOK, Client, Gone, CliRec, CliPc
<1>1. ASSUME NEW u \in Url, NEW x \in Source, PlayerFetch(c, u, x)
      PROVE  LiveInv'
    <2>1. /\ tokens' = tokens /\ pub' = pub
          /\ Fetchable(u, x)
          /\ pool' = [pool EXCEPT ![u] = x]
          /\ live' = Fetched(u, x)
          /\ cli' = [cli EXCEPT ![c] = [pc |-> "hooks", url |-> u, src |-> x]]
        BY <1>1 DEF PlayerFetch, FetchOrCreate
    <2>2. /\ live' \in [Source -> SourceRec]
          /\ \A s \in Session : pub[s].src \in Source =>
                 live'[pub[s].src] = live[pub[s].src]
        BY <1>0, <2>1, FetchedSafe
    <2>3. [pc |-> "hooks", url |-> u, src |-> x] \in CliRec
        BY DEF CliRec, CliPc
    <2>4. ShapeOK'
        BY <1>0, <2>1, <2>2, <2>3 DEF ShapeOK
    <2> QED BY <2>1, <2>2, <2>4, BystanderInv
<1>2. CASE PlayerRejected(c)
    <2>1. ShapeOK'
        BY <1>0, <1>2 DEF PlayerRejected, ShapeOK, Gone
    <2> QED BY <1>2, <2>1, BystanderInv DEF PlayerRejected
<1>3. CASE PlayerStart(c)
    <2>1. /\ tokens' = tokens /\ pub' = pub /\ pool' = pool
          /\ cli[c].src \in Source
          /\ live' = WithConsumer(live, cli[c].src, c)
          /\ cli' = [cli EXCEPT ![c].pc = "playing"]
        BY <1>0, <1>3 DEF PlayerStart, ShapeOK
    <2>2. cli' \in [Client -> CliRec]
        BY <1>0, <2>1 DEF ShapeOK, CliRec, CliPc
    <2>3. ShapeOK'
        BY <1>0, <2>1, <2>2, WithConsumerSafe, <1>3
        DEF ShapeOK, PlayerStart, Client
    <2> QED BY <1>0, <2>1, <2>3, WithConsumerSafe, BystanderInv
<1>4. CASE PlayerStop(c)
    <2>1. /\ tokens' = tokens /\ pub' = pub /\ pool' = pool
          /\ cli[c].src \in Source
          /\ live' = WithoutConsumer(cli[c].src, c)
          /\ cli' = [cli EXCEPT ![c].pc = "stopping"]
        BY <1>0, <1>4 DEF PlayerStop, ShapeOK
    <2>2. /\ cli' \in [Client -> CliRec]
          /\ cli[c].pc = "playing" /\ cli'[c].pc = "stopping"
          /\ cli'[c].url = cli[c].url /\ cli'[c].src = cli[c].src
          /\ \A d \in Client : d # c => cli'[d] = cli[d]
        BY <1>0, <1>4, <2>1 DEF ShapeOK, CliRec, CliPc, PlayerStop
    <2>3. live' \in [Source -> SourceRec]
        BY <1>0, <2>1, WithoutConsumerSafe
    <2>4. ShapeOK'
        BY <1>0, <2>1, <2>2, <2>3 DEF ShapeOK
    <2> QED BY <1>0, <2>1, <2>4, WithoutConsumerSafe, BystanderInv
<1>5. CASE PlayerLeft(c)
    <2>1. ShapeOK'
        BY <1>0, <1>5 DEF PlayerLeft, ShapeOK, Gone
    <2> QED BY <1>5, <2>1, BystanderInv DEF PlayerLeft
<1> QED BY <1>1, <1>2, <1>3, <1>4, <1>5 DEF AnyPlayerStep

\* The HTTP viewers' steps.
LEMMA ViewerStepInv ==
    ASSUME LiveInv, NEW c \in Viewer, AnyViewerStep(c)
    PROVE  LiveInv'
<1>0. /\ ShapeOK /\ live \in [Source -> SourceRec] /\ c \in Client
      /\ Gone \in CliRec /\ c \notin Player
    BY ClientAssumption DEF LiveInv, ShapeOK, Client, Gone, CliRec, CliPc
<1>1. ASSUME NEW u \in Url, ViewerRequest(c, u)
      PROVE  LiveInv'
    <2> DEFINE r == [pc |-> "hooks", url |-> u, src |-> None]
    <2>1. /\ tokens' = tokens /\ pub' = pub /\ pool' = pool /\ live' = live
          /\ cli' = [cli EXCEPT ![c] = r]
        BY <1>1 DEF ViewerRequest
    <2>2. r \in CliRec
        BY DEF CliRec, CliPc
    <2>3. ShapeOK'
        BY <1>0, <2>1, <2>2 DEF ShapeOK
    <2> QED BY <2>1, <2>3, BystanderInv
<1>2. ASSUME NEW x \in Source, ViewerStart(c, x)
      PROVE  LiveInv'
    <2> DEFINE u == cli[c].url
               L == Fetched(u, x)
    <2>1. /\ tokens' = tokens /\ pub' = pub
          /\ u \in Url
          /\ Fetchable(u, x)
          /\ pool' = [pool EXCEPT ![u] = x]
          /\ live' = WithConsumer(L, x, c)
          /\ cli' = [cli EXCEPT ![c].pc = "playing", ![c].src = x]
        BY <1>0, <1>2 DEF ViewerStart, FetchOrCreate, ShapeOK
    <2>2. /\ L \in [Source -> SourceRec]
          /\ \A s \in Session : pub[s].src \in Source =>
                 L[pub[s].src] = live[pub[s].src]
        BY <1>0, <2>1, FetchedSafe
    <2>3. /\ cli' \in [Client -> CliRec]
          /\ cli'[c].src = x
          /\ cli'[c].url = u
          /\ \A d \in Client : d # c => cli'[d] = cli[d]
        BY <1>0, <2>1 DEF ShapeOK, CliRec, CliPc
    <2> HIDE DEF L, u
    <2>4. /\ live' \in [Source -> SourceRec]
          /\ \A y \in Source : /\ live'[y].can_publish = L[y].can_publish
                               /\ live'[y].source_id = L[y].source_id
        BY <1>0, <2>1, <2>2, WithConsumerSafe
    <2>5. pool' \in [Url -> Source \cup {None}]
        BY <1>0, <2>1 DEF ShapeOK
    <2>6. \A d \in Player : cli'[d].pc # "idle" => cli'[d].src \in Source
        BY <1>0, <2>3 DEF ShapeOK, Client
    <2>7. ShapeOK'
        BY <1>0, <2>1, <2>3, <2>4, <2>5, <2>6 DEF ShapeOK
    <2> QED BY <2>1, <2>2, <2>4, <2>7, BystanderInv
<1>3. CASE ViewerQuit(c)
    <2>1. /\ tokens' = tokens /\ pub' = pub /\ pool' = pool
          /\ cli' = [cli EXCEPT ![c] = Gone]
        BY <1>3 DEF ViewerQuit
    <2>2. \/ live' = live
          \/ cli[c].src \in Source /\ live' = WithoutConsumer(cli[c].src, c)
        BY <1>0, <1>3 DEF ViewerQuit, ShapeOK
    <2>3. /\ live' \in [Source -> SourceRec]
          /\ \A y \in Source : /\ live'[y].can_publish = live[y].can_publish
                               /\ live'[y].source_id = live[y].source_id
        BY <1>0, <2>2, WithoutConsumerSafe
    <2>4. ShapeOK'
        BY <1>0, <2>1, <2>3 DEF ShapeOK, Gone
    <2> QED BY <2>1, <2>3, <2>4, BystanderInv
<1>4. CASE RefusedStep
    <2>1. ShapeOK'
        BY <1>0, <1>4 DEF RefusedStep, ShapeOK
    <2> QED BY <1>4, <2>1, BystanderInv DEF RefusedStep
<1> QED BY <1>1, <1>2, <1>3, <1>4 DEF AnyViewerStep

LEMMA NextInv == LiveInv /\ [LiveNext]_lvars => LiveInv'
<1> SUFFICES ASSUME LiveInv, [LiveNext]_lvars PROVE LiveInv'
    OBVIOUS
<1>1. ASSUME NEW s \in Session, AnyPubStep(s) PROVE LiveInv'
    BY <1>1, PubStepInv
<1>2. ASSUME NEW c \in Player, AnyPlayerStep(c) PROVE LiveInv'
    BY <1>2, PlayerStepInv
<1>3. ASSUME NEW c \in Viewer, AnyViewerStep(c) PROVE LiveInv'
    BY <1>3, ViewerStepInv
<1>4. ASSUME NEW x \in Source, DelayElapses(x) PROVE LiveInv'
    <2>1. live \in [Source -> SourceRec]
        BY DEF LiveInv, ShapeOK
    <2>2. /\ live' \in [Source -> SourceRec]
          /\ \A y \in Source : /\ live'[y].can_publish = live[y].can_publish
                               /\ live'[y].source_id = live[y].source_id
        BY <1>4, <2>1 DEF DelayElapses, SourceRec
    <2>3. ShapeOK'
        BY <1>4, <2>2 DEF DelayElapses, LiveInv, ShapeOK
    <2> QED BY <1>4, <2>2, <2>3, BystanderInv DEF DelayElapses
<1>5. ASSUME NEW u \in Url, CleanupTick(u) PROVE LiveInv'
    <2>1. ShapeOK'
        BY <1>5 DEF CleanupTick, LiveInv, ShapeOK
    <2> QED BY <1>5, <2>1, BystanderInv DEF CleanupTick
<1>6. CASE WorkerStep
    <2>1. ShapeOK'
        BY <1>6 DEF WorkerStep, LiveInv, ShapeOK
    <2> QED BY <1>6, <2>1, BystanderInv DEF WorkerStep
<1>7. CASE UNCHANGED lvars
    <2>1. ShapeOK'
        BY <1>7 DEF lvars, LiveInv, ShapeOK
    <2> QED BY <1>7, <2>1, BystanderInv DEF lvars
<1> QED BY <1>1, <1>2, <1>3, <1>4, <1>5, <1>6, <1>7, NextIsAny
        DEF AnyNext, AnyCleanup

-----------------------------------------------------------------------------
(***************************************************************************)
(* What follows for every behaviour.                                       *)
(***************************************************************************)

\* The invariant holds in every reachable state.
THEOREM Invariance == LiveSpec => []LiveInv
BY InitInv, NextInv, PTL DEF LiveSpec

\* A connection inside stream_service_cycle holds the token of its URL, so
\* srs_assert(it != tokens_.end()) of release_token never fails.
THEOREM TokenIsHeld == LiveSpec => []TokenHeld
<1>1. LiveInv => TokenHeld
    BY DEF LiveInv
<1> QED BY <1>1, Invariance, PTL

\* A source is fed by one session, which it belongs to until it is torn down.
THEOREM SourceIsOwned == LiveSpec => []FeederOwnsSource
<1>1. LiveInv => FeederOwnsSource
    BY DEF LiveInv
<1> QED BY <1>1, Invariance, PTL

\* Sessions that publish at the same time feed distinct sources.
THEOREM SourcesAreDistinct == LiveSpec => []FeederSourcesDistinct
<1>1. LiveInv => FeederSourcesDistinct
    BY OneFeeder DEF LiveInv, FeederSourcesDistinct
<1> QED BY <1>1, Invariance, PTL

\* A source leaves the pool only while nobody publishes or plays it.
THEOREM RemovalIsSafe == LiveSpec => RemovedWhenUnused
<1>1. LiveInv /\ [LiveNext]_lvars => [RemovesUnused]_lvars
    <2> SUFFICES ASSUME LiveInv, LiveNext PROVE RemovesUnused
        BY DEF lvars
    <2> SUFFICES ASSUME NEW u \in Url, pool[u] # None, pool'[u] # pool[u]
                 PROVE  /\ live[pool[u]].consumers = {}
                        /\ ~\E s \in Session :
                               Feeding(s) /\ pub[s].src = pool[u]
        BY DEF RemovesUnused
    <2>1. pool \in [Url -> Source \cup {None}]
        BY DEF LiveInv, ShapeOK
    <2>2. \A v \in Url, x \in Source : FetchOrCreate(v, x) => pool'[u] = pool[u]
        BY <2>1 DEF FetchOrCreate, Fetchable
    <2>3. AnyCleanup
        <3>1. ASSUME NEW s \in Session, AnyPubStep(s) PROVE FALSE
            BY <3>1, <2>2
            DEF AnyPubStep, StartCycle, PublishRejected, AcquirePublish,
                HubFails, MountFails, MountCrashes, Published, EndPublishing,
                KickedForIdle, BeginUnpublish, FinishUnpublish, EndCycle
        <3>2. ASSUME NEW c \in Player, AnyPlayerStep(c) PROVE FALSE
            BY <3>2, <2>2
            DEF AnyPlayerStep, PlayerFetch, PlayerRejected, PlayerStart,
                PlayerStop, PlayerLeft
        <3>3. ASSUME NEW c \in Viewer, AnyViewerStep(c) PROVE FALSE
            <4>1. \A x \in Source : ViewerStart(c, x) =>
                      cli[c].url \in Url /\ FetchOrCreate(cli[c].url, x)
                BY DEF ViewerStart, LiveInv, ShapeOK, Client
            <4> QED BY <3>3, <2>2, <4>1
                    DEF AnyViewerStep, ViewerRequest, ViewerQuit, RefusedStep
        <3>4. ~\E x \in Source : DelayElapses(x)
            BY DEF DelayElapses
        <3>5. ~WorkerStep
            BY DEF WorkerStep
        <3> QED BY <3>1, <3>2, <3>3, <3>4, <3>5, NextIsAny DEF AnyNext
    <2>4. IsDead(pool[u])
        BY <2>1, <2>3 DEF AnyCleanup, CleanupTick
    <2> QED BY <2>4 DEF IsDead, LiveInv, FeederOwnsSource
<1> QED BY <1>1, Invariance, PTL DEF LiveSpec, RemovedWhenUnused

-----------------------------------------------------------------------------
(***************************************************************************)
(* LiveSource implements PublishLock.                                      *)
(***************************************************************************)

\* PublisherOf is what its name says.
PublisherExact ==
    /\ \A s \in Session : Feeding(s) => PublisherOf[pub[s].url] = s
    /\ \A u \in Url :
           \/ PublisherOf[u] = None
           \/ \E s \in Session : Feeding(s) /\ pub[s].url = u

LEMMA PublisherIsExact == LiveInv => PublisherExact
<1> SUFFICES ASSUME LiveInv PROVE PublisherExact
    OBVIOUS
<1>1. ASSUME NEW s \in Session, Feeding(s)
      PROVE  PublisherOf[pub[s].url] = s
    <2> DEFINE u == pub[s].url
               P(t) == Feeding(t) /\ pub[t].url = u
    <2>1. u \in Url
        BY <1>1 DEF Feeding, LiveInv, ShapeOK
    <2>2. PublisherOf[u] = CHOOSE t \in Session : P(t)
        BY <1>1, <2>1 DEF PublisherOf
    <2>3. \E t \in Session : P(t)
        BY <1>1
    <2>4. PublisherOf[u] \in Session /\ P(PublisherOf[u])
        BY <2>2, <2>3
    <2> QED BY <1>1, <2>4, OneInsidePerUrl DEF LiveInv, Feeding
<1>2. \A u \in Url : \/ PublisherOf[u] = None
                     \/ \E s \in Session : Feeding(s) /\ pub[s].url = u
    BY DEF PublisherOf
<1> QED BY <1>1, <1>2 DEF PublisherExact

\* A step that changes at most one publish connection, and not the stream it
\* feeds, takes the lock of one stream, releases it, or leaves all as they are.
LEMMA OneConnectionMoves ==
    ASSUME LiveInv, PublisherExact, PublisherExact', LiveInv',
           NEW s \in Session,
           \A t \in Session : t # s => pub'[t] = pub[t],
           Feeding(s)' => pub[s].pc # "idle" /\ pub'[s].url = pub[s].url
    PROVE  Lock!LockNext \/ UNCHANGED PublisherOf
<1> DEFINE u == pub[s].url
<1>1. /\ PublisherOf = [v \in Url |-> PublisherOf[v]]
      /\ PublisherOf' = [v \in Url |-> PublisherOf'[v]]
    BY DEF PublisherOf
<1>2. \A t \in Session : t # s => (Feeding(t)' <=> Feeding(t))
    BY DEF Feeding
<1>3. \A v \in Url : v # u => PublisherOf'[v] = PublisherOf[v]
    <2> SUFFICES ASSUME NEW v \in Url, v # u
                 PROVE  PublisherOf'[v] = PublisherOf[v]
        OBVIOUS
    <2>1. ASSUME NEW t \in Session, Feeding(t), pub[t].url = v
          PROVE  PublisherOf'[v] = PublisherOf[v]
        BY <2>1, <1>2 DEF PublisherExact
    <2>2. ASSUME NEW t \in Session, Feeding(t)', pub'[t].url = v
          PROVE  PublisherOf'[v] = PublisherOf[v]
        BY <2>2, <1>2 DEF PublisherExact
    <2>3. CASE PublisherOf'[v] = None /\ PublisherOf[v] = None
        BY <2>3
    <2> QED BY <2>1, <2>2, <2>3 DEF PublisherExact
<1>4. CASE Feeding(s) /\ Feeding(s)'
    <2>1. PublisherOf'[u] = PublisherOf[u]
        BY <1>4 DEF PublisherExact
    <2>2. PublisherOf' = PublisherOf
        BY <2>1, <1>1, <1>3
    <2> QED BY <2>2
<1>5. CASE ~Feeding(s) /\ Feeding(s)'
    <2>1. u \in Url
        BY <1>5 DEF LiveInv, ShapeOK
    <2>2. PublisherOf'[u] = s
        BY <1>5 DEF PublisherExact
    <2>3. \A t \in Session : Feeding(t) => pub[t].url # u
        BY <1>5, OneInsidePerUrl DEF LiveInv, Feeding
    <2>4. PublisherOf[u] = None
        BY <2>1, <2>3 DEF PublisherExact
    <2>5. PublisherOf' = [PublisherOf EXCEPT ![u] = s]
        BY <1>1, <1>3, <2>2
    <2> QED BY <2>1, <2>4, <2>5 DEF Lock!LockNext, Lock!Start
<1>6. CASE Feeding(s) /\ ~Feeding(s)'
    <2>1. u \in Url /\ PublisherOf[u] = s
        BY <1>6 DEF PublisherExact, Feeding, LiveInv, ShapeOK
    <2>2. \A t \in Session : Feeding(t)' => pub'[t].url # u
        BY <1>2, <1>6, OneInsidePerUrl DEF LiveInv, Feeding
    <2>3. PublisherOf'[u] = None
        BY <2>1, <2>2 DEF PublisherExact
    <2>4. PublisherOf' = [PublisherOf EXCEPT ![u] = None]
        BY <1>1, <1>3, <2>3
    <2> QED BY <2>1, <2>4 DEF Lock!LockNext, Lock!Stop
<1>7. CASE ~Feeding(s) /\ ~Feeding(s)'
    <2>1. u \in Url => PublisherOf'[u] = PublisherOf[u]
        <3> SUFFICES ASSUME u \in Url PROVE PublisherOf'[u] = PublisherOf[u]
            OBVIOUS
        <3>1. ASSUME NEW t \in Session, Feeding(t), pub[t].url = u
              PROVE  PublisherOf'[u] = PublisherOf[u]
            BY <3>1, <1>2, <1>7 DEF PublisherExact
        <3>2. ASSUME NEW t \in Session, Feeding(t)', pub'[t].url = u
              PROVE  PublisherOf'[u] = PublisherOf[u]
            BY <3>2, <1>2, <1>7 DEF PublisherExact
        <3> QED BY <3>1, <3>2 DEF PublisherExact
    <2>2. PublisherOf' = PublisherOf
        BY <2>1, <1>1, <1>3
    <2> QED BY <2>2
<1> QED BY <1>4, <1>5, <1>6, <1>7

\* At most one session publishes a stream: every step of the server is a step
\* of PublishLock or a stutter of it.
THEOREM LiveSourceIsLock == LiveSpec => ImplementsLock
<1>1. LiveInit => Lock!LockInit
    <2> SUFFICES ASSUME LiveInit PROVE Lock!LockInit
        OBVIOUS
    <2>1. \A s \in Session : ~Feeding(s)
        BY DEF LiveInit, Feeding, Gone
    <2> QED BY <2>1 DEF Lock!LockInit, PublisherOf
<1>2. LiveInv /\ LiveInv' /\ PublisherExact /\ PublisherExact'
      /\ [LiveNext]_lvars => [Lock!LockNext]_PublisherOf
    <2> SUFFICES ASSUME LiveInv, LiveInv', PublisherExact, PublisherExact',
                        [LiveNext]_lvars
                 PROVE  Lock!LockNext \/ UNCHANGED PublisherOf
        OBVIOUS
    <2>1. ASSUME NEW s \in Session, AnyPubStep(s)
          PROVE  Lock!LockNext \/ UNCHANGED PublisherOf
        <3>1. \A t \in Session : t # s => pub'[t] = pub[t]
            BY <2>1
            DEF AnyPubStep, StartCycle, PublishRejected, AcquirePublish,
                HubFails, MountFails, MountCrashes, Published, EndPublishing,
                KickedForIdle, BeginUnpublish, FinishUnpublish, EndCycle,
                LeaveCycle, LiveInv, ShapeOK
        <3>2. Feeding(s)' => pub[s].pc # "idle" /\ pub'[s].url = pub[s].url
            <4>1. pub \in [Session -> PubRec]
                BY DEF LiveInv, ShapeOK
            <4>2. CASE \E u \in Url, x \in Source : StartCycle(s, u, x)
                BY <4>1, <4>2 DEF StartCycle, Feeding
            <4>3. CASE LeaveCycle(s)
                BY <4>1, <4>3 DEF LeaveCycle, Gone, Feeding
            <4>4. CASE \E p \in PubPc : pub' = [pub EXCEPT ![s].pc = p]
                  /\ pub[s].pc # "idle"
                BY <4>1, <4>4 DEF PubRec
            <4>5. \/ \E u \in Url, x \in Source : StartCycle(s, u, x)
                  \/ LeaveCycle(s)
                  \/ pub' = pub
                  \/ /\ \E p \in PubPc : pub' = [pub EXCEPT ![s].pc = p]
                     /\ pub[s].pc # "idle"
                BY <2>1
                DEF AnyPubStep, PublishRejected, AcquirePublish, HubFails,
                    MountFails, MountCrashes, Published, EndPublishing,
                    KickedForIdle, BeginUnpublish, FinishUnpublish, EndCycle,
                    PubPc
            <4>6. CASE pub' = pub
                BY <4>6 DEF Feeding
            <4> QED BY <4>2, <4>3, <4>4, <4>5, <4>6
        <3> QED BY <3>1, <3>2, OneConnectionMoves
    <2>2. ASSUME pub' = pub PROVE UNCHANGED PublisherOf
        BY <2>2 DEF PublisherOf, Feeding
    <2>3. ASSUME NEW c \in Player, AnyPlayerStep(c) PROVE pub' = pub
        BY <2>3
        DEF AnyPlayerStep, PlayerFetch, PlayerRejected, PlayerStart,
            PlayerStop, PlayerLeft
    <2>4. ASSUME NEW c \in Viewer, AnyViewerStep(c) PROVE pub' = pub
        BY <2>4 DEF AnyViewerStep, ViewerRequest, ViewerStart, ViewerQuit,
                    RefusedStep
    <2>5. ASSUME NEW x \in Source, DelayElapses(x) PROVE pub' = pub
        BY <2>5 DEF DelayElapses
    <2>6. AnyCleanup \/ WorkerStep \/ UNCHANGED lvars => pub' = pub
        BY DEF AnyCleanup, CleanupTick, WorkerStep, lvars
    <2> QED BY <2>1, <2>2, <2>3, <2>4, <2>5, <2>6, NextIsAny DEF AnyNext
<1> QED BY <1>1, <1>2, Invariance, PublisherIsExact, PTL
        DEF LiveSpec, ImplementsLock, Lock!LockSpec

-----------------------------------------------------------------------------
(***************************************************************************)
(* The HTTP entries: every step of the server is a step of HttpMount, so   *)
(* what HttpMountProofs proves of the entries holds here.                  *)
(***************************************************************************)
LEMMA HttpStep == LiveInv /\ [LiveNext]_lvars => [HttpNext]_httpVars
<1> SUFFICES ASSUME LiveInv, LiveNext PROVE HttpNext \/ UNCHANGED httpVars
    BY DEF lvars, httpVars
<1>0. up
    BY NextIsAny
<1>1. ASSUME NEW s \in Session, AnyPubStep(s)
      PROVE  HttpNext \/ UNCHANGED httpVars
    <2>1. CASE Published(s)
        <3>1. pub[s].url \in Url
            BY <2>1 DEF Published, LiveInv, ShapeOK
        <3> QED BY <1>0, <2>1, <3>1 DEF Published, HttpNext
    <2>2. CASE FinishUnpublish(s)
        <3>1. pub[s].url \in Url
            BY <2>2 DEF FinishUnpublish, LiveInv, ShapeOK
        <3> QED BY <1>0, <2>2, <3>1 DEF FinishUnpublish, HttpNext
    <2>3. CASE MountFails(s)
        <3>1. pub[s].url \in Url
            BY <2>3 DEF MountFails, LiveInv, ShapeOK
        <3> QED BY <1>0, <2>3, <3>1 DEF MountFails, HttpNext
    <2>4. CASE MountCrashes(s)
        <3>1. pub[s].url \in Url
            BY <2>4 DEF MountCrashes, LiveInv, ShapeOK
        <3> QED BY <1>0, <2>4, <3>1 DEF MountCrashes, HttpNext
    <2>5. CASE httpUnchanged
        BY <2>5 DEF httpUnchanged
    <2> QED BY <1>1, <2>1, <2>2, <2>3, <2>4, <2>5
            DEF AnyPubStep, StartCycle, PublishRejected, AcquirePublish,
                HubFails, EndPublishing, KickedForIdle, BeginUnpublish, EndCycle
<1>2. ASSUME NEW c \in Player, AnyPlayerStep(c) PROVE UNCHANGED httpVars
    BY <1>2
    DEF AnyPlayerStep, PlayerFetch, PlayerRejected, PlayerStart, PlayerStop,
        PlayerLeft, httpUnchanged, httpVars
<1>3. ASSUME NEW c \in Viewer, AnyViewerStep(c)
      PROVE  HttpNext \/ UNCHANGED httpVars
    <2>1. ASSUME NEW u \in Url, ViewerRequest(c, u) PROVE HttpNext
        BY <1>0, <2>1 DEF ViewerRequest, HttpNext
    <2>2. ASSUME NEW x \in Source, ViewerStart(c, x) PROVE UNCHANGED httpVars
        BY <2>2 DEF ViewerStart, httpUnchanged, httpVars
    <2>3. CASE ViewerQuit(c)
        <3>1. cli[c].url \in Url
            BY <2>3 DEF ViewerQuit, LiveInv, ShapeOK, Client
        <3> QED BY <1>0, <2>3, <3>1 DEF ViewerQuit, HttpNext
    <2>4. CASE RefusedStep
        BY <1>0, <2>4 DEF RefusedStep, HttpNext
    <2> QED BY <1>3, <2>1, <2>2, <2>3, <2>4 DEF AnyViewerStep
<1>4. ASSUME NEW x \in Source, DelayElapses(x) PROVE UNCHANGED httpVars
    BY <1>4 DEF DelayElapses, httpUnchanged, httpVars
<1>5. CASE AnyCleanup
    BY <1>5 DEF AnyCleanup, CleanupTick, httpUnchanged, httpVars
<1>6. CASE WorkerStep
    BY <1>0, <1>6 DEF WorkerStep, HttpNext
<1> QED BY <1>1, <1>2, <1>3, <1>4, <1>5, <1>6, NextIsAny DEF AnyNext

\* The server implements HttpMount: whatever publishers, players, the timer and
\* the worker of HTTP streams do, an entry changes as HttpMount lets it.
THEOREM LiveSourceIsMount == LiveSpec => HttpInit /\ [][HttpNext]_httpVars
<1>1. LiveInit => HttpInit
    BY DEF LiveInit
<1> QED BY <1>1, Invariance, HttpStep, PTL DEF LiveSpec

\* So what is proved of the entries holds of them.
THEOREM LiveHttpInvariance == LiveSpec => []HttpInv
BY LiveSourceIsMount, HttpInvariance, PTL

\* The entries of the composed server: each is freed once, by the only task of
\* its URL.
THEOREM LiveDestroysOnce == LiveSpec => []OneDestroyPerEntry
BY LiveHttpInvariance, InvImplies, PTL

\* No viewer is inside an entry that was freed.
THEOREM LiveViewersAreSafe == LiveSpec => []ViewersHaveEntry
BY LiveHttpInvariance, InvImplies, PTL

\* Every variable keeps its type.
THEOREM LiveTypeCorrect == LiveSpec => []LiveTypeOK
<1>1. LiveInv /\ HttpInv => LiveTypeOK
    BY DEF LiveInv, ShapeOK, HttpInv, LiveTypeOK, TokenTypeOK
<1> QED BY <1>1, Invariance, LiveHttpInvariance, PTL

\* A stream that is published stays mounted: the destroy task of an earlier
\* publish, the viewers and the publishers of other streams leave it alone.
LEMMA PublishedStep ==
    ASSUME LiveInv, HttpInv, PublishedIsMounted, LiveNext
    PROVE  PublishedIsMounted'
<1> DEFINE Up(pc) == pc \in {"publishing", "stopping", "closing"}
<1>1. SUFFICES ASSUME NEW s \in Session, Up(pub'[s].pc),
                      pub'[s].url \in RemuxUrl
               PROVE  /\ entry'[pub'[s].url] = "mounted"
                      /\ enabled'[pub'[s].url]
    BY DEF PublishedIsMounted
<1> DEFINE u == pub'[s].url
<1>2. /\ pub \in [Session -> PubRec]
      /\ entry \in [Url -> EntryState]
      /\ enabled \in [Url -> BOOLEAN]
      /\ u \in Url
    BY <1>1, RemuxAssumption DEF LiveInv, ShapeOK, HttpInv, HttpTypeOK
<1>3. CASE Published(s)
    BY <1>2, <1>3, <1>1, RemuxAssumption
    DEF Published, Mount, Mounted, PubRec
<1>4. ASSUME ~Published(s)
      PROVE  Up(pub[s].pc) /\ pub[s].url = u
    <2>1. ASSUME NEW t \in Session, AnyPubStep(t), t # s
          PROVE  pub'[s] = pub[s]
        BY <2>1, <1>2
        DEF AnyPubStep, StartCycle, PublishRejected, AcquirePublish,
            HubFails, MountFails, MountCrashes, Published, EndPublishing,
            KickedForIdle, BeginUnpublish, FinishUnpublish, EndCycle, LeaveCycle
    <2>2. ASSUME AnyPubStep(s)
          PROVE  Up(pub[s].pc) /\ pub[s].url = u
        <3>1. CASE \/ \E v \in Url, x \in Source : StartCycle(s, v, x)
                   \/ LeaveCycle(s)
                   \/ AcquirePublish(s)
            BY <3>1, <1>1, <1>2
            DEF StartCycle, LeaveCycle, AcquirePublish, Gone, PubRec
        <3>2. CASE EndPublishing(s) \/ BeginUnpublish(s) \/ FinishUnpublish(s)
            BY <3>2, <1>1, <1>2
            DEF EndPublishing, BeginUnpublish, FinishUnpublish, PubRec
        <3>3. CASE MountCrashes(s)
            BY <3>3, <1>1 DEF MountCrashes
        <3> QED BY <3>1, <3>2, <3>3, <2>2, <1>4
                DEF AnyPubStep, PublishRejected, HubFails, MountFails,
                    KickedForIdle, EndCycle
    <2>3. \/ \E t \in Session : AnyPubStep(t)
          \/ pub' = pub
        BY NextIsAny
        DEF AnyNext, AnyPlayerStep, PlayerFetch, PlayerRejected, PlayerStart,
            PlayerStop, PlayerLeft, AnyViewerStep, ViewerRequest, ViewerStart,
            ViewerQuit, RefusedStep, DelayElapses, AnyCleanup, CleanupTick,
            WorkerStep
    <2> QED BY <1>1, <2>1, <2>2, <2>3
<1>5. CASE ~Published(s)
    <2>1. entry[u] = "mounted" /\ enabled[u]
        BY <1>4, <1>5, <1>1 DEF PublishedIsMounted
    <2>2. ASSUME NEW v \in Url, Mount(v)
          PROVE  entry'[u] = "mounted" /\ enabled'[u]
        BY <2>1, <2>2, <1>2 DEF Mount, Mounted
    <2>8. ASSUME NEW v \in Url, MountError(v)
          PROVE  entry'[u] = "mounted" /\ enabled'[u]
        BY <2>1, <2>8, <1>2 DEF MountError, Mounted
    <2>3. ASSUME NEW t \in Session, FinishUnpublish(t)
          PROVE  entry'[u] = "mounted" /\ enabled'[u]
        <3>1. t # s
            BY <2>3, <1>1, <1>2 DEF FinishUnpublish, PubRec
        <3>2. pub[t].url # u
            BY <3>1, <2>3, <1>4, <1>5, OneInsidePerUrl
            DEF FinishUnpublish, LiveInv
        <3> QED BY <2>1, <2>3, <3>2, <1>2 DEF FinishUnpublish, Unmount
    <2>4. CASE WorkerStep
        <3>1. /\ destroyQ # <<>> => Head(destroyQ) # u
              /\ running => destroyQ # <<>>
            BY <2>1, HeadIsDisposing DEF HttpInv, EnabledOK
        <3> QED BY <2>1, <2>4, <3>1, <1>2
                DEF WorkerStep, DestroyStep, StartDestroy, FinishDestroy,
                    DestroyGivesUp
    <2>5. ASSUME NEW c \in Viewer, AnyViewerStep(c)
          PROVE  entry'[u] = "mounted" /\ enabled'[u]
        <3>1. ASSUME NEW v \in Url, ViewerRequest(c, v)
              PROVE  entry'[u] = "mounted" /\ enabled'[u]
            BY <3>1, <2>1, <2>2 DEF ViewerRequest, ViewerEnter
        <3>2. (\E x \in Source : ViewerStart(c, x)) \/ ViewerQuit(c) =>
                  UNCHANGED <<entry, enabled>>
            BY DEF ViewerStart, ViewerQuit, ViewerLeave, httpUnchanged, httpVars
        <3>3. RefusedStep => entry'[u] = "mounted" /\ enabled'[u]
            BY <2>1, <2>8 DEF RefusedStep, ViewerRefused, MountCrash
        <3> QED BY <2>1, <2>5, <3>1, <3>2, <3>3 DEF AnyViewerStep
    <2>6. ASSUME NEW t \in Session, AnyPubStep(t)
          PROVE  entry'[u] = "mounted" /\ enabled'[u]
        <3>1. ASSUME Published(t)
              PROVE  entry'[u] = "mounted" /\ enabled'[u]
            BY <3>1, <2>2 DEF Published, LiveInv, ShapeOK
        <3>2. ASSUME MountFails(t)
              PROVE  entry'[u] = "mounted" /\ enabled'[u]
            BY <3>2, <2>8 DEF MountFails, LiveInv, ShapeOK
        <3>3. \/ Published(t)
              \/ FinishUnpublish(t)
              \/ MountFails(t)
              \/ UNCHANGED <<entry, enabled>>
            BY <2>6
            DEF AnyPubStep, StartCycle, PublishRejected, AcquirePublish,
                HubFails, MountCrashes, MountCrash, EndPublishing,
                KickedForIdle, BeginUnpublish, EndCycle, httpUnchanged, httpVars
        <3> QED BY <2>1, <2>3, <3>1, <3>2, <3>3
    <2>7. \/ \E t \in Session : AnyPubStep(t)
          \/ \E c \in Viewer : AnyViewerStep(c)
          \/ WorkerStep
          \/ UNCHANGED <<entry, enabled>>
        BY NextIsAny
        DEF AnyNext, AnyPlayerStep, PlayerFetch, PlayerRejected, PlayerStart,
            PlayerStop, PlayerLeft, DelayElapses, AnyCleanup, CleanupTick,
            httpUnchanged, httpVars
    <2> QED BY <2>1, <2>4, <2>5, <2>6, <2>7
<1> QED BY <1>3, <1>5

THEOREM PublishedStaysMounted == LiveSpec => []PublishedIsMounted
<1>1. LiveInit => PublishedIsMounted
    BY DEF LiveInit, PublishedIsMounted, Gone
<1>2. LiveInv /\ HttpInv /\ PublishedIsMounted /\ [LiveNext]_lvars
          => PublishedIsMounted'
    <2>1. PublishedIsMounted /\ UNCHANGED lvars => PublishedIsMounted'
        BY DEF PublishedIsMounted, lvars
    <2> QED BY <2>1, PublishedStep
<1> QED BY <1>1, <1>2, Invariance, LiveHttpInvariance, PTL DEF LiveSpec

-----------------------------------------------------------------------------
(***************************************************************************)
(* Who watches a live source, and the end of a publish.                    *)
(*                                                                         *)
(* The consumers of a source are the connections that play it, because a   *)
(* source is given afresh only when no connection refers to it; so the     *)
(* first consumer finds the source that it makes busy, and the last one    *)
(* leaves the source that it makes idle.  A source is opened for           *)
(* publishing by the session that feeds it only, after its hub.            *)
(***************************************************************************)

\* What the properties about watching say, together inductive.
WatchInv == ConsumersAttached /\ IdleMeansUnwatched

\* A connection plays the same source as before, or none as before.
SamePlays ==
    \A c \in Client :
        /\ cli'[c].pc = "playing" <=> cli[c].pc = "playing"
        /\ cli[c].pc = "playing" => cli'[c].src = cli[c].src

\* In L the consumers of a source are those of K, and it is not idle unless it
\* was, or nobody watches it.
SameWatch(K, L) ==
    \A x \in Source :
        /\ L[x].consumers = K[x].consumers
        /\ L[x].idle => K[x].idle \/ K[x].consumers = {}

-----------------------------------------------------------------------------
LEMMA SameWatchInv ==
    ASSUME LiveInv, WatchInv, SamePlays, SameWatch(live, live')
    PROVE  WatchInv'
<1>1. \A c \in Client : cli[c].pc = "playing" => cli[c].src \in Source
    BY DEF LiveInv, ShapeOK
<1> QED BY <1>1 DEF WatchInv, ConsumersAttached, IdleMeansUnwatched,
                    SamePlays, SameWatch

\* Nobody watches a source that is given afresh.
LEMMA FetchedWatch ==
    ASSUME LiveInv, WatchInv, NEW u \in Url, NEW x \in Source, Fetchable(u, x)
    PROVE  /\ Fetched(u, x) \in [Source -> SourceRec]
           /\ SameWatch(live, Fetched(u, x))
<1>1. live \in [Source -> SourceRec]
    BY DEF LiveInv, ShapeOK
<1>2. Fetched(u, x) \in [Source -> SourceRec]
    BY FetchedSafe DEF LiveInv
<1>3. CASE pool[u] = x
    BY <1>2, <1>3 DEF Fetched, SameWatch
<1>4. CASE pool[u] # x
    <2>1. Unreferenced(x)
        BY <1>4 DEF Fetchable
    <2>2. live[x].consumers \subseteq Client
        BY <1>1 DEF SourceRec
    <2>3. live[x].consumers = {}
        BY <2>1, <2>2 DEF Unreferenced, WatchInv, ConsumersAttached
    <2>4. Fetched(u, x) = [live EXCEPT ![x] = NewSource]
        BY <1>4 DEF Fetched
    <2> QED BY <1>1, <1>2, <2>3, <2>4 DEF SameWatch, NewSource
<1> QED BY <1>3, <1>4

\* create_consumer attaches the consumer to the source it will play.
LEMMA WithConsumerWatch ==
    ASSUME LiveInv, WatchInv, NEW L \in [Source -> SourceRec],
           SameWatch(live, L),
           NEW x \in Source, NEW c \in Client, cli[c].pc # "playing",
           live' = WithConsumer(L, x, c),
           cli' \in [Client -> CliRec],
           cli'[c].pc = "playing", cli'[c].src = x,
           \A d \in Client : d # c => cli'[d] = cli[d]
    PROVE  WatchInv'
<1>1. /\ live'[x].consumers = L[x].consumers \cup {c}
      /\ ~live'[x].idle
      /\ \A y \in Source : y # x => live'[y] = L[y]
    BY DEF WithConsumer, SourceRec
<1>2. \A y \in Source : live'[y].consumers =
          IF y = x THEN live[y].consumers \cup {c} ELSE live[y].consumers
    BY <1>1 DEF SameWatch
<1>3. \A y \in Source : live'[y].idle => y # x /\ L[y].idle
    BY <1>1
<1>4. \A y \in Source : c \notin live[y].consumers
    BY DEF WatchInv, ConsumersAttached
<1>5. \A d \in Client : cli[d].pc = "playing" => cli[d].src \in Source
    BY DEF LiveInv, ShapeOK
<1>6. ConsumersAttached'
    <2>1. c \in live'[cli'[c].src].consumers
        BY <1>2
    <2>2. \A y \in Source : c \in live'[y].consumers => cli'[c].src = y
        BY <1>2, <1>4
    <2>3. ASSUME NEW d \in Client, d # c
          PROVE  /\ cli'[d].pc = "playing" => d \in live'[cli'[d].src].consumers
                 /\ \A y \in Source : d \in live'[y].consumers =>
                        cli'[d].pc = "playing" /\ cli'[d].src = y
        <3>1. cli'[d] = cli[d]
            BY <2>3
        <3>2. \A y \in Source :
                  d \in live'[y].consumers <=> d \in live[y].consumers
            <4> TAKE y \in Source
            <4>1. live'[y].consumers = live[y].consumers \cup {c}
                  \/ live'[y].consumers = live[y].consumers
                BY <1>2
            <4> QED BY <2>3, <4>1
        <3>3. /\ cli[d].pc = "playing" => d \in live[cli[d].src].consumers
              /\ \A y \in Source : d \in live[y].consumers =>
                     cli[d].pc = "playing" /\ cli[d].src = y
            BY DEF WatchInv, ConsumersAttached
        <3> QED BY <1>5, <3>1, <3>2, <3>3
    <2> QED BY <2>1, <2>2, <2>3 DEF ConsumersAttached
<1>7. IdleMeansUnwatched'
    BY <1>2, <1>3 DEF WatchInv, IdleMeansUnwatched, SameWatch
<1> QED BY <1>6, <1>7 DEF WatchInv

\* on_consumer_destroy detaches it from the source it played.
LEMMA WithoutConsumerWatch ==
    ASSUME LiveInv, WatchInv, NEW c \in Client, cli[c].pc = "playing",
           live' = WithoutConsumer(cli[c].src, c),
           cli'[c].pc # "playing",
           \A d \in Client : d # c => cli'[d] = cli[d]
    PROVE  WatchInv'
<1> DEFINE x == cli[c].src
           rest == live[x].consumers \ {c}
<1>1. live \in [Source -> SourceRec] /\ x \in Source
    BY DEF LiveInv, ShapeOK
<1>2. /\ live'[x].consumers = rest
      /\ live'[x].idle => live[x].idle \/ rest = {}
      /\ \A y \in Source : y # x => live'[y] = live[y]
    BY <1>1 DEF WithoutConsumer, SourceRec
<1>4. \A y \in Source : live'[y].consumers = live[y].consumers \ {c}
    BY <1>1, <1>2 DEF WatchInv, ConsumersAttached
<1>5. \A d \in Client : cli[d].pc = "playing" => cli[d].src \in Source
    BY DEF LiveInv, ShapeOK
<1>6. ConsumersAttached'
    BY <1>4, <1>5 DEF WatchInv, ConsumersAttached
<1>7. IdleMeansUnwatched'
    BY <1>1, <1>2, <1>4 DEF WatchInv, IdleMeansUnwatched
<1> QED BY <1>6, <1>7 DEF WatchInv
-----------------------------------------------------------------------------
LEMMA PubStepWatch ==
    ASSUME LiveInv, WatchInv, NEW s \in Session, AnyPubStep(s)
    PROVE  WatchInv'
<1>1. live \in [Source -> SourceRec]
    BY DEF LiveInv, ShapeOK
<1>2. pub[s].pc # "idle" => pub[s].src \in Source
    BY DEF LiveInv, ShapeOK
<1>3. cli' = cli
    BY DEF AnyPubStep, StartCycle, PublishRejected, AcquirePublish, HubFails,
           MountFails, MountCrashes, Published, EndPublishing, KickedForIdle,
           BeginUnpublish, FinishUnpublish, EndCycle
<1>4. SamePlays
    BY <1>3 DEF SamePlays
<1> SUFFICES SameWatch(live, live')
    BY <1>4, SameWatchInv
<1>5. ASSUME NEW u \in Url, NEW x \in Source, StartCycle(s, u, x)
      PROVE  SameWatch(live, live')
    BY <1>5, FetchedWatch DEF StartCycle, FetchOrCreate
<1>6. CASE live' = live
    BY <1>6 DEF SameWatch
<1>7. CASE AcquirePublish(s)
    BY <1>1, <1>2, <1>7 DEF AcquirePublish, SameWatch, SourceRec
<1>8. CASE MountFails(s)
    BY <1>1, <1>2, <1>8 DEF MountFails, SameWatch, SourceRec
<1>9. CASE Published(s)
    BY <1>1, <1>2, <1>9 DEF Published, SameWatch, SourceRec
<1>10. CASE BeginUnpublish(s)
    BY <1>1, <1>2, <1>6, <1>10 DEF BeginUnpublish, SameWatch, SourceRec
<1>11. CASE FinishUnpublish(s)
    BY <1>1, <1>2, <1>11 DEF FinishUnpublish, SameWatch, SourceRec
<1>12. \/ \E u \in Url, x \in Source : StartCycle(s, u, x)
       \/ AcquirePublish(s) \/ MountFails(s) \/ Published(s)
       \/ BeginUnpublish(s) \/ FinishUnpublish(s)
       \/ live' = live
    BY DEF AnyPubStep, PublishRejected, HubFails, MountCrashes, EndPublishing,
           KickedForIdle, EndCycle
<1> QED BY <1>5, <1>6, <1>7, <1>8, <1>9, <1>10, <1>11, <1>12

LEMMA PlayerStepWatch ==
    ASSUME LiveInv, WatchInv, NEW c \in Player, AnyPlayerStep(c)
    PROVE  WatchInv'
<1>1. /\ c \in Client
      /\ live \in [Source -> SourceRec] /\ cli \in [Client -> CliRec]
      /\ cli[c].pc # "idle" => cli[c].src \in Source
    BY DEF LiveInv, ShapeOK, Client
<1>2. SameWatch(live, live)
    BY DEF SameWatch
<1>3. ASSUME NEW u \in Url, NEW x \in Source, PlayerFetch(c, u, x)
      PROVE  WatchInv'
    <2>1. /\ cli[c].pc = "idle" /\ Fetchable(u, x)
          /\ live' = Fetched(u, x)
          /\ cli' = [cli EXCEPT ![c] = [pc |-> "hooks", url |-> u, src |-> x]]
        BY <1>3 DEF PlayerFetch, FetchOrCreate
    <2>2. SamePlays
        BY <1>1, <2>1 DEF SamePlays
    <2> QED BY <2>1, <2>2, FetchedWatch, SameWatchInv
<1>4. CASE PlayerRejected(c)
    <2>1. SamePlays
        BY <1>1, <1>4 DEF PlayerRejected, SamePlays, Gone
    <2> QED BY <1>2, <1>4, <2>1, SameWatchInv DEF PlayerRejected
<1>5. CASE PlayerStart(c)
    <2>1. /\ cli[c].pc = "hooks" /\ cli[c].src \in Source
          /\ live' = WithConsumer(live, cli[c].src, c)
          /\ cli' = [cli EXCEPT ![c].pc = "playing"]
        BY <1>1, <1>5 DEF PlayerStart
    <2>2. /\ cli' \in [Client -> CliRec]
          /\ cli'[c].pc = "playing" /\ cli'[c].src = cli[c].src
          /\ \A d \in Client : d # c => cli'[d] = cli[d]
        BY <1>1, <2>1 DEF CliRec, CliPc
    <2> QED BY <1>1, <1>2, <2>1, <2>2, WithConsumerWatch
<1>6. CASE PlayerStop(c)
    <2>1. /\ cli[c].pc = "playing" /\ cli'[c].pc # "playing"
          /\ live' = WithoutConsumer(cli[c].src, c)
          /\ \A d \in Client : d # c => cli'[d] = cli[d]
        BY <1>1, <1>6 DEF PlayerStop, CliRec
    <2> QED BY <1>1, <2>1, WithoutConsumerWatch
<1>7. CASE PlayerLeft(c)
    <2>1. SamePlays
        BY <1>1, <1>7 DEF PlayerLeft, SamePlays, Gone
    <2> QED BY <1>2, <1>7, <2>1, SameWatchInv DEF PlayerLeft
<1> QED BY <1>3, <1>4, <1>5, <1>6, <1>7 DEF AnyPlayerStep

LEMMA ViewerStepWatch ==
    ASSUME LiveInv, WatchInv, NEW c \in Viewer, AnyViewerStep(c)
    PROVE  WatchInv'
<1>1. /\ c \in Client
      /\ live \in [Source -> SourceRec] /\ cli \in [Client -> CliRec]
      /\ cli[c].pc # "idle" => cli[c].url \in Url
    BY DEF LiveInv, ShapeOK, Client
<1>2. SameWatch(live, live)
    BY DEF SameWatch
<1>3. ASSUME NEW u \in Url, ViewerRequest(c, u) PROVE WatchInv'
    <2>1. SamePlays
        BY <1>1, <1>3 DEF ViewerRequest, SamePlays
    <2> QED BY <1>2, <1>3, <2>1, SameWatchInv DEF ViewerRequest
<1>4. ASSUME NEW x \in Source, ViewerStart(c, x) PROVE WatchInv'
    <2> DEFINE u == cli[c].url
    <2>1. /\ cli[c].pc = "hooks" /\ u \in Url /\ Fetchable(u, x)
          /\ live' = WithConsumer(Fetched(u, x), x, c)
          /\ cli' = [cli EXCEPT ![c].pc = "playing", ![c].src = x]
        BY <1>1, <1>4 DEF ViewerStart, FetchOrCreate
    <2>2. /\ cli' \in [Client -> CliRec]
          /\ cli'[c].pc = "playing" /\ cli'[c].src = x
          /\ \A d \in Client : d # c => cli'[d] = cli[d]
        BY <1>1, <2>1 DEF CliRec, CliPc
    <2>3. /\ Fetched(u, x) \in [Source -> SourceRec]
          /\ SameWatch(live, Fetched(u, x))
        BY <2>1, FetchedWatch
    <2> QED BY <1>1, <2>1, <2>2, <2>3, WithConsumerWatch
<1>5. CASE ViewerQuit(c)
    <2>1. CASE cli[c].pc = "playing"
        <3>1. /\ cli'[c].pc # "playing"
              /\ live' = WithoutConsumer(cli[c].src, c)
              /\ \A d \in Client : d # c => cli'[d] = cli[d]
            BY <1>1, <1>5, <2>1 DEF ViewerQuit, Gone
        <3> QED BY <1>1, <2>1, <3>1, WithoutConsumerWatch
    <2>2. CASE cli[c].pc # "playing"
        <3>1. live' = live /\ SamePlays
            BY <1>1, <1>5, <2>2 DEF ViewerQuit, SamePlays, Gone
        <3> QED BY <1>2, <3>1, SameWatchInv
    <2> QED BY <2>1, <2>2
<1>6. CASE RefusedStep
    <2>1. SamePlays
        BY <1>6 DEF RefusedStep, SamePlays
    <2> QED BY <1>2, <1>6, <2>1, SameWatchInv DEF RefusedStep
<1> QED BY <1>3, <1>4, <1>5, <1>6 DEF AnyViewerStep

LEMMA NextWatch == LiveInv /\ WatchInv /\ [LiveNext]_lvars => WatchInv'
<1> SUFFICES ASSUME LiveInv, WatchInv, [LiveNext]_lvars PROVE WatchInv'
    OBVIOUS
<1>1. CASE cli' = cli /\ live' = live
    BY <1>1 DEF WatchInv, ConsumersAttached, IdleMeansUnwatched
<1>2. ASSUME NEW x \in Source, DelayElapses(x) PROVE WatchInv'
    <2>1. SamePlays /\ SameWatch(live, live')
        BY <1>2 DEF DelayElapses, SamePlays, SameWatch, LiveInv, ShapeOK,
                    SourceRec
    <2> QED BY <2>1, SameWatchInv
<1>3. \/ \E s \in Session : AnyPubStep(s)
      \/ \E c \in Player : AnyPlayerStep(c)
      \/ \E c \in Viewer : AnyViewerStep(c)
      \/ \E x \in Source : DelayElapses(x)
      \/ cli' = cli /\ live' = live
    BY NextIsAny DEF AnyNext, AnyCleanup, CleanupTick, WorkerStep, lvars
<1> QED BY <1>1, <1>2, <1>3, PubStepWatch, PlayerStepWatch, ViewerStepWatch

\* The invariant holds in every reachable state.
THEOREM WatchInvariance == LiveSpec => []WatchInv
<1>1. LiveInit => WatchInv
    BY DEF LiveInit, WatchInv, ConsumersAttached, IdleMeansUnwatched, Gone,
           NewSource
<1> QED BY <1>1, NextWatch, Invariance, PTL DEF LiveSpec

\* The consumers_ of a source are the connections that play it.
THEOREM ConsumersAreAttached == LiveSpec => []ConsumersAttached
<1>1. WatchInv => ConsumersAttached
    BY DEF WatchInv
<1> QED BY <1>1, WatchInvariance, PTL

\* A publisher somebody plays is never idle, so never kicked for it.
THEOREM IdleIsUnwatched == LiveSpec => []IdleMeansUnwatched
<1>1. WatchInv => IdleMeansUnwatched
    BY DEF WatchInv
<1> QED BY <1>1, WatchInvariance, PTL
-----------------------------------------------------------------------------
(***************************************************************************)
(* The end of a publish.                                                   *)
(***************************************************************************)

\* The hub is off once the session that feeds the source has stopped it.
ClosingIsOff ==
    \A s \in Session : pub[s].pc = "closing" => ~live[pub[s].src].active

\* Neither opened for publishing nor switched on.
Quiet(K, L, x) ==
    /\ L[x].can_publish => K[x].can_publish
    /\ L[x].active => K[x].active

\* Clients leave the sources they watch as they are to publishers.
LEMMA ClientsAreQuiet ==
    ASSUME NEW L \in [Source -> SourceRec], NEW x \in Source,
           NEW c \in Client, NEW y \in Source
    PROVE  Quiet(L, WithConsumer(L, x, c), y)
BY DEF WithConsumer, SourceRec, Quiet

LEMMA LeaversAreQuiet ==
    ASSUME live \in [Source -> SourceRec], NEW x \in Source,
           NEW c \in Client, NEW y \in Source
    PROVE  Quiet(live, WithoutConsumer(x, c), y)
<1> DEFINE rest == live[x].consumers \ {c}
           r == [live[x] EXCEPT
                    !.consumers = rest,
                    !.dying = @ \/ (rest = {} /\ live[x].can_publish),
                    !.idle = @ \/ rest = {}]
<1>1. WithoutConsumer(x, c) = [live EXCEPT ![x] = r]
    BY DEF WithoutConsumer
<1>2. r.can_publish = live[x].can_publish /\ r.active = live[x].active
    BY DEF SourceRec
<1> HIDE DEF r
<1> QED BY <1>1, <1>2 DEF Quiet

\* Only the session that feeds a source opens it or switches its hub on.
LEMMA FedSource ==
    ASSUME LiveInv, LiveNext, NEW t \in Session, Feeding(t)
    PROVE  \/ Quiet(live, live', pub[t].src)
           \/ FinishUnpublish(t) \/ MountFails(t) \/ Published(t)
<1> DEFINE x == pub[t].src
<1>1. /\ live \in [Source -> SourceRec] /\ x \in Source
      /\ ~live[x].can_publish
    BY DEF LiveInv, ShapeOK, Feeding, FeederOwnsSource
<1>2. live' = live => Quiet(live, live', x)
    BY DEF Quiet
<1>3. ASSUME NEW u \in Url, NEW y \in Source, Fetchable(u, y)
      PROVE  Fetched(u, y)[x] = live[x]
    BY <1>1, <1>3, FetchedSafe DEF LiveInv
<1>4. ASSUME NEW s \in Session, AnyPubStep(s),
             ~FinishUnpublish(t), ~MountFails(t), ~Published(t)
      PROVE  Quiet(live, live', x)
    <2>1. Feeding(s) /\ s # t => pub[s].src # x
        BY OneFeeder DEF LiveInv
    <2>2. ASSUME NEW u \in Url, NEW y \in Source, StartCycle(s, u, y)
          PROVE  Quiet(live, live', x)
        BY <1>3, <2>2 DEF StartCycle, FetchOrCreate, Quiet
    <2>3. ASSUME AcquirePublish(s) PROVE Quiet(live, live', x)
        BY <1>1, <2>3 DEF AcquirePublish, Quiet
    <2>4. ASSUME MountFails(s) PROVE Quiet(live, live', x)
        BY <1>1, <1>4, <2>1, <2>4 DEF MountFails, Feeding, Quiet
    <2>5. ASSUME Published(s) PROVE Quiet(live, live', x)
        BY <1>1, <1>4, <2>1, <2>5 DEF Published, Feeding, Quiet
    <2>6. ASSUME BeginUnpublish(s) PROVE Quiet(live, live', x)
        BY <1>1, <1>2, <2>6 DEF BeginUnpublish, Quiet, SourceRec
    <2>7. ASSUME FinishUnpublish(s) PROVE Quiet(live, live', x)
        BY <1>1, <1>4, <2>1, <2>7 DEF FinishUnpublish, Feeding, Quiet
    <2> QED BY <1>2, <1>4, <2>2, <2>3, <2>4, <2>5, <2>6, <2>7
            DEF AnyPubStep, PublishRejected, HubFails, MountCrashes,
                EndPublishing, KickedForIdle, EndCycle
<1>5. ASSUME NEW c \in Player, AnyPlayerStep(c)
      PROVE  Quiet(live, live', x)
    <2>1. c \in Client /\ (cli[c].pc # "idle" => cli[c].src \in Source)
        BY DEF LiveInv, ShapeOK, Client
    <2>2. ASSUME NEW u \in Url, NEW y \in Source, PlayerFetch(c, u, y)
          PROVE  Quiet(live, live', x)
        BY <1>3, <2>2 DEF PlayerFetch, FetchOrCreate, Quiet
    <2>3. ASSUME PlayerStart(c) PROVE Quiet(live, live', x)
        BY <1>1, <2>1, <2>3, ClientsAreQuiet DEF PlayerStart
    <2>4. ASSUME PlayerStop(c) PROVE Quiet(live, live', x)
        BY <1>1, <2>1, <2>4, LeaversAreQuiet DEF PlayerStop
    <2> QED BY <1>2, <1>5, <2>2, <2>3, <2>4
            DEF AnyPlayerStep, PlayerRejected, PlayerLeft
<1>6. ASSUME NEW c \in Viewer, AnyViewerStep(c)
      PROVE  Quiet(live, live', x)
    <2>1. /\ c \in Client
          /\ cli[c].pc # "idle" => cli[c].url \in Url
          /\ cli[c].pc = "playing" => cli[c].src \in Source
        BY DEF LiveInv, ShapeOK, Client
    <2>2. ASSUME NEW y \in Source, ViewerStart(c, y)
          PROVE  Quiet(live, live', x)
        <3> DEFINE L == Fetched(cli[c].url, y)
        <3>1. /\ cli[c].url \in Url /\ Fetchable(cli[c].url, y)
              /\ live' = WithConsumer(L, y, c)
            BY <2>1, <2>2 DEF ViewerStart, FetchOrCreate
        <3>2. L \in [Source -> SourceRec] /\ L[x] = live[x]
            BY <1>3, <3>1, FetchedSafe DEF LiveInv
        <3>3. Quiet(L, live', x)
            BY <1>1, <2>1, <3>1, <3>2, ClientsAreQuiet
        <3> QED BY <3>2, <3>3 DEF Quiet
    <2>3. ASSUME ViewerQuit(c) PROVE Quiet(live, live', x)
        BY <1>1, <1>2, <2>1, <2>3, LeaversAreQuiet DEF ViewerQuit
    <2> QED BY <1>2, <1>6, <2>2, <2>3
            DEF AnyViewerStep, ViewerRequest, RefusedStep
<1>7. ASSUME NEW y \in Source, DelayElapses(y) PROVE Quiet(live, live', x)
    BY <1>1, <1>7 DEF DelayElapses, Quiet, SourceRec
<1> QED BY <1>2, <1>4, <1>5, <1>6, <1>7, NextIsAny
        DEF AnyNext, AnyCleanup, CleanupTick, WorkerStep

\* The last step of on_unpublish leaves the hub as it is.
LEMMA FinishKeepsHub ==
    ASSUME LiveInv, NEW s \in Session, FinishUnpublish(s)
    PROVE  /\ pub'[s].pc = "leaving"
           /\ live'[pub[s].src].active = live[pub[s].src].active
<1> DEFINE x == pub[s].src
           dies == live[x].dying \/ live[x].consumers = {}
<1>1. /\ pub' = [pub EXCEPT ![s].pc = "leaving"]
      /\ live' = [live EXCEPT ![x].source_id = None, ![x].dying = dies,
                              ![x].can_publish = TRUE]
    BY DEF FinishUnpublish
<1>2. pub \in [Session -> PubRec] /\ live \in [Source -> SourceRec]
    BY DEF LiveInv, ShapeOK
<1>3. x \in Source
    BY DEF FinishUnpublish, LiveInv, ShapeOK
<1> HIDE DEF x, dies
<1>4. pub'[s].pc = "leaving"
    BY <1>1, <1>2 DEF PubRec
<1>5. live'[x].active = live[x].active
    BY <1>1, <1>2, <1>3 DEF SourceRec
<1> QED BY <1>4, <1>5 DEF x

\* A publish that closes was stopped, hub first, and stays off.
LEMMA ClosingStep ==
    ASSUME LiveInv, ClosingIsOff, LiveNext
    PROVE  ClosingIsOff'
<1> SUFFICES ASSUME NEW t \in Session, pub'[t].pc = "closing"
             PROVE  ~live'[pub'[t].src].active
    BY DEF ClosingIsOff
<1>1. live \in [Source -> SourceRec] /\ pub \in [Session -> PubRec]
    BY DEF LiveInv, ShapeOK
<1>2. CASE BeginUnpublish(t)
    <2>1. pub[t].src \in Source /\ pub'[t].src = pub[t].src
        BY <1>1, <1>2 DEF BeginUnpublish, LiveInv, ShapeOK, PubRec
    <2> QED BY <1>1, <1>2, <2>1 DEF BeginUnpublish, PubRec, SourceRec
<1>3. CASE ~BeginUnpublish(t)
    <2>1. pub'[t] = pub[t]
        <3>1. ASSUME NEW s \in Session, AnyPubStep(s), s # t
              PROVE  pub'[t] = pub[t]
            BY <1>1, <3>1
            DEF AnyPubStep, StartCycle, PublishRejected, AcquirePublish,
                HubFails, MountFails, MountCrashes, Published, EndPublishing,
                KickedForIdle, BeginUnpublish, FinishUnpublish, EndCycle, LeaveCycle
        <3>2. ASSUME AnyPubStep(t) PROVE pub'[t] = pub[t]
            <4>1. ~LeaveCycle(t)
                BY <1>1 DEF LeaveCycle, Gone
            <4>2. ~\E u \in Url, x \in Source : StartCycle(t, u, x)
                BY <1>1 DEF StartCycle
            <4>3. ~AcquirePublish(t)
                BY <1>1 DEF AcquirePublish, PubRec
            <4>4. ~Published(t)
                BY <1>1 DEF Published, PubRec
            <4>5. ~EndPublishing(t)
                BY <1>1 DEF EndPublishing, PubRec
            <4>6. ~FinishUnpublish(t)
                BY FinishKeepsHub
            <4> QED BY <1>3, <3>2, <4>1, <4>2, <4>3, <4>4, <4>5, <4>6
                    DEF AnyPubStep, PublishRejected, HubFails, MountFails,
                        MountCrashes, KickedForIdle, EndCycle
        <3> QED BY <3>1, <3>2, NextIsAny
                DEF AnyNext, AnyPlayerStep, PlayerFetch, PlayerRejected,
                    PlayerStart, PlayerStop, PlayerLeft, AnyViewerStep,
                    ViewerRequest, ViewerStart, ViewerQuit, RefusedStep,
                    DelayElapses, AnyCleanup, CleanupTick, WorkerStep
    <2>2. Feeding(t) /\ ~live[pub[t].src].active
        BY <2>1 DEF Feeding, ClosingIsOff
    <2>3. ~FinishUnpublish(t) /\ ~MountFails(t) /\ ~Published(t)
        <3>1. ~FinishUnpublish(t)
            BY <2>1, FinishKeepsHub
        <3>2. ~MountFails(t)
            BY <2>1 DEF MountFails
        <3>3. ~Published(t)
            BY <2>1 DEF Published
        <3> QED BY <3>1, <3>2, <3>3
    <2> QED BY <2>1, <2>2, <2>3, FedSource DEF Quiet
<1> QED BY <1>2, <1>3

\* A source is open for publishing again only when its hub is off and its HTTP
\* entry is no longer mounted, whatever ran while its handlers waited.
THEOREM HandlersEndFirst == LiveSpec => FreedAfterHandlers
<1> DEFINE Freed(s) == Feeding(s) /\ live'[pub[s].src].can_publish
           Ended(s) == /\ ~live'[pub[s].src].active
                       /\ entry'[pub[s].url] # "mounted"
<1>1. LiveInit => ClosingIsOff
    BY DEF LiveInit, ClosingIsOff, Gone
<1>2. LiveInv /\ ClosingIsOff /\ [LiveNext]_lvars => ClosingIsOff'
    <2>1. ClosingIsOff /\ UNCHANGED lvars => ClosingIsOff'
        BY DEF ClosingIsOff, lvars
    <2> QED BY <2>1, ClosingStep
<1>3. LiveInv /\ HttpInv /\ ClosingIsOff /\ [LiveNext]_lvars
          => [\A s \in Session : Freed(s) => Ended(s)]_lvars
    <2> SUFFICES ASSUME LiveInv, HttpInv, ClosingIsOff, LiveNext,
                        NEW s \in Session, Freed(s)
                 PROVE  Ended(s)
        OBVIOUS
    <2>1. /\ live \in [Source -> SourceRec]
          /\ entry \in [Url -> EntryState]
          /\ pub[s].src \in Source /\ pub[s].url \in Url
          /\ ~live[pub[s].src].can_publish
        BY DEF LiveInv, ShapeOK, HttpInv, HttpTypeOK, Feeding,
               FeederOwnsSource
    <2>2. FinishUnpublish(s)
        <3>1. ~MountFails(s)
            BY <2>1 DEF MountFails, SourceRec
        <3>2. ~Published(s)
            BY <2>1 DEF Published, SourceRec
        <3> QED BY <2>1, <3>1, <3>2, FedSource DEF Quiet
    <2>3. ~live'[pub[s].src].active
        BY <2>2, FinishKeepsHub DEF FinishUnpublish, ClosingIsOff
    <2>4. entry'[pub[s].url] # "mounted"
        BY <2>1, <2>2 DEF FinishUnpublish, Unmount
    <2> QED BY <2>3, <2>4
<1> QED BY <1>1, <1>2, <1>3, Invariance, LiveHttpInvariance, PTL
        DEF LiveSpec, FreedAfterHandlers
=============================================================================
