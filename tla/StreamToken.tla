----------------------------- MODULE StreamToken -----------------------------
(***************************************************************************)
(* The publish token manager, SrsStreamPublishTokenManager: a map from     *)
(* stream URL to the token of the one session that may publish the stream, *)
(* whatever its protocol.  tokens_ is written here as the holder of each   *)
(* URL: acquire_token creates an entry already acquired and release_token  *)
(* erases it, so an entry exists exactly while a session holds it.  Both   *)
(* handlers run under mutex_ and switch no coroutine inside, so each is    *)
(* one step.                                                               *)
(***************************************************************************)
EXTENDS Streams

CONSTANT Session    \* publishing sessions (context ids)

ASSUME SessionAssumption == None \notin Session

VARIABLE tokens

TokenTypeOK == tokens \in [Url -> Session \cup {None}]

TokenInit == tokens = [u \in Url |-> None]

\* Mutation: acquire_token without the is_acquired check.
AcquireTokenUnchecked(s, u) == tokens' = [tokens EXCEPT ![u] = s]

\* acquire_token; the branch that answers ERROR_SYSTEM_STREAM_BUSY changes
\* nothing, so a refused session takes no step.
AcquireToken(s, u) ==
    /\ tokens[u] = None
    /\ tokens' = [tokens EXCEPT ![u] = s]

\* release_token, called by the destructor of an acquired token.
ReleaseToken(u) == tokens' = [tokens EXCEPT ![u] = None]

\* srs_assert(it != tokens_.end()) of release_token.
ReleaseAssert(u) == tokens[u] # None
=============================================================================
