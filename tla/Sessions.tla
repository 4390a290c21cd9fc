------------------------------ MODULE Sessions ------------------------------
(***************************************************************************)
(* The session of one native client: the token pair in its store, the      *)
(* refresh that its contexts (the extension's panel and its background     *)
(* worker, or the app alone) run on a 401, and the rows of RefreshToken    *)
(* behind it.  A lookup and the transaction that consumes a token are      *)
(* steps of their own; a transaction is one step.                          *)
(***************************************************************************)
EXTENDS Integers, FiniteSets

CONSTANTS
    Contexts,        \* makeBearerTransport instances over the one token store
    MaxTokens,       \* bound: refresh tokens minted
    MaxUpsets        \* bound: password resets, expiries, lost requests and answers,
                     \* errors of the API

ASSUME SessionsAssumption == {MaxTokens, MaxUpsets} \subseteq Nat

Tokens == 1 .. MaxTokens

VARIABLES
    tokenRows, \* the RefreshToken row of each token
    epoch,     \* User.sessionEpoch
    cached,    \* the epoch in the API's sessionEpochCache
    store,     \* the client's StoredTokens
    ctx,       \* ctx[c]: the refresh context c is in
    leaving,   \* the sign-out under way
    causes,    \* history: what may end the session since the sign-in
    upsets

vars == <<tokenRows, epoch, cached, store, ctx, leaving, causes, upsets>>

Unborn == [status |-> "unborn", family |-> 0, child |-> 0, expired |-> FALSE]
NoPair == [token |-> 0, epoch |-> 0, lapsed |-> FALSE]
AtRest == [at |-> "idle", token |-> 0, pair |-> NoPair]

Init ==
    /\ tokenRows = [t \in Tokens |-> Unborn]
    /\ epoch = 0 /\ cached = 0
    /\ store = NoPair
    /\ ctx = [c \in Contexts |-> AtRest]
    /\ leaving = [at |-> "no", token |-> 0]
    /\ causes = {}
    /\ upsets = 0

-----------------------------------------------------------------------------
(* Rows.                                                                   *)

Minted(t) == tokenRows[t].status # "unborn"
Exists(t) == tokenRows[t].status \in {"live", "fresh", "past"}
Usable(t) == t # 0 /\ tokenRows[t].status = "live" /\ ~tokenRows[t].expired

\* Tokens are named in the order they are minted.
NextToken == Cardinality({t \in Tokens : Minted(t)}) + 1

Deleted(rows, S) ==
    [t \in Tokens |-> IF t \in S THEN [rows[t] EXCEPT !.status = "gone"] ELSE rows[t]]

Family(t) == {u \in Tokens : Exists(u) /\ tokenRows[u].family = tokenRows[t].family}

-----------------------------------------------------------------------------
(* The user and the clock.                                                 *)

\* A login starts a family: issueTokenPair.
SignIn ==
    /\ store = NoPair /\ leaving.at = "no" /\ NextToken \in Tokens
    /\ tokenRows' = [tokenRows EXCEPT ![NextToken] =
                        [Unborn EXCEPT !.status = "live", !.family = NextToken]]
    /\ store' = [token |-> NextToken, epoch |-> epoch, lapsed |-> FALSE]
    /\ causes' = IF \E c \in Contexts : ctx[c].at # "idle" THEN {"left over"} ELSE {}
    /\ UNCHANGED <<epoch, cached, ctx, leaving, upsets>>

\* signOut reads the store, asks the API to revoke, and clears the store whatever
\* it answers.
SignOut ==
    /\ leaving.at = "no" /\ store # NoPair
    /\ leaving' = [at |-> "logout", token |-> store.token]
    /\ UNCHANGED <<tokenRows, epoch, cached, store, ctx, causes, upsets>>

RevokeRefreshToken ==
    /\ leaving.at = "logout"
    /\ leaving' = [leaving EXCEPT !.at = "clear"]
    /\ \/ /\ tokenRows' = IF Exists(leaving.token)
                          THEN Deleted(tokenRows, Family(leaving.token)) ELSE tokenRows
          /\ causes' = causes \cup {"revoked"}
          /\ UNCHANGED upsets
       \/ /\ upsets < MaxUpsets /\ upsets' = upsets + 1
          /\ UNCHANGED <<tokenRows, causes>>
    /\ UNCHANGED <<epoch, cached, store, ctx>>

ClearSignedOut ==
    /\ leaving.at = "clear"
    /\ leaving' = [at |-> "no", token |-> 0]
    /\ store' = NoPair
    /\ UNCHANGED <<tokenRows, epoch, cached, ctx, causes, upsets>>

\* applyPasswordReset: every token of the user goes and the epoch moves, at once.
ApplyPasswordReset ==
    /\ upsets < MaxUpsets /\ upsets' = upsets + 1
    /\ epoch' = epoch + 1
    /\ tokenRows' = Deleted(tokenRows, {t \in Tokens : Exists(t)})
    /\ causes' = causes \cup {"revoked"}
    /\ UNCHANGED <<cached, store, ctx, leaving>>

\* The cache's entry lives thirty seconds.
CacheLapses ==
    /\ cached # epoch
    /\ cached' = epoch
    /\ UNCHANGED <<tokenRows, epoch, store, ctx, leaving, causes, upsets>>

AccessTokenLapses ==
    /\ store # NoPair /\ ~store.lapsed
    /\ store' = [store EXCEPT !.lapsed = TRUE]
    /\ UNCHANGED <<tokenRows, epoch, cached, ctx, leaving, causes, upsets>>

\* REUSE_GRACE_MS pass after a rotation.
GraceLapses(t) ==
    /\ tokenRows[t].status = "fresh"
    /\ tokenRows' = [tokenRows EXCEPT ![t].status = "past"]
    /\ UNCHANGED <<epoch, cached, store, ctx, leaving, causes, upsets>>

\* Thirty days: a parent expires before its child.
TokenExpires(t) ==
    /\ upsets < MaxUpsets /\ upsets' = upsets + 1
    /\ Exists(t) /\ ~tokenRows[t].expired /\ tokenRows[t].status # "fresh"
    /\ \A u \in Tokens : Exists(u) /\ u < t => tokenRows[u].expired
    /\ tokenRows' = [tokenRows EXCEPT ![t].expired = TRUE]
    /\ causes' = causes \cup {"expired"}
    /\ UNCHANGED <<epoch, cached, store, ctx, leaving>>

DeleteExpired ==
    /\ \E t \in Tokens : Exists(t) /\ tokenRows[t].expired
    /\ tokenRows' = Deleted(tokenRows, {t \in Tokens : Exists(t) /\ tokenRows[t].expired})
    /\ UNCHANGED <<epoch, cached, store, ctx, leaving, causes, upsets>>

-----------------------------------------------------------------------------
(* The transport of a context, and the API's answer.                       *)

Ctx(c, x) == ctx' = [ctx EXCEPT ![c] = x]
At(c, step) == ctx[c].at = step

\* A request is answered 401: the token lapsed or the epoch moved on.
Unauthorized(c) ==
    /\ At(c, "idle") /\ store # NoPair
    /\ store.lapsed \/ store.epoch < cached
    /\ Ctx(c, [AtRest EXCEPT !.at = "refresh"])
    /\ UNCHANGED <<tokenRows, epoch, cached, store, leaving, causes, upsets>>

\* doRefresh reads the store; an empty one ends the session.
DoRefresh(c) ==
    /\ At(c, "refresh")
    /\ Ctx(c, IF store = NoPair THEN AtRest
              ELSE [AtRest EXCEPT !.at = "lookup", !.token = store.token])
    /\ UNCHANGED <<tokenRows, epoch, cached, store, leaving, causes, upsets>>

Forked(t) == tokenRows[t].child # 0 /\ tokenRows[tokenRows[t].child].status \in {"fresh", "past"}

\* rotateRefreshToken up to its transaction: a token that was used is a retry within
\* the grace, unless its child was used too; past it the family goes.
FindToken(c) ==
    LET t == ctx[c].token
        row == tokenRows[t]
        revoke == row.status = "past" \/ (row.status = "fresh" /\ Forked(t))
    IN  /\ At(c, "lookup")
        /\ Ctx(c, [ctx[c] EXCEPT !.at = IF Usable(t) THEN "consume" ELSE "refused"])
        /\ tokenRows' = IF revoke THEN Deleted(tokenRows, Family(t)) ELSE tokenRows
        /\ causes' = causes \cup (IF row.status \in {"fresh", "past"} /\ "lost" \notin causes
                                  THEN {"race"} ELSE {})
        /\ UNCHANGED <<epoch, cached, store, leaving, upsets>>

\* The child is minted in the family of its parent, and the parent points at it.
Rotated(t) ==
    [tokenRows EXCEPT ![t].status = "fresh", ![t].child = NextToken,
                      ![NextToken] = [Unborn EXCEPT !.status = "live",
                                                    !.family = tokenRows[t].family]]

ConsumeUnchecked(c) ==   \* mutant: the update does not ask that the token be unused
    LET t == ctx[c].token
    IN  /\ At(c, "consume") /\ NextToken \in Tokens
        /\ IF Exists(t)
           THEN /\ tokenRows' = Rotated(t)
                /\ Ctx(c, [ctx[c] EXCEPT !.at = "answer",
                             !.pair = [token |-> NextToken, epoch |-> epoch, lapsed |-> FALSE]])
           ELSE Ctx(c, [ctx[c] EXCEPT !.at = "refused"]) /\ UNCHANGED tokenRows
        /\ UNCHANGED <<epoch, cached, store, leaving, causes, upsets>>

ConsumeBeforeMint(c) ==   \* mutant: the token is spent before the mint can fail
    LET t == ctx[c].token
    IN  /\ At(c, "consume") /\ NextToken \in Tokens
        /\ tokenRows' = IF tokenRows[t].status = "live"
                        THEN [tokenRows EXCEPT ![t].status = "fresh"] ELSE tokenRows
        /\ Ctx(c, [ctx[c] EXCEPT !.at = "refused"])
        /\ UNCHANGED <<epoch, cached, store, leaving, causes, upsets>>

\* The transaction: only the caller that flips usedAt goes on, and the epoch of the
\* new access token is read in it.
Consume(c) ==
    LET t == ctx[c].token
        won == tokenRows[t].status = "live"
    IN  /\ At(c, "consume")
        /\ won => NextToken \in Tokens
        /\ tokenRows' = IF won THEN Rotated(t) ELSE tokenRows
        /\ Ctx(c, IF won
                  THEN [ctx[c] EXCEPT !.at = "answer",
                          !.pair = [token |-> NextToken, epoch |-> epoch, lapsed |-> FALSE]]
                  ELSE [ctx[c] EXCEPT !.at = "refused"])
        /\ causes' = causes \cup (IF tokenRows[t].status \in {"fresh", "past"}
                                  THEN {"race"} ELSE {})
        /\ UNCHANGED <<epoch, cached, store, leaving, upsets>>

\* The new pair replaces the old one in the store.
Accept(c) ==
    /\ At(c, "answer")
    /\ store' = ctx[c].pair
    /\ Ctx(c, AtRest)
    /\ UNCHANGED <<tokenRows, epoch, cached, leaving, causes, upsets>>

RefusedKeepsTokens(c) ==   \* mutant: a refused refresh leaves the tokens
    /\ At(c, "refused")
    /\ Ctx(c, AtRest)
    /\ UNCHANGED <<tokenRows, epoch, cached, store, leaving, causes, upsets>>

\* Any answer but ok clears the tokens and signs the client out.
Refused(c) ==
    /\ At(c, "refused")
    /\ store' = NoPair
    /\ Ctx(c, AtRest)
    /\ UNCHANGED <<tokenRows, epoch, cached, leaving, causes, upsets>>

\* The request or its answer is lost: the store is kept.
LoseRefresh(c) ==
    /\ ctx[c].at \in {"lookup", "answer", "refused"}
    /\ upsets < MaxUpsets /\ upsets' = upsets + 1
    /\ causes' = causes \cup (IF At(c, "answer") THEN {"lost"} ELSE {})
    /\ Ctx(c, AtRest)
    /\ UNCHANGED <<tokenRows, epoch, cached, store, leaving>>

\* The API fails or limits the rate: nothing is written, the answer is not ok.
RefreshError(c) ==
    /\ ctx[c].at \in {"lookup", "consume"}
    /\ upsets < MaxUpsets /\ upsets' = upsets + 1
    /\ causes' = causes \cup {"error"}
    /\ Ctx(c, [ctx[c] EXCEPT !.at = "refused"])
    /\ UNCHANGED <<tokenRows, epoch, cached, store, leaving>>

-----------------------------------------------------------------------------
(* The specification.                                                      *)

Refresh(c) ==
    \/ Unauthorized(c)
    \/ DoRefresh(c)
    \/ FindToken(c)
    \/ Consume(c)
    \/ Accept(c)
    \/ Refused(c)

Next ==
    \/ SignIn
    \/ SignOut
    \/ RevokeRefreshToken
    \/ ClearSignedOut
    \/ ApplyPasswordReset
    \/ CacheLapses
    \/ AccessTokenLapses
    \/ DeleteExpired
    \/ \E t \in Tokens : GraceLapses(t) \/ TokenExpires(t)
    \/ \E c \in Contexts : Refresh(c) \/ LoseRefresh(c) \/ RefreshError(c)

Spec == Init /\ [][Next]_vars

-----------------------------------------------------------------------------
(* Properties.                                                             *)

\* The rows, the store and the contexts have their types; a child is of its
\* parent's family.
SessionsTypeOK ==
    /\ \A t \in Tokens :
          /\ tokenRows[t].status \in {"unborn", "live", "fresh", "past", "gone"}
          /\ tokenRows[t].child \in 0 .. MaxTokens
          /\ tokenRows[t].child # 0 =>
                tokenRows[tokenRows[t].child].family = tokenRows[t].family
    /\ epoch \in 0 .. MaxUpsets /\ cached \in 0 .. epoch
    /\ store.token \in 0 .. MaxTokens /\ store.epoch \in 0 .. epoch
    /\ \A c \in Contexts :
          ctx[c].at \in {"idle", "refresh", "lookup", "consume", "answer", "refused"}
    /\ upsets \in 0 .. MaxUpsets

\* However the refreshes of a client's contexts, its retries and its sign-outs cross,
\* a family never has two unused tokens: a rotation is single-use (refresh-token.ts).
OneUnusedToken ==
    \A t, u \in Tokens :
        tokenRows[t].status = "live" /\ tokenRows[u].status = "live"
        /\ tokenRows[t].family = tokenRows[u].family => t = u

\* A client that does not sign out keeps its session, unless its family was revoked
\* or expired, an answer was lost, the API failed, two contexts spent one token or a
\* refresh of the session before was still under way: a rotation that
\* fails half-way never burns the token the client holds.
SessionEndsForCause ==
    [][store # NoPair /\ store' = NoPair /\ leaving.at = "no" => causes # {}]_vars

\* A client does not stay with a session the server has ended: it comes to a usable
\* token or to the sign-in screen, again and again (unless the model is out of tokens).
DeadSessionsEnd ==
    []<>(store = NoPair \/ Usable(store.token) \/ NextToken \notin Tokens)
=============================================================================
