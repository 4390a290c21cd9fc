---------------------------- MODULE SessionsProofs ----------------------------
(* The session of a client, for every number of contexts, tokens and upsets. *)
EXTENDS Sessions, FiniteSetTheorems, TLAPS

Rows == [status: {"unborn", "live", "fresh", "past", "gone"}, family: 0 .. MaxTokens,
         child: 0 .. MaxTokens, expired: BOOLEAN]
Pairs == [token: 0 .. MaxTokens, epoch: 0 .. MaxUpsets, lapsed: BOOLEAN]
Flows == [at: {"idle", "refresh", "lookup", "consume", "answer", "refused"},
          token: 0 .. MaxTokens, pair: Pairs]

EpochTyped == upsets \in 0 .. MaxUpsets /\ epoch \in 0 .. upsets /\ cached \in 0 .. epoch

StoreTyped ==
    /\ store \in Pairs /\ store.epoch <= epoch
    /\ store = NoPair \/ store.token \in Tokens
    /\ leaving \in [at: {"no", "logout", "clear"}, token: 0 .. MaxTokens]
    /\ leaving.at = "logout" => leaving.token \in Tokens

FlowTyped(c) ==
    /\ ctx[c] \in Flows /\ ctx[c].pair.epoch <= epoch
    /\ ctx[c].at \in {"lookup", "consume"} => ctx[c].token \in Tokens
    /\ ctx[c].at = "answer" => ctx[c].pair.token \in Tokens

CtxTyped == ctx = [c \in Contexts |-> ctx[c]] /\ \A c \in Contexts : FlowTyped(c)

\* The tokens minted are the first k; a child is of its parent's family.
FirstMinted(k) ==
    \A t \in Tokens :
        /\ Minted(t) <=> t <= k
        /\ tokenRows[t].family <= k
        /\ tokenRows[t].child # 0 =>
              /\ tokenRows[t].child <= k
              /\ tokenRows[tokenRows[t].child].family = tokenRows[t].family

RowsTyped == tokenRows \in [Tokens -> Rows] /\ \E k \in 0 .. MaxTokens : FirstMinted(k)

Typed == EpochTyped /\ StoreTyped /\ CtxTyped /\ RowsTyped

LEMMA Bounds == MaxTokens \in Nat /\ MaxUpsets \in Nat
BY SessionsAssumption

LEMMA InitTyped == Init => Typed
<1>.  SUFFICES ASSUME Init PROVE Typed
      OBVIOUS
<1>1. NoPair \in Pairs /\ AtRest \in Flows /\ AtRest.at = "idle" /\ AtRest.pair.epoch = 0
      BY Bounds DEF NoPair, Pairs, AtRest, Flows
<1>2. EpochTyped /\ StoreTyped
      BY <1>1, Bounds DEF Init, EpochTyped, StoreTyped, NoPair
<1>3. CtxTyped
      BY <1>1, <1>2 DEF Init, CtxTyped, FlowTyped
<1>4. FirstMinted(0)
      BY Bounds DEF Init, FirstMinted, Minted, Tokens, Unborn
<1>5. tokenRows \in [Tokens -> Rows]
      BY Bounds DEF Init, Rows, Unborn
<1>.  QED BY <1>2, <1>3, <1>4, <1>5, Bounds DEF Typed, RowsTyped

-----------------------------------------------------------------------------
(* Rows.                                                                   *)

LEMMA Fields ==
    ASSUME RowsTyped
    PROVE  \A t \in Tokens :
              /\ tokenRows[t].status \in {"unborn", "live", "fresh", "past", "gone"}
              /\ tokenRows[t].family \in 0 .. MaxTokens
              /\ tokenRows[t].child \in 0 .. MaxTokens
              /\ tokenRows[t].child # 0 => tokenRows[t].child \in Tokens
BY Bounds DEF RowsTyped, Rows, Tokens

LEMMA NextTokenIs ==
    ASSUME RowsTyped
    PROVE  \E k \in 0 .. MaxTokens : FirstMinted(k) /\ NextToken = k + 1
<1>1. PICK k \in 0 .. MaxTokens : FirstMinted(k)
      BY DEF RowsTyped
<1>2. {t \in Tokens : Minted(t)} = 1 .. k
      BY <1>1, Bounds DEF FirstMinted, Tokens
<1>3. Cardinality(1 .. k) = k
      BY <1>1, FS_Interval, Bounds
<1>.  QED BY <1>1, <1>2, <1>3 DEF NextToken

\* No row is added and none comes to life.
RowsFade ==
    /\ tokenRows' \in [Tokens -> Rows]
    /\ \A t \in Tokens :
          /\ tokenRows'[t].family = tokenRows[t].family
          /\ tokenRows'[t].child = tokenRows[t].child
          /\ Minted(t)' <=> Minted(t)
          /\ tokenRows'[t].status = "live" => tokenRows[t].status = "live"

LEMMA DeletedFades ==
    ASSUME RowsTyped, NEW S \in SUBSET Tokens, \A t \in S : Exists(t),
           tokenRows' = Deleted(tokenRows, S)
    PROVE  RowsFade
BY DEF Deleted, RowsTyped, Rows, RowsFade, Minted, Exists

LEMMA FadeTyped ==
    ASSUME RowsTyped, RowsFade
    PROVE  RowsTyped' /\ (OneUnusedToken => OneUnusedToken')
<1>1. PICK k \in 0 .. MaxTokens : FirstMinted(k)
      BY DEF RowsTyped
<1>2. FirstMinted(k)'
      <2>1. \A t \in Tokens : tokenRows[t].child # 0 => tokenRows[t].child \in Tokens
            BY Bounds DEF RowsTyped, Rows, Tokens
      <2>.  QED BY <1>1, <2>1 DEF FirstMinted, RowsFade
<1>3. OneUnusedToken => OneUnusedToken'
      BY DEF OneUnusedToken, RowsFade
<1>.  QED BY <1>2, <1>3 DEF RowsTyped, RowsFade

\* What each step does to the rows.
Mints == SignIn \/ \E c \in Contexts : Consume(c)

LEMMA OthersFade ==
    ASSUME Typed, [Next]_vars, ~Mints
    PROVE  RowsFade
<1>1. tokenRows' = tokenRows => RowsFade
      BY DEF Typed, RowsTyped, RowsFade, Minted
<1>2. CASE RevokeRefreshToken \/ ApplyPasswordReset \/ DeleteExpired
      <2>1. \A t : Family(t) \in SUBSET Tokens /\ \A u \in Family(t) : Exists(u)
            BY DEF Family
      <2>2. {t \in Tokens : Exists(t)} \in SUBSET Tokens
            OBVIOUS
      <2>3. {t \in Tokens : Exists(t) /\ tokenRows[t].expired} \in SUBSET Tokens
            OBVIOUS
      <2>.  QED BY <1>1, <1>2, <2>1, <2>2, <2>3, DeletedFades
               DEF RevokeRefreshToken, ApplyPasswordReset, DeleteExpired, Typed
<1>3. ASSUME NEW t \in Tokens, GraceLapses(t) \/ TokenExpires(t)
      PROVE  RowsFade
      <2>1. tokenRows \in [Tokens -> Rows]
            BY DEF Typed, RowsTyped
      <2>2. CASE GraceLapses(t)
            <3>1. /\ tokenRows' = [tokenRows EXCEPT ![t].status = "past"]
                  /\ tokenRows[t].status = "fresh"
                  BY <2>2 DEF GraceLapses
            <3>2. tokenRows' \in [Tokens -> Rows]
                  BY <2>1, <3>1 DEF Rows
            <3>.  QED BY <2>1, <3>1, <3>2 DEF RowsFade, Minted, Rows
      <2>3. CASE TokenExpires(t)
            <3>1. tokenRows' = [tokenRows EXCEPT ![t].expired = TRUE]
                  BY <2>3 DEF TokenExpires
            <3>2. tokenRows' \in [Tokens -> Rows]
                  BY <2>1, <3>1 DEF Rows
            <3>.  QED BY <2>1, <3>1, <3>2 DEF RowsFade, Minted, Rows
      <2>.  QED BY <1>3, <2>2, <2>3
<1>4. ASSUME NEW c \in Contexts, FindToken(c)
      PROVE  RowsFade
      <2>1. \A t : Family(t) \in SUBSET Tokens /\ \A u \in Family(t) : Exists(u)
            BY DEF Family
      <2>.  QED BY <1>1, <1>4, <2>1, DeletedFades DEF FindToken, Typed
<1>.  QED BY <1>1, <1>2, <1>3, <1>4 DEF Next, Mints, SignOut, ClearSignedOut, CacheLapses,
         AccessTokenLapses, Refresh, Unauthorized, DoRefresh, Accept, Refused, LoseRefresh,
         RefreshError, vars

LEMMA InRange == \A t \in Tokens : t \in 0 .. MaxTokens /\ t # 0
BY Bounds DEF Tokens

LEMMA SignInDoes ==
    ASSUME SignIn
    PROVE  NextToken \in Tokens /\ NextToken \in 0 .. MaxTokens
<1>1. NextToken \in Tokens
      BY DEF SignIn
<1>.  QED BY <1>1, InRange

LEMMA SignInRows ==
    ASSUME Typed, OneUnusedToken, SignIn
    PROVE  RowsTyped' /\ OneUnusedToken'
<1>1. PICK k \in 0 .. MaxTokens : FirstMinted(k) /\ NextToken = k + 1
      BY NextTokenIs DEF Typed
<1>2. PICK n \in Tokens : n = NextToken /\ n \in 0 .. MaxTokens
      BY SignInDoes
<1>3. /\ tokenRows'[n].status = "live" /\ tokenRows'[n].family = n /\ tokenRows'[n].child = 0
      /\ \A t \in Tokens \ {n} : tokenRows'[t] = tokenRows[t]
      /\ tokenRows' \in [Tokens -> Rows]
      <2>1. tokenRows' = [tokenRows EXCEPT ![n] = [Unborn EXCEPT !.status = "live", !.family = n]]
            BY <1>2 DEF SignIn
      <2>.  DEFINE row == [Unborn EXCEPT !.status = "live", !.family = n]
      <2>2. row.status = "live" /\ row.family = n /\ row.child = 0
            BY DEF Unborn
      <2>3. row \in Rows
            <3>1. Unborn \in Rows
                  BY Bounds DEF Rows, Unborn
            <3>.  QED BY <1>2, <3>1 DEF Rows
      <2>4. tokenRows' = [tokenRows EXCEPT ![n] = row]
            BY <2>1
      <2>.  HIDE DEF row
      <2>.  QED BY <1>2, <2>2, <2>3, <2>4 DEF Typed, RowsTyped
<1>4. \A t \in Tokens \ {n} : tokenRows[t].family # n
      BY <1>1, <1>2, Bounds DEF FirstMinted, Typed, RowsTyped, Rows
<1>5. FirstMinted(n)'
      <2>1. ASSUME NEW t \in Tokens
            PROVE  Minted(t)' <=> t <= n
            BY <1>1, <1>2, <1>3, <2>1, Bounds DEF FirstMinted, Minted, Tokens
      <2>2. ASSUME NEW t \in Tokens
            PROVE  tokenRows'[t].family <= n
            BY <1>1, <1>2, <1>3, <2>2, Bounds DEF FirstMinted, Typed, RowsTyped, Rows
      <2>3. ASSUME NEW t \in Tokens, tokenRows'[t].child # 0
            PROVE  /\ tokenRows'[t].child <= n
                   /\ tokenRows'[tokenRows'[t].child].family = tokenRows'[t].family
            <3>1. t # n /\ tokenRows'[t] = tokenRows[t]
                  BY <1>3, <2>3
            <3>2. tokenRows[t].child \in Tokens \ {n}
                  <4>1. tokenRows[t].child \in Tokens /\ tokenRows[t].child <= k
                        BY <1>1, <2>3, <3>1, Fields DEF FirstMinted, Typed
                  <4>.  QED BY <1>1, <1>2, <4>1
            <3>.  QED BY <1>1, <1>2, <1>3, <2>3, <3>1, <3>2, Bounds
                     DEF FirstMinted, Tokens
      <2>.  QED BY <2>1, <2>2, <2>3 DEF FirstMinted
<1>6. OneUnusedToken'
      BY <1>2, <1>3, <1>4 DEF OneUnusedToken
<1>.  QED BY <1>2, <1>3, <1>5, <1>6 DEF RowsTyped

\* A rotation that wins spends the parent as it mints the child.
LEMMA ConsumeRows ==
    ASSUME Typed, OneUnusedToken, NEW c \in Contexts, Consume(c)
    PROVE  RowsTyped' /\ OneUnusedToken'
<1>1. PICK p \in Tokens : p = ctx[c].token
      BY DEF Consume, At, Typed, CtxTyped, FlowTyped
<1>2. CASE tokenRows[p].status = "live"
      <2>1. PICK k \in 0 .. MaxTokens : FirstMinted(k) /\ NextToken = k + 1
            BY NextTokenIs DEF Typed
      <2>2. PICK n \in Tokens :
               /\ n = NextToken /\ n \in 0 .. MaxTokens
               /\ tokenRows' = [tokenRows EXCEPT ![p].status = "fresh", ![p].child = n,
                                  ![n] = [Unborn EXCEPT !.status = "live",
                                                        !.family = tokenRows[p].family]]
            BY <1>1, <1>2, InRange DEF Consume, Rotated
      <2>3. p # n /\ tokenRows[n].status = "unborn"
            BY <1>1, <1>2, <2>1, <2>2, Bounds DEF FirstMinted, Minted, Tokens
      <2>4. /\ tokenRows'[n] = [status |-> "live", family |-> tokenRows[p].family,
                                child |-> 0, expired |-> FALSE]
            /\ tokenRows'[p] = [tokenRows[p] EXCEPT !.status = "fresh", !.child = n]
            /\ \A t \in Tokens \ {n, p} : tokenRows'[t] = tokenRows[t]
            BY <1>1, <2>2, <2>3 DEF Unborn, Typed, RowsTyped, Rows
      <2>5. tokenRows' \in [Tokens -> Rows]
            <3>1. tokenRows'[n] \in Rows
                  BY <1>1, <2>4, Fields, Bounds DEF Typed, Rows
            <3>2. tokenRows'[p] \in Rows
                  <4>1. tokenRows[p] \in Rows /\ n \in 0 .. MaxTokens
                        BY <1>1, <2>2 DEF Typed, RowsTyped
                  <4>.  QED BY <2>4, <4>1 DEF Rows
            <3>3. tokenRows' = [t \in Tokens |-> tokenRows'[t]]
                  BY <2>2 DEF Typed, RowsTyped
            <3>.  QED BY <2>4, <3>1, <3>2, <3>3 DEF Typed, RowsTyped
      <2>6. tokenRows'[p].status = "fresh" /\ tokenRows'[p].child = n
            /\ tokenRows'[p].family = tokenRows[p].family
            BY <1>1, <2>4 DEF Typed, RowsTyped, Rows
      <2>7. FirstMinted(n)'
            <3>1. ASSUME NEW t \in Tokens
                  PROVE  Minted(t)' <=> t <= n
                  <4>1. p <= k
                        BY <1>1, <1>2, <2>1 DEF FirstMinted, Minted
                  <4>2. tokenRows'[t].status # "unborn" <=> (t = n \/ tokenRows[t].status # "unborn")
                        <5>1. tokenRows'[n].status = "live"
                              BY <2>4
                        <5>2. t \notin {n, p} => tokenRows'[t].status = tokenRows[t].status
                              BY <2>4
                        <5>.  QED BY <1>2, <2>6, <5>1, <5>2
                  <4>.  QED BY <3>1, <2>1, <2>2, <4>1, <4>2, Bounds DEF FirstMinted, Minted, Tokens
            <3>2. ASSUME NEW t \in Tokens
                  PROVE  tokenRows'[t].family <= n
                  <4>1. tokenRows[t].family <= k /\ tokenRows[p].family <= k
                        BY <1>1, <2>1, <3>2 DEF FirstMinted
                  <4>2. /\ tokenRows[t].family \in 0 .. MaxTokens
                        /\ tokenRows[p].family \in 0 .. MaxTokens
                        <5>1. tokenRows[t] \in Rows /\ tokenRows[p] \in Rows
                              BY <1>1, <3>2 DEF Typed, RowsTyped
                        <5>2. \A x \in Rows : x.family \in 0 .. MaxTokens
                              BY Bounds DEF Rows, Tokens
                        <5>.  QED BY <5>1, <5>2
                  <4>3. tokenRows'[t].family \in {tokenRows[t].family, tokenRows[p].family}
                        <5>1. tokenRows'[n].family = tokenRows[p].family
                              BY <2>4
                        <5>2. t \notin {n, p} => tokenRows'[t].family = tokenRows[t].family
                              BY <2>4, <3>2
                        <5>3. CASE t = n
                              BY <5>1, <5>3
                        <5>4. CASE t = p
                              BY <2>6, <5>4
                        <5>.  QED BY <5>2, <5>3, <5>4
                  <4>.  QED BY <2>1, <2>2, <4>1, <4>2, <4>3, Bounds
            <3>3. ASSUME NEW t \in Tokens, tokenRows'[t].child # 0
                  PROVE  /\ tokenRows'[t].child <= n
                         /\ tokenRows'[tokenRows'[t].child].family = tokenRows'[t].family
                  <4>1. CASE t = p
                        BY <2>2, <2>4, <2>6, <4>1, Bounds DEF Tokens
                  <4>2. CASE t # p
                        <5>1. t # n /\ tokenRows'[t] = tokenRows[t]
                              BY <2>4, <3>3, <4>2
                        <5>2. tokenRows[t].child \in Tokens \ {n}
                              <6>1. tokenRows[t].child \in Tokens /\ tokenRows[t].child <= k
                                    BY <2>1, <3>3, <5>1, Fields DEF FirstMinted, Typed
                              <6>.  QED BY <2>1, <2>2, <6>1
                        <5>3. tokenRows'[tokenRows[t].child].family = tokenRows[tokenRows[t].child].family
                              BY <2>4, <2>6, <5>2
                        <5>.  QED BY <2>1, <2>2, <3>3, <5>1, <5>2, <5>3, Bounds DEF FirstMinted, Tokens
                  <4>.  QED BY <4>1, <4>2
            <3>.  QED BY <3>1, <3>2, <3>3 DEF FirstMinted
      <2>8. OneUnusedToken'
            <3>1. \A t \in Tokens : tokenRows'[t].status = "live"
                     /\ tokenRows'[t].family = tokenRows[p].family => t = n
                  <4>1. \A t \in Tokens \ {n, p} : tokenRows[t].status = "live" =>
                           tokenRows[t].family # tokenRows[p].family
                        BY <1>2 DEF OneUnusedToken
                  <4>.  QED BY <2>4, <2>6, <4>1
            <3>2. \A t \in Tokens \ {n} : tokenRows'[t].status = "live" =>
                     tokenRows[t].status = "live" /\ tokenRows'[t].family = tokenRows[t].family
                  BY <2>4, <2>6
            <3>3. tokenRows'[n].family = tokenRows[p].family
                  BY <2>4
            <3>.  QED BY <3>1, <3>2, <3>3 DEF OneUnusedToken
      <2>.  QED BY <2>2, <2>5, <2>7, <2>8 DEF RowsTyped
<1>3. CASE tokenRows[p].status # "live"
      BY <1>1, <1>3 DEF Consume, Typed, RowsTyped, FirstMinted, Minted, OneUnusedToken
<1>.  QED BY <1>2, <1>3

LEMMA RowsStep ==
    ASSUME Typed, OneUnusedToken, [Next]_vars
    PROVE  RowsTyped' /\ OneUnusedToken'
BY SignInRows, ConsumeRows, OthersFade, FadeTyped DEF Mints, Typed

-----------------------------------------------------------------------------
(* The client's side.                                                      *)

LEMMA EpochStep ==
    ASSUME Typed, [Next]_vars
    PROVE  EpochTyped' /\ epoch <= epoch'
<1>.  EpochTyped
      BY DEF Typed
<1>1. CASE ApplyPasswordReset
      BY <1>1, Bounds DEF EpochTyped, ApplyPasswordReset
<1>2. CASE CacheLapses
      BY <1>2, Bounds DEF EpochTyped, CacheLapses
<1>3. CASE RevokeRefreshToken \/ (\E t \in Tokens : TokenExpires(t))
           \/ \E c \in Contexts : LoseRefresh(c) \/ RefreshError(c)
      <2>1. /\ epoch' = epoch /\ cached' = cached
            /\ upsets' = upsets \/ (upsets < MaxUpsets /\ upsets' = upsets + 1)
            <3>1. CASE RevokeRefreshToken
                  BY <3>1 DEF RevokeRefreshToken
            <3>2. CASE \E t \in Tokens : TokenExpires(t)
                  BY <3>2 DEF TokenExpires
            <3>3. CASE \E c \in Contexts : LoseRefresh(c) \/ RefreshError(c)
                  BY <3>3 DEF LoseRefresh, RefreshError
            <3>.  QED BY <1>3, <3>1, <3>2, <3>3
      <2>.  QED BY <2>1, Bounds DEF EpochTyped
<1>4. CASE UNCHANGED <<epoch, cached, upsets>>
      BY <1>4, Bounds DEF EpochTyped
<1>.  QED BY <1>1, <1>2, <1>3, <1>4 DEF Next, SignIn, SignOut, ClearSignedOut, AccessTokenLapses,
         DeleteExpired, GraceLapses, Refresh, Unauthorized, DoRefresh, FindToken, Consume, Accept,
         Refused, vars

LEMMA NoPairTyped == NoPair \in Pairs /\ NoPair.epoch = 0 /\ NoPair.token = 0
BY Bounds DEF NoPair, Pairs

LEMMA StoreStep ==
    ASSUME Typed, [Next]_vars
    PROVE  StoreTyped'
<1>.  /\ StoreTyped /\ epoch \in 0 .. MaxUpsets /\ epoch' \in 0 .. MaxUpsets /\ epoch <= epoch'
      BY EpochStep, Bounds DEF Typed, EpochTyped
<1>1. CASE SignIn
      <2>1. store' = [token |-> NextToken, epoch |-> epoch, lapsed |-> FALSE] /\ NextToken \in Tokens
            /\ leaving' = leaving
            BY <1>1 DEF SignIn
      <2>2. NextToken \in 0 .. MaxTokens
            BY <2>1, Bounds DEF Tokens
      <2>.  QED BY <2>1, <2>2, Bounds DEF StoreTyped, Pairs
<1>2. CASE SignOut
      BY <1>2, Bounds DEF SignOut, StoreTyped, Pairs
<1>3. CASE RevokeRefreshToken
      BY <1>3, Bounds DEF RevokeRefreshToken, StoreTyped, Pairs
<1>4. CASE ClearSignedOut \/ \E c \in Contexts : Refused(c)
      BY <1>4, NoPairTyped, Bounds DEF ClearSignedOut, Refused, StoreTyped
<1>5. CASE AccessTokenLapses
      BY <1>5, Bounds DEF AccessTokenLapses, StoreTyped, Pairs
<1>6. ASSUME NEW c \in Contexts, Accept(c)
      PROVE  StoreTyped'
      BY <1>6, Bounds DEF Accept, At, Typed, CtxTyped, FlowTyped, Flows, Pairs, StoreTyped
<1>7. CASE UNCHANGED <<store, leaving>>
      BY <1>7, Bounds DEF StoreTyped, Pairs
<1>.  QED BY <1>1, <1>2, <1>3, <1>4, <1>5, <1>6, <1>7 DEF Next, ApplyPasswordReset, CacheLapses,
         DeleteExpired, GraceLapses, TokenExpires, Refresh, Unauthorized, DoRefresh, FindToken,
         Consume, LoseRefresh, RefreshError, vars

\* A step changes at most one context, to x.
Moves(c, x) == ctx' = [ctx EXCEPT ![c] = x]

LEMMA CtxMoves ==
    ASSUME Typed, [Next]_vars, NEW c \in Contexts, NEW x \in Flows, Moves(c, x),
           x.pair.epoch <= epoch',
           x.at \in {"lookup", "consume"} => x.token \in Tokens,
           x.at = "answer" => x.pair.token \in Tokens
    PROVE  CtxTyped'
<1>1. CtxTyped /\ epoch \in Nat /\ epoch' \in Nat /\ epoch <= epoch'
      BY EpochStep, Bounds DEF Typed, EpochTyped
<1>2. \A d \in Contexts : ctx'[d] = IF d = c THEN x ELSE ctx[d]
      BY <1>1 DEF CtxTyped, Moves
<1>3. \A d \in Contexts : ctx[d].pair.epoch \in Nat
      BY <1>1, Bounds DEF CtxTyped, FlowTyped, Flows, Pairs
<1>4. \A d \in Contexts : FlowTyped(d)'
      BY <1>1, <1>2, <1>3 DEF CtxTyped, FlowTyped
<1>5. ctx' = [d \in Contexts |-> ctx'[d]]
      BY <1>1 DEF CtxTyped, Moves
<1>.  QED BY <1>4, <1>5 DEF CtxTyped

LEMMA CtxStep ==
    ASSUME Typed, [Next]_vars
    PROVE  CtxTyped'
<1>1. CtxTyped /\ epoch \in 0 .. MaxUpsets /\ epoch' \in Nat /\ epoch <= epoch'
      BY EpochStep, Bounds DEF Typed, EpochTyped
<1>2. AtRest \in Flows /\ AtRest.at = "idle" /\ AtRest.pair.epoch = 0
      BY NoPairTyped, Bounds DEF AtRest, Flows
<1>3. ASSUME NEW c \in Contexts, Moves(c, AtRest)
      PROVE  CtxTyped'
      BY <1>1, <1>2, <1>3, CtxMoves
<1>4. ASSUME NEW c \in Contexts, Unauthorized(c)
      PROVE  CtxTyped'
      <2>1. [AtRest EXCEPT !.at = "refresh"] \in Flows
            BY <1>2 DEF Flows
      <2>2. [AtRest EXCEPT !.at = "refresh"].at = "refresh"
            /\ [AtRest EXCEPT !.at = "refresh"].pair.epoch = 0
            BY <1>2 DEF AtRest
      <2>3. Moves(c, [AtRest EXCEPT !.at = "refresh"])
            BY <1>4 DEF Unauthorized, Ctx, Moves
      <2>4. 0 <= epoch'
            BY <1>1
      <2>.  QED BY <2>1, <2>2, <2>3, <2>4, CtxMoves
<1>5. ASSUME NEW c \in Contexts, DoRefresh(c), store # NoPair
      PROVE  CtxTyped'
      <2>.  DEFINE x == [AtRest EXCEPT !.at = "lookup", !.token = store.token]
      <2>1. store.token \in Tokens /\ store.token \in 0 .. MaxTokens
            BY <1>5, Bounds DEF Typed, StoreTyped, Tokens
      <2>2. x \in Flows /\ x.token = store.token /\ x.pair.epoch = 0 /\ x.at = "lookup"
            BY <1>2, <2>1 DEF AtRest, Flows
      <2>3. Moves(c, x)
            BY <1>5 DEF DoRefresh, Ctx, Moves
      <2>4. 0 <= epoch'
            BY <1>1
      <2>.  HIDE DEF x
      <2>.  QED BY <2>1, <2>2, <2>3, <2>4, CtxMoves
<1>6. ASSUME NEW c \in Contexts, NEW step \in {"consume", "refused"},
             Moves(c, [ctx[c] EXCEPT !.at = step]), ctx[c].at \in {"lookup", "consume"}
      PROVE  CtxTyped'
      <2>1. ctx[c] \in Flows /\ ctx[c].pair.epoch <= epoch /\ ctx[c].token \in Tokens
            BY <1>1, <1>6 DEF CtxTyped, FlowTyped
      <2>2. ctx[c].pair.epoch \in Nat
            BY <2>1, Bounds DEF Flows, Pairs
      <2>.  DEFINE x == [ctx[c] EXCEPT !.at = step]
      <2>3. x \in Flows /\ x.at = step /\ x.token = ctx[c].token /\ x.pair = ctx[c].pair
            BY <2>1 DEF Flows
      <2>4. x.pair.epoch <= epoch'
            BY <1>1, <2>1, <2>2, <2>3
      <2>5. Moves(c, x)
            BY <1>6
      <2>.  HIDE DEF x
      <2>.  QED BY <1>6, <2>1, <2>3, <2>4, <2>5, CtxMoves
<1>7. ASSUME NEW c \in Contexts, Consume(c), tokenRows[ctx[c].token].status = "live"
      PROVE  CtxTyped'
      <2>.  DEFINE q == [token |-> NextToken, epoch |-> epoch, lapsed |-> FALSE]
                   x == [ctx[c] EXCEPT !.at = "answer", !.pair = q]
      <2>1. ctx[c] \in Flows
            BY <1>1 DEF CtxTyped, FlowTyped
      <2>2. NextToken \in Tokens /\ NextToken \in 0 .. MaxTokens /\ Moves(c, x)
            BY <1>7, Bounds DEF Consume, Ctx, Moves, Tokens
      <2>3. q \in Pairs
            BY <1>1, <2>2 DEF Pairs
      <2>4. x \in Flows /\ x.at = "answer" /\ x.pair = q
            BY <2>1, <2>3 DEF Flows
      <2>5. x.pair.epoch <= epoch' /\ x.pair.token \in Tokens
            BY <1>1, <2>2, <2>4
      <2>.  HIDE DEF x
      <2>.  QED BY <2>2, <2>4, <2>5, CtxMoves
<1>8. ASSUME NEW c \in Contexts, FindToken(c) \/ RefreshError(c)
                                 \/ (Consume(c) /\ tokenRows[ctx[c].token].status # "live")
      PROVE  CtxTyped'
      BY <1>6, <1>8 DEF FindToken, RefreshError, Consume, At, Ctx, Moves
<1>9. CASE ctx' = ctx
      BY <1>1, <1>9, Bounds DEF CtxTyped, FlowTyped, Flows, Pairs
<1>10. ASSUME NEW c \in Contexts, Refresh(c) \/ LoseRefresh(c) \/ RefreshError(c)
       PROVE  CtxTyped'
      <2>1. CASE Moves(c, AtRest)
            BY <1>3, <2>1
      <2>2. Accept(c) \/ Refused(c) \/ LoseRefresh(c) => Moves(c, AtRest)
            BY DEF Accept, Refused, LoseRefresh, Ctx, Moves
      <2>3. DoRefresh(c) /\ store = NoPair => Moves(c, AtRest)
            BY DEF DoRefresh, Ctx, Moves
      <2>.  QED BY <1>4, <1>5, <1>7, <1>8, <1>10, <2>1, <2>2, <2>3 DEF Refresh
<1>.  QED BY <1>9, <1>10 DEF Next, SignIn, SignOut, RevokeRefreshToken, ClearSignedOut,
         ApplyPasswordReset, CacheLapses, AccessTokenLapses, DeleteExpired, GraceLapses,
         TokenExpires, vars

LEMMA NextTyped == Typed /\ OneUnusedToken /\ [Next]_vars => Typed' /\ OneUnusedToken'
BY RowsStep, EpochStep, StoreStep, CtxStep DEF Typed

\* The rows, the store and the contexts keep their types, and a child is of its parent's
\* family, in every reachable state (refresh-token.ts, token-store).
THEOREM SessionsTyped == Spec => []SessionsTypeOK
<1>1. Init => OneUnusedToken
      BY DEF Init, OneUnusedToken, Unborn
<1>2. Typed => SessionsTypeOK
      <2>1. ASSUME Typed, NEW t \in Tokens
            PROVE  /\ tokenRows[t].status \in {"unborn", "live", "fresh", "past", "gone"}
                   /\ tokenRows[t].child \in 0 .. MaxTokens
                   /\ tokenRows[t].child # 0 =>
                         tokenRows[tokenRows[t].child].family = tokenRows[t].family
            BY <2>1, Fields DEF Typed, RowsTyped, FirstMinted
      <2>2. ASSUME Typed
            PROVE  /\ epoch \in 0 .. MaxUpsets /\ cached \in 0 .. epoch /\ upsets \in 0 .. MaxUpsets
                   /\ store.token \in 0 .. MaxTokens /\ store.epoch \in 0 .. epoch
            BY <2>2, Bounds DEF Typed, EpochTyped, StoreTyped, Pairs
      <2>3. ASSUME Typed, NEW c \in Contexts
            PROVE  ctx[c].at \in {"idle", "refresh", "lookup", "consume", "answer", "refused"}
            BY <2>3 DEF Typed, CtxTyped, FlowTyped, Flows
      <2>.  QED BY <2>1, <2>2, <2>3 DEF SessionsTypeOK
<1>.  QED BY <1>1, <1>2, InitTyped, NextTyped, PTL DEF Spec

\* However the refreshes of a client's contexts, its retries and its sign-outs cross, a family
\* never has two unused tokens (rotateRefreshToken's conditional update).
THEOREM RotationSingleUse == Spec => []OneUnusedToken
<1>1. Init => OneUnusedToken
      BY DEF Init, OneUnusedToken, Unborn
<1>.  QED BY <1>1, InitTyped, NextTyped, PTL DEF Spec

-----------------------------------------------------------------------------
(* What ends a session.                                                    *)

\* The row is there and has not expired, so a refresh with the token is not refused for
\* want of it.
Sound(t) == Exists(t) /\ ~tokenRows[t].expired

\* As long as nothing has happened that may end the session, every token the client holds
\* or has sent is sound, and no refresh was refused.
CauseInv ==
    causes = {} =>
       /\ store # NoPair => Sound(store.token)
       /\ \A c \in Contexts :
             /\ ctx[c].at # "refused"
             /\ ctx[c].at \in {"lookup", "consume"} => Sound(ctx[c].token)
             /\ ctx[c].at = "answer" => Sound(ctx[c].pair.token)

SoundKept == \A t \in Tokens : Sound(t) => Sound(t)'

\* A step without a cause spoils no token.
LEMMA SoundStays ==
    ASSUME Typed, [Next]_vars, causes' = {}, causes = {}, ~SignIn
    PROVE  SoundKept
<1>.  tokenRows \in [Tokens -> Rows]
      BY DEF Typed, RowsTyped
<1>1. CASE tokenRows' = tokenRows
      BY <1>1 DEF SoundKept, Sound, Exists
<1>2. ASSUME NEW t \in Tokens, GraceLapses(t)
      PROVE  SoundKept
      BY <1>2 DEF GraceLapses, SoundKept, Sound, Exists, Rows
<1>3. CASE DeleteExpired
      <2>1. \A t \in Tokens : Sound(t) => tokenRows'[t] = tokenRows[t]
            BY <1>3 DEF DeleteExpired, Deleted, Sound
      <2>.  QED BY <2>1 DEF SoundKept, Sound, Exists
<1>4. ASSUME NEW c \in Contexts, FindToken(c)
      PROVE  tokenRows' = tokenRows
      BY <1>4 DEF FindToken
<1>5. ASSUME NEW c \in Contexts, Consume(c), tokenRows' # tokenRows
      PROVE  SoundKept
      <2>1. PICK p \in Tokens : p = ctx[c].token
            BY <1>5 DEF Consume, At, Typed, CtxTyped, FlowTyped
      <2>2. PICK n \in Tokens : n = NextToken /\ tokenRows' = Rotated(p) /\ tokenRows[p].status = "live"
            BY <1>5, <2>1 DEF Consume
      <2>3. PICK k \in 0 .. MaxTokens : FirstMinted(k) /\ n = k + 1
            BY <2>2, NextTokenIs DEF Typed
      <2>4. tokenRows[n].status = "unborn"
            BY <2>2, <2>3 DEF FirstMinted, Minted
      <2>5. /\ tokenRows'[p].status = "fresh" /\ tokenRows'[p].expired = tokenRows[p].expired
            /\ \A t \in Tokens \ {n, p} : tokenRows'[t] = tokenRows[t]
            BY <2>2, <2>4 DEF Rotated, Rows
      <2>.  QED BY <2>4, <2>5 DEF SoundKept, Sound, Exists
<1>6. ASSUME RevokeRefreshToken \/ ApplyPasswordReset \/ \E t \in Tokens : TokenExpires(t)
      PROVE  tokenRows' = tokenRows
      BY <1>6 DEF RevokeRefreshToken, ApplyPasswordReset, TokenExpires
<1>.  QED BY <1>1, <1>2, <1>3, <1>4, <1>5, <1>6 DEF Next, SignOut, ClearSignedOut, CacheLapses,
         AccessTokenLapses, Refresh, Unauthorized, DoRefresh, Accept, Refused, LoseRefresh,
         RefreshError, vars

\* A fresh pair is sound.
LEMMA MintedSound ==
    ASSUME Typed, NextToken \in Tokens,
           \/ SignIn
           \/ \E c \in Contexts : Consume(c) /\ tokenRows[ctx[c].token].status = "live"
    PROVE  \A n \in Tokens : n = NextToken => Sound(n)'
<1>.  tokenRows \in [Tokens -> Rows]
      BY DEF Typed, RowsTyped
<1>1. SUFFICES ASSUME NEW n \in Tokens, n = NextToken
               PROVE  Sound(n)'
      OBVIOUS
<1>2. CASE SignIn
      <2>1. tokenRows' = [tokenRows EXCEPT ![n] = [Unborn EXCEPT !.status = "live", !.family = n]]
            BY <1>1, <1>2 DEF SignIn
      <2>2. tokenRows'[n].status = "live" /\ ~tokenRows'[n].expired
            BY <2>1 DEF Unborn
      <2>.  QED BY <2>2 DEF Sound, Exists
<1>3. ASSUME NEW c \in Contexts, Consume(c), tokenRows[ctx[c].token].status = "live"
      PROVE  Sound(n)'
      <2>1. PICK p \in Tokens : p = ctx[c].token
            BY <1>3 DEF Consume, At, Typed, CtxTyped, FlowTyped
      <2>2. tokenRows' = [tokenRows EXCEPT ![p].status = "fresh", ![p].child = n,
                             ![n] = [Unborn EXCEPT !.status = "live", !.family = tokenRows[p].family]]
            BY <1>1, <1>3, <2>1 DEF Consume, Rotated
      <2>3. tokenRows'[n].status = "live" /\ ~tokenRows'[n].expired
            BY <2>2 DEF Unborn
      <2>.  QED BY <2>3 DEF Sound, Exists
<1>.  QED BY <1>2, <1>3

\* Without a cause no refresh is refused.
LEMMA NotRefused ==
    ASSUME Typed, CauseInv, causes' = {}, causes = {}, NEW c \in Contexts, Refresh(c) \/ RefreshError(c)
    PROVE  ctx'[c].at # "refused"
<1>1. /\ ctx[c].at # "refused"
      /\ ctx[c].at \in {"lookup", "consume"} =>
            ctx[c].token \in Tokens /\ Sound(ctx[c].token)
      BY DEF CauseInv, Typed, CtxTyped, FlowTyped
<1>2. ctx = [d \in Contexts |-> ctx[d]] /\ ctx[c] \in Flows
      BY DEF Typed, CtxTyped, FlowTyped
<1>3. CASE FindToken(c)
      <2>1. Usable(ctx[c].token)
            <3>1. tokenRows[ctx[c].token].status \notin {"fresh", "past"}
                  BY <1>3 DEF FindToken
            <3>2. ctx[c].token # 0
                  BY <1>1, <1>3, InRange DEF FindToken, At
            <3>.  QED BY <1>1, <1>3, <3>1, <3>2 DEF FindToken, At, Sound, Exists, Usable
      <2>2. ctx' = [ctx EXCEPT ![c].at = "consume"]
            BY <1>3, <2>1 DEF FindToken, Ctx
      <2>.  QED BY <1>2, <2>2 DEF Flows
<1>4. CASE Consume(c)
      <2>1. tokenRows[ctx[c].token].status = "live"
            BY <1>1, <1>4 DEF Consume, At, Sound, Exists
      <2>2. ctx' = [ctx EXCEPT ![c] = [ctx[c] EXCEPT !.at = "answer",
                          !.pair = [token |-> NextToken, epoch |-> epoch, lapsed |-> FALSE]]]
            BY <1>4, <2>1 DEF Consume, Ctx
      <2>.  QED BY <1>2, <2>2 DEF Flows
<1>5. CASE Unauthorized(c) \/ DoRefresh(c) \/ Accept(c)
      <2>1. CASE Unauthorized(c)
            BY <1>2, <2>1 DEF Unauthorized, Ctx, AtRest
      <2>2. CASE DoRefresh(c)
            BY <1>2, <2>2 DEF DoRefresh, Ctx, AtRest
      <2>3. CASE Accept(c)
            BY <1>2, <2>3 DEF Accept, Ctx, AtRest
      <2>.  QED BY <1>5, <2>1, <2>2, <2>3
<1>6. ~Refused(c) /\ ~RefreshError(c)
      BY <1>1 DEF Refused, At, RefreshError
<1>.  QED BY <1>3, <1>4, <1>5, <1>6 DEF Refresh


CtxSound(c) ==
    /\ ctx[c].at # "refused"
    /\ ctx[c].at \in {"lookup", "consume"} => Sound(ctx[c].token)
    /\ ctx[c].at = "answer" => Sound(ctx[c].pair.token)

LEMMA CtxSoundKept ==
    ASSUME Typed, SoundKept, NEW d \in Contexts, CtxSound(d), ctx'[d] = ctx[d]
    PROVE  CtxSound(d)'
BY DEF CtxSound, SoundKept, Typed, CtxTyped, FlowTyped

LEMMA CauseStep ==
    ASSUME Typed, CauseInv, [Next]_vars
    PROVE  CauseInv'
<1>.  SUFFICES ASSUME causes' = {}
               PROVE  /\ store' # NoPair => Sound(store.token)'
                      /\ \A d \in Contexts : CtxSound(d)'
      BY DEF CauseInv, CtxSound
<1>1. CASE SignIn
      <2>1. \A d \in Contexts : ctx'[d] = ctx[d] /\ ctx[d].at = "idle"
            BY <1>1 DEF SignIn
      <2>2. PICK n \in Tokens : n = NextToken /\ store'.token = n
            BY <1>1, SignInDoes DEF SignIn
      <2>3. Sound(n)'
            BY <1>1, <2>2, MintedSound
      <2>.  QED BY <2>1, <2>2, <2>3 DEF CtxSound, Sound, Exists
<1>2. CASE ~SignIn
      <2>1. causes = {}
            BY <1>2 DEF Next, SignOut, RevokeRefreshToken, ClearSignedOut, ApplyPasswordReset,
               CacheLapses, AccessTokenLapses, DeleteExpired, GraceLapses, TokenExpires, Refresh,
               Unauthorized, DoRefresh, FindToken, Consume, Accept, Refused, LoseRefresh,
               RefreshError, vars
      <2>2. SoundKept
            BY <1>2, <2>1, SoundStays
      <2>3. store # NoPair => store.token \in Tokens /\ Sound(store.token)
            BY <2>1 DEF CauseInv, Typed, StoreTyped
      <2>4. ctx = [d \in Contexts |-> ctx[d]] /\ \A d \in Contexts : CtxSound(d) /\ FlowTyped(d)
            BY <2>1 DEF CauseInv, CtxSound, Typed, CtxTyped
      <2>5. store' # NoPair => Sound(store.token)'
            <3>1. ASSUME NEW c \in Contexts, Accept(c)
                  PROVE  Sound(store.token)'
                  <4>1. store' = ctx[c].pair /\ ctx[c].pair.token \in Tokens /\ Sound(ctx[c].pair.token)
                        BY <2>4, <3>1 DEF Accept, At, CtxSound, FlowTyped
                  <4>.  QED BY <2>2, <4>1 DEF SoundKept, Sound, Exists
            <3>2. CASE store' = store \/ store' = NoPair
                  BY <2>2, <2>3, <3>2 DEF SoundKept, Sound, Exists
            <3>3. CASE AccessTokenLapses
                  <4>1. store'.token = store.token /\ store # NoPair
                        BY <3>3 DEF AccessTokenLapses, Typed, StoreTyped, Pairs
                  <4>.  QED BY <2>2, <2>3, <4>1 DEF SoundKept, Sound, Exists
            <3>.  QED BY <1>2, <3>1, <3>2, <3>3 DEF Next, SignOut, RevokeRefreshToken, ClearSignedOut,
                     ApplyPasswordReset, CacheLapses, DeleteExpired, GraceLapses, TokenExpires,
                     Refresh, Unauthorized, DoRefresh, FindToken, Consume, Refused, LoseRefresh,
                     RefreshError, vars
      <2>6. ASSUME NEW c \in Contexts, Refresh(c) \/ LoseRefresh(c) \/ RefreshError(c),
                   NEW d \in Contexts
            PROVE  CtxSound(d)'
            <3>1. CASE d # c
                  <4>1. ctx'[d] = ctx[d]
                        BY <2>4, <2>6, <3>1 DEF Refresh, Unauthorized, DoRefresh, FindToken, Consume,
                           Accept, Refused, LoseRefresh, RefreshError, Ctx
                  <4>.  QED BY <2>2, <2>4, <4>1, CtxSoundKept
            <3>2. ctx'[c].at # "refused"
                  <4>1. CASE LoseRefresh(c)
                        BY <2>4, <4>1 DEF LoseRefresh, Ctx, AtRest
                  <4>.  QED BY <2>1, <2>6, <4>1, NotRefused
            <3>3. ctx'[c].at = "lookup" => ctx'[c].token \in Tokens /\ Sound(ctx'[c].token)
                  <4>1. ctx'[c].at = "lookup" => DoRefresh(c) /\ store # NoPair
                        <5>1. CASE DoRefresh(c)
                              BY <2>4, <5>1 DEF DoRefresh, Ctx, AtRest
                        <5>2. CASE FindToken(c) \/ RefreshError(c)
                              <6>1. PICK step \in {"consume", "refused"} :
                                       ctx' = [ctx EXCEPT ![c] = [ctx[c] EXCEPT !.at = step]]
                                    BY <5>2 DEF FindToken, RefreshError, Ctx
                              <6>.  QED BY <2>4, <6>1 DEF FlowTyped, Flows
                        <5>3. CASE Consume(c)
                              BY <2>4, <5>3 DEF Consume, Ctx, FlowTyped, Flows
                        <5>4. CASE Unauthorized(c) \/ Accept(c) \/ Refused(c) \/ LoseRefresh(c)
                              BY <2>4, <5>4 DEF Unauthorized, Accept, Refused, LoseRefresh, Ctx, AtRest
                        <5>.  QED BY <2>6, <5>1, <5>2, <5>3, <5>4 DEF Refresh
                  <4>2. DoRefresh(c) /\ store # NoPair => ctx'[c].token = store.token
                        BY <2>4 DEF DoRefresh, Ctx, AtRest
                  <4>.  QED BY <2>3, <4>1, <4>2
            <3>4. ctx'[c].at = "consume" => ctx'[c].token \in Tokens /\ Sound(ctx'[c].token)
                  <4>1. ctx'[c].at = "consume" => FindToken(c)
                        <5>1. CASE Consume(c)
                              <6>1. CASE tokenRows[ctx[c].token].status = "live"
                                    BY <2>4, <5>1, <6>1 DEF Consume, Ctx, FlowTyped, Flows
                              <6>2. CASE tokenRows[ctx[c].token].status # "live"
                                    BY <2>4, <5>1, <6>2 DEF Consume, Ctx, FlowTyped, Flows
                              <6>.  QED BY <6>1, <6>2
                        <5>2. CASE RefreshError(c)
                              BY <2>4, <5>2 DEF RefreshError, Ctx, FlowTyped, Flows
                        <5>3. CASE DoRefresh(c)
                              BY <2>4, <5>3 DEF DoRefresh, Ctx, AtRest
                        <5>4. CASE Unauthorized(c) \/ Accept(c) \/ Refused(c) \/ LoseRefresh(c)
                              BY <2>4, <5>4 DEF Unauthorized, Accept, Refused, LoseRefresh, Ctx, AtRest
                        <5>.  QED BY <2>6, <5>1, <5>2, <5>3, <5>4 DEF Refresh
                  <4>2. FindToken(c) => ctx'[c].token = ctx[c].token
                        BY <2>4 DEF FindToken, Ctx, FlowTyped, Flows
                  <4>3. FindToken(c) => ctx[c].token \in Tokens /\ Sound(ctx[c].token)
                        BY <2>4 DEF FindToken, At, CtxSound, FlowTyped
                  <4>.  QED BY <4>1, <4>2, <4>3
            <3>5. ctx'[c].at = "answer" => Consume(c) /\ tokenRows[ctx[c].token].status = "live"
                                           /\ ctx'[c].pair.token = NextToken
                  <4>1. CASE Consume(c)
                        BY <2>4, <4>1 DEF Consume, Ctx, FlowTyped, Flows
                  <4>2. CASE FindToken(c) \/ RefreshError(c)
                        <5>1. PICK step \in {"consume", "refused"} :
                                 ctx' = [ctx EXCEPT ![c] = [ctx[c] EXCEPT !.at = step]]
                              BY <4>2 DEF FindToken, RefreshError, Ctx
                        <5>.  QED BY <2>4, <5>1 DEF FlowTyped, Flows
                  <4>3. CASE DoRefresh(c)
                        BY <2>4, <4>3 DEF DoRefresh, Ctx, AtRest
                  <4>4. CASE Unauthorized(c) \/ Accept(c) \/ Refused(c) \/ LoseRefresh(c)
                        BY <2>4, <4>4 DEF Unauthorized, Accept, Refused, LoseRefresh, Ctx, AtRest
                  <4>.  QED BY <2>6, <4>1, <4>2, <4>3, <4>4 DEF Refresh
            <3>6. ctx'[c].at = "answer" => Sound(ctx[c].pair.token)'
                  <4>1. SUFFICES ASSUME ctx'[c].at = "answer"
                                 PROVE  Sound(ctx[c].pair.token)'
                        OBVIOUS
                  <4>2. PICK n \in Tokens : n = NextToken
                        BY <3>5, <4>1 DEF Consume
                  <4>3. Sound(n)'
                        BY <3>5, <4>1, <4>2, MintedSound
                  <4>.  QED BY <3>5, <4>1, <4>2, <4>3 DEF Sound, Exists
            <3>.  QED BY <2>2, <3>1, <3>2, <3>3, <3>4, <3>6 DEF CtxSound, SoundKept, Sound, Exists
      <2>7. CASE ctx' = ctx
            BY <2>2, <2>4, <2>5, <2>7, CtxSoundKept
      <2>.  QED BY <1>2, <2>5, <2>6, <2>7 DEF Next, SignOut, RevokeRefreshToken, ClearSignedOut,
               ApplyPasswordReset, CacheLapses, AccessTokenLapses, DeleteExpired, GraceLapses,
               TokenExpires, vars
<1>.  QED BY <1>1, <1>2

\* A client that does not sign out keeps its session, unless something ended it: its family was
\* revoked or expired, an answer was lost, the API failed, two contexts spent one token or a
\* refresh of the session before was still under way (refresh-token.ts, bearer-transport.ts).
THEOREM EndsForCause == Spec => SessionEndsForCause
<1>1. Init => CauseInv /\ OneUnusedToken
      BY DEF Init, CauseInv, AtRest, OneUnusedToken, Unborn
<1>2. Typed /\ CauseInv /\ [Next]_vars => CauseInv'
      BY CauseStep
<1>3. ASSUME Typed, CauseInv, [Next]_vars, store # NoPair, store' = NoPair, leaving.at = "no"
      PROVE  causes # {}
      <2>1. store.token \in Tokens /\ store.token # 0
            BY <1>3, InRange DEF Typed, StoreTyped
      <2>2. ASSUME NEW c \in Contexts, Refused(c)
            PROVE  causes # {}
            BY <1>3, <2>2 DEF Refused, At, CauseInv
      <2>3. ASSUME NEW c \in Contexts, Accept(c)
            PROVE  FALSE
            BY <1>3, <2>3, InRange DEF Accept, At, Typed, CtxTyped, FlowTyped, NoPair
      <2>4. ~SignIn /\ ~AccessTokenLapses
            BY <1>3, <2>1, SignInDoes, InRange DEF SignIn, AccessTokenLapses, NoPair
      <2>.  QED BY <1>3, <2>2, <2>3, <2>4 DEF Next, SignOut, RevokeRefreshToken, ClearSignedOut,
               ApplyPasswordReset, CacheLapses, DeleteExpired, GraceLapses, TokenExpires, Refresh,
               Unauthorized, DoRefresh, FindToken, Consume, LoseRefresh, RefreshError, vars
<1>4. Typed /\ CauseInv /\ [Next]_vars =>
         [store # NoPair /\ store' = NoPair /\ leaving.at = "no" => causes # {}]_vars
      BY <1>3
<1>.  QED BY <1>1, <1>2, <1>4, InitTyped, NextTyped, PTL DEF Spec, SessionEndsForCause
===============================================================================
