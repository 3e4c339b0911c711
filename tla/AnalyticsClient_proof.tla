------------------------ MODULE AnalyticsClient_proof ------------------------
(***************************************************************************)
(* Proofs about AnalyticsClient: for every number of tokens, Sockets,      *)
(* WebSockets, reports, calls and troubles, the context watches the token  *)
(* it has; the client is connected, will be, or has said why not; and no   *)
(* report is forgotten.                                                    *)
(***************************************************************************)
EXTENDS AnalyticsClient, WellFoundedInduction, TLAPS

Stages == {"none", "clock", "api", "done", "failed"}

\* The part of TypeOK that the token depends on.
TokenType ==
    /\ context \in [authToken : Tokens, expiredTimer : 0..MaxTokens, disposed : BOOLEAN,
                    updating : [Tokens -> Stages]]
    /\ now \in 0..MaxTokens

IInv == TokenType /\ ExpiryIsWatched

\* Some update of the token has not set its timers, or has failed.
Unsettled == \E t \in Tokens : context.updating[t] \in {"clock", "failed"}

-----------------------------------------------------------------------------
(***************************************************************************)
(* The first token is watched from the start.                              *)
(***************************************************************************)
LEMMA InitIInv == Init => IInv
<1> USE AnalyticsAssumption
<1> SUFFICES ASSUME Init PROVE IInv
  OBVIOUS
<1>1. TokenType
  BY DEF Init, TokenType, Stages, Tokens, None
<1>2. ExpiryIsWatched
  BY DEF Init, ExpiryIsWatched, Tokens, None
<1> QED BY <1>1, <1>2 DEF IInv

(***************************************************************************)
(* A step that leaves the context and the time alone keeps the invariant:  *)
(* those of the connections, the reports and the session.                  *)
(***************************************************************************)
LEMMA ElsewhereKeeps ==
    ASSUME IInv, UNCHANGED <<context, now>>
    PROVE  IInv'
BY DEF IInv, TokenType, ExpiryIsWatched

(***************************************************************************)
(* The continuation of an update: the timer is set for the token that the  *)
(* context has by then, whichever update goes on.                          *)
(***************************************************************************)
LEMMA SetTimersKeeps ==
    ASSUME IInv, NEW t \in Tokens, SetTimers(t)
    PROVE  IInv'
<1> USE AnalyticsAssumption
<1>0. context.updating \in [Tokens -> Stages] /\ context.authToken \in 1..MaxTokens /\ now' = now
  BY DEF IInv, TokenType, SetTimers, Tokens
<1>1. CASE context' = [context EXCEPT !.updating[t] = "api", !.expiredTimer = context.authToken]
  <2>1. TokenType'
    <3> DEFINE u == [context.updating EXCEPT ![t] = "api"]
    <3>1. u \in [Tokens -> Stages]
      BY <1>0 DEF Stages
    <3>2. context' = [context EXCEPT !.updating = u, !.expiredTimer = context.authToken]
      BY <1>0, <1>1 DEF IInv, TokenType
    <3>3. context.authToken \in 0..MaxTokens /\ now' \in 0..MaxTokens
      BY <1>0 DEF IInv, TokenType
    <3>4. context \in [authToken : Tokens, expiredTimer : 0..MaxTokens, disposed : BOOLEAN,
                       updating : [Tokens -> Stages]]
      BY DEF IInv, TokenType
    <3> HIDE DEF u
    <3>5. context' \in [authToken : Tokens, expiredTimer : 0..MaxTokens, disposed : BOOLEAN,
                        updating : [Tokens -> Stages]]
      BY ONLY <3>1, <3>2, <3>3, <3>4
    <3> QED BY <3>3, <3>5 DEF TokenType
  <2>2. context'.expiredTimer = context'.authToken /\ context'.expiredTimer # None
    BY <1>0, <1>1 DEF IInv, TokenType, None
  <2> QED BY <2>1, <2>2 DEF IInv, ExpiryIsWatched
<1>2. CASE context' = [context EXCEPT !.updating[t] = "failed"]
  <2>1. TokenType'
    BY <1>0, <1>2 DEF IInv, TokenType, Stages
  <2>2. context'.updating[t] = "failed"
    BY <1>0, <1>2 DEF IInv, TokenType
  <2> QED BY <2>1, <2>2 DEF IInv, ExpiryIsWatched
<1> QED BY <1>1, <1>2 DEF SetTimers

(***************************************************************************)
(* The answer of the RTC API: an update that is done was settled before,   *)
(* one that fails says nothing any more, and a context that is disposed    *)
(* of watches nothing.                                                     *)
(***************************************************************************)
LEMMA ApiAnswersKeeps ==
    ASSUME IInv, NEW t \in Tokens, ApiAnswers(t)
    PROVE  IInv'
<1> USE AnalyticsAssumption
<1>0. context.updating \in [Tokens -> Stages] /\ context.updating[t] = "api" /\ now' = now
  BY DEF IInv, TokenType, ApiAnswers
<1>1. CASE context' = [context EXCEPT !.updating[t] = "done"]
  <2>1. TokenType'
    BY <1>0, <1>1 DEF IInv, TokenType, Stages
  <2>2. Unsettled => Unsettled'
    <3> SUFFICES ASSUME NEW u \in Tokens, context.updating[u] \in {"clock", "failed"}
                 PROVE  Unsettled'
      BY DEF Unsettled
    <3>1. u # t
      BY <1>0
    <3>2. context'.updating[u] = context.updating[u]
      BY <1>0, <1>1, <3>1 DEF IInv, TokenType
    <3> QED BY <3>2 DEF Unsettled
  <2>3. /\ context'.authToken = context.authToken
        /\ context'.expiredTimer = context.expiredTimer
        /\ context'.disposed = context.disposed
    BY <1>1 DEF IInv, TokenType
  <2> QED BY <1>0, <2>1, <2>2, <2>3 DEF IInv, ExpiryIsWatched, Unsettled
<1>2. CASE context' = [context EXCEPT !.updating[t] = "failed"]
  <2>1. TokenType'
    BY <1>0, <1>2 DEF IInv, TokenType, Stages
  <2>2. context'.updating[t] = "failed"
    BY <1>0, <1>2 DEF IInv, TokenType
  <2> QED BY <2>1, <2>2 DEF IInv, ExpiryIsWatched
<1>3. CASE context' = [context EXCEPT !.updating[t] = "failed", !.expiredTimer = None, !.disposed = TRUE]
  <2>1. TokenType'
    <3> DEFINE u == [context.updating EXCEPT ![t] = "failed"]
    <3>1. u \in [Tokens -> Stages]
      BY <1>0 DEF Stages
    <3>2. context' = [context EXCEPT !.updating = u, !.expiredTimer = None, !.disposed = TRUE]
      BY <1>0, <1>3 DEF IInv, TokenType
    <3>3. None \in 0..MaxTokens /\ now' \in 0..MaxTokens
      BY <1>0 DEF IInv, TokenType, None
    <3>4. context \in [authToken : Tokens, expiredTimer : 0..MaxTokens, disposed : BOOLEAN,
                       updating : [Tokens -> Stages]]
      BY DEF IInv, TokenType
    <3> HIDE DEF u
    <3>5. context' \in [authToken : Tokens, expiredTimer : 0..MaxTokens, disposed : BOOLEAN,
                        updating : [Tokens -> Stages]]
      BY ONLY <3>1, <3>2, <3>3, <3>4
    <3> QED BY <3>3, <3>5 DEF TokenType
  <2>2. context'.disposed
    BY <1>3 DEF IInv, TokenType
  <2> QED BY <2>1, <2>2 DEF IInv, ExpiryIsWatched
<1> QED BY <1>1, <1>2, <1>3 DEF ApiAnswers

(***************************************************************************)
(* A new token is unsettled until its update goes on.                      *)
(***************************************************************************)
LEMMA UpdateKeeps ==
    ASSUME IInv, NEW t \in Tokens, updateAuthToken(t)
    PROVE  IInv'
<1>1. context.updating \in [Tokens -> Stages] /\ now' = now
      /\ context' = [context EXCEPT !.authToken = t, !.updating[t] = "clock"]
  BY DEF IInv, TokenType, updateAuthToken
<1>2. TokenType'
  BY <1>1 DEF IInv, TokenType, Stages
<1>3. context'.updating[t] = "clock"
  BY <1>1 DEF IInv, TokenType
<1> QED BY <1>2, <1>3 DEF IInv, ExpiryIsWatched

(***************************************************************************)
(* The timer fires for the token that is watched, when it has expired.     *)
(***************************************************************************)
LEMMA TokenTimerKeeps ==
    ASSUME IInv, TokenTimer
    PROVE  IInv'
<1> USE AnalyticsAssumption
<1>1. /\ context.expiredTimer \in 1..now /\ now \in 0..MaxTokens /\ now' = now
      /\ context' = [context EXCEPT !.expiredTimer = None]
  BY DEF IInv, TokenType, TokenTimer
<1>2. TokenType'
  BY <1>1 DEF IInv, TokenType, None
<1>3. /\ context'.updating = context.updating /\ context'.authToken = context.authToken
      /\ context'.disposed = context.disposed /\ context'.expiredTimer = None
  BY <1>1 DEF IInv, TokenType
<1>4. context.expiredTimer # None /\ context.expiredTimer <= now
  BY <1>1 DEF None
<1> QED BY <1>1, <1>2, <1>3, <1>4 DEF IInv, ExpiryIsWatched

(***************************************************************************)
(* Every step keeps the invariant.                                         *)
(***************************************************************************)
LEMMA StepIInv == IInv /\ [Next]_vars => IInv'
<1> SUFFICES ASSUME IInv, [Next]_vars PROVE IInv'
  OBVIOUS
<1>1. CASE UNCHANGED vars
  BY <1>1, ElsewhereKeeps DEF vars
<1>2. ASSUME NEW w \in WebSockets, OpenReceived(w) \/ CloseAbnormal(w) \/ CloseFinal(w) \/ TokenExpired(w)
      PROVE  IInv'
  BY <1>2, ElsewhereKeeps DEF OpenReceived, CloseAbnormal, CloseFinal, TokenExpired, LoseWs
<1>3. ASSUME NEW s \in Sockets, ReconnectTimer(s)
      PROVE  IInv'
  BY <1>3, ElsewhereKeeps DEF ReconnectTimer
<1>4. ASSUME NEW r \in Reports,
             sendReport(r) \/ bufferSdkLog(r) \/ SdkLogInterval(r) \/ SendTimeout(r) \/ BackoffOver(r)
      PROVE  IInv'
  BY <1>4, ElsewhereKeeps DEF sendReport, bufferSdkLog, SdkLogInterval, SendTimeout, BackoffOver, SendClientEvent
<1>5. ASSUME NEW w \in WebSockets, NEW r \in Reports, NEW again \in BOOLEAN,
             SendFails(w, r, again) \/ Deliver(w, r, again)
      PROVE  IInv'
  BY <1>5, ElsewhereKeeps DEF SendFails, Deliver
<1>6. ASSUME NEW w \in WebSockets, NEW r \in Reports, NEW v \in {"ok", "unexpected", "refused"},
             Acknowledge(w, r, v)
      PROVE  IInv'
  BY <1>6, ElsewhereKeeps DEF Acknowledge
<1>7. ASSUME NEW t \in Tokens, updateAuthToken(t) \/ SetTimers(t) \/ ApiAnswers(t)
      PROVE  IInv'
  BY <1>7, UpdateKeeps, SetTimersKeeps, ApiAnswersKeeps
<1>8. CASE TokenTimer
  BY <1>8, TokenTimerKeeps
<1>9. CASE dispose
  <2>1. /\ context' = [context EXCEPT !.disposed = TRUE] /\ now' = now
    BY <1>9 DEF dispose
  <2>2. TokenType' /\ context'.disposed
    BY <2>1 DEF IInv, TokenType
  <2> QED BY <2>2 DEF IInv, ExpiryIsWatched
<1>10. CASE TimePasses
  <2>1. context' = context /\ now' = now + 1 /\ now' \in 0..MaxTokens /\ now \in Nat
    BY <1>10, AnalyticsAssumption DEF IInv, TokenType, TimePasses
  <2>2. context.authToken \in Nat
    BY AnalyticsAssumption DEF IInv, TokenType, Tokens
  <2> QED BY <2>1, <2>2 DEF IInv, TokenType, ExpiryIsWatched
<1>11. CASE SessionTimeout
  BY <1>11, ElsewhereKeeps DEF SessionTimeout
<1> QED BY <1>1, <1>2, <1>3, <1>4, <1>5, <1>6, <1>7, <1>8, <1>9, <1>10, <1>11 DEF Next

(***************************************************************************)
(* Once its timers are set, the context watches the expiry of the newest   *)
(* token, also when updates overtake each other (updateAuthToken and       *)
(* _setTokenExpireTimer of context.ts).                                    *)
(***************************************************************************)
THEOREM TokenAlwaysWatched == Spec => []ExpiryIsWatched
<1>1. IInv => ExpiryIsWatched
  BY DEF IInv
<1> QED BY InitIInv, StepIInv, <1>1, PTL DEF Spec

-----------------------------------------------------------------------------
(* What the operators on the client do                                     *)

\* The least of a set of numbers is one of them.
LEMMA LeastIsMember ==
    ASSUME NEW S, S \subseteq Nat, S # {}
    PROVE  Min(S) \in S
<1> DEFINE R == {ss \in Nat \X Nat : ss[1] < ss[2]}
<1>1. IsWellFoundedOn(R, Nat)
  BY NatLessThanWellFounded DEF OpToRel
<1>2. PICK x \in S : \A y \in S : ~ (<<y, x>> \in R)
  <2> HIDE DEF R
  <2> QED BY <1>1, WFMin
<1>3. ASSUME NEW y \in S PROVE x =< y
  <2> DEFINE p == <<y, x>>
  <2>1. p \in Nat \X Nat /\ p[1] = y /\ p[2] = x /\ x \in Nat /\ y \in Nat
    OBVIOUS
  <2>2. y < x => p \in R
    BY ONLY <2>1 DEF R
  <2> QED BY <1>2, <2>1, <2>2
<1> QED BY <1>3 DEF Min

LEMMA Bounds ==
    /\ {MaxSockets, MaxWs, MaxTokens, MaxLogs, MaxAttempts, MaxTries} \subseteq Nat \ {0}
    /\ {MaxReports, MaxCalls, MaxTroubles} \subseteq Nat
BY AnalyticsAssumption

LEMMA Zeros ==
    None = 0 /\ None \in 0..MaxSockets /\ None \in 0..MaxWs /\ None \in 0..MaxTokens /\ 0 \in 0..MaxLogs
BY Bounds DEF None

WsType == [owner : 0..MaxSockets, phase : {"none", "connecting", "open", "closing", "closed"}]

\* A WebSocket that exists has a Socket, which is the one that holds it.
Linked(c) ==
    /\ \A w \in WebSockets : c.ws[w].phase = "none" <=> c.ws[w].owner = None
    /\ \A s \in Sockets : c.sockets[s].ws # None => c.ws[c.sockets[s].ws].owner = s

Good(c) == c \in ClientType /\ Linked(c)

\* The part of StateIsTrue that is about Socket s of a client c.
Watched(c, s) ==
    /\ c.sockets[s].listens /\ c.sockets[s].connectionState # "closed"
    /\ c.sockets[s].timer \/ \E w \in WebSockets : c.ws[w].owner = s /\ c.ws[w].phase \in Up
    /\ c.sockets[s].connectionState = "connected" =>
          \E w \in WebSockets : c.ws[w].owner = s /\ c.ws[w].phase = "open"

Live(c) == IF c.current = None THEN c.told # {} ELSE Watched(c, c.current)

\* The same while a step is about to give Socket s what it needs.
LiveBut(c, s) ==
    /\ c.current = None => c.told # {}
    /\ c.current \notin {None, s} => Watched(c, c.current)
    /\ c.current = s => c.sockets[s].listens

\* From c to d nothing is told or sent, and the queues, the WebSockets that are there, what is closed and,
\* unless the client fails, the versions stay.
Calm(c, d) ==
    /\ \A s \in Sockets : d.sockets[s].resend = c.sockets[s].resend
    /\ \A w \in WebSockets : /\ c.ws[w].phase = "closed" => d.ws[w].phase = "closed"
                             /\ c.ws[w].phase # "none" => d.ws[w].phase # "none"
    /\ c.told \subseteq d.told
    /\ "failed" \notin d.told => d.version = c.version

\* And only Socket s and its WebSockets change.
Within(c, d, s) ==
    /\ Calm(c, d)
    /\ d.current = c.current /\ d.told = c.told /\ d.newToken = c.newToken
    /\ \A x \in Sockets \ {s} : d.sockets[x] = c.sockets[x]
    /\ \A w \in WebSockets : /\ d.ws[w].owner = c.ws[w].owner
                             /\ d.ws[w].phase = "none" <=> c.ws[w].phase = "none"
                             /\ c.ws[w].owner # s => d.ws[w] = c.ws[w]
    /\ d.sockets[s].ws \in {c.sockets[s].ws, None}

LEMMA FieldTypes ==
    ASSUME NEW c \in ClientType
    PROVE  /\ \A s \in Sockets : /\ c.sockets[s] \in SocketType
                                 /\ c.sockets[s].ws \in 0..MaxWs /\ c.sockets[s].resend \subseteq Reports
                                 /\ c.sockets[s].ws # None => c.sockets[s].ws \in WebSockets
           /\ \A w \in WebSockets : /\ c.ws[w] \in WsType
                                    /\ c.ws[w].owner \in 0..MaxSockets
                                    /\ c.ws[w].owner # None => c.ws[w].owner \in Sockets
           /\ c.current \in 0..MaxSockets /\ (c.current # None => c.current \in Sockets)
           /\ c.newToken \in 0..MaxTokens /\ c.told \in SUBSET {"failed", "no token"}
           /\ c.callbacks \subseteq Reports /\ c.version \in Nat /\ c.logs \in 0..MaxLogs
<1>1. \A n \in 0..MaxWs : n # 0 => n \in WebSockets
  BY Bounds DEF WebSockets
<1>2. \A n \in 0..MaxSockets : n # 0 => n \in Sockets
  BY Bounds DEF Sockets
<1>3. c.sockets \in [Sockets -> SocketType] /\ c.ws \in [WebSockets -> WsType]
  BY DEF ClientType, WsType
<1>4. \A k \in SocketType : k.ws \in 0..MaxWs /\ k.resend \subseteq Reports
  BY DEF SocketType
<1>5. \A k \in WsType : k.owner \in 0..MaxSockets
  BY DEF WsType
<1>6. /\ c.current \in 0..MaxSockets /\ c.newToken \in 0..MaxTokens /\ c.told \in SUBSET {"failed", "no token"}
      /\ c.callbacks \subseteq Reports /\ c.version \in Nat /\ c.logs \in 0..MaxLogs
  BY DEF ClientType
<1> QED BY <1>1, <1>2, <1>3, <1>4, <1>5, <1>6 DEF None

(***************************************************************************)
(* Changes of one field after the other.                                   *)
(***************************************************************************)
LEMMA ClientUpdate ==
    ASSUME NEW c \in ClientType
    PROVE  /\ \A f \in [Sockets -> SocketType] : [c EXCEPT !.sockets = f] \in ClientType
           /\ \A f \in [WebSockets -> WsType] : [c EXCEPT !.ws = f] \in ClientType
           /\ \A s \in 0..MaxSockets : [c EXCEPT !.current = s] \in ClientType
           /\ \A t \in 0..MaxTokens : [c EXCEPT !.newToken = t] \in ClientType
           /\ \A R \in SUBSET Reports : [c EXCEPT !.callbacks = R] \in ClientType
           /\ \A n \in Nat : [c EXCEPT !.version = n] \in ClientType
           /\ \A n \in 0..MaxLogs : [c EXCEPT !.logs = n] \in ClientType
           /\ \A b \in BOOLEAN : [c EXCEPT !.logTimer = b] \in ClientType
           /\ \A x \in SUBSET {"failed", "no token"} : [c EXCEPT !.told = x] \in ClientType
BY DEF ClientType, WsType

LEMMA SocketUpdate ==
    ASSUME NEW k \in SocketType
    PROVE  /\ \A st \in {"none", "connecting", "connected", "reconnecting", "closed"} :
                 [k EXCEPT !.connectionState = st] \in SocketType
           /\ \A b \in BOOLEAN : /\ [k EXCEPT !.isOpen = b] \in SocketType
                                 /\ [k EXCEPT !.isClosed = b] \in SocketType
                                 /\ [k EXCEPT !.listens = b] \in SocketType
                                 /\ [k EXCEPT !.timer = b] \in SocketType
           /\ \A t \in 0..MaxTokens : [k EXCEPT !.token = t] \in SocketType
           /\ \A w \in 0..MaxWs : [k EXCEPT !.ws = w] \in SocketType
           /\ \A n \in Nat : [k EXCEPT !.count = n] \in SocketType /\ [k EXCEPT !.orphans = n] \in SocketType
           /\ \A R \in SUBSET Reports : [k EXCEPT !.resend = R] \in SocketType
BY DEF SocketType

\* One Socket changes.
LEMMA OneSocket ==
    ASSUME NEW c \in ClientType, NEW s \in Sockets, NEW k \in SocketType
    PROVE  LET d == [c EXCEPT !.sockets[s] = k]
           IN  /\ d \in ClientType
               /\ d.sockets[s] = k
               /\ \A x \in Sockets \ {s} : d.sockets[x] = c.sockets[x]
               /\ d.ws = c.ws /\ d.current = c.current /\ d.newToken = c.newToken /\ d.callbacks = c.callbacks
               /\ d.version = c.version /\ d.logs = c.logs /\ d.logTimer = c.logTimer /\ d.told = c.told
<1> DEFINE f == [c.sockets EXCEPT ![s] = k]
<1>1. c.sockets \in [Sockets -> SocketType]
  BY DEF ClientType
<1>2. f \in [Sockets -> SocketType] /\ f[s] = k /\ \A x \in Sockets \ {s} : f[x] = c.sockets[x]
  BY <1>1
<1>3. [c EXCEPT !.sockets[s] = k] = [c EXCEPT !.sockets = f]
  BY DEF ClientType
<1> HIDE DEF f
<1>4. [c EXCEPT !.sockets = f] \in ClientType
  BY <1>2, ClientUpdate
<1> QED BY <1>2, <1>3, <1>4 DEF ClientType

\* One WebSocket changes.
LEMMA OneWs ==
    ASSUME NEW c \in ClientType, NEW w \in WebSockets, NEW k \in WsType
    PROVE  LET d == [c EXCEPT !.ws[w] = k]
           IN  /\ d \in ClientType
               /\ d.ws[w] = k
               /\ \A x \in WebSockets \ {w} : d.ws[x] = c.ws[x]
               /\ d.sockets = c.sockets /\ d.current = c.current /\ d.newToken = c.newToken /\ d.callbacks = c.callbacks
               /\ d.version = c.version /\ d.logs = c.logs /\ d.logTimer = c.logTimer /\ d.told = c.told
<1> DEFINE f == [c.ws EXCEPT ![w] = k]
<1>1. c.ws \in [WebSockets -> WsType]
  BY DEF ClientType, WsType
<1>2. f \in [WebSockets -> WsType] /\ f[w] = k /\ \A x \in WebSockets \ {w} : f[x] = c.ws[x]
  BY <1>1
<1>3. [c EXCEPT !.ws[w] = k] = [c EXCEPT !.ws = f]
  BY DEF ClientType
<1> HIDE DEF f
<1>4. [c EXCEPT !.ws = f] \in ClientType
  BY <1>2, ClientUpdate
<1> QED BY <1>2, <1>3, <1>4 DEF ClientType

LEMMA CalmTransitive ==
    ASSUME NEW c, NEW d, NEW e, Calm(c, d), Calm(d, e)
    PROVE  Calm(c, e)
BY DEF Calm

LEMMA WithinTransitive ==
    ASSUME NEW c, NEW d, NEW e, NEW s \in Sockets, Within(c, d, s), Within(d, e, s)
    PROVE  Within(c, e, s)
<1>1. Calm(c, e)
  BY CalmTransitive DEF Within
<1> QED BY <1>1 DEF Within

\* What changes only Socket s leaves the others linked and watched.
LEMMA WithinLinked ==
    ASSUME NEW c \in ClientType, NEW d, NEW s \in Sockets, Linked(c), Within(c, d, s)
    PROVE  Linked(d)
<1>1. \A w \in WebSockets : d.ws[w].phase = "none" <=> d.ws[w].owner = None
  BY DEF Linked, Within
<1>2. ASSUME NEW x \in Sockets, d.sockets[x].ws # None
      PROVE  d.ws[d.sockets[x].ws].owner = x
  <2>1. d.sockets[x].ws = c.sockets[x].ws
    BY <1>2 DEF Within
  <2>2. c.sockets[x].ws \in WebSockets
    BY <1>2, <2>1, FieldTypes
  <2> QED BY <1>2, <2>1, <2>2 DEF Linked, Within
<1> QED BY <1>1, <1>2 DEF Linked

LEMMA WithinWatched ==
    ASSUME NEW c \in ClientType, NEW d, NEW s \in Sockets, Linked(c), Within(c, d, s),
           NEW x \in Sockets \ {s}, Watched(c, x)
    PROVE  Watched(d, x)
<1>1. d.sockets[x] = c.sockets[x]
  BY DEF Within
<1>2. \A w \in WebSockets : c.ws[w].owner = x => d.ws[w] = c.ws[w]
  BY DEF Within
<1> QED BY <1>1, <1>2 DEF Watched

\* A client whose Socket s is let go of, is watched as before or elsewhere.
LEMMA WithinLive ==
    ASSUME NEW c \in ClientType, NEW d, NEW s \in Sockets, Linked(c), Within(c, d, s), LiveBut(c, s)
    PROVE  /\ c.current # s => Live(d)
           /\ c.current = s /\ Watched(d, s) => Live(d)
           /\ d.sockets[s].listens = c.sockets[s].listens => LiveBut(d, s)
<1>1. d.current = c.current /\ d.told = c.told /\ (c.current \notin {None, s} => c.current \in Sockets \ {s})
  BY FieldTypes DEF Within
<1>2. c.current \notin {None, s} => Watched(d, c.current)
  BY <1>1, WithinWatched DEF LiveBut
<1>3. s # None
  BY DEF Sockets, None
<1> QED BY <1>1, <1>2, <1>3 DEF Live, LiveBut

(***************************************************************************)
(* WebSocket.close                                                         *)
(***************************************************************************)
LEMMA CloseWsKeeps ==
    ASSUME NEW c \in ClientType, NEW w \in 0..MaxWs, NEW s \in Sockets,
           Linked(c), w # None => c.ws[w].owner = s
    PROVE  LET d == CloseWs(c, w)
           IN  /\ d \in ClientType
               /\ Within(c, d, s)
               /\ d.sockets = c.sockets
<1>1. CASE w = None
  BY <1>1 DEF CloseWs, Within, Calm
<1>2. CASE w # None
  <2> DEFINE k == [c.ws[w] EXCEPT !.phase = IF @ \in {"connecting", "open"} THEN "closing" ELSE @]
             d == [c EXCEPT !.ws[w] = k]
  <2>1. w \in WebSockets
    BY <1>2, Bounds DEF WebSockets, None
  <2>2. /\ k \in WsType /\ k.owner = s
        /\ k.phase = "none" <=> c.ws[w].phase = "none"
        /\ c.ws[w].phase = "closed" => k.phase = "closed"
    BY <1>2, <2>1, FieldTypes DEF WsType
  <2>3. CloseWs(c, w) = d
    BY <1>2, <2>1 DEF CloseWs, ClientType
  <2> HIDE DEF k
  <2>4. /\ d \in ClientType
        /\ d.ws[w] = k
        /\ \A x \in WebSockets \ {w} : d.ws[x] = c.ws[x]
        /\ d.sockets = c.sockets /\ d.current = c.current /\ d.newToken = c.newToken
        /\ d.version = c.version /\ d.told = c.told
    BY <2>1, <2>2, OneWs
  <2> HIDE DEF d
  <2>5. Within(c, d, s)
    BY <1>2, <2>1, <2>2, <2>4 DEF Within, Calm
  <2> QED BY <2>3, <2>4, <2>5
<1> QED BY <1>1, <1>2

(***************************************************************************)
(* Socket.destroy                                                          *)
(***************************************************************************)
LEMMA DestroyKeeps ==
    ASSUME NEW c \in ClientType, NEW s \in Sockets, Linked(c)
    PROVE  LET d == Destroy(c, s)
           IN  d \in ClientType /\ Linked(d) /\ Within(c, d, s)
<1> DEFINE e == CloseWs(c, c.sockets[s].ws)
           k == [c.sockets[s] EXCEPT !.connectionState = "closed", !.listens = FALSE, !.timer = FALSE]
           d == [e EXCEPT !.sockets[s] = k]
<1>1. e \in ClientType /\ Within(c, e, s) /\ e.sockets = c.sockets
  BY FieldTypes, CloseWsKeeps DEF Linked
<1>2. k \in SocketType /\ k.ws = c.sockets[s].ws /\ k.resend = c.sockets[s].resend
  <2>1. c.sockets[s] \in SocketType
    BY FieldTypes
  <2>2. k = [[[c.sockets[s] EXCEPT !.connectionState = "closed"] EXCEPT !.listens = FALSE] EXCEPT !.timer = FALSE]
    BY <2>1 DEF SocketType
  <2>3. k \in SocketType
    BY <2>1, <2>2, SocketUpdate
  <2> QED BY <2>1, <2>3 DEF SocketType
<1>3. Destroy(c, s) = d
  <2>1. Destroy(c, s) = [e EXCEPT !.sockets[s] =
             [e.sockets[s] EXCEPT !.connectionState = "closed", !.listens = FALSE, !.timer = FALSE]]
    BY <1>1 DEF Destroy, ClientType
  <2> QED BY <1>1, <2>1
<1> HIDE DEF e, k
<1>4. /\ d \in ClientType /\ d.sockets[s] = k
      /\ \A x \in Sockets \ {s} : d.sockets[x] = e.sockets[x]
      /\ d.ws = e.ws /\ d.current = e.current /\ d.newToken = e.newToken /\ d.version = e.version /\ d.told = e.told
  BY <1>1, <1>2, OneSocket
<1> HIDE DEF d
<1>5. Within(e, d, s)
  BY <1>1, <1>2, <1>4 DEF Within, Calm
<1>6. Within(c, d, s)
  BY <1>1, <1>5, WithinTransitive
<1> QED BY <1>3, <1>4, <1>6, WithinLinked

\* The client has given up its Socket.
LetGo(c, d) ==
    /\ d \in ClientType /\ Linked(d)
    /\ Calm(c, d)
    /\ d.current = None
    /\ \A w \in WebSockets : d.ws[w].phase = "none" <=> c.ws[w].phase = "none"

(***************************************************************************)
(* AnalyticsClient._disconnect and dispose                                 *)
(***************************************************************************)
LEMMA DisconnectKeeps ==
    ASSUME NEW c \in ClientType, Linked(c)
    PROVE  LetGo(c, Disconnect(c)) /\ Disconnect(c).told = c.told
<1> DEFINE e == IF c.current = None THEN c ELSE Destroy(c, c.current)
           d == [e EXCEPT !.current = None, !.callbacks = {}]
<1>1. /\ e \in ClientType /\ Linked(e) /\ Calm(c, e) /\ e.told = c.told
      /\ \A w \in WebSockets : e.ws[w].phase = "none" <=> c.ws[w].phase = "none"
  <2>1. CASE c.current = None
    BY <2>1 DEF Calm
  <2>2. CASE c.current # None
    <3>1. c.current \in Sockets
      BY <2>2, FieldTypes
    <3> QED BY <2>2, <3>1, DestroyKeeps DEF Within
  <2> QED BY <2>1, <2>2
<1>2. Disconnect(c) = d
  BY DEF Disconnect
<1> HIDE DEF e
<1>3. d = [[e EXCEPT !.current = None] EXCEPT !.callbacks = {}]
  BY <1>1 DEF ClientType
<1>4. d \in ClientType
  <2>1. [e EXCEPT !.current = None] \in ClientType
    BY <1>1, Zeros, ClientUpdate
  <2>2. {} \in SUBSET Reports
    OBVIOUS
  <2> QED BY <1>3, <2>1, <2>2, ClientUpdate
<1>5. d.current = None /\ d.sockets = e.sockets /\ d.ws = e.ws /\ d.told = e.told /\ d.version = e.version
  BY <1>1 DEF ClientType
<1> HIDE DEF d
<1>6. Calm(e, d) /\ Linked(d)
  BY <1>1, <1>5 DEF Calm, Linked
<1>7. Calm(c, d)
  BY <1>1, <1>6, CalmTransitive
<1> QED BY <1>1, <1>2, <1>4, <1>5, <1>6, <1>7 DEF LetGo

(***************************************************************************)
(* onConnectionFailed, and Socket.close                                    *)
(***************************************************************************)
LEMMA FailKeeps ==
    ASSUME NEW c \in ClientType, NEW s \in Sockets, Linked(c), LiveBut(c, s)
    PROVE  LET d == Fail(c, s)
           IN  d \in ClientType /\ Linked(d) /\ Live(d) /\ Calm(c, d)
<1> DEFINE gone == Disconnect(c)
           told == [[gone EXCEPT !.logTimer = FALSE, !.version = 0] EXCEPT !.told = @ \cup {"failed"}]
           heard == IF c.sockets[s].listens THEN told ELSE c
           e == Destroy(heard, s)
           k == [e.sockets[s] EXCEPT !.isClosed = TRUE]
           d == [e EXCEPT !.sockets[s] = k]
<1>1. LetGo(c, gone) /\ gone.told = c.told
  BY DisconnectKeeps
<1>2. Fail(c, s) = [e EXCEPT !.sockets[s].isClosed = TRUE]
  BY DEF Fail, Dispose
<1> HIDE DEF gone
<1>3. /\ told \in ClientType /\ told.sockets = gone.sockets /\ told.ws = gone.ws /\ told.current = gone.current
      /\ told.told = gone.told \cup {"failed"}
  <2> DEFINE x == gone.told \cup {"failed"}
  <2>1. gone \in ClientType /\ x \in SUBSET {"failed", "no token"}
    BY <1>1, FieldTypes DEF LetGo
  <2>2. told = [[[gone EXCEPT !.logTimer = FALSE] EXCEPT !.version = 0] EXCEPT !.told = x]
    BY <2>1 DEF ClientType
  <2> HIDE DEF x
  <2>3. told \in ClientType
    BY <2>1, <2>2, ClientUpdate
  <2>4. told.sockets = gone.sockets /\ told.ws = gone.ws /\ told.current = gone.current /\ told.told = x
    BY <2>1, <2>2 DEF ClientType
  <2> QED BY <2>3, <2>4 DEF x
<1> HIDE DEF told
<1>4. heard \in ClientType /\ Linked(heard) /\ Calm(c, heard)
  BY <1>1, <1>3 DEF LetGo, Linked, Calm
<1>5. /\ c.sockets[s].listens => heard.current = None /\ heard.told # {}
      /\ ~c.sockets[s].listens => heard = c
  BY <1>1, <1>3 DEF LetGo
<1> HIDE DEF heard
<1>6. e \in ClientType /\ Linked(e) /\ Within(heard, e, s)
  BY <1>4, DestroyKeeps
<1> HIDE DEF e
<1>7. /\ k \in SocketType /\ k.ws = e.sockets[s].ws /\ k.resend = e.sockets[s].resend
      /\ [e EXCEPT !.sockets[s].isClosed = TRUE] = d
  <2>1. e.sockets[s] \in SocketType
    BY <1>6, FieldTypes
  <2>2. k \in SocketType
    BY <2>1, SocketUpdate
  <2>3. k.ws = e.sockets[s].ws /\ k.resend = e.sockets[s].resend
    BY <2>1 DEF SocketType
  <2> QED BY <1>6, <2>2, <2>3 DEF ClientType
<1> HIDE DEF k
<1>8. /\ d \in ClientType /\ d.sockets[s] = k
      /\ \A x \in Sockets \ {s} : d.sockets[x] = e.sockets[x]
      /\ d.ws = e.ws /\ d.current = e.current /\ d.newToken = e.newToken /\ d.version = e.version /\ d.told = e.told
  BY <1>6, <1>7, OneSocket
<1> HIDE DEF d
<1>9. Within(e, d, s)
  BY <1>6, <1>7, <1>8 DEF Within, Calm
<1>10. Within(heard, d, s)
  BY <1>6, <1>9, WithinTransitive
<1>11. Linked(d) /\ Calm(c, d)
  BY <1>4, <1>10, WithinLinked, CalmTransitive DEF Within
<1>12. Live(d)
  <2>1. CASE c.sockets[s].listens
    BY <1>5, <1>10, <2>1 DEF Within, Live
  <2>2. CASE ~c.sockets[s].listens
    BY <1>5, <1>10, <2>2, WithinLive DEF LiveBut
  <2> QED BY <2>1, <2>2
<1> QED BY <1>2, <1>7, <1>8, <1>11, <1>12

(***************************************************************************)
(* Socket.reconnect                                                        *)
(***************************************************************************)
LEMMA ReconnectKeeps ==
    ASSUME NEW c \in ClientType, NEW s \in Sockets, Linked(c), LiveBut(c, s)
    PROVE  LET d == Reconnect(c, s)
           IN  d \in ClientType /\ Linked(d) /\ Live(d) /\ Calm(c, d)
<1> DEFINE e == CloseWs(c, c.sockets[s].ws)
           j == [c.sockets[s] EXCEPT !.ws = None, !.isOpen = FALSE]
           left == [e EXCEPT !.sockets[s] = j]
           n == c.sockets[s].orphans + (IF c.sockets[s].timer THEN 1 ELSE 0)
           k == [j EXCEPT !.connectionState = "reconnecting", !.timer = TRUE, !.orphans = n]
           d == [left EXCEPT !.sockets[s] = k]
<1>1. e \in ClientType /\ Within(c, e, s) /\ e.sockets = c.sockets
  BY FieldTypes, CloseWsKeeps DEF Linked
<1> HIDE DEF e
<1>2. /\ j \in SocketType /\ j.ws = None /\ j.resend = c.sockets[s].resend /\ j.listens = c.sockets[s].listens
      /\ k \in SocketType /\ k.ws = None /\ k.resend = c.sockets[s].resend /\ k.listens = c.sockets[s].listens
      /\ k.connectionState = "reconnecting" /\ k.timer
  <2>1. c.sockets[s] \in SocketType /\ None \in 0..MaxWs
    BY FieldTypes, Zeros
  <2>2. j = [[c.sockets[s] EXCEPT !.ws = None] EXCEPT !.isOpen = FALSE]
    BY <2>1 DEF SocketType
  <2>3. j \in SocketType
    BY <2>1, <2>2, SocketUpdate
  <2>4. j.ws = None /\ j.resend = c.sockets[s].resend /\ j.listens = c.sockets[s].listens
    BY <2>1 DEF SocketType
  <2> HIDE DEF j
  <2>5. n \in Nat
    BY <2>1 DEF SocketType
  <2> HIDE DEF n
  <2>6. k = [[[j EXCEPT !.connectionState = "reconnecting"] EXCEPT !.timer = TRUE] EXCEPT !.orphans = n]
    BY <2>3 DEF SocketType
  <2>7. k \in SocketType
    BY <2>3, <2>5, <2>6, SocketUpdate
  <2>8. /\ k.ws = j.ws /\ k.resend = j.resend /\ k.listens = j.listens
        /\ k.connectionState = "reconnecting" /\ k.timer
    BY <2>3 DEF SocketType
  <2> QED BY <2>3, <2>4, <2>7, <2>8
<1>3. [e EXCEPT !.sockets[s].ws = None, !.sockets[s].isOpen = FALSE] = left
  BY <1>1 DEF ClientType
<1> HIDE DEF j
<1>4. /\ left \in ClientType /\ left.sockets[s] = j
      /\ \A x \in Sockets \ {s} : left.sockets[x] = e.sockets[x]
      /\ left.ws = e.ws /\ left.current = e.current /\ left.newToken = e.newToken
      /\ left.version = e.version /\ left.told = e.told
  BY <1>1, <1>2, OneSocket
<1> HIDE DEF left
<1>5. Within(e, left, s)
  BY <1>1, <1>2, <1>4 DEF Within, Calm
<1>6. Within(c, left, s)
  BY <1>1, <1>5, WithinTransitive
<1>7. Linked(left) /\ LiveBut(left, s)
  BY <1>2, <1>4, <1>6, WithinLinked, WithinLive
<1>8. CASE c.sockets[s].count >= MaxAttempts
  <2>1. Reconnect(c, s) = Fail(left, s)
    BY <1>3, <1>8 DEF Reconnect, e
  <2> QED BY <1>4, <1>6, <1>7, <2>1, FailKeeps, CalmTransitive DEF Within
<1>9. CASE ~(c.sockets[s].count >= MaxAttempts)
  <2>1. Reconnect(c, s) = d
    <3>1. Reconnect(c, s) = [left EXCEPT !.sockets[s] =
              [@ EXCEPT !.connectionState = "reconnecting", !.timer = TRUE,
                        !.orphans = c.sockets[s].orphans + IF c.sockets[s].timer THEN 1 ELSE 0]]
      BY <1>3, <1>9 DEF Reconnect, e
    <3>2. c.sockets[s].orphans + (IF c.sockets[s].timer THEN 1 ELSE 0) = n
      OBVIOUS
    <3>3. left.sockets[s] = j
      BY <1>4
    <3> QED BY <1>4, <3>1, <3>2, <3>3 DEF ClientType
  <2> HIDE DEF k
  <2>2. /\ d \in ClientType /\ d.sockets[s] = k
        /\ \A x \in Sockets \ {s} : d.sockets[x] = left.sockets[x]
        /\ d.ws = left.ws /\ d.current = left.current /\ d.newToken = left.newToken
        /\ d.version = left.version /\ d.told = left.told
    BY <1>2, <1>4, OneSocket
  <2> HIDE DEF d
  <2>3. Within(left, d, s)
    BY <1>2, <1>4, <2>2 DEF Within, Calm
  <2>4. Linked(d) /\ Calm(left, d) /\ Calm(c, left)
    BY <1>4, <1>6, <1>7, <2>3, WithinLinked DEF Within
  <2>5. left.current = s => Watched(d, s)
    BY <1>2, <1>4, <1>7, <2>2 DEF LiveBut, Watched
  <2>6. Live(d)
    BY <1>4, <1>7, <2>3, <2>5, WithinLive
  <2> QED BY <2>1, <2>2, <2>4, <2>6, CalmTransitive
<1> QED BY <1>8, <1>9

(***************************************************************************)
(* The queue of a Socket changes.                                          *)
(***************************************************************************)
LEMMA QueueKeeps ==
    ASSUME NEW c \in ClientType, NEW s \in Sockets, NEW R \in SUBSET Reports, Linked(c)
    PROVE  LET d == [c EXCEPT !.sockets[s].resend = R]
           IN  /\ d \in ClientType /\ Linked(d)
               /\ d.ws = c.ws /\ d.current = c.current /\ d.version = c.version /\ d.told = c.told
               /\ \A x \in Sockets : /\ d.sockets[x].resend = IF x = s THEN R ELSE c.sockets[x].resend
                                     /\ d.sockets[x].ws = c.sockets[x].ws
                                     /\ d.sockets[x].isOpen = c.sockets[x].isOpen
                                     /\ d.sockets[x].connectionState = c.sockets[x].connectionState
                                     /\ d.sockets[x].listens = c.sockets[x].listens
                                     /\ Watched(c, x) => Watched(d, x)
<1> DEFINE k == [c.sockets[s] EXCEPT !.resend = R]
           d == [c EXCEPT !.sockets[s] = k]
<1>1. c.sockets[s] \in SocketType
  BY FieldTypes
<1>2. k \in SocketType /\ k.resend = R /\ k.ws = c.sockets[s].ws /\ k.connectionState = c.sockets[s].connectionState
      /\ k.listens = c.sockets[s].listens /\ k.timer = c.sockets[s].timer /\ k.isOpen = c.sockets[s].isOpen
  <2>1. k \in SocketType
    BY <1>1, SocketUpdate
  <2> QED BY <1>1, <2>1 DEF SocketType
<1>3. [c EXCEPT !.sockets[s].resend = R] = d
  BY DEF ClientType
<1> HIDE DEF k
<1>4. /\ d \in ClientType /\ d.sockets[s] = k
      /\ \A x \in Sockets \ {s} : d.sockets[x] = c.sockets[x]
      /\ d.ws = c.ws /\ d.current = c.current /\ d.version = c.version /\ d.told = c.told
  BY <1>2, OneSocket
<1> HIDE DEF d
<1>5. Linked(d)
  BY <1>2, <1>4 DEF Linked
<1>6. \A x \in Sockets : Watched(c, x) => Watched(d, x)
  BY <1>2, <1>4 DEF Watched
<1>7. \A x \in Sockets : /\ d.sockets[x].resend = IF x = s THEN R ELSE c.sockets[x].resend
                         /\ d.sockets[x].ws = c.sockets[x].ws
                         /\ d.sockets[x].isOpen = c.sockets[x].isOpen
                         /\ d.sockets[x].connectionState = c.sockets[x].connectionState
                         /\ d.sockets[x].listens = c.sockets[x].listens
  BY <1>2, <1>4
<1> QED BY <1>3, <1>4, <1>5, <1>6, <1>7

\* From c to d report r is put into the queue of Socket s.
Queued(c, d, s, r) ==
    /\ d \in ClientType /\ Linked(d) /\ Live(d)
    /\ \A x \in Sockets : d.sockets[x].resend = c.sockets[x].resend \cup (IF x = s THEN {r} ELSE {})
    /\ \A w \in WebSockets : c.ws[w].phase # "none" => d.ws[w].phase # "none"
    /\ c.told \subseteq d.told
    /\ "failed" \notin d.told => d.version = c.version

(***************************************************************************)
(* Socket.resendAfterReconnect                                             *)
(***************************************************************************)
LEMMA ResendKeeps ==
    ASSUME NEW c \in ClientType, NEW s \in Sockets, NEW r \in Reports, Linked(c), Live(c)
    PROVE  Queued(c, ResendAfterReconnect(c, s, r), s, r)
<1> DEFINE R == c.sockets[s].resend \cup {r}
           q == [c EXCEPT !.sockets[s].resend = R]
<1>1. R \in SUBSET Reports
  BY FieldTypes
<1>2. q = [c EXCEPT !.sockets[s].resend = @ \cup {r}]
  BY DEF ClientType
<1>3. /\ q \in ClientType /\ Linked(q)
      /\ q.ws = c.ws /\ q.current = c.current /\ q.version = c.version /\ q.told = c.told
      /\ \A x \in Sockets : /\ q.sockets[x].resend = IF x = s THEN R ELSE c.sockets[x].resend
                            /\ q.sockets[x].listens = c.sockets[x].listens
                            /\ Watched(c, x) => Watched(q, x)
  BY <1>1, QueueKeeps
<1>4. \A x \in Sockets : q.sockets[x].resend = c.sockets[x].resend \cup (IF x = s THEN {r} ELSE {})
  BY <1>3
<1> HIDE DEF q, R
<1>5. Live(q) /\ LiveBut(q, s)
  <2>1. c.current # None => c.current \in Sockets
    BY FieldTypes
  <2>2. s # None
    BY DEF Sockets, None
  <2>3. Live(q)
    BY <1>3, <2>1 DEF Live
  <2> QED BY <1>3, <2>1, <2>2, <2>3 DEF Live, LiveBut, Watched
<1>6. CASE c.sockets[s].connectionState = "reconnecting"
  <2>1. ResendAfterReconnect(c, s, r) = q
    BY <1>2, <1>6 DEF ResendAfterReconnect
  <2> QED BY <1>3, <1>4, <1>5, <2>1 DEF Queued
<1>7. CASE c.sockets[s].connectionState # "reconnecting"
  <2>1. ResendAfterReconnect(c, s, r) = Reconnect(q, s)
    BY <1>2, <1>7 DEF ResendAfterReconnect
  <2>2. Reconnect(q, s) \in ClientType /\ Linked(Reconnect(q, s)) /\ Live(Reconnect(q, s)) /\ Calm(q, Reconnect(q, s))
    BY <1>3, <1>5, ReconnectKeeps
  <2> QED BY <1>3, <1>4, <2>1, <2>2 DEF Queued, Calm
<1> QED BY <1>6, <1>7

(***************************************************************************)
(* The WebSocket that Socket._connect makes                                *)
(***************************************************************************)
LEMMA MakeWsKeeps ==
    ASSUME NEW c \in ClientType, NEW s \in Sockets, Linked(c), Unused(c) # {}
    PROVE  LET d == MakeWs(c, s)
           IN  /\ d \in ClientType /\ Linked(d) /\ Calm(c, d)
               /\ d.current = c.current /\ d.told = c.told
               /\ \A x \in Sockets : /\ d.sockets[x].connectionState = c.sockets[x].connectionState
                                     /\ d.sockets[x].listens = c.sockets[x].listens
                                     /\ d.sockets[x].timer = c.sockets[x].timer
               /\ \A w \in WebSockets : c.ws[w].phase # "none" => d.ws[w] = c.ws[w]
               /\ \E w \in WebSockets : d.ws[w].owner = s /\ d.ws[w].phase = "connecting"
<1> DEFINE w == Min(Unused(c))
           k == [owner |-> s, phase |-> "connecting"]
           e == [c EXCEPT !.ws[w] = k]
           j == [c.sockets[s] EXCEPT !.ws = w]
           d == [e EXCEPT !.sockets[s] = j]
<1>1. Unused(c) \subseteq WebSockets /\ WebSockets \subseteq 0..MaxWs /\ WebSockets \subseteq Nat /\ s # None
      /\ s \in 0..MaxSockets
  BY Bounds DEF Unused, WebSockets, Sockets, None
<1>2. w \in Unused(c)
  BY <1>1, LeastIsMember
<1>3. w \in WebSockets /\ c.ws[w].phase = "none" /\ w # None
  BY <1>2 DEF Unused, WebSockets, None
<1> HIDE DEF w
<1>4. k \in WsType
  BY <1>1 DEF WsType
<1>5. /\ e \in ClientType /\ e.ws[w] = k
      /\ \A x \in WebSockets \ {w} : e.ws[x] = c.ws[x]
      /\ e.sockets = c.sockets /\ e.current = c.current /\ e.version = c.version /\ e.told = c.told
  BY <1>3, <1>4, OneWs
<1>6. MakeWs(c, s) = [e EXCEPT !.sockets[s].ws = w]
  <2>1. MakeWs(c, s) = [c EXCEPT !.ws[w] = k, !.sockets[s].ws = w]
    BY DEF MakeWs, w
  <2> QED BY <2>1 DEF ClientType
<1> HIDE DEF e
<1>7. /\ j \in SocketType /\ j.ws = w /\ j.resend = c.sockets[s].resend /\ j.listens = c.sockets[s].listens
      /\ j.connectionState = c.sockets[s].connectionState /\ j.timer = c.sockets[s].timer
  <2>1. c.sockets[s] \in SocketType /\ w \in 0..MaxWs
    BY <1>1, <1>3, FieldTypes
  <2>2. j \in SocketType
    BY <2>1, SocketUpdate
  <2> QED BY <2>1, <2>2 DEF SocketType
<1>8. [e EXCEPT !.sockets[s].ws = w] = d
  BY <1>5 DEF ClientType
<1> HIDE DEF j
<1>9. /\ d \in ClientType /\ d.sockets[s] = j
      /\ \A x \in Sockets \ {s} : d.sockets[x] = e.sockets[x]
      /\ d.ws = e.ws /\ d.current = e.current /\ d.version = e.version /\ d.told = e.told
  BY <1>5, <1>7, OneSocket
<1> HIDE DEF d
<1>10. k.owner = s /\ k.phase = "connecting"
  OBVIOUS
<1> HIDE DEF k
<1>11. Linked(d)
  <2>1. \A x \in WebSockets : d.ws[x].phase = "none" <=> d.ws[x].owner = None
    BY <1>1, <1>3, <1>5, <1>9, <1>10 DEF Linked
  <2>2. ASSUME NEW x \in Sockets, d.sockets[x].ws # None
        PROVE  d.ws[d.sockets[x].ws].owner = x
    <3>1. CASE x = s
      BY <1>5, <1>7, <1>9, <1>10, <3>1
    <3>2. CASE x # s
      <4>1. d.sockets[x].ws = c.sockets[x].ws /\ c.sockets[x].ws \in WebSockets /\ x # None
        <5>1. d.sockets[x].ws = c.sockets[x].ws
          BY <1>5, <1>9, <3>2
        <5>2. c.sockets[x].ws \in WebSockets
          BY <2>2, <5>1, FieldTypes
        <5> QED BY <5>1, <5>2 DEF Sockets, None
      <4>2. c.ws[c.sockets[x].ws].owner = x
        BY <2>2, <4>1 DEF Linked
      <4>3. c.sockets[x].ws # w
        BY <1>3, <4>1, <4>2 DEF Linked
      <4> QED BY <1>5, <1>9, <4>1, <4>2, <4>3
    <3> QED BY <3>1, <3>2
  <2> QED BY <2>1, <2>2 DEF Linked
<1>12. Calm(c, d)
  BY <1>3, <1>5, <1>7, <1>9 DEF Calm
<1>13. \A x \in WebSockets : c.ws[x].phase # "none" => d.ws[x] = c.ws[x]
  BY <1>3, <1>5, <1>9
<1>14. d.ws[w].owner = s /\ d.ws[w].phase = "connecting"
  BY <1>5, <1>9, <1>10
<1> QED BY <1>3, <1>5, <1>6, <1>7, <1>8, <1>9, <1>11, <1>12, <1>13, <1>14

(***************************************************************************)
(* Socket._connect of a Socket that has just been made, with or without a  *)
(* WebSocket                                                               *)
(***************************************************************************)
LEMMA FirstConnectKeeps ==
    ASSUME NEW c \in ClientType, NEW s \in Sockets, NEW throws \in BOOLEAN, Linked(c), throws \/ Unused(c) # {},
           c.current = s, c.sockets[s].connectionState = "connecting", c.sockets[s].listens
    PROVE  LET d == Connect(c, s, throws)
           IN  d \in ClientType /\ Linked(d) /\ Live(d) /\ Calm(c, d)
<1>1. s # None
  BY DEF Sockets, None
<1>2. CASE throws
  <2>1. LiveBut(c, s)
    BY <1>1 DEF LiveBut
  <2>2. Connect(c, s, throws) = Reconnect(c, s)
    BY <1>2 DEF Connect
  <2> QED BY <2>1, <2>2, ReconnectKeeps
<1>3. CASE ~throws
  <2> DEFINE d == MakeWs(c, s)
  <2>1. /\ d \in ClientType /\ Linked(d) /\ Calm(c, d)
        /\ d.current = s
        /\ d.sockets[s].connectionState = "connecting" /\ d.sockets[s].listens
        /\ \E w \in WebSockets : d.ws[w].owner = s /\ d.ws[w].phase = "connecting"
    BY <1>3, MakeWsKeeps
  <2> HIDE DEF d
  <2>2. Live(d)
    BY <1>1, <2>1 DEF Live, Watched, Up
  <2>3. Connect(c, s, throws) = MakeWs(c, s)
    BY <1>3 DEF Connect
  <2> QED BY <2>1, <2>2, <2>3 DEF d
<1> QED BY <1>2, <1>3

(***************************************************************************)
(* AnalyticsClient._reconnectWithNewSkyWayAuthToken                        *)
(***************************************************************************)
LEMMA WithNewTokenKeeps ==
    ASSUME NEW c \in ClientType, NEW throws \in BOOLEAN, Linked(c),
           c.newToken # None => /\ throws \/ Unused(c) # {}
                                /\ \E s \in Sockets : c.sockets[s].connectionState = "none"
    PROVE  LET d == WithNewToken(c, throws)
           IN  d \in ClientType /\ Linked(d) /\ Live(d) /\ Calm(c, d)
<1> DEFINE gone == Disconnect(c)
<1>1. LetGo(c, gone) /\ gone.told = c.told
  BY DisconnectKeeps
<1>2. gone \in ClientType
  BY <1>1 DEF LetGo
<1>3. CASE c.newToken = None
  <2> DEFINE x == gone.told \cup {"no token"}
             d == [gone EXCEPT !.told = x]
  <2>1. WithNewToken(c, throws) = d
    BY <1>3 DEF WithNewToken
  <2> HIDE DEF gone
  <2>2. x \in SUBSET {"failed", "no token"} /\ x # {} /\ gone.told \subseteq x /\ ("failed" \in x => "failed" \in gone.told)
    BY <1>2, FieldTypes
  <2> HIDE DEF x
  <2>3. d \in ClientType
    BY <1>2, <2>2, ClientUpdate
  <2>4. d.told = x /\ d.sockets = gone.sockets /\ d.ws = gone.ws /\ d.current = gone.current /\ d.version = gone.version
    BY <1>2 DEF ClientType
  <2> HIDE DEF d
  <2>5. Linked(d) /\ Live(d) /\ Calm(c, d)
    <3>1. Linked(d) /\ Live(d)
      <4>1. Linked(gone) /\ gone.current = None
        BY <1>1 DEF LetGo
      <4>2. Linked(d)
        BY <2>4, <4>1 DEF Linked
      <4>3. Live(d)
        BY <2>2, <2>4, <4>1 DEF Live
      <4> QED BY <4>2, <4>3
    <3>2. Calm(gone, d)
      BY <2>2, <2>4 DEF Calm
    <3> QED BY <1>1, <3>1, <3>2, CalmTransitive DEF LetGo
  <2> QED BY <2>1, <2>3, <2>5
<1>4. CASE c.newToken # None
  <2> DEFINE free == {s \in Sockets : c.sockets[s].connectionState = "none"}
             s == Min(free)
             k == [gone.sockets[s] EXCEPT !.connectionState = "connecting", !.listens = TRUE, !.token = c.newToken]
             e == [[gone EXCEPT !.newToken = None] EXCEPT !.current = s]
             fresh == [e EXCEPT !.sockets[s] = k]
  <2>1. s \in Sockets /\ s \in 0..MaxSockets /\ s # None
    <3>1. free # {} /\ free \subseteq Nat
      BY <1>4 DEF Sockets
    <3>2. s \in free
      BY <3>1, LeastIsMember
    <3>3. s \in Sockets
      BY <3>2
    <3> QED BY <3>3, Bounds DEF Sockets, None
  <2>2. WithNewToken(c, throws) = Connect([gone EXCEPT !.newToken = None, !.current = s, !.sockets[s] =
                [@ EXCEPT !.connectionState = "connecting", !.listens = TRUE, !.token = c.newToken]], s, throws)
    BY <1>4 DEF WithNewToken
  <2> HIDE DEF s, gone
  <2>3. [gone EXCEPT !.newToken = None, !.current = s, !.sockets[s] =
                [@ EXCEPT !.connectionState = "connecting", !.listens = TRUE, !.token = c.newToken]] = fresh
    BY <1>2 DEF ClientType
  <2>4. /\ k \in SocketType /\ k.connectionState = "connecting" /\ k.listens
        /\ k.ws = gone.sockets[s].ws /\ k.resend = gone.sockets[s].resend
    <3>1. gone.sockets[s] \in SocketType /\ c.newToken \in 0..MaxTokens
      BY <1>2, <2>1, FieldTypes
    <3>2. k = [[[gone.sockets[s] EXCEPT !.connectionState = "connecting"] EXCEPT !.listens = TRUE] EXCEPT !.token = c.newToken]
      BY <3>1 DEF SocketType
    <3>3. k \in SocketType
      BY <3>1, <3>2, SocketUpdate
    <3> QED BY <3>1, <3>3 DEF SocketType
  <2> HIDE DEF k
  <2>5. /\ e \in ClientType /\ e.sockets = gone.sockets /\ e.ws = gone.ws /\ e.current = s
        /\ e.version = gone.version /\ e.told = gone.told
    <3>1. [gone EXCEPT !.newToken = None] \in ClientType
      BY <1>2, Zeros, ClientUpdate
    <3>2. e \in ClientType
      BY <2>1, <3>1, ClientUpdate
    <3> QED BY <1>2, <3>2 DEF ClientType
  <2> HIDE DEF e
  <2>6. /\ fresh \in ClientType /\ fresh.sockets[s] = k
        /\ \A x \in Sockets \ {s} : fresh.sockets[x] = gone.sockets[x]
        /\ fresh.ws = gone.ws /\ fresh.current = s /\ fresh.version = gone.version /\ fresh.told = gone.told
    BY <2>1, <2>4, <2>5, OneSocket
  <2> HIDE DEF fresh
  <2>7. Linked(fresh) /\ Calm(c, fresh)
    BY <1>1, <2>4, <2>6 DEF LetGo, Linked, Calm
  <2>8. throws \/ Unused(fresh) # {}
    BY <1>1, <1>4, <2>6 DEF Unused, LetGo
  <2> DEFINE d == Connect(fresh, s, throws)
  <2>9. d \in ClientType /\ Linked(d) /\ Live(d) /\ Calm(fresh, d)
    BY <2>1, <2>4, <2>6, <2>7, <2>8, FirstConnectKeeps
  <2> HIDE DEF d
  <2>10. Calm(c, d)
    BY <2>7, <2>9, CalmTransitive
  <2> QED BY <2>2, <2>3, <2>9, <2>10 DEF d
<1> QED BY <1>3, <1>4

-----------------------------------------------------------------------------
(* The invariant of the reports                                            *)

Verdicts == {"ok", "unexpected", "refused"}

NetType == [sent : SUBSET (WebSockets \X Reports \X BOOLEAN), answers : SUBSET (WebSockets \X Reports \X Verdicts),
            received : SUBSET Reports, dropped : SUBSET Reports]

ReportType == [stage : {"none", "waiting", "backoff", "over"}, told : {"pending", "ok", "failed"},
               timer : BOOLEAN, tries : 0..MaxTries, version : Nat]

OnItsWay(n, r) == \E w \in WebSockets, again \in BOOLEAN : <<w, r, again>> \in n.sent

\* What NoReportForgotten says of the fate of a report.
Held(c, n, r) ==
    \/ r \in n.received \/ r \in n.dropped \/ OnItsWay(n, r)
    \/ c.current # None /\ r \in c.sockets[c.current].resend

\* Somebody may still send it, or the server has it.
Carried(c, n, r) == r \in n.received \/ OnItsWay(n, r) \/ \E s \in Sockets : r \in c.sockets[s].resend

\* A report is made after the ones before it, and a timer or a backoff goes with it until its sender is told.
StagesInv(rp) ==
    \A r \in Reports :
       /\ rp[r].told = "pending" /\ rp[r].stage # "none" => rp[r].timer \/ rp[r].stage = "backoff"
       /\ rp[r].stage = "waiting" => rp[r].tries < MaxTries
       /\ rp[r].timer => rp[r].stage # "none"
       /\ rp[r].stage = "none" => rp[r].tries = 0 /\ rp[r].told = "pending"
       /\ rp[r].stage # "none" => \A q \in Reports : q < r => rp[q].stage # "none"

FateInv(c, n, rp) ==
    \A r \in Reports :
       /\ rp[r].stage # "none" => Held(c, n, r)
       /\ Carried(c, n, r) => rp[r].stage # "none"

\* What is on its way is so on a WebSocket that is or was there.
SentInv(c, n) ==
    \A w \in WebSockets, r \in Reports, again \in BOOLEAN : <<w, r, again>> \in n.sent => c.ws[w].phase # "none"

AnswersInv(n, rp) ==
    /\ \A m \in n.answers : m[2] \in n.received
    /\ \A r \in Reports : rp[r].told = "ok" => r \in n.received

VersionsInv(c, rp) ==
    "failed" \notin c.told =>
       \A r \in Reports : rp[r].stage # "none" =>
          /\ rp[r].version <= c.version
          /\ \A q \in Reports : q < r /\ rp[q].version > 0 /\ rp[r].version > 0 => rp[q].version < rp[r].version

ConnInv == client \in ClientType /\ Linked(client) /\ Live(client)

ReportsInv ==
    /\ net \in NetType /\ report \in [Reports -> ReportType]
    /\ StagesInv(report) /\ FateInv(client, net, report) /\ SentInv(client, net)
    /\ AnswersInv(net, report) /\ VersionsInv(client, report)

\* From a client c and the net to the next ones nothing is forgotten, and besides r nothing more is carried.
Moves(c, R) ==
    /\ client' \in ClientType /\ Linked(client') /\ Live(client')
    /\ net' \in NetType /\ net'.received = net.received /\ net'.answers \subseteq net.answers
    /\ SentInv(client', net')
    /\ \A q \in Reports : Held(client, net, q) => Held(client', net', q)
    /\ \A q \in Reports \ R : Carried(client', net', q) => Carried(client, net, q)
    /\ c.told \subseteq client'.told
    /\ "failed" \notin client'.told => client'.version = c.version

(***************************************************************************)
(* A step that leaves the reports alone and moves the client and the net   *)
(* keeps the invariant.                                                    *)
(***************************************************************************)
LEMMA MovesKeeps ==
    ASSUME ReportsInv, NEW R, Moves(client, R), \A r \in R \cap Reports : report[r].stage # "none",
           report' = report
    PROVE  ConnInv' /\ ReportsInv'
<1>1. FateInv(client', net', report')
  BY DEF ReportsInv, FateInv, Moves
<1>2. AnswersInv(net', report')
  BY DEF ReportsInv, AnswersInv, Moves
<1>3. VersionsInv(client', report')
  BY DEF ReportsInv, VersionsInv, Moves
<1> QED BY <1>1, <1>2, <1>3 DEF ConnInv, ReportsInv, Moves, StagesInv

LEMMA NetUpdate ==
    ASSUME NEW n \in NetType
    PROVE  /\ \A x \in SUBSET (WebSockets \X Reports \X BOOLEAN) : [n EXCEPT !.sent = x] \in NetType
           /\ \A x \in SUBSET (WebSockets \X Reports \X Verdicts) : [n EXCEPT !.answers = x] \in NetType
           /\ \A x \in SUBSET Reports : [n EXCEPT !.received = x] \in NetType /\ [n EXCEPT !.dropped = x] \in NetType
BY DEF NetType

\* The queue that is given up with the Socket.
LEMMA AbandonedKeeps ==
    ASSUME ConnInv, NEW d \in ClientType, NEW r \in Reports,
           \A s \in Sockets : client.sockets[s].resend \subseteq d.sockets[s].resend
    PROVE  /\ Abandoned(client, d) \subseteq Reports
           /\ client.current # None /\ r \in d.sockets[client.current].resend =>
                 \/ r \in Abandoned(client, d)
                 \/ d.current # None /\ r \in d.sockets[d.current].resend
<1>1. client.current # None => client.current \in Sockets
  BY FieldTypes DEF ConnInv
<1>2. client.current # None => d.sockets[client.current].resend \subseteq Reports
  BY <1>1, FieldTypes
<1> QED BY <1>2 DEF Abandoned

(***************************************************************************)
(* The close event of a WebSocket, after which the client has become c.    *)
(***************************************************************************)
LEMMA ShutAgain ==
    ASSUME NEW c \in ClientType, NEW w \in WebSockets, c.ws[w].phase = "closed"
    PROVE  [c EXCEPT !.ws[w].phase = "closed"] = c
<1> DEFINE k == [c.ws[w] EXCEPT !.phase = "closed"]
<1>1. c.ws \in [WebSockets -> WsType] /\ c.ws[w] \in WsType
  BY DEF ClientType, WsType
<1>2. k = c.ws[w]
  BY <1>1 DEF WsType
<1>3. [c EXCEPT !.ws[w].phase = "closed"] = [c EXCEPT !.ws = [c.ws EXCEPT ![w] = k]]
  BY DEF ClientType
<1>4. [c.ws EXCEPT ![w] = k] = c.ws
  BY <1>1, <1>2
<1> QED BY <1>3, <1>4 DEF ClientType

LEMMA LoseWsMoves ==
    ASSUME ConnInv, ReportsInv, NEW w \in WebSockets, NEW c \in ClientType,
           Linked(c), Live(c), Calm(client, c), c.ws[w].phase = "closed", LoseWs(w, c)
    PROVE  Moves(client, {})
<1> DEFINE inFlight == {m \in net.sent : m[1] = w}
           lost == {m[2] : m \in inFlight}
           sent == net.sent \ inFlight
           answers == {m \in net.answers : m[1] # w}
           dropped == (net.dropped \cup lost) \cup Abandoned(client, c)
<1>1. client' = c
  BY ShutAgain DEF LoseWs
<1>2. net' = [net EXCEPT !.sent = sent, !.answers = answers, !.dropped = dropped]
  BY <1>1, ShutAgain DEF LoseWs, ReportsInv, NetType
<1>3. /\ sent \in SUBSET (WebSockets \X Reports \X BOOLEAN)
      /\ answers \in SUBSET (WebSockets \X Reports \X Verdicts) /\ answers \subseteq net.answers
      /\ sent \subseteq net.sent
  BY DEF ReportsInv, NetType
<1>4. dropped \in SUBSET Reports
  <2>1. lost \subseteq Reports
    BY DEF ReportsInv, NetType
  <2>2. Abandoned(client, c) \subseteq Reports
    BY FieldTypes DEF Abandoned, ConnInv
  <2> QED BY <2>1, <2>2 DEF ReportsInv, NetType
<1>5. \A q \in Reports, v \in WebSockets, again \in BOOLEAN : <<v, q, again>> \in net.sent => <<v, q, again>> \in sent \/ q \in lost
  OBVIOUS
<1>6. lost \subseteq dropped /\ net.dropped \subseteq dropped /\ Abandoned(client, c) \subseteq dropped
  OBVIOUS
<1> HIDE DEF sent, answers, dropped, lost
<1>7. /\ net' \in NetType /\ net'.sent = sent /\ net'.answers = answers /\ net'.dropped = dropped
      /\ net'.received = net.received
  BY <1>2, <1>3, <1>4 DEF ReportsInv, NetType
<1>8. ASSUME NEW q \in Reports, Held(client, net, q) PROVE Held(client', net', q)
  <2>1. CASE client.current # None /\ q \in client.sockets[client.current].resend
    <3>1. client.current \in Sockets
      BY <2>1, FieldTypes DEF ConnInv
    <3>2. q \in c.sockets[client.current].resend
      BY <2>1, <3>1 DEF Calm
    <3>3. q \in Abandoned(client, c) \/ (c.current # None /\ q \in c.sockets[c.current].resend)
      BY <2>1, <3>2, AbandonedKeeps DEF Calm
    <3> QED BY <1>1, <1>6, <1>7, <3>3 DEF Held
  <2>2. CASE ~(client.current # None /\ q \in client.sockets[client.current].resend)
    BY <1>5, <1>6, <1>7, <1>8, <2>2 DEF Held, OnItsWay
  <2> QED BY <2>1, <2>2
<1>9. ASSUME NEW q \in Reports, Carried(client', net', q) PROVE Carried(client, net, q)
  BY <1>1, <1>3, <1>7, <1>9 DEF Carried, OnItsWay, Calm
<1>10. SentInv(client', net')
  BY <1>1, <1>3, <1>7 DEF ReportsInv, SentInv, Calm
<1> QED BY <1>1, <1>3, <1>7, <1>8, <1>9, <1>10 DEF Moves, Calm

-----------------------------------------------------------------------------
(* The steps of the connections                                            *)

\* The client after the close event, before it reacts: its Socket s may have nothing else.
LEMMA ClosedKeeps ==
    ASSUME ConnInv, NEW w \in WebSockets, client.ws[w].phase # "none"
    PROVE  /\ client.ws[w].owner \in Sockets
           /\ Closed(w) \in ClientType /\ Linked(Closed(w)) /\ LiveBut(Closed(w), client.ws[w].owner)
           /\ Closed(w).ws[w].phase = "closed"
           /\ Closed(w).newToken = client.newToken /\ Closed(w).sockets = client.sockets
           /\ \A x \in WebSockets : client.ws[x].phase = "none" <=> Closed(w).ws[x].phase = "none"
           /\ Calm(client, Closed(w))
<1> DEFINE s == client.ws[w].owner
           k == [client.ws[w] EXCEPT !.phase = "closed"]
           d == [client EXCEPT !.ws[w] = k]
<1>1. client \in ClientType /\ client.ws[w] \in WsType
  BY FieldTypes DEF ConnInv
<1>2. s \in Sockets /\ s # None
  BY <1>1, FieldTypes DEF ConnInv, Linked
<1>3. k \in WsType /\ k.owner = s /\ k.phase = "closed"
  BY <1>1 DEF WsType
<1>4. Closed(w) = d
  BY <1>1 DEF Closed, ClientType
<1> HIDE DEF k
<1>5. /\ d \in ClientType /\ d.ws[w] = k
      /\ \A x \in WebSockets \ {w} : d.ws[x] = client.ws[x]
      /\ d.sockets = client.sockets /\ d.current = client.current /\ d.newToken = client.newToken
      /\ d.version = client.version /\ d.told = client.told
  BY <1>1, <1>3, OneWs
<1> HIDE DEF d
<1>6. Calm(client, d)
  BY <1>3, <1>5 DEF Calm
<1>7. Linked(d)
  <2>1. \A x \in WebSockets : d.ws[x].owner = client.ws[x].owner /\ (d.ws[x].phase = "none" <=> client.ws[x].phase = "none")
    BY <1>3, <1>5
  <2>2. \A x \in Sockets : client.sockets[x].ws # None => client.sockets[x].ws \in WebSockets
    BY <1>1, FieldTypes
  <2> QED BY <1>5, <2>1, <2>2 DEF ConnInv, Linked
<1>8. LiveBut(d, s)
  <2>1. ASSUME d.current \notin {None, s} PROVE Watched(d, d.current)
    <3>1. Watched(client, d.current)
      BY <1>5, <2>1 DEF ConnInv, Live
    <3>2. \A x \in WebSockets : client.ws[x].owner = d.current => d.ws[x] = client.ws[x]
      BY <1>5, <2>1
    <3> QED BY <1>5, <3>1, <3>2 DEF Watched
  <2>2. d.current = None => d.told # {}
    BY <1>5 DEF ConnInv, Live
  <2>3. d.current = s => d.sockets[s].listens
    BY <1>2, <1>5 DEF ConnInv, Live, Watched
  <2> QED BY <2>1, <2>2, <2>3 DEF LiveBut
<1> QED BY <1>2, <1>3, <1>4, <1>5, <1>6, <1>7, <1>8

LEMMA CloseAbnormalMoves ==
    ASSUME ConnInv, ReportsInv, NEW w \in WebSockets, CloseAbnormal(w)
    PROVE  Moves(client, {})
<1> DEFINE s == client.ws[w].owner
           c == Reconnect(Closed(w), s)
<1>1. LoseWs(w, c) /\ client.ws[w].phase # "none"
  BY DEF CloseAbnormal
<1>2. c \in ClientType /\ Linked(c) /\ Live(c) /\ Calm(Closed(w), c) /\ Calm(client, Closed(w))
      /\ Closed(w).ws[w].phase = "closed"
  BY <1>1, ClosedKeeps, ReconnectKeeps
<1> HIDE DEF c
<1>3. Calm(client, c) /\ c.ws[w].phase = "closed"
  BY <1>2, CalmTransitive DEF Calm
<1> QED BY <1>1, <1>2, <1>3, LoseWsMoves

LEMMA CloseFinalMoves ==
    ASSUME ConnInv, ReportsInv, NEW w \in WebSockets, CloseFinal(w)
    PROVE  Moves(client, {})
<1> DEFINE s == client.ws[w].owner
           c == Fail(Closed(w), s)
<1>1. LoseWs(w, c) /\ client.ws[w].phase # "none"
  BY DEF CloseFinal
<1>2. c \in ClientType /\ Linked(c) /\ Live(c) /\ Calm(Closed(w), c) /\ Calm(client, Closed(w))
      /\ Closed(w).ws[w].phase = "closed"
  BY <1>1, ClosedKeeps, FailKeeps
<1> HIDE DEF c
<1>3. Calm(client, c) /\ c.ws[w].phase = "closed"
  BY <1>2, CalmTransitive DEF Calm
<1> QED BY <1>1, <1>2, <1>3, LoseWsMoves

LEMMA TokenExpiredMoves ==
    ASSUME ConnInv, ReportsInv, NEW w \in WebSockets, TokenExpired(w)
    PROVE  Moves(client, {})
<1>0. PICK throws \in BOOLEAN :
          /\ IF client.newToken = None THEN UNCHANGED troubles ELSE Connects(throws)
          /\ LoseWs(w, WithNewToken(Closed(w), throws))
  BY DEF TokenExpired
<1> DEFINE c == WithNewToken(Closed(w), throws)
<1>1. /\ LoseWs(w, c) /\ client.ws[w].phase # "none"
      /\ client.newToken # None => /\ throws \/ Unused(client) # {}
                                   /\ \E s \in Sockets : client.sockets[s].connectionState = "none"
  BY <1>0 DEF TokenExpired, Connects
<1>2. /\ Closed(w) \in ClientType /\ Linked(Closed(w)) /\ Calm(client, Closed(w)) /\ Closed(w).ws[w].phase = "closed"
      /\ Closed(w).newToken = client.newToken /\ Closed(w).sockets = client.sockets
      /\ \A x \in WebSockets : client.ws[x].phase = "none" <=> Closed(w).ws[x].phase = "none"
  BY <1>1, ClosedKeeps
<1>3. Unused(Closed(w)) = Unused(client)
  BY <1>2 DEF Unused
<1>4. c \in ClientType /\ Linked(c) /\ Live(c) /\ Calm(Closed(w), c)
  BY <1>1, <1>2, <1>3, WithNewTokenKeeps
<1> HIDE DEF c
<1>5. Calm(client, c) /\ c.ws[w].phase = "closed"
  BY <1>2, <1>4, CalmTransitive DEF Calm
<1> QED BY <1>1, <1>4, <1>5, LoseWsMoves

\* A step of the client by which nothing is told.
LEMMA CalmMoves ==
    ASSUME ConnInv, ReportsInv, NEW d \in ClientType, Linked(d), Live(d), Calm(client, d), Becomes(d)
    PROVE  Moves(client, {})
<1> DEFINE dropped == net.dropped \cup Abandoned(client, d)
<1>1. client' = d /\ net' = [net EXCEPT !.dropped = dropped]
  BY DEF Becomes, ReportsInv, NetType
<1>2. dropped \in SUBSET Reports
  BY FieldTypes DEF Abandoned, ConnInv, ReportsInv, NetType
<1>3. Abandoned(client, d) \subseteq dropped /\ net.dropped \subseteq dropped
  OBVIOUS
<1> HIDE DEF dropped
<1>4. /\ net' \in NetType /\ net'.sent = net.sent /\ net'.answers = net.answers /\ net'.received = net.received
      /\ net'.dropped = dropped
  BY <1>1, <1>2 DEF ReportsInv, NetType
<1>5. ASSUME NEW q \in Reports, Held(client, net, q) PROVE Held(client', net', q)
  <2>1. CASE client.current # None /\ q \in client.sockets[client.current].resend
    <3>1. client.current \in Sockets
      BY <2>1, FieldTypes DEF ConnInv
    <3>2. q \in d.sockets[client.current].resend
      BY <2>1, <3>1 DEF Calm
    <3>3. q \in Abandoned(client, d) \/ (d.current # None /\ q \in d.sockets[d.current].resend)
      BY <2>1, <3>2, AbandonedKeeps DEF Calm
    <3> QED BY <1>1, <1>3, <1>4, <3>3 DEF Held
  <2>2. CASE ~(client.current # None /\ q \in client.sockets[client.current].resend)
    BY <1>3, <1>4, <1>5, <2>2 DEF Held, OnItsWay
  <2> QED BY <2>1, <2>2
<1>6. ASSUME NEW q \in Reports, Carried(client', net', q) PROVE Carried(client, net, q)
  BY <1>1, <1>4, <1>6 DEF Carried, OnItsWay, Calm
<1>7. SentInv(client', net')
  BY <1>1, <1>4 DEF ReportsInv, SentInv, Calm
<1> QED BY <1>1, <1>4, <1>5, <1>6, <1>7 DEF Moves, Calm

\* An attempt is counted.
LEMMA CountKeeps ==
    ASSUME NEW c \in ClientType, NEW s \in Sockets, Linked(c), Live(c)
    PROVE  LET d == [c EXCEPT !.sockets[s].count = @ + 1]
           IN  d \in ClientType /\ Linked(d) /\ Live(d) /\ Calm(c, d)
<1> DEFINE k == [c.sockets[s] EXCEPT !.count = c.sockets[s].count + 1]
           d == [c EXCEPT !.sockets[s] = k]
<1>1. /\ k \in SocketType /\ k.ws = c.sockets[s].ws /\ k.resend = c.sockets[s].resend /\ k.timer = c.sockets[s].timer
      /\ k.connectionState = c.sockets[s].connectionState /\ k.listens = c.sockets[s].listens
  <2>1. c.sockets[s] \in SocketType
    BY FieldTypes
  <2> QED BY <2>1 DEF SocketType
<1>2. [c EXCEPT !.sockets[s].count = @ + 1] = d
  BY DEF ClientType
<1> HIDE DEF k
<1>3. /\ d \in ClientType /\ d.sockets[s] = k
      /\ \A x \in Sockets \ {s} : d.sockets[x] = c.sockets[x]
      /\ d.ws = c.ws /\ d.current = c.current /\ d.version = c.version /\ d.told = c.told
  BY <1>1, OneSocket
<1> HIDE DEF d
<1>4. Calm(c, d) /\ Linked(d)
  BY <1>1, <1>3 DEF Calm, Linked
<1>5. Live(d)
  <2>1. c.current # None => c.current \in Sockets
    BY FieldTypes
  <2> QED BY <1>1, <1>3, <2>1 DEF Live, Watched
<1> QED BY <1>2, <1>3, <1>4, <1>5

LEMMA ReconnectTimerMoves ==
    ASSUME ConnInv, ReportsInv, NEW s \in Sockets, ReconnectTimer(s)
    PROVE  Moves(client, {})
<1>0. client \in ClientType /\ Linked(client) /\ client.sockets[s] \in SocketType
  BY FieldTypes DEF ConnInv
<1>1. PICK held \in BOOLEAN, throws \in BOOLEAN :
          LET fired == IF held THEN [client EXCEPT !.sockets[s].timer = FALSE]
                       ELSE [client EXCEPT !.sockets[s].orphans = @ - 1]
          IN  /\ IF held THEN client.sockets[s].timer ELSE client.sockets[s].orphans > 0
              /\ Connects(throws)
              /\ Becomes([Connect(fired, s, throws) EXCEPT !.sockets[s].count = @ + 1])
  BY DEF ReconnectTimer
<1> DEFINE j == IF held THEN [client.sockets[s] EXCEPT !.timer = FALSE]
                ELSE [client.sockets[s] EXCEPT !.orphans = client.sockets[s].orphans - 1]
           fired == [client EXCEPT !.sockets[s] = j]
           e == Connect(fired, s, throws)
           d == [e EXCEPT !.sockets[s].count = @ + 1]
<1>2. /\ j \in SocketType /\ j.listens = client.sockets[s].listens /\ j.resend = client.sockets[s].resend
      /\ j.connectionState = client.sockets[s].connectionState /\ j.ws = client.sockets[s].ws
  <2>1. CASE held
    <3>1. j \in SocketType
      BY <1>0, <2>1, SocketUpdate
    <3> QED BY <1>0, <2>1, <3>1 DEF SocketType
  <2>2. CASE ~held
    <3>1. client.sockets[s].orphans - 1 \in Nat
      BY <1>0, <1>1, <2>2 DEF SocketType
    <3>2. j \in SocketType
      BY <1>0, <2>2, <3>1, SocketUpdate
    <3> QED BY <1>0, <2>2, <3>2 DEF SocketType
  <2> QED BY <2>1, <2>2
<1>3. Becomes(d) /\ Connects(throws)
  BY <1>0, <1>1 DEF ClientType
<1> HIDE DEF j
<1>4. /\ fired \in ClientType /\ fired.sockets[s] = j
      /\ \A x \in Sockets \ {s} : fired.sockets[x] = client.sockets[x]
      /\ fired.ws = client.ws /\ fired.current = client.current
      /\ fired.version = client.version /\ fired.told = client.told
  BY <1>0, <1>2, OneSocket
<1> HIDE DEF fired
<1>5. Calm(client, fired) /\ Linked(fired) /\ LiveBut(fired, s) /\ (throws \/ Unused(fired) # {})
  <2>1. Calm(client, fired)
    BY <1>2, <1>4 DEF Calm
  <2>2. Linked(fired)
    BY <1>0, <1>2, <1>4 DEF Linked
  <2>3. LiveBut(fired, s)
    <3>1. client.current # None => client.current \in Sockets
      BY <1>0, FieldTypes
    <3>2. client.current \notin {None, s} => Watched(fired, client.current)
      BY <1>4, <3>1 DEF ConnInv, Live, Watched
    <3>3. client.current = s => fired.sockets[s].listens
      <4>1. s # None
        BY DEF Sockets, None
      <4> QED BY <1>2, <1>4, <4>1 DEF ConnInv, Live, Watched
    <3> QED BY <1>4, <3>2, <3>3 DEF ConnInv, Live, LiveBut
  <2> QED BY <1>3, <1>4, <2>1, <2>2, <2>3 DEF Unused, Connects
<1>6. e \in ClientType /\ Linked(e) /\ Live(e) /\ Calm(fired, e)
  <2>1. CASE throws
    <3>1. e = Reconnect(fired, s)
      BY <2>1 DEF Connect
    <3> QED BY <1>4, <1>5, <3>1, ReconnectKeeps
  <2>2. CASE ~throws
    <3>0. e = MakeWs(fired, s)
      BY <2>2 DEF Connect
    <3>1. /\ e \in ClientType /\ Linked(e) /\ Calm(fired, e)
          /\ e.current = fired.current /\ e.told = fired.told
          /\ \A x \in Sockets : /\ e.sockets[x].connectionState = fired.sockets[x].connectionState
                                /\ e.sockets[x].listens = fired.sockets[x].listens
                                /\ e.sockets[x].timer = fired.sockets[x].timer
          /\ \A w \in WebSockets : fired.ws[w].phase # "none" => e.ws[w] = fired.ws[w]
          /\ \E w \in WebSockets : e.ws[w].owner = s /\ e.ws[w].phase = "connecting"
      BY <1>4, <1>5, <2>2, <3>0, MakeWsKeeps
    <3> HIDE DEF e
    <3>2. ASSUME client.current # None PROVE Watched(e, client.current)
      <4>1. client.current \in Sockets /\ Watched(client, client.current)
        BY <1>0, <3>2, FieldTypes DEF ConnInv, Live
      <4>2. /\ e.sockets[client.current].listens = client.sockets[client.current].listens
            /\ e.sockets[client.current].connectionState = client.sockets[client.current].connectionState
            /\ client.current # s => e.sockets[client.current].timer = client.sockets[client.current].timer
        BY <1>2, <1>4, <3>1, <4>1
      <4>3. \A w \in WebSockets : client.ws[w].phase \in Up => e.ws[w] = client.ws[w]
        BY <1>4, <3>1 DEF Up
      <4>4. "open" \in Up /\ "connecting" \in Up
        BY DEF Up
      <4> QED BY <3>1, <4>1, <4>2, <4>3, <4>4 DEF Watched
    <3>3. e.current = client.current /\ e.told = client.told
      BY <1>4, <3>1
    <3> QED BY <3>1, <3>2, <3>3 DEF ConnInv, Live
  <2> QED BY <2>1, <2>2
<1> HIDE DEF e
<1>7. d \in ClientType /\ Linked(d) /\ Live(d) /\ Calm(e, d)
  BY <1>6, CountKeeps
<1> HIDE DEF d
<1>8. Calm(client, d)
  BY <1>5, <1>6, <1>7, CalmTransitive
<1> QED BY <1>3, <1>7, <1>8, CalmMoves

\* The server's Open event: what waited is sent, or is lost when another WebSocket has come.
LEMMA OpenReceivedMoves ==
    ASSUME ConnInv, ReportsInv, NEW w \in WebSockets, OpenReceived(w)
    PROVE  Moves(client, {})
<1> DEFINE s == client.ws[w].owner
           h == [client.ws[w] EXCEPT !.phase = "open"]
           e == [client EXCEPT !.ws[w] = h]
           k == [client.sockets[s] EXCEPT !.isOpen = TRUE, !.connectionState = "connected", !.count = 0]
           opened == [e EXCEPT !.sockets[s] = k]
           d == [opened EXCEPT !.sockets[s].resend = {}]
           waiting == client.sockets[s].resend
<1>1. client \in ClientType /\ Linked(client) /\ client.ws[w].phase = "connecting" /\ client.ws[w] \in WsType
  BY FieldTypes DEF ConnInv, OpenReceived
<1>2. s \in Sockets /\ s # None
  BY <1>1, FieldTypes DEF Linked
<1>3. client.sockets[s] \in SocketType /\ waiting \subseteq Reports
  BY <1>1, <1>2, FieldTypes
<1>4. h \in WsType /\ h.owner = s /\ h.phase = "open"
  BY <1>1 DEF WsType
<1>5. /\ k \in SocketType /\ k.connectionState = "connected" /\ k.listens = client.sockets[s].listens
      /\ k.ws = client.sockets[s].ws
  <2>1. k = [[[client.sockets[s] EXCEPT !.isOpen = TRUE] EXCEPT !.connectionState = "connected"] EXCEPT !.count = 0]
    BY <1>3 DEF SocketType
  <2>2. k \in SocketType
    BY <1>3, <2>1, SocketUpdate
  <2> QED BY <1>3, <2>2 DEF SocketType
<1>6. [client EXCEPT !.ws[w].phase = "open",
                     !.sockets[s] = [@ EXCEPT !.isOpen = TRUE, !.connectionState = "connected", !.count = 0]] = opened
  BY <1>1 DEF ClientType
<1>7. /\ client' = d
      /\ net' = IF Sendable(opened, s) THEN [net EXCEPT !.sent = net.sent \cup ({opened.sockets[s].ws} \X waiting \X {TRUE})]
                ELSE [net EXCEPT !.dropped = net.dropped \cup waiting]
  BY <1>6 DEF OpenReceived, ReportsInv, NetType
<1> HIDE DEF h, k
<1>8. /\ e \in ClientType /\ e.ws[w] = h
      /\ \A x \in WebSockets \ {w} : e.ws[x] = client.ws[x]
      /\ e.sockets = client.sockets /\ e.current = client.current /\ e.version = client.version /\ e.told = client.told
  BY <1>1, <1>4, OneWs
<1> HIDE DEF e
<1>9. /\ opened \in ClientType /\ opened.sockets[s] = k
      /\ \A x \in Sockets \ {s} : opened.sockets[x] = e.sockets[x]
      /\ opened.ws = e.ws /\ opened.current = e.current /\ opened.version = e.version /\ opened.told = e.told
  BY <1>2, <1>5, <1>8, OneSocket
<1> HIDE DEF opened
<1>10. Linked(opened)
  <2>1. \A x \in Sockets : opened.sockets[x].ws = client.sockets[x].ws
    BY <1>2, <1>5, <1>8, <1>9
  <2>2. \A x \in WebSockets : opened.ws[x].owner = client.ws[x].owner /\ (opened.ws[x].phase = "none" <=> client.ws[x].phase = "none")
    BY <1>1, <1>4, <1>8, <1>9
  <2>3. \A x \in Sockets : client.sockets[x].ws # None => client.sockets[x].ws \in WebSockets
    BY <1>1, FieldTypes
  <2> QED BY <1>1, <2>1, <2>2, <2>3 DEF Linked
<1>11. /\ d \in ClientType /\ Linked(d)
       /\ d.ws = opened.ws /\ d.current = opened.current /\ d.version = opened.version /\ d.told = opened.told
       /\ \A x \in Sockets : /\ d.sockets[x].resend = IF x = s THEN {} ELSE opened.sockets[x].resend
                             /\ Watched(opened, x) => Watched(d, x)
  <2> DEFINE R == {}
             b == [opened EXCEPT !.sockets[s].resend = R]
  <2>1. R \in SUBSET Reports
    OBVIOUS
  <2> HIDE DEF R, s
  <2>2. /\ b \in ClientType /\ Linked(b)
        /\ b.ws = opened.ws /\ b.current = opened.current /\ b.version = opened.version /\ b.told = opened.told
        /\ \A x \in Sockets : /\ b.sockets[x].resend = IF x = s THEN R ELSE opened.sockets[x].resend
                              /\ Watched(opened, x) => Watched(b, x)
    BY <1>2, <1>9, <1>10, <2>1, QueueKeeps
  <2>3. b = d
    BY DEF R
  <2> HIDE DEF b, d
  <2> QED BY <2>2, <2>3 DEF R
<1> HIDE DEF d
<1>12. client.current # None => client.current \in Sockets
  BY <1>1, FieldTypes
<1>13. Live(d)
  <2>1. ASSUME client.current # None PROVE Watched(opened, client.current)
    <3>1. Watched(client, client.current)
      BY <2>1 DEF ConnInv, Live
    <3>2. CASE client.current = s
      <4>1. opened.ws[w].owner = s /\ opened.ws[w].phase = "open" /\ "open" \in Up
        BY <1>4, <1>8, <1>9 DEF Up
      <4> QED BY <1>5, <1>9, <3>1, <3>2, <4>1 DEF Watched
    <3>3. CASE client.current # s
      <4>1. \A x \in WebSockets : client.ws[x].owner = client.current => opened.ws[x] = client.ws[x]
        BY <1>8, <1>9, <3>3
      <4>2. opened.sockets[client.current] = client.sockets[client.current]
        BY <1>8, <1>9, <1>12, <2>1, <3>3
      <4> QED BY <3>1, <4>1, <4>2 DEF Watched
    <3> QED BY <3>2, <3>3
  <2>2. d.current = client.current /\ d.told = client.told
    BY <1>8, <1>9, <1>11
  <2> QED BY <1>11, <1>12, <2>1, <2>2 DEF ConnInv, Live
<1>14. \A x \in Sockets : d.sockets[x].resend = IF x = s THEN {} ELSE client.sockets[x].resend
  BY <1>8, <1>9, <1>11
<1>15. d.current = client.current /\ d.told = client.told /\ d.version = client.version
  BY <1>8, <1>9, <1>11
<1>16. \A x \in WebSockets : client.ws[x].phase # "none" => d.ws[x].phase # "none"
  BY <1>4, <1>8, <1>9, <1>11
<1>17. CASE Sendable(opened, s)
  <2> DEFINE v == opened.sockets[s].ws
             more == {v} \X waiting \X {TRUE}
             sent == net.sent \cup more
  <2>1. v \in WebSockets
    BY <1>2, <1>9, <1>17, FieldTypes DEF Sendable
  <2>2. sent \in SUBSET (WebSockets \X Reports \X BOOLEAN)
    BY <1>3, <2>1 DEF ReportsInv, NetType
  <2>3. \A q \in waiting : <<v, q, TRUE>> \in sent
    OBVIOUS
  <2>4. \A x, q, again : <<x, q, again>> \in sent => <<x, q, again>> \in net.sent \/ q \in waiting
    OBVIOUS
  <2>5. net.sent \subseteq sent /\ net' = [net EXCEPT !.sent = sent]
    BY <1>7, <1>17
  <2>9. \A x, q, again : <<x, q, again>> \in sent => <<x, q, again>> \in net.sent \/ opened.ws[x].phase # "none"
    BY <1>17 DEF Sendable
  <2> HIDE DEF sent, v
  <2>6. /\ net' \in NetType /\ net'.sent = sent /\ net'.answers = net.answers /\ net'.received = net.received
        /\ net'.dropped = net.dropped
    BY <2>2, <2>5 DEF ReportsInv, NetType
  <2>7. ASSUME NEW q \in Reports, Held(client, net, q) PROVE Held(client', net', q)
    <3>1. CASE client.current = s /\ q \in waiting
      BY <2>1, <2>3, <2>6, <3>1 DEF Held, OnItsWay
    <3>2. CASE ~(client.current = s /\ q \in waiting)
      BY <1>7, <1>12, <1>14, <1>15, <2>5, <2>6, <2>7, <3>2 DEF Held, OnItsWay
    <3> QED BY <3>1, <3>2
  <2>8. ASSUME NEW q \in Reports, Carried(client', net', q) PROVE Carried(client, net, q)
    BY <1>2, <1>7, <1>14, <2>4, <2>6, <2>8 DEF Carried, OnItsWay
  <2>10. SentInv(client', net')
    BY <1>7, <1>11, <1>16, <2>6, <2>9 DEF ReportsInv, SentInv
  <2> QED BY <1>7, <1>11, <1>13, <1>15, <2>6, <2>7, <2>8, <2>10 DEF Moves
<1>18. CASE ~Sendable(opened, s)
  <2> DEFINE dropped == net.dropped \cup waiting
  <2>1. dropped \in SUBSET Reports
    BY <1>3 DEF ReportsInv, NetType
  <2>2. waiting \subseteq dropped /\ net.dropped \subseteq dropped /\ net' = [net EXCEPT !.dropped = dropped]
    BY <1>7, <1>18
  <2> HIDE DEF dropped
  <2>3. /\ net' \in NetType /\ net'.sent = net.sent /\ net'.answers = net.answers /\ net'.received = net.received
        /\ net'.dropped = dropped
    BY <2>1, <2>2 DEF ReportsInv, NetType
  <2>4. ASSUME NEW q \in Reports, Held(client, net, q) PROVE Held(client', net', q)
    <3>1. CASE client.current = s /\ q \in waiting
      BY <2>2, <2>3, <3>1 DEF Held
    <3>2. CASE ~(client.current = s /\ q \in waiting)
      BY <1>7, <1>12, <1>14, <1>15, <2>2, <2>3, <2>4, <3>2 DEF Held, OnItsWay
    <3> QED BY <3>1, <3>2
  <2>5. ASSUME NEW q \in Reports, Carried(client', net', q) PROVE Carried(client, net, q)
    BY <1>2, <1>7, <1>14, <2>3, <2>5 DEF Carried, OnItsWay
  <2>6. SentInv(client', net')
    BY <1>7, <1>16, <2>3 DEF ReportsInv, SentInv
  <2> QED BY <1>7, <1>11, <1>13, <1>15, <2>3, <2>4, <2>5, <2>6 DEF Moves
<1> QED BY <1>17, <1>18

\* A new token is kept for the next Socket.
LEMMA NewTokenMoves ==
    ASSUME ConnInv, ReportsInv, NEW t \in Tokens, updateAuthToken(t)
    PROVE  Moves(client, {})
<1>1. client \in ClientType /\ t \in 0..MaxTokens
  BY Bounds DEF ConnInv, Tokens
<1>2. /\ client' = (IF client.current = None THEN client ELSE [client EXCEPT !.newToken = t])
      /\ net' = net
  BY DEF updateAuthToken
<1>3. client' \in ClientType
  BY <1>1, <1>2, ClientUpdate
<1>4. /\ client'.sockets = client.sockets /\ client'.ws = client.ws /\ client'.current = client.current
      /\ client'.told = client.told /\ client'.version = client.version
  BY <1>1, <1>2 DEF ClientType
<1>5. Linked(client') /\ Live(client') /\ SentInv(client', net')
  BY <1>2, <1>4 DEF ConnInv, ReportsInv, Linked, Live, Watched, SentInv
<1>6. \A q \in Reports : /\ Held(client, net, q) => Held(client', net, q)
                         /\ Carried(client', net, q) => Carried(client, net, q)
  BY <1>4 DEF Held, Carried
<1> QED BY <1>2, <1>3, <1>4, <1>5, <1>6 DEF Moves, ReportsInv

-----------------------------------------------------------------------------
(* The steps of the reports                                                *)

\* A client that differs from the one of the state in what the Socket does not see.
Alike(c) ==
    /\ c \in ClientType
    /\ c.sockets = client.sockets /\ c.ws = client.ws /\ c.current = client.current /\ c.told = client.told

LEMMA AlikeKeeps ==
    ASSUME ConnInv, NEW c, Alike(c)
    PROVE  Linked(c) /\ Live(c) /\ (client.current # None => client.current \in Sockets)
<1>1. client.current # None => client.current \in Sockets
  BY FieldTypes DEF ConnInv
<1>2. Linked(c)
  BY DEF ConnInv, Alike, Linked
<1>3. Live(c)
  BY DEF ConnInv, Alike, Live, Watched
<1> QED BY <1>1, <1>2, <1>3

\* A report is queued, and with it the queue of a Socket that is given up.
LEMMA BecomesMoves ==
    ASSUME ConnInv, ReportsInv, NEW c, Alike(c), NEW s \in Sockets, NEW r \in Reports,
           NEW d, Queued(c, d, s, r), client' = d,
           net' = [net EXCEPT !.dropped = net.dropped \cup Abandoned(client, d)]
    PROVE  /\ Moves(c, {r})
           /\ client.current = s => Held(client', net', r)
<1> DEFINE dropped == net.dropped \cup Abandoned(client, d)
<1>0. client.current # None => client.current \in Sockets
  BY AlikeKeeps
<1>1. d \in ClientType /\ \A x \in Sockets : client.sockets[x].resend \subseteq d.sockets[x].resend
  BY DEF Alike, Queued
<1>2. dropped \in SUBSET Reports
  BY <1>0, <1>1, FieldTypes DEF Abandoned, ReportsInv, NetType
<1>3. Abandoned(client, d) \subseteq dropped /\ net.dropped \subseteq dropped
  OBVIOUS
<1> HIDE DEF dropped
<1>4. /\ net' \in NetType /\ net'.sent = net.sent /\ net'.answers = net.answers /\ net'.received = net.received
      /\ net'.dropped = dropped
  BY <1>2 DEF ReportsInv, NetType, dropped
<1>5. ASSUME NEW q \in Reports, client.current # None, q \in d.sockets[client.current].resend
      PROVE  Held(client', net', q)
  <2>1. q \in Abandoned(client, d) \/ (d.current # None /\ q \in d.sockets[d.current].resend)
    BY <1>1, <1>5, AbandonedKeeps
  <2> QED BY <1>3, <1>4, <2>1 DEF Held
<1>6. ASSUME NEW q \in Reports, Held(client, net, q) PROVE Held(client', net', q)
  <2>1. CASE client.current # None /\ q \in client.sockets[client.current].resend
    BY <1>0, <1>1, <1>5, <2>1
  <2>2. CASE ~(client.current # None /\ q \in client.sockets[client.current].resend)
    BY <1>3, <1>4, <1>6, <2>2 DEF Held, OnItsWay
  <2> QED BY <2>1, <2>2
<1>7. ASSUME NEW q \in Reports \ {r}, Carried(client', net', q) PROVE Carried(client, net, q)
  BY <1>4, <1>7 DEF Carried, OnItsWay, Queued, Alike
<1>8. client.current = s => Held(client', net', r)
  <2>1. s # None /\ r \in d.sockets[s].resend
    BY DEF Sockets, None, Queued
  <2> QED BY <1>5, <2>1
<1>9. SentInv(client', net')
  BY <1>4 DEF ReportsInv, SentInv, Queued, Alike
<1> QED BY <1>1, <1>4, <1>6, <1>7, <1>8, <1>9 DEF Moves, Queued, Alike

\* The acknowledgement's callback is set or removed.
LEMMA CallbacksKeep ==
    ASSUME NEW d \in ClientType, NEW R \in SUBSET Reports
    PROVE  LET e == [d EXCEPT !.callbacks = R]
           IN  /\ e \in ClientType
               /\ e.sockets = d.sockets /\ e.ws = d.ws /\ e.current = d.current /\ e.told = d.told
               /\ e.version = d.version /\ e.newToken = d.newToken
               /\ Linked(d) => Linked(e)
               /\ Live(d) => Live(e)
<1> DEFINE e == [d EXCEPT !.callbacks = R]
<1>1. e \in ClientType
  BY ClientUpdate
<1>2. /\ e.sockets = d.sockets /\ e.ws = d.ws /\ e.current = d.current /\ e.told = d.told
      /\ e.version = d.version /\ e.newToken = d.newToken
  BY DEF ClientType
<1> HIDE DEF e
<1>3. (Linked(d) => Linked(e)) /\ (Live(d) => Live(e))
  BY <1>2 DEF Linked, Live, Watched
<1> QED BY <1>1, <1>2, <1>3 DEF e

(***************************************************************************)
(* Socket.send                                                             *)
(***************************************************************************)
LEMMA TransmitMoves ==
    ASSUME ConnInv, ReportsInv, NEW c, Alike(c), NEW r \in Reports, client.current # None, Transmit(c, r)
    PROVE  Moves(c, {r}) /\ Held(client', net', r)
<1> DEFINE s == c.current
           d == ResendAfterReconnect(c, s, r)
<1>1. s = client.current /\ s \in Sockets /\ c \in ClientType /\ Linked(c) /\ Live(c)
  BY AlikeKeeps DEF Alike
<1> HIDE DEF s
<1>2. CASE Sendable(c, s)
  <2> DEFINE v == c.sockets[s].ws
             sent == net.sent \cup {<<v, r, FALSE>>}
             R == c.callbacks \cup {r}
  <2>1. v \in WebSockets /\ R \in SUBSET Reports
    BY <1>1, <1>2, FieldTypes DEF Sendable
  <2>2. client' = [c EXCEPT !.callbacks = R] /\ net' = [net EXCEPT !.sent = sent]
    BY <1>1, <1>2 DEF Transmit, s
  <2>3. sent \in SUBSET (WebSockets \X Reports \X BOOLEAN) /\ <<v, r, FALSE>> \in sent /\ net.sent \subseteq sent
    <3>1. net.sent \in SUBSET (WebSockets \X Reports \X BOOLEAN)
      BY DEF ReportsInv, NetType
    <3> HIDE DEF v
    <3>2. <<v, r, FALSE>> \in WebSockets \X Reports \X BOOLEAN
      BY <2>1
    <3> QED BY <3>1, <3>2
  <2>4. \A x, q, again : <<x, q, again>> \in sent => <<x, q, again>> \in net.sent \/ (q = r /\ x = v)
    OBVIOUS
  <2>5. c.ws[v].phase = "open"
    BY <1>2 DEF Sendable
  <2> HIDE DEF sent, v, R
  <2>6. /\ net' \in NetType /\ net'.sent = sent /\ net'.answers = net.answers /\ net'.received = net.received
        /\ net'.dropped = net.dropped
    BY <2>2, <2>3 DEF ReportsInv, NetType
  <2>7. /\ client' \in ClientType /\ Linked(client') /\ Live(client')
        /\ client'.sockets = client.sockets /\ client'.ws = client.ws /\ client'.current = client.current /\ client'.told = c.told
        /\ client'.version = c.version
    BY <1>1, <2>1, <2>2, CallbacksKeep DEF Alike
  <2>8. \A q \in Reports : Held(client, net, q) => Held(client', net', q)
    BY <2>3, <2>6, <2>7 DEF Held, OnItsWay
  <2>9. \A q \in Reports \ {r} : Carried(client', net', q) => Carried(client, net, q)
    BY <2>4, <2>6, <2>7 DEF Carried, OnItsWay
  <2>10. Held(client', net', r)
    BY <2>1, <2>3, <2>6 DEF Held, OnItsWay
  <2>11. SentInv(client', net')
    BY <2>4, <2>6, <2>7, <2>5 DEF ReportsInv, SentInv, Alike
  <2> QED BY <2>6, <2>7, <2>8, <2>9, <2>10, <2>11 DEF Moves
<1>3. CASE ~Sendable(c, s)
  <2> DEFINE R == d.callbacks \cup {r}
             e == [d EXCEPT !.callbacks = R]
  <2>1. Queued(c, d, s, r)
    BY <1>1, ResendKeeps
  <2>2. client' = e /\ net' = [net EXCEPT !.dropped = net.dropped \cup Abandoned(client, e)]
    BY <1>3 DEF Transmit, Becomes, s, ReportsInv, NetType
  <2> HIDE DEF d
  <2>3. d \in ClientType /\ Linked(d) /\ Live(d) /\ R \in SUBSET Reports
    BY <2>1, FieldTypes DEF Queued
  <2> HIDE DEF R
  <2>4. /\ e \in ClientType /\ e.sockets = d.sockets /\ e.ws = d.ws /\ e.told = d.told /\ e.version = d.version
        /\ Linked(e) /\ Live(e)
    BY <2>3, CallbacksKeep
  <2> HIDE DEF e
  <2>5. Queued(c, e, s, r)
    BY <2>1, <2>4 DEF Queued
  <2> QED BY <1>1, <2>2, <2>5, BecomesMoves
<1> QED BY <1>2, <1>3

\* A report is made: it is the next one, and has the next version or none.
Made(c, r, version) ==
    /\ \E k \in ReportType : /\ report' = [report EXCEPT ![r] = k]
                             /\ k.stage # "none" /\ k.version = version /\ k.told # "ok"
                             /\ k.told = "pending" => k.timer /\ k.stage = "waiting"
                             /\ k.stage = "waiting" => k.tries < MaxTries
    /\ report[r].stage = "none" /\ \A x \in Reports : x < r => report[x].stage # "none"

LEMMA MadeKeeps ==
    ASSUME ConnInv, ReportsInv, NEW c, NEW r \in Reports, NEW version \in Nat,
           c.told = client.told, c.version \in Nat, client.version <= c.version, client.version \in Nat,
           version = 0 \/ (version = c.version /\ client.version < version),
           Moves(c, {r}), Held(client', net', r), Made(c, r, version)
    PROVE  ConnInv' /\ ReportsInv'
<1>1. PICK k \in ReportType : /\ report' = [report EXCEPT ![r] = k]
                              /\ k.stage # "none" /\ k.version = version /\ k.told # "ok"
                              /\ k.told = "pending" => k.timer /\ k.stage = "waiting"
                              /\ k.stage = "waiting" => k.tries < MaxTries
  BY DEF Made
<1>2. /\ report' \in [Reports -> ReportType] /\ report'[r] = k
      /\ \A q \in Reports \ {r} : report'[q] = report[q]
      /\ Reports \subseteq Nat
  BY <1>1 DEF ReportsInv, Reports
<1>3. report[r].stage = "none" /\ \A x \in Reports : x < r => report[x].stage # "none"
  BY DEF Made
<1>4. StagesInv(report')
  BY <1>1, <1>2, <1>3 DEF ReportsInv, StagesInv
<1>5. FateInv(client', net', report')
  BY <1>1, <1>2 DEF ReportsInv, FateInv, Moves
<1>6. AnswersInv(net', report')
  BY <1>1, <1>2 DEF ReportsInv, AnswersInv, Moves
<1>7. ASSUME "failed" \notin client'.told PROVE VersionsInv(client', report')
  <2>1. client'.version = c.version /\ "failed" \notin client.told
    BY <1>7 DEF Moves
  <2>2. \A q \in Reports : report[q].stage # "none" =>
            /\ report[q].version <= client.version
            /\ \A x \in Reports : x < q /\ report[x].version > 0 /\ report[q].version > 0 => report[x].version < report[q].version
    BY <2>1 DEF ReportsInv, VersionsInv
  <2>3. \A q \in Reports : report[q].version \in Nat
    BY DEF ReportsInv, ReportType
  <2>4. \A q \in Reports \ {r} : report[q].stage # "none" => q < r
    BY <1>2, <1>3 DEF ReportsInv, StagesInv
  <2>5. ASSUME NEW q \in Reports, report'[q].stage # "none"
        PROVE  /\ report'[q].version <= client'.version
               /\ \A x \in Reports : x < q /\ report'[x].version > 0 /\ report'[q].version > 0 => report'[x].version < report'[q].version
    <3>1. CASE q = r
      <4>1. report'[q].version <= client'.version
        BY <1>1, <1>2, <2>1, <3>1
      <4>2. ASSUME NEW x \in Reports, x < q, report'[x].version > 0, report'[q].version > 0
            PROVE  report'[x].version < report'[q].version
        <5>1. x # r /\ report'[x] = report[x] /\ report[x].version <= client.version
          BY <1>2, <1>3, <2>2, <3>1, <4>2
        <5>2. report'[q].version = version /\ client.version < version
          BY <1>1, <1>2, <3>1, <4>2
        <5> QED BY <2>3, <5>1, <5>2
      <4> QED BY <4>1, <4>2
    <3>2. CASE q # r
      <4>1. report'[q] = report[q] /\ q < r
        BY <1>2, <2>4, <2>5, <3>2
      <4>2. \A x \in Reports : x < q => report'[x] = report[x]
        BY <1>2, <4>1
      <4> QED BY <2>1, <2>2, <2>3, <2>5, <4>1, <4>2
    <3> QED BY <3>1, <3>2
  <2> QED BY <2>5 DEF VersionsInv
<1>8. VersionsInv(client', report')
  BY <1>7 DEF VersionsInv
<1> QED BY <1>2, <1>4, <1>5, <1>6, <1>8 DEF ConnInv, ReportsInv, Moves

(***************************************************************************)
(* The start of _sendClientEvent.                                          *)
(***************************************************************************)
LEMMA SendClientEventKeeps ==
    ASSUME ConnInv, ReportsInv, NEW c, Alike(c), NEW r \in Reports, NEW version \in Nat,
           client.version <= c.version, version = 0 \/ (version = c.version /\ client.version < version),
           SendClientEvent(c, r, version)
    PROVE  ConnInv' /\ ReportsInv'
<1> DEFINE made == [report[r] EXCEPT !.version = version]
           s == c.current
           over == [made EXCEPT !.stage = "over", !.told = "failed"]
           sent == [made EXCEPT !.stage = "waiting", !.timer = TRUE]
<1>1. /\ c \in ClientType /\ Linked(c) /\ Live(c) /\ c.version \in Nat /\ client.version \in Nat
      /\ c.told = client.told /\ (s # None => s \in Sockets) /\ s = client.current
  BY AlikeKeeps, FieldTypes DEF Alike, ConnInv
<1>2. report[r] \in ReportType /\ report[r].stage = "none" /\ report[r].tries = 0 /\ report[r].told = "pending"
      /\ \A x \in Reports : x < r => report[x].stage # "none"
  BY DEF SendClientEvent, ReportsInv, StagesInv
<1>3. /\ over \in ReportType /\ over.stage = "over" /\ over.told = "failed" /\ over.version = version
      /\ sent \in ReportType /\ sent.stage = "waiting" /\ sent.told = "pending" /\ sent.timer
      /\ sent.version = version /\ sent.tries = 0
  BY <1>2 DEF ReportType
<1>4. /\ report' = [report EXCEPT ![r] = over] => Made(c, r, version)
      /\ report' = [report EXCEPT ![r] = sent] => Made(c, r, version)
  <2> HIDE DEF over, sent
  <2>1. 0 < MaxTries
    BY Bounds
  <2> QED BY <1>2, <1>3, <2>1 DEF Made
<1>5. Moves(c, {r}) /\ Held(client', net', r) /\ Made(c, r, version)
  <2>1. CASE s = None \/ c.sockets[s].connectionState = "closed"
    <3> DEFINE dropped == net.dropped \cup {r}
    <3>1. /\ report' = [report EXCEPT ![r] = over] /\ client' = c /\ net' = [net EXCEPT !.dropped = dropped]
      BY <2>1 DEF SendClientEvent
    <3>2. dropped \in SUBSET Reports /\ r \in dropped /\ net.dropped \subseteq dropped
      BY DEF ReportsInv, NetType
    <3> HIDE DEF dropped, over
    <3>3. /\ net' \in NetType /\ net'.sent = net.sent /\ net'.answers = net.answers /\ net'.received = net.received
          /\ net'.dropped = dropped
      BY <3>1, <3>2 DEF ReportsInv, NetType
    <3>4. SentInv(client', net')
      BY <3>1, <3>3 DEF ReportsInv, SentInv, Alike
    <3>5. /\ \A q \in Reports : Held(client, net, q) => Held(client', net', q)
          /\ \A q \in Reports : Carried(client', net', q) => Carried(client, net, q)
      BY <3>1, <3>2, <3>3 DEF Held, Carried, OnItsWay, Alike
    <3>6. Held(client', net', r)
      BY <3>2, <3>3 DEF Held
    <3> QED BY <1>1, <1>4, <3>1, <3>3, <3>4, <3>5, <3>6 DEF Moves
  <2>2. CASE ~(s = None \/ c.sockets[s].connectionState = "closed") /\ c.sockets[s].connectionState = "connecting"
    <3> DEFINE Q == c.sockets[s].resend \cup {r}
               R == c.callbacks \cup {r}
               d == [c EXCEPT !.sockets[s].resend = Q]
               e == [d EXCEPT !.callbacks = R]
    <3>1. s \in Sockets /\ Q \in SUBSET Reports /\ R \in SUBSET Reports
      BY <1>1, <2>2, FieldTypes
    <3>2. report' = [report EXCEPT ![r] = over] /\ net' = net /\ client' = e
      <4>1. /\ report' = [report EXCEPT ![r] = over] /\ net' = net
            /\ client' = [c EXCEPT !.sockets[s].resend = Q, !.callbacks = R]
        BY <2>2 DEF SendClientEvent
      <4> QED BY <1>1, <4>1 DEF ClientType
    <3> HIDE DEF Q, R, s, over
    <3>3. /\ d \in ClientType /\ Linked(d)
          /\ d.ws = c.ws /\ d.current = c.current /\ d.version = c.version /\ d.told = c.told
          /\ \A x \in Sockets : /\ d.sockets[x].resend = IF x = s THEN Q ELSE c.sockets[x].resend
                                /\ Watched(c, x) => Watched(d, x)
      BY <1>1, <3>1, QueueKeeps
    <3> HIDE DEF d
    <3>4. Live(d)
      BY <1>1, <3>1, <3>3 DEF Live, s
    <3>5. /\ e \in ClientType /\ e.sockets = d.sockets /\ e.ws = d.ws /\ e.current = d.current /\ e.told = d.told
          /\ e.version = d.version /\ Linked(e) /\ Live(e)
      BY <3>1, <3>3, <3>4, CallbacksKeep
    <3> HIDE DEF e
    <3>6. SentInv(client', net')
      BY <3>2, <3>3, <3>5 DEF ReportsInv, SentInv, Alike
    <3>7. \A x \in Sockets : e.sockets[x].resend = IF x = s THEN client.sockets[s].resend \cup {r} ELSE client.sockets[x].resend
      BY <3>3, <3>5 DEF Q, Alike
    <3>8. e.current = client.current /\ e.current = s
      BY <1>1, <3>3, <3>5 DEF Alike
    <3>9. s # None
      BY <2>2 DEF s
    <3>10. /\ \A q \in Reports : Held(client, net, q) => Held(e, net, q)
           /\ \A q \in Reports \ {r} : Carried(e, net, q) => Carried(client, net, q)
           /\ Held(e, net, r)
      BY <3>1, <3>7, <3>8, <3>9 DEF Held, Carried, OnItsWay
    <3> QED BY <1>1, <1>4, <3>2, <3>3, <3>5, <3>6, <3>10 DEF Moves, ReportsInv
  <2>3. CASE ~(s = None \/ c.sockets[s].connectionState = "closed") /\ c.sockets[s].connectionState # "connecting"
    <3>1. report' = [report EXCEPT ![r] = sent] /\ Transmit(c, r) /\ client.current # None
      BY <1>1, <2>3 DEF SendClientEvent
    <3> QED BY <1>4, <3>1, TransmitMoves
  <2> QED BY <2>1, <2>2, <2>3
<1> QED BY <1>1, <1>5, MadeKeeps

LEMMA sendReportKeeps ==
    ASSUME ConnInv, ReportsInv, NEW r \in Reports, sendReport(r)
    PROVE  ConnInv' /\ ReportsInv'
<1> DEFINE n == client.version + 1
           c == [client EXCEPT !.version = n]
<1>1. client \in ClientType /\ client.version \in Nat
  BY FieldTypes DEF ConnInv
<1>2. n \in Nat /\ client.version < n
  BY <1>1
<1>3. SendClientEvent(c, r, n)
  BY <1>1 DEF sendReport
<1> HIDE DEF n
<1>4. Alike(c) /\ c.version = n
  <2>1. c \in ClientType
    BY <1>1, <1>2, ClientUpdate
  <2> QED BY <1>1, <2>1 DEF Alike, ClientType
<1> HIDE DEF c
<1> QED BY <1>1, <1>2, <1>3, <1>4, SendClientEventKeeps

LEMMA LogsAlike ==
    ASSUME ConnInv, NEW n \in 0..MaxLogs
    PROVE  Alike([client EXCEPT !.logs = n]) /\ [client EXCEPT !.logs = n].version = client.version /\ client.version \in Nat
<1>1. client \in ClientType /\ client.version \in Nat
  BY FieldTypes DEF ConnInv
<1>2. [client EXCEPT !.logs = n] \in ClientType
  BY <1>1, ClientUpdate
<1> QED BY <1>1, <1>2 DEF Alike, ClientType

LEMMA LogsKeep ==
    ASSUME ConnInv, ReportsInv, NEW r \in Reports, bufferSdkLog(r) \/ SdkLogInterval(r)
    PROVE  ConnInv' /\ ReportsInv'
<1>1. CASE SendClientEvent([client EXCEPT !.logs = 0], r, 0)
  <2> DEFINE c == [client EXCEPT !.logs = 0]
  <2>1. Alike(c) /\ c.version = client.version /\ client.version \in Nat
    BY Zeros, LogsAlike
  <2> HIDE DEF c
  <2>2. SendClientEvent(c, r, 0)
    BY <1>1 DEF c
  <2> QED BY <2>1, <2>2, SendClientEventKeeps
<1>2. CASE /\ client.logs + 1 < MaxLogs /\ client' = [client EXCEPT !.logs = @ + 1]
           /\ UNCHANGED <<report, net>>
  <2> DEFINE n == client.logs + 1
             c == [client EXCEPT !.logs = n]
  <2>1. n \in 0..MaxLogs
    <3>1. client.logs \in 0..MaxLogs /\ MaxLogs \in Nat
      BY Bounds, FieldTypes DEF ConnInv
    <3> QED BY <1>2, <3>1
  <2>2. client' = c
    BY <1>2 DEF ConnInv, ClientType
  <2> HIDE DEF n
  <2>3. Alike(c) /\ c.version = client.version
    BY <2>1, LogsAlike
  <2> HIDE DEF c
  <2>4. Linked(c) /\ Live(c)
    BY <2>3, AlikeKeeps
  <2>5. SentInv(c, net) /\ \A q \in Reports : (Held(client, net, q) => Held(c, net, q)) /\ (Carried(c, net, q) => Carried(client, net, q))
    BY <2>3 DEF ReportsInv, SentInv, Held, Carried, Alike
  <2>6. Moves(client, {})
    BY <1>2, <2>2, <2>3, <2>4, <2>5 DEF Moves, Alike, ReportsInv
  <2> QED BY <1>2, <2>6, MovesKeeps
<1> QED BY <1>1, <1>2 DEF bufferSdkLog, SdkLogInterval

(***************************************************************************)
(* A report that is made goes on.                                          *)
(***************************************************************************)
LEMMA GoesOnKeeps ==
    ASSUME ConnInv, ReportsInv, NEW r \in Reports, NEW k \in ReportType, Moves(client, {r}),
           report' = [report EXCEPT ![r] = k], report[r].stage # "none", k.stage # "none",
           k.version = report[r].version,
           k.told = "pending" => k.timer \/ k.stage = "backoff",
           k.stage = "waiting" => k.tries < MaxTries,
           k.told = "ok" => r \in net'.received
    PROVE  ConnInv' /\ ReportsInv'
<1>1. /\ report' \in [Reports -> ReportType] /\ report'[r] = k
      /\ \A q \in Reports \ {r} : report'[q] = report[q]
  BY DEF ReportsInv
<1>2. \A q \in Reports : (report'[q].stage = "none" <=> report[q].stage = "none") /\ report'[q].version = report[q].version
  BY <1>1
<1>3. StagesInv(report')
  BY <1>1, <1>2 DEF ReportsInv, StagesInv
<1>4. FateInv(client', net', report')
  BY <1>2 DEF ReportsInv, FateInv, Moves
<1>5. AnswersInv(net', report')
  BY <1>1 DEF ReportsInv, AnswersInv, Moves
<1>6. VersionsInv(client', report')
  BY <1>2 DEF ReportsInv, VersionsInv, Moves
<1> QED BY <1>1, <1>3, <1>4, <1>5, <1>6 DEF ConnInv, ReportsInv, Moves

\* What the sender of a report is told stays.
LEMMA SettledType ==
    ASSUME ReportsInv, NEW r \in Reports, NEW told \in {"ok", "failed"}
    PROVE  LET k == Settled(r, told)
           IN  /\ k \in ReportType /\ k.told # "pending"
               /\ k.told = "ok" => told = "ok" \/ r \in net.received
               /\ k.stage = report[r].stage /\ k.version = report[r].version /\ k.tries = report[r].tries
<1> DEFINE x == IF report[r].told = "pending" THEN told ELSE report[r].told
           k == [report[r] EXCEPT !.told = x]
<1>1. report[r] \in ReportType
  BY DEF ReportsInv
<1>2. Settled(r, told) = k
  BY DEF Settled
<1>3. x \in {"pending", "ok", "failed"} /\ x # "pending" /\ (x = "ok" => told = "ok" \/ r \in net.received)
  BY <1>1 DEF ReportType, ReportsInv, AnswersInv
<1> HIDE DEF x
<1>4. k \in ReportType /\ k.told = x /\ k.stage = report[r].stage /\ k.version = report[r].version /\ k.tries = report[r].tries
  BY <1>1, <1>3 DEF ReportType
<1> QED BY <1>2, <1>3, <1>4

LEMMA SendTimeoutKeeps ==
    ASSUME ConnInv, ReportsInv, NEW r \in Reports, SendTimeout(r)
    PROVE  ConnInv' /\ ReportsInv'
<1> DEFINE j == Settled(r, "failed")
           k == [j EXCEPT !.timer = FALSE]
<1>1. report[r].timer /\ report' = [report EXCEPT ![r] = k]
  BY DEF SendTimeout
<1>2. /\ j \in ReportType /\ j.told # "pending" /\ (j.told = "ok" => r \in net.received)
      /\ j.stage = report[r].stage /\ j.version = report[r].version /\ j.tries = report[r].tries
  BY SettledType
<1> HIDE DEF j
<1>3. /\ k \in ReportType /\ k.told # "pending" /\ (k.told = "ok" => r \in net.received)
      /\ k.stage = report[r].stage /\ k.version = report[r].version /\ k.tries = report[r].tries
  BY <1>2 DEF ReportType
<1> HIDE DEF k
<1>4. report[r].stage # "none" /\ (report[r].stage = "waiting" => report[r].tries < MaxTries)
  BY <1>1 DEF ReportsInv, StagesInv
<1>5. Moves(client, {r})
  <2>1. CASE client.current = None
    <3> DEFINE R == client.callbacks \ {r}
               dropped == net.dropped \cup {r}
    <3>1. client' = [client EXCEPT !.callbacks = R] /\ net' = [net EXCEPT !.dropped = dropped]
      BY <2>1 DEF SendTimeout
    <3>2. client \in ClientType /\ R \in SUBSET Reports /\ dropped \in SUBSET Reports /\ net.dropped \subseteq dropped
      BY FieldTypes DEF ConnInv, ReportsInv, NetType
    <3> HIDE DEF R, dropped
    <3>3. /\ client' \in ClientType
          /\ client'.sockets = client.sockets /\ client'.ws = client.ws /\ client'.current = client.current
          /\ client'.told = client.told /\ client'.version = client.version /\ Linked(client') /\ Live(client')
      BY <3>1, <3>2, CallbacksKeep DEF ConnInv
    <3>4. /\ net' \in NetType /\ net'.sent = net.sent /\ net'.answers = net.answers /\ net'.received = net.received
          /\ net'.dropped = dropped
      BY <3>1, <3>2 DEF ReportsInv, NetType
    <3>5. SentInv(client', net')
      BY <3>3, <3>4 DEF ReportsInv, SentInv
    <3>6. \A q \in Reports : (Held(client, net, q) => Held(client', net', q)) /\ (Carried(client', net', q) => Carried(client, net, q))
      BY <3>2, <3>3, <3>4 DEF Held, Carried, OnItsWay
    <3> QED BY <3>3, <3>4, <3>5, <3>6 DEF Moves
  <2>2. CASE client.current # None
    <3> DEFINE d == ResendAfterReconnect(client, client.current, r)
    <3>1. Alike(client) /\ client.current \in Sockets
      BY <2>2, FieldTypes DEF Alike, ConnInv
    <3>2. client' = d /\ net' = [net EXCEPT !.dropped = net.dropped \cup Abandoned(client, d)]
      BY <2>2 DEF SendTimeout, Becomes, ReportsInv, NetType
    <3>3. Queued(client, d, client.current, r)
      BY <3>1, ResendKeeps DEF ConnInv
    <3> HIDE DEF d
    <3> QED BY <3>1, <3>2, <3>3, BecomesMoves
  <2> QED BY <2>1, <2>2
<1>6. net'.received = net.received
  BY <1>5 DEF Moves
<1> QED BY <1>1, <1>3, <1>4, <1>5, <1>6, GoesOnKeeps

LEMMA BackoffOverKeeps ==
    ASSUME ConnInv, ReportsInv, NEW r \in Reports, BackoffOver(r)
    PROVE  ConnInv' /\ ReportsInv'
<1>1. report[r].stage = "backoff" /\ report[r] \in ReportType /\ report[r].tries \in Nat /\ MaxTries \in Nat
  BY Bounds DEF BackoffOver, ReportsInv, ReportType
<1>2. ASSUME UNCHANGED <<client, net>> PROVE Moves(client, {r})
  BY <1>2 DEF ConnInv, ReportsInv, Moves
<1>3. CASE report[r].tries >= MaxTries
  <2> DEFINE j == Settled(r, "failed")
             k == [j EXCEPT !.stage = "over"]
  <2>1. report' = [report EXCEPT ![r] = k] /\ UNCHANGED <<client, net>>
    BY <1>3 DEF BackoffOver
  <2>2. j \in ReportType /\ j.told # "pending" /\ (j.told = "ok" => r \in net.received) /\ j.version = report[r].version
    BY SettledType
  <2> HIDE DEF j
  <2>3. k \in ReportType /\ k.told # "pending" /\ (k.told = "ok" => r \in net.received) /\ k.version = report[r].version
        /\ k.stage = "over"
    BY <2>2 DEF ReportType
  <2> HIDE DEF k
  <2> QED BY <1>1, <1>2, <2>1, <2>3, GoesOnKeeps
<1>4. CASE ~(report[r].tries >= MaxTries)
  <2> DEFINE x == IF client.current = None THEN "over" ELSE "waiting"
             k == [report[r] EXCEPT !.timer = TRUE, !.stage = x]
  <2>1. report' = [report EXCEPT ![r] = k]
    BY <1>4 DEF BackoffOver
  <2>2. k \in ReportType /\ k.timer /\ k.stage = x /\ k.told = report[r].told /\ k.version = report[r].version
        /\ k.tries = report[r].tries /\ x \in {"over", "waiting"}
    BY <1>1 DEF ReportType
  <2> HIDE DEF k, x
  <2>3. k.told = "ok" => r \in net.received
    BY <2>2 DEF ReportsInv, AnswersInv
  <2>4. Moves(client, {r})
    <3>1. CASE client.current = None
      BY <1>2, <1>4, <3>1 DEF BackoffOver
    <3>2. CASE client.current # None
      <4>1. Transmit(client, r) /\ Alike(client)
        BY <1>4, <3>2 DEF BackoffOver, Alike, ConnInv
      <4> QED BY <3>2, <4>1, TransmitMoves
    <3> QED BY <3>1, <3>2
  <2>5. net'.received = net.received
    BY <2>4 DEF Moves
  <2>6. k.tries < MaxTries /\ k.stage # "none"
    BY <1>1, <1>4, <2>2
  <2> QED BY <1>1, <2>1, <2>2, <2>3, <2>4, <2>5, <2>6, GoesOnKeeps
<1> QED BY <1>3, <1>4

LEMMA SendFailsMoves ==
    ASSUME ConnInv, ReportsInv, NEW w \in WebSockets, NEW r \in Reports, NEW again \in BOOLEAN, SendFails(w, r, again)
    PROVE  Moves(client, {r}) /\ report[r].stage # "none"
<1> DEFINE s == client.ws[w].owner
           d == IF again THEN client ELSE ResendAfterReconnect(client, s, r)
           kept == ~again /\ client.current = s
           sent == net.sent \ {<<w, r, again>>}
           dropped == (net.dropped \cup Abandoned(client, d)) \cup (IF kept THEN {} ELSE {r})
<1>1. <<w, r, again>> \in net.sent /\ client' = d /\ net' = [net EXCEPT !.sent = sent, !.dropped = dropped]
  BY DEF SendFails, ReportsInv, NetType
<1>2. s \in Sockets /\ (client.current # None => client.current \in Sockets) /\ client \in ClientType /\ Linked(client)
      /\ Live(client)
  <2>1. client.ws[w].phase # "none"
    BY <1>1 DEF ReportsInv, SentInv
  <2> QED BY <2>1, FieldTypes DEF ConnInv, Linked
<1>3. report[r].stage # "none"
  BY <1>1 DEF ReportsInv, FateInv, Carried, OnItsWay
<1>4. /\ d \in ClientType /\ Linked(d) /\ Live(d)
      /\ \A x \in Sockets : /\ client.sockets[x].resend \subseteq d.sockets[x].resend
                            /\ d.sockets[x].resend \subseteq client.sockets[x].resend \cup {r}
      /\ kept => r \in d.sockets[s].resend
      /\ \A x \in WebSockets : client.ws[x].phase # "none" => d.ws[x].phase # "none"
      /\ client.told \subseteq d.told
      /\ "failed" \notin d.told => d.version = client.version
  <2>1. CASE again
    BY <1>2, <2>1
  <2>2. CASE ~again
    BY <1>2, <2>2, ResendKeeps DEF Queued
  <2> QED BY <2>1, <2>2
<1> HIDE DEF d, s
<1>5. Abandoned(client, d) \subseteq Reports
  BY <1>2, <1>4, FieldTypes DEF Abandoned
<1>6. /\ sent \in SUBSET (WebSockets \X Reports \X BOOLEAN) /\ sent \subseteq net.sent
      /\ dropped \in SUBSET Reports /\ net.dropped \subseteq dropped /\ Abandoned(client, d) \subseteq dropped
      /\ ~kept => r \in dropped
  BY <1>5 DEF ReportsInv, NetType
<1>7. \A x \in WebSockets, q \in Reports, a \in BOOLEAN : <<x, q, a>> \in net.sent /\ q # r => <<x, q, a>> \in sent
  OBVIOUS
<1> HIDE DEF sent, dropped
<1>8. /\ net' \in NetType /\ net'.sent = sent /\ net'.answers = net.answers /\ net'.received = net.received
      /\ net'.dropped = dropped
  BY <1>1, <1>6 DEF ReportsInv, NetType
<1>9. ASSUME NEW q \in Reports, client.current # None, q \in d.sockets[client.current].resend
      PROVE  Held(client', net', q)
  <2>1. q \in Abandoned(client, d) \/ (d.current # None /\ q \in d.sockets[d.current].resend)
    BY <1>4, <1>9, AbandonedKeeps
  <2> QED BY <1>1, <1>6, <1>8, <2>1 DEF Held
<1>10. Held(client', net', r)
  <2>1. CASE kept
    <3>1. s # None
      BY <1>2 DEF Sockets, None
    <3> QED BY <1>4, <1>9, <2>1, <3>1
  <2>2. CASE ~kept
    BY <1>6, <1>8, <2>2 DEF Held
  <2> QED BY <2>1, <2>2
<1>11. ASSUME NEW q \in Reports, Held(client, net, q), q # r PROVE Held(client', net', q)
  <2>1. CASE client.current # None /\ q \in client.sockets[client.current].resend
    BY <1>2, <1>4, <1>9, <2>1
  <2>2. CASE ~(client.current # None /\ q \in client.sockets[client.current].resend)
    BY <1>6, <1>7, <1>8, <1>11, <2>2 DEF Held, OnItsWay
  <2> QED BY <2>1, <2>2
<1>12. ASSUME NEW q \in Reports \ {r}, Carried(client', net', q) PROVE Carried(client, net, q)
  BY <1>1, <1>4, <1>6, <1>8, <1>12 DEF Carried, OnItsWay
<1>13. SentInv(client', net')
  BY <1>1, <1>4, <1>6, <1>8 DEF ReportsInv, SentInv
<1> QED BY <1>1, <1>3, <1>4, <1>8, <1>10, <1>11, <1>12, <1>13 DEF Moves

LEMMA DeliverKeeps ==
    ASSUME ConnInv, ReportsInv, NEW w \in WebSockets, NEW r \in Reports, NEW again \in BOOLEAN, Deliver(w, r, again)
    PROVE  ConnInv' /\ ReportsInv'
<1>1. PICK verdict \in Verdicts :
          net' = [net EXCEPT !.sent = @ \ {<<w, r, again>>}, !.received = @ \cup {r},
                             !.answers = @ \cup {<<w, r, verdict>>}]
  BY DEF Deliver, Verdicts
<1> DEFINE sent == net.sent \ {<<w, r, again>>}
           received == net.received \cup {r}
           answers == net.answers \cup {<<w, r, verdict>>}
<1>2. <<w, r, again>> \in net.sent /\ client' = client /\ report' = report
  BY DEF Deliver
<1>3. net' = [net EXCEPT !.sent = sent, !.received = received, !.answers = answers]
  BY <1>1 DEF ReportsInv, NetType
<1>4. /\ sent \in SUBSET (WebSockets \X Reports \X BOOLEAN) /\ sent \subseteq net.sent
      /\ answers \in SUBSET (WebSockets \X Reports \X Verdicts)
      /\ received \in SUBSET Reports /\ net.received \subseteq received /\ r \in received
      /\ \A q \in received : q = r \/ q \in net.received
      /\ \A m \in answers : m \in net.answers \/ m[2] = r
  BY DEF ReportsInv, NetType
<1>5. \A x \in WebSockets, q \in Reports, a \in BOOLEAN : <<x, q, a>> \in net.sent /\ q # r => <<x, q, a>> \in sent
  OBVIOUS
<1> HIDE DEF sent, received, answers
<1>6. /\ net' \in NetType /\ net'.sent = sent /\ net'.answers = answers /\ net'.received = received
      /\ net'.dropped = net.dropped
  BY <1>3, <1>4 DEF ReportsInv, NetType
<1>7. report[r].stage # "none"
  BY <1>2 DEF ReportsInv, FateInv, Carried, OnItsWay
<1>8. FateInv(client', net', report')
  <2>1. ASSUME NEW q \in Reports, Held(client, net, q) PROVE Held(client', net', q)
    BY <1>2, <1>4, <1>5, <1>6, <2>1 DEF Held, OnItsWay
  <2>2. ASSUME NEW q \in Reports, Carried(client', net', q) PROVE q = r \/ Carried(client, net, q)
    BY <1>2, <1>4, <1>6, <2>2 DEF Carried, OnItsWay
  <2> QED BY <1>2, <1>7, <2>1, <2>2 DEF ReportsInv, FateInv
<1>9. AnswersInv(net', report')
  BY <1>2, <1>4, <1>6 DEF ReportsInv, AnswersInv
<1>10. SentInv(client', net')
  BY <1>2, <1>4, <1>6 DEF ReportsInv, SentInv
<1> QED BY <1>2, <1>6, <1>8, <1>9, <1>10 DEF ConnInv, ReportsInv

LEMMA AcknowledgeKeeps ==
    ASSUME ConnInv, ReportsInv, NEW w \in WebSockets, NEW r \in Reports, NEW verdict \in Verdicts,
           Acknowledge(w, r, verdict)
    PROVE  ConnInv' /\ ReportsInv'
<1> DEFINE answers == net.answers \ {<<w, r, verdict>>}
           R == client.callbacks \ {r}
           ok == Settled(r, "ok")
           failed == Settled(r, "failed")
           k == IF report[r].stage # "waiting" THEN report[r]
                ELSE CASE verdict = "ok" -> [ok EXCEPT !.stage = "over", !.timer = FALSE]
                       [] verdict = "refused" -> [failed EXCEPT !.stage = "over", !.timer = FALSE]
                       [] verdict = "unexpected" -> [report[r] EXCEPT !.stage = "backoff", !.timer = FALSE, !.tries = report[r].tries + 1]
<1>1. /\ <<w, r, verdict>> \in net.answers /\ net' = [net EXCEPT !.answers = answers]
      /\ \/ client' = [client EXCEPT !.callbacks = R] /\ report' = [report EXCEPT ![r] = k]
         \/ UNCHANGED <<client, report>>
  BY DEF Acknowledge
<1>2. client \in ClientType /\ report[r] \in ReportType /\ R \in SUBSET Reports /\ answers \subseteq net.answers
      /\ answers \in SUBSET (WebSockets \X Reports \X Verdicts)
  BY FieldTypes DEF ConnInv, ReportsInv, NetType
<1>3. r \in net.received
  <2>1. <<w, r, verdict>>[2] = r
    OBVIOUS
  <2> QED BY <1>1, <2>1 DEF ReportsInv, AnswersInv
<1> HIDE DEF answers, R
<1>4. /\ net' \in NetType /\ net'.sent = net.sent /\ net'.answers = answers /\ net'.received = net.received
      /\ net'.dropped = net.dropped
  BY <1>1, <1>2 DEF ReportsInv, NetType
<1>5. Moves(client, {})
  <2>1. /\ client' \in ClientType
        /\ client'.sockets = client.sockets /\ client'.ws = client.ws /\ client'.current = client.current
        /\ client'.told = client.told /\ client'.version = client.version /\ Linked(client') /\ Live(client')
    <3>1. CASE client' = client
      BY <1>2, <3>1 DEF ConnInv
    <3>2. CASE client' = [client EXCEPT !.callbacks = R]
      BY <1>2, <3>2, CallbacksKeep DEF ConnInv
    <3> QED BY <1>1, <3>1, <3>2
  <2>2. SentInv(client', net')
    BY <1>4, <2>1 DEF ReportsInv, SentInv
  <2>3. \A q \in Reports : (Held(client, net, q) => Held(client', net', q)) /\ (Carried(client', net', q) => Carried(client, net, q))
    BY <1>4, <2>1 DEF Held, Carried, OnItsWay
  <2> QED BY <1>2, <1>4, <2>1, <2>2, <2>3 DEF Moves
<1>6. report[r].stage # "none"
  BY <1>3 DEF ReportsInv, FateInv, Carried
<1>7. CASE UNCHANGED <<client, report>>
  BY <1>5, <1>7, MovesKeeps
<1>8. CASE report' = [report EXCEPT ![r] = k]
  <2>1. CASE report[r].stage # "waiting"
    <3>1. report' = report
      BY <1>8, <2>1 DEF ReportsInv
    <3> QED BY <1>5, <3>1, MovesKeeps
  <2>2. CASE report[r].stage = "waiting"
    <3>1. /\ ok \in ReportType /\ ok.told # "pending" /\ ok.version = report[r].version
          /\ failed \in ReportType /\ failed.told # "pending" /\ failed.version = report[r].version
      BY SettledType
    <3>2. report[r].tries + 1 \in 0..MaxTries
      <4>1. report[r].tries < MaxTries /\ MaxTries \in Nat /\ report[r].tries \in Nat
        BY <1>2, <2>2, Bounds DEF ReportsInv, StagesInv, ReportType
      <4> QED BY <4>1
    <3>3. verdict \in {"ok", "unexpected", "refused"}
      BY DEF Verdicts
    <3> HIDE DEF ok, failed
    <3>4. /\ k \in ReportType /\ k.version = report[r].version /\ k.stage \in {"over", "backoff"}
          /\ k.told = "pending" => k.stage = "backoff"
      <4>1. CASE verdict = "ok"
        <5>1. k = [ok EXCEPT !.stage = "over", !.timer = FALSE]
          BY <2>2, <4>1
        <5> DEFINE x == [ok EXCEPT !.stage = "over", !.timer = FALSE]
        <5>2. x \in ReportType /\ x.version = report[r].version /\ x.stage = "over" /\ x.told # "pending"
          BY <3>1 DEF ReportType
        <5>3. k = x
          BY <5>1
        <5> HIDE DEF k, x
        <5> QED BY <5>2, <5>3
      <4>2. CASE verdict = "refused"
        <5>1. k = [failed EXCEPT !.stage = "over", !.timer = FALSE]
          BY <2>2, <4>2
        <5> DEFINE x == [failed EXCEPT !.stage = "over", !.timer = FALSE]
        <5>2. x \in ReportType /\ x.version = report[r].version /\ x.stage = "over" /\ x.told # "pending"
          BY <3>1 DEF ReportType
        <5>3. k = x
          BY <5>1
        <5> HIDE DEF k, x
        <5> QED BY <5>2, <5>3
      <4>3. CASE verdict = "unexpected"
        <5>1. k = [report[r] EXCEPT !.stage = "backoff", !.timer = FALSE, !.tries = report[r].tries + 1]
          BY <2>2, <4>3
        <5> DEFINE x == [report[r] EXCEPT !.stage = "backoff", !.timer = FALSE, !.tries = report[r].tries + 1]
        <5>2. x \in ReportType /\ x.version = report[r].version /\ x.stage = "backoff"
          BY <1>2, <3>2 DEF ReportType
        <5>3. k = x
          BY <5>1
        <5> HIDE DEF k, x
        <5> QED BY <5>2, <5>3
      <4> QED BY <3>3, <4>1, <4>2, <4>3
    <3> HIDE DEF k
    <3>5. Moves(client, {r})
      BY <1>5 DEF Moves
    <3> QED BY <1>3, <1>4, <1>6, <1>8, <3>4, <3>5, GoesOnKeeps
  <2> QED BY <2>1, <2>2
<1> QED BY <1>1, <1>7, <1>8

(***************************************************************************)
(* The first Socket is connecting, and no report has been made.            *)
(***************************************************************************)
LEMMA InitSession == Init => ConnInv /\ ReportsInv
<1> SUFFICES ASSUME Init PROVE ConnInv /\ ReportsInv
  OBVIOUS
<1> DEFINE k == [Unmade EXCEPT !.connectionState = "connecting", !.listens = TRUE, !.token = 1]
           c == [sockets |-> [s \in Sockets |-> IF s # 1 THEN Unmade ELSE k],
                 ws |-> [w \in WebSockets |-> [owner |-> None, phase |-> "none"]],
                 current |-> 1, newToken |-> None, callbacks |-> {}, version |-> 0,
                 logs |-> 0, logTimer |-> TRUE, told |-> {}]
<1>1. PICK throws \in BOOLEAN : client = Connect(c, 1, throws)
  BY DEF Init
<1>2. 1 \in Sockets /\ 1 \in WebSockets /\ 1 \in 0..MaxTokens /\ 1 \in 0..MaxSockets /\ 1 # None
  BY Bounds DEF Sockets, WebSockets, None
<1>3. Unmade \in SocketType /\ Unmade.ws = None /\ Unmade.resend = {}
  BY Zeros DEF Unmade, SocketType
<1>4. k \in SocketType /\ k.ws = None /\ k.resend = {} /\ k.listens /\ k.connectionState = "connecting"
  BY <1>2, <1>3 DEF Unmade, SocketType
<1> HIDE DEF k
<1>5. c \in ClientType
  <2>1. [s \in Sockets |-> IF s # 1 THEN Unmade ELSE k] \in [Sockets -> SocketType]
    BY <1>3, <1>4
  <2>2. [w \in WebSockets |-> [owner |-> None, phase |-> "none"]] \in [WebSockets -> WsType]
    BY Zeros DEF WsType
  <2> QED BY <1>2, <2>1, <2>2, Zeros DEF ClientType, WsType
<1>6. /\ \A s \in Sockets : c.sockets[s].resend = {} /\ c.sockets[s].ws = None
      /\ c.sockets[1] = k
      /\ \A w \in WebSockets : c.ws[w].owner = None /\ c.ws[w].phase = "none"
      /\ c.current = 1
  BY <1>2, <1>3, <1>4
<1> HIDE DEF c
<1>7. Linked(c) /\ Unused(c) # {}
  BY <1>2, <1>6 DEF Linked, Unused
<1>8. client \in ClientType /\ Linked(client) /\ Live(client) /\ Calm(c, client)
  BY <1>1, <1>2, <1>4, <1>5, <1>6, <1>7, FirstConnectKeeps
<1>10. \A s \in Sockets : client.sockets[s].resend = {}
  BY <1>6, <1>8 DEF Calm
<1>11. net = [sent |-> {}, answers |-> {}, received |-> {}, dropped |-> {}] /\ net \in NetType
  BY DEF Init, NetType
<1>12. /\ report \in [Reports -> ReportType]
       /\ \A r \in Reports : report[r].stage = "none" /\ report[r].told = "pending" /\ report[r].timer = FALSE
                             /\ report[r].tries = 0
  <2>1. 0 \in 0..MaxTries
    BY Bounds
  <2> QED BY <2>1 DEF Init, ReportType
<1>13. StagesInv(report) /\ VersionsInv(client, report)
  BY <1>12 DEF StagesInv, VersionsInv
<1>14. FateInv(client, net, report) /\ AnswersInv(net, report) /\ SentInv(client, net)
  BY <1>10, <1>11, <1>12 DEF FateInv, AnswersInv, SentInv, Carried, OnItsWay
<1> QED BY <1>8, <1>11, <1>12, <1>13, <1>14 DEF ConnInv, ReportsInv

-----------------------------------------------------------------------------
(* The theorems about the session                                          *)

\* What is left of TypeOK: the session and what is counted.
CountsType == session \in {"connecting", "ready", "closed"} /\ calls \in 0..MaxCalls /\ troubles \in 0..MaxTroubles

SessionInv == IInv /\ ConnInv /\ ReportsInv /\ CountsType

LEMMA SessionStep == SessionInv /\ [Next]_vars => SessionInv'
<1> SUFFICES ASSUME SessionInv, [Next]_vars PROVE SessionInv'
  OBVIOUS
<1> USE DEF SessionInv
<1>1. IInv'
  BY StepIInv
<1>2. CountsType'
  <2>1. calls \in 0..MaxCalls /\ MaxCalls \in Nat /\ troubles \in 0..MaxTroubles /\ MaxTroubles \in Nat
        /\ session \in {"connecting", "ready", "closed"}
    BY Bounds DEF CountsType
  <2>2. calls' = calls \/ Call
    BY DEF Next, vars, OpenReceived, CloseAbnormal, CloseFinal, TokenExpired, LoseWs, ReconnectTimer,
           sendReport, bufferSdkLog, SdkLogInterval, SendTimeout, BackoffOver, SendFails, Deliver, Acknowledge,
           updateAuthToken, SetTimers, ApiAnswers, TokenTimer, dispose, TimePasses, SessionTimeout
  <2>3. troubles' = troubles \/ Trouble
    BY DEF Next, vars, OpenReceived, CloseAbnormal, CloseFinal, TokenExpired, LoseWs, ReconnectTimer, Connects,
           sendReport, bufferSdkLog, SdkLogInterval, SendClientEvent, SendTimeout, BackoffOver, SendFails, Deliver, Acknowledge,
           updateAuthToken, SetTimers, ApiAnswers, TokenTimer, dispose, TimePasses, SessionTimeout
  <2>4. session' \in {"connecting", "ready", "closed"}
    <3>1. session' \in {session, "ready", "closed"} \/ \E w \in WebSockets : CloseFinal(w)
      BY DEF Next, vars, OpenReceived, CloseAbnormal, TokenExpired, LoseWs, ReconnectTimer,
           sendReport, bufferSdkLog, SdkLogInterval, SendClientEvent, SendTimeout, BackoffOver, SendFails, Deliver, Acknowledge,
           updateAuthToken, SetTimers, ApiAnswers, TokenTimer, dispose, TimePasses, SessionTimeout
    <3>2. ASSUME NEW w \in WebSockets, CloseFinal(w) PROVE session' \in {session, "connecting", "ready"}
      BY <3>2 DEF CloseFinal
    <3> QED BY <2>1, <3>1, <3>2
  <2>5. calls' \in 0..MaxCalls
    BY <2>1, <2>2 DEF Call
  <2>6. troubles' \in 0..MaxTroubles
    BY <2>1, <2>3 DEF Trouble
  <2> QED BY <2>4, <2>5, <2>6 DEF CountsType
<1>3. ConnInv' /\ ReportsInv'
  <2>1. ASSUME UNCHANGED <<client, report, net>> PROVE ConnInv' /\ ReportsInv'
    BY <2>1 DEF ConnInv, ReportsInv
  <2>2. CASE UNCHANGED vars
    BY <2>1, <2>2 DEF vars
  <2>3. ASSUME NEW w \in WebSockets, OpenReceived(w) \/ CloseAbnormal(w) \/ CloseFinal(w) \/ TokenExpired(w)
        PROVE  ConnInv' /\ ReportsInv'
    <3>1. report' = report
      BY <2>3 DEF OpenReceived, CloseAbnormal, CloseFinal, TokenExpired, LoseWs
    <3> QED BY <2>3, <3>1, OpenReceivedMoves, CloseAbnormalMoves, CloseFinalMoves, TokenExpiredMoves, MovesKeeps
  <2>4. ASSUME NEW s \in Sockets, ReconnectTimer(s)
        PROVE  ConnInv' /\ ReportsInv'
    <3>1. report' = report
      BY <2>4 DEF ReconnectTimer
    <3> QED BY <2>4, <3>1, ReconnectTimerMoves, MovesKeeps
  <2>5. ASSUME NEW r \in Reports,
               sendReport(r) \/ bufferSdkLog(r) \/ SdkLogInterval(r) \/ SendTimeout(r) \/ BackoffOver(r)
        PROVE  ConnInv' /\ ReportsInv'
    BY <2>5, sendReportKeeps, LogsKeep, SendTimeoutKeeps, BackoffOverKeeps
  <2>6. ASSUME NEW w \in WebSockets, NEW r \in Reports, NEW again \in BOOLEAN, SendFails(w, r, again)
        PROVE  ConnInv' /\ ReportsInv'
    <3>1. report' = report
      BY <2>6 DEF SendFails
    <3> QED BY <2>6, <3>1, SendFailsMoves, MovesKeeps
  <2>7. ASSUME NEW w \in WebSockets, NEW r \in Reports, NEW again \in BOOLEAN, Deliver(w, r, again)
        PROVE  ConnInv' /\ ReportsInv'
    BY <2>7, DeliverKeeps
  <2>8. ASSUME NEW w \in WebSockets, NEW r \in Reports, NEW v \in Verdicts, Acknowledge(w, r, v)
        PROVE  ConnInv' /\ ReportsInv'
    BY <2>8, AcknowledgeKeeps
  <2>9. ASSUME NEW t \in Tokens, updateAuthToken(t)
        PROVE  ConnInv' /\ ReportsInv'
    <3>1. report' = report
      BY <2>9 DEF updateAuthToken
    <3> QED BY <2>9, <3>1, NewTokenMoves, MovesKeeps
  <2>10. ASSUME NEW t \in Tokens, SetTimers(t) \/ ApiAnswers(t)
         PROVE  ConnInv' /\ ReportsInv'
    BY <2>1, <2>10 DEF SetTimers, ApiAnswers
  <2>11. CASE TokenTimer \/ dispose \/ TimePasses \/ SessionTimeout
    BY <2>1, <2>11 DEF TokenTimer, dispose, TimePasses, SessionTimeout
  <2> QED BY <2>2, <2>3, <2>4, <2>5, <2>6, <2>7, <2>8, <2>9, <2>10, <2>11 DEF Next, Verdicts
<1> QED BY <1>1, <1>2, <1>3

LEMMA SessionInit == Init => SessionInv
<1> SUFFICES ASSUME Init PROVE SessionInv
  OBVIOUS
<1>1. CountsType
  <2>1. 0 \in 0..MaxCalls /\ 0 \in 0..MaxTroubles
    BY Bounds
  <2> QED BY <2>1 DEF Init, CountsType
<1> QED BY <1>1, InitIInv, InitSession DEF SessionInv

LEMMA SessionInvariance == Spec => []SessionInv
BY SessionInit, SessionStep, PTL DEF Spec

(***************************************************************************)
(* The client has a Socket that is connected or will be, or its            *)
(* application was told why not, however timers are overwritten, close     *)
(* events of replaced WebSockets come late and tokens run out              *)
(* (Socket.reconnect and AnalyticsClient.dispose and                       *)
(* _reconnectWithNewSkyWayAuthToken).                                      *)
(***************************************************************************)
THEOREM ClientStateIsTrue == Spec => []StateIsTrue
<1>1. SessionInv => StateIsTrue
  <2> SUFFICES ASSUME SessionInv PROVE StateIsTrue
    OBVIOUS
  <2>1. Live(client)
    BY DEF SessionInv, ConnInv
  <2>2. \A s, w : w \in Of(s) <=> w \in WebSockets /\ client.ws[w].owner = s
    BY DEF Of
  <2> QED BY <2>1, <2>2 DEF StateIsTrue, Live, Watched
<1> QED BY SessionInvariance, <1>1, PTL

(***************************************************************************)
(* No report is forgotten, an acknowledged one is with the server, and     *)
(* until the client fails the server can tell the order of what it gets    *)
(* (_sendClientEvent, resendAfterReconnect and the acknowledgements).      *)
(***************************************************************************)
THEOREM ReportsNeverForgotten == Spec => []NoReportForgotten
<1>1. SessionInv => NoReportForgotten
  <2> SUFFICES ASSUME SessionInv PROVE NoReportForgotten
    OBVIOUS
  <2>1. TypeOK
    <3>1. client \in ClientType /\ net \in NetType /\ report \in [Reports -> ReportType] /\ CountsType
          /\ TokenType
      BY DEF SessionInv, ConnInv, ReportsInv, IInv
    <3> QED BY <3>1 DEF TypeOK, NetType, ReportType, CountsType, TokenType, Verdicts, Stages
  <2>2. ASSUME NEW r \in Reports, report[r].stage # "none"
        PROVE  \/ r \in net.received \cup net.dropped \cup {m[2] : m \in net.sent}
               \/ client.current # None /\ r \in client.sockets[client.current].resend
    <3>1. Held(client, net, r)
      BY <2>2 DEF SessionInv, ReportsInv, FateInv
    <3>2. OnItsWay(net, r) => r \in {m[2] : m \in net.sent}
      <4> SUFFICES ASSUME NEW w, NEW again, <<w, r, again>> \in net.sent PROVE r \in {m[2] : m \in net.sent}
        BY DEF OnItsWay
      <4>1. <<w, r, again>>[2] = r
        OBVIOUS
      <4> QED BY <4>1
    <3> QED BY <3>1, <3>2 DEF Held
  <2>3. \A r \in Reports : /\ report[r].told = "ok" => r \in net.received
                           /\ report[r].told = "pending" /\ report[r].stage # "none" => report[r].timer \/ report[r].stage = "backoff"
    BY DEF SessionInv, ReportsInv, AnswersInv, StagesInv
  <2>4. ASSUME "failed" \notin client.told, NEW q \in net.received, NEW r \in net.received,
               q < r, report[q].version > 0, report[r].version > 0
        PROVE  report[q].version < report[r].version
    <3>1. q \in Reports /\ r \in Reports
      BY DEF SessionInv, ReportsInv, NetType
    <3>2. report[r].stage # "none"
      BY <3>1 DEF SessionInv, ReportsInv, FateInv, Carried
    <3> QED BY <2>4, <3>1, <3>2 DEF SessionInv, ReportsInv, VersionsInv
  <2> QED BY <2>1, <2>2, <2>3, <2>4 DEF NoReportForgotten
<1> QED BY SessionInvariance, <1>1, PTL
=============================================================================
