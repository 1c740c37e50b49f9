--------------------------- MODULE RoutingProofs ---------------------------
(***************************************************************************)
(* Proofs about module Routing, for every value of its constants.          *)
(***************************************************************************)
EXTENDS Routing, SequenceTheorems, TLAPS

-----------------------------------------------------------------------------
(* The walk of one request through its candidates.                         *)

\* What every request keeps: the models tried are no longer candidates, the
\* providers that failed as a whole are skipped, and an awaited answer belongs
\* to the last attempt.
Walk(r) ==
    /\ r \in Request
    /\ r.pc \in {"sent", "limited", "forward"} => r.attempts # <<>>
    /\ Len(r.attempts) <= MaxAttempts
    /\ \A i \in 1..Len(r.attempts) :
          /\ r.attempts[i].model \notin r.candidates
          /\ r.attempts[i].kind \in ProviderWide => ProviderOf[r.attempts[i].model] \in r.skipped
    /\ \A j \in 1..Len(r.attempts) : \A i \in 1..(j - 1) :
          /\ r.attempts[i].model # r.attempts[j].model
          /\ r.attempts[i].kind \in ProviderWide =>
                ProviderOf[r.attempts[i].model] # ProviderOf[r.attempts[j].model]

Walks == \A c \in Clients : Walk(requests[c])

\* A request that has not started keeps it.
LEMMA IdleWalks == Walk(Idle)
BY ConstantsAssumption DEF Walk, Idle, Request

\* What a request looks like after an attempt.
LEMMA TriedFields ==
    ASSUME NEW r \in Request, NEW m \in Models,
           NEW kind \in FailureKind \cup {"pending", "ok", "none"}
    PROVE  LET t == Tried(r, m, kind) IN
           /\ t \in Request
           /\ t.attempts = Append(r.attempts, [model |-> m, kind |-> kind])
           /\ t.candidates = r.candidates \ {m} /\ t.pc = "choose"
           /\ t.skipped = IF kind \in ProviderWide THEN r.skipped \cup {ProviderOf[m]}
                          ELSE r.skipped
           /\ [model |-> m, kind |-> kind] \in Attempt
<1>1. [model |-> m, kind |-> kind] \in Attempt
  BY DEF Attempt
<1>2. Append(r.attempts, [model |-> m, kind |-> kind]) \in Seq(Attempt)
  BY <1>1, AppendProperties DEF Request
<1>3. /\ r.candidates \ {m} \in SUBSET Models
      /\ r.skipped \in SUBSET Providers
      /\ r.skipped \cup {ProviderOf[m]} \in SUBSET Providers
  BY ConstantsAssumption DEF Request
<1>4. Tried(r, m, kind) \in Request
  BY <1>2, <1>3 DEF Tried, Request
<1> QED BY <1>1, <1>4 DEF Tried, Request

\* An attempt added to a walk may be of any remaining candidate.
LEMMA TriedWalks ==
    ASSUME NEW r, Walk(r), NEW m \in Remaining(r),
           NEW kind \in FailureKind \cup {"pending", "ok", "none"}
    PROVE  Walk(Tried(r, m, kind)) /\ Tried(r, m, kind).attempts # <<>>
<1> DEFINE t == Tried(r, m, kind)
           n == Len(r.attempts)
<1>1. /\ m \in r.candidates /\ m \in Models /\ ProviderOf[m] \notin r.skipped
      /\ ProviderOf[m] \in Providers /\ n < MaxAttempts /\ n \in Nat
      /\ r.attempts \in Seq(Attempt) /\ r \in Request
  BY ConstantsAssumption DEF Remaining, Walk, Request
<1>2. /\ t \in Request
      /\ t.attempts = Append(r.attempts, [model |-> m, kind |-> kind])
      /\ t.candidates = r.candidates \ {m} /\ t.pc = "choose"
      /\ t.skipped = IF kind \in ProviderWide THEN r.skipped \cup {ProviderOf[m]} ELSE r.skipped
      /\ [model |-> m, kind |-> kind] \in Attempt
  BY <1>1, TriedFields
<1> HIDE DEF t
<1>3. /\ Len(t.attempts) = n + 1
      /\ t.attempts[n + 1] = [model |-> m, kind |-> kind]
      /\ \A i \in 1..n : t.attempts[i] = r.attempts[i]
  BY <1>1, <1>2, AppendProperties
<1>4. \A i \in 1..Len(t.attempts) :
          /\ t.attempts[i].model \notin t.candidates
          /\ t.attempts[i].kind \in ProviderWide => ProviderOf[t.attempts[i].model] \in t.skipped
  <2> TAKE i \in 1..Len(t.attempts)
  <2>1. CASE i \in 1..n
    BY <1>1, <1>2, <1>3, <2>1 DEF Walk
  <2>2. CASE i = n + 1
    BY <1>2, <1>3, <2>2
  <2> QED BY <1>1, <1>3, <2>1, <2>2
<1>5. \A j \in 1..Len(t.attempts) : \A i \in 1..(j - 1) :
          /\ t.attempts[i].model # t.attempts[j].model
          /\ t.attempts[i].kind \in ProviderWide =>
                ProviderOf[t.attempts[i].model] # ProviderOf[t.attempts[j].model]
  <2> TAKE j \in 1..Len(t.attempts)
  <2> TAKE i \in 1..(j - 1)
  <2>1. CASE j \in 1..n
    <3>1. j \in 1..Len(r.attempts) /\ i \in 1..n
      BY <1>1, <2>1
    <3>2. /\ r.attempts[i].model # r.attempts[j].model
          /\ r.attempts[i].kind \in ProviderWide =>
                ProviderOf[r.attempts[i].model] # ProviderOf[r.attempts[j].model]
      BY <3>1 DEF Walk
    <3>3. t.attempts[i] = r.attempts[i] /\ t.attempts[j] = r.attempts[j]
      BY <1>3, <2>1, <3>1
    <3> QED BY <3>2, <3>3
  <2>2. CASE j = n + 1
    <3>1. i \in 1..n /\ i \in 1..Len(r.attempts)
      BY <1>1, <2>2
    <3>2. /\ r.attempts[i].model \notin r.candidates
          /\ r.attempts[i].kind \in ProviderWide => ProviderOf[r.attempts[i].model] \in r.skipped
      BY <3>1 DEF Walk
    <3>3. t.attempts[i] = r.attempts[i] /\ t.attempts[j].model = m
      BY <1>3, <2>2, <3>1
    <3> QED BY <1>1, <3>2, <3>3
  <2> QED BY <1>1, <1>3, <2>1, <2>2
<1>6. Walk(t)
  BY <1>1, <1>2, <1>3, <1>4, <1>5, ConstantsAssumption DEF Walk
<1> QED BY <1>1, <1>2, <1>3, <1>6 DEF t

\* Replacing the last element of a sequence leaves the others in place.
LEMMA LastReplaced ==
    ASSUME NEW S, NEW a \in Seq(S), a # <<>>, NEW x \in S,
           NEW b, b = Append(Front(a), x)
    PROVE  /\ b \in Seq(S)
           /\ Len(b) = Len(a)
           /\ \A i \in 1..(Len(a) - 1) : b[i] = a[i]
           /\ b[Len(a)] = x
           /\ Front(a) \in Seq(S)
<1>1. Len(a) \in Nat \ {0} /\ \A i \in 1..Len(a) : a[i] \in S
  OBVIOUS
<1>2. /\ Front(a) \in Seq(S) /\ Len(Front(a)) = Len(a) - 1
      /\ \A i \in 1..(Len(a) - 1) : Front(a)[i] = a[i]
  <2>1. /\ 1 \in Int /\ Len(a) - 1 \in Int
        /\ \A i \in 1..(Len(a) - 1) : a[i] \in S
    BY <1>1
  <2> DEFINE f == SubSeq(a, 1, Len(a) - 1)
  <2>2. /\ f \in Seq(S)
        /\ Len(f) = IF 1 <= Len(a) - 1 THEN Len(a) - 1 - 1 + 1 ELSE 0
        /\ \A i \in 1..(Len(a) - 1 - 1 + 1) : f[i] = a[1 + i - 1]
    BY <2>1, SubSeqProperties
  <2>3. Front(a) = f
    BY DEF Front
  <2> HIDE DEF f
  <2> DEFINE n == Len(a)
  <2>4. n \in Nat \ {0}
    BY <1>1
  <2>5. /\ Len(f) = IF 1 <= n - 1 THEN n - 1 - 1 + 1 ELSE 0
        /\ \A i \in 1..(n - 1 - 1 + 1) : f[i] = a[1 + i - 1]
    BY <2>2
  <2> HIDE DEF n
  <2>6. Len(f) = n - 1
    BY <2>4, <2>5
  <2>7. \A i \in 1..(n - 1) : f[i] = a[i]
    BY <2>4, <2>5
  <2> QED BY <2>2, <2>3, <2>6, <2>7 DEF n
<1>3. /\ b \in Seq(S) /\ Len(b) = Len(Front(a)) + 1
      /\ \A i \in 1..Len(Front(a)) : b[i] = Front(a)[i]
      /\ b[Len(Front(a)) + 1] = x
  BY <1>2, AppendProperties
<1> QED BY <1>1, <1>2, <1>3

\* The answer to the last attempt fills in how it ended.
LEMMA AnsweredWalks ==
    ASSUME NEW r, Walk(r), r.pc = "sent",
           NEW kind \in FailureKind \cup {"ok", "none"}
    PROVE  /\ Walk(Answered(r, kind)) /\ Answered(r, kind).attempts # <<>>
           /\ Answered(r, kind).pc = "choose" /\ At(r) \in Models
<1> DEFINE t == Answered(r, kind)
           n == Len(r.attempts)
           x == [model |-> At(r), kind |-> kind]
<1>1. r \in Request /\ r.attempts \in Seq(Attempt) /\ r.attempts # <<>>
  BY DEF Walk, Request
<1>2. /\ n \in Nat \ {0} /\ Last(r.attempts) = r.attempts[n]
      /\ Last(r.attempts) \in Attempt
  BY <1>1 DEF Last
<1>3. /\ At(r) = r.attempts[n].model /\ At(r) \in Models /\ ProviderOf[At(r)] \in Providers
      /\ x \in Attempt
  BY <1>2, ConstantsAssumption DEF At, Attempt
<1>4. /\ Before(r) \in Request /\ Before(r).attempts = Front(r.attempts)
      /\ Before(r).candidates = r.candidates /\ Before(r).skipped = r.skipped
  <2>1. Front(r.attempts) \in Seq(Attempt)
    BY <1>1, <1>3, LastReplaced
  <2> QED BY <1>1, <2>1 DEF Before, Request
<1> HIDE DEF x
<1>5. /\ t \in Request
      /\ t.attempts = Append(Front(r.attempts), x)
      /\ t.candidates = r.candidates \ {At(r)} /\ t.pc = "choose"
      /\ t.skipped = IF kind \in ProviderWide THEN r.skipped \cup {ProviderOf[At(r)]}
                     ELSE r.skipped
  <2>1. kind \in FailureKind \cup {"pending", "ok", "none"}
    OBVIOUS
  <2> DEFINE u == Tried(Before(r), At(r), kind)
  <2>2. /\ u \in Request
        /\ u.attempts = Append(Before(r).attempts, [model |-> At(r), kind |-> kind])
        /\ u.candidates = Before(r).candidates \ {At(r)} /\ u.pc = "choose"
        /\ u.skipped = IF kind \in ProviderWide THEN Before(r).skipped \cup {ProviderOf[At(r)]}
                       ELSE Before(r).skipped
    BY <1>3, <1>4, <2>1, TriedFields
  <2>3. t = u
    BY DEF Answered
  <2> HIDE DEF t, u
  <2> QED BY <1>4, <2>2, <2>3 DEF x
<1> HIDE DEF t
<1>6. /\ Len(t.attempts) = n
      /\ t.attempts[n].model = At(r) /\ t.attempts[n].kind = kind
      /\ \A i \in 1..(n - 1) : t.attempts[i] = r.attempts[i]
  <2>1. x.model = At(r) /\ x.kind = kind
    BY DEF x
  <2> QED BY <1>1, <1>3, <1>5, <2>1, LastReplaced
<1>7. \A i \in 1..Len(t.attempts) :
          /\ t.attempts[i].model \notin t.candidates
          /\ t.attempts[i].kind \in ProviderWide => ProviderOf[t.attempts[i].model] \in t.skipped
  <2> TAKE i \in 1..Len(t.attempts)
  <2>1. CASE i \in 1..(n - 1)
    BY <1>2, <1>5, <1>6, <2>1 DEF Walk
  <2>2. CASE i = n
    BY <1>5, <1>6, <2>2
  <2> QED BY <1>2, <1>6, <2>1, <2>2
<1>8. \A j \in 1..Len(t.attempts) : \A i \in 1..(j - 1) :
          /\ t.attempts[i].model # t.attempts[j].model
          /\ t.attempts[i].kind \in ProviderWide =>
                ProviderOf[t.attempts[i].model] # ProviderOf[t.attempts[j].model]
  <2> TAKE j \in 1..Len(t.attempts)
  <2> TAKE i \in 1..(j - 1)
  <2>1. /\ i \in 1..(n - 1) /\ j \in 1..n
        /\ t.attempts[i] = r.attempts[i]
    BY <1>2, <1>6
  <2>2. t.attempts[j].model = r.attempts[j].model
    BY <1>2, <1>3, <1>6, <2>1
  <2> QED BY <2>1, <2>2 DEF Walk
<1>9. Walk(t) /\ t.attempts # <<>>
  BY <1>2, <1>5, <1>6, <1>7, <1>8 DEF Walk
<1> QED BY <1>3, <1>5, <1>9 DEF t

\* The step from "choose" to the next wait keeps the walk.
LEMMA WaitingWalks ==
    ASSUME NEW r, Walk(r), NEW pc \in {"choose", "sent", "limited", "forward"}, NEW until \in Nat,
           r.attempts # <<>>
    PROVE  Walk([r EXCEPT !.pc = pc, !.until = until])
<1> DEFINE t == [r EXCEPT !.pc = pc, !.until = until]
<1>1. /\ t \in Request /\ t.attempts = r.attempts
      /\ t.candidates = r.candidates /\ t.skipped = r.skipped
  BY DEF Walk, Request
<1> HIDE DEF t
<1>2. Walk(t)
  BY <1>1 DEF Walk
<1> QED BY <1>2 DEF t

-----------------------------------------------------------------------------
(* Type correctness and the walks, step by step.                           *)

Inv == TypeOK /\ Walks

\* A missing item reads as a record.
LEMMA CleanType == Clean \in RouteHealth
BY ConstantsAssumption DEF Clean, RouteHealth

\* What the operations of Health make of a record is a record.
LEMMA HealthTypes ==
    ASSUME NEW x \in RouteHealth, NEW kind \in FailureKind, NEW until \in Nat
    PROVE  /\ Failed(x, kind) \in RouteHealth
           /\ ProbeFailed(x) \in RouteHealth
           /\ Extended(x, until) \in RouteHealth
<1> DEFINE n == Lesser(x.failures + 1, FailureCap)
<1>1. /\ n \in 0..FailureCap /\ n \in Nat /\ Lesser(n, MultCap) \in Nat
      /\ Cooldown[kind] \in Nat /\ Minute \in Nat
  BY ConstantsAssumption DEF Lesser, RouteHealth
<1>2. \A i, j \in Nat : i * j \in Nat
  OBVIOUS
<1> HIDE DEF n
<1>3. Cooldown[kind] * Lesser(n, MultCap) \in Nat /\ n * Minute \in Nat
  BY <1>1, <1>2
<1>4. Failed(x, kind) \in RouteHealth
  BY <1>1, <1>3 DEF Failed, RouteHealth, n
<1>5. ProbeFailed(x) \in RouteHealth
  BY <1>1, <1>3 DEF ProbeFailed, RouteHealth, n
<1>6. Extended(x, until) \in RouteHealth
  BY DEF Extended, RouteHealth
<1> QED BY <1>4, <1>5, <1>6

\* Recording an outcome keeps the records well formed.
LEMMA RecordType ==
    ASSUME TypeOK, NEW s \in Scopes, NEW x \in RouteHealth, Record(s, x)
    PROVE  health' \in [Scopes -> RouteHealth] /\ gaps' \in SUBSET Scopes
BY DEF TypeOK, Record

\* A step that changes one request and, at most, the records keeps everything
\* else.
LEMMA RequestStep ==
    ASSUME Inv, NEW c \in Clients, NEW t, Walk(t),
           requests' = [requests EXCEPT ![c] = t],
           health' \in [Scopes -> RouteHealth], gaps' \in SUBSET Scopes,
           UNCHANGED <<settings, probe>>
    PROVE  Inv'
<1>1. t \in Request
  BY DEF Walk
<1>2. TypeOK'
  BY <1>1 DEF Inv, TypeOK, settings
<1>3. Walks'
  <2> SUFFICES ASSUME NEW d \in Clients PROVE Walk(requests'[d])
    BY DEF Walks, Walk
  <2>1. requests \in [Clients -> Request] /\ Walk(requests[d])
    BY DEF Inv, TypeOK, Walks
  <2> QED BY <2>1
<1> QED BY <1>2, <1>3 DEF Inv

\* Failures are recorded in scopes.
LEMMA ScopeTypes ==
    ASSUME NEW m \in Models, NEW kind \in FailureKind
    PROVE  ScopeOf(m, kind) \in Scopes /\ ProviderOf[m] \in Scopes /\ m \in Scopes
BY ConstantsAssumption DEF ScopeOf, Scopes

\* The first start satisfies the invariant.
LEMMA InvInit == ASSUME Init PROVE Inv
<1>1. TypeOK
  BY CleanType, IdleWalks DEF Init, TypeOK, Walk
<1>2. Walks
  BY IdleWalks DEF Init, Walks
<1> QED BY <1>1, <1>2 DEF Inv

\* The model of a request's last attempt.
LEMMA AtType ==
    ASSUME NEW r \in Request, r.attempts # <<>>
    PROVE  At(r) \in Models /\ ProviderOf[At(r)] \in Scopes
<1>1. Last(r.attempts) \in Attempt
  BY DEF Last, Request
<1> QED BY <1>1, ConstantsAssumption DEF At, Attempt, Scopes

\* Every step of a request being served.
LEMMA ServeStep ==
    ASSUME Inv, NEW c \in Clients, Serve(c)
    PROVE  Inv'
<1> DEFINE r == requests[c]
<1>0. /\ r \in Request /\ Walk(r) /\ health \in [Scopes -> RouteHealth]
      /\ gaps \in SUBSET Scopes /\ Failures \subseteq FailureKind /\ RetryAfters \subseteq Nat
  BY ConstantsAssumption DEF Inv, TypeOK, Walks
<1>1. ASSUME NEW m \in Models, Send(c, m) PROVE Inv'
  <2> DEFINE t == Tried(r, m, "pending")
  <2>1. Walk(t) /\ t.attempts # <<>>
    BY <1>0, <1>1, TriedWalks DEF Send
  <2>2. [t EXCEPT !.pc = "sent"] = [t EXCEPT !.pc = "sent", !.until = t.until]
    BY <2>1 DEF Walk, Request
  <2>3. t.until \in Nat
    BY <2>1 DEF Walk, Request
  <2> HIDE DEF t
  <2>4. Walk([t EXCEPT !.pc = "sent"])
    BY <2>1, <2>2, <2>3, WaitingWalks
  <2> QED BY <1>0, <1>1, <2>4, RequestStep DEF Send, t
<1>2. ASSUME NEW m \in Models, SendNowhere(c, m) PROVE Inv'
  <2>1. "network" \in FailureKind
    BY DEF FailureKind
  <2>2. Walk(Tried(r, m, "network"))
    BY <1>0, <1>2, <2>1, TriedWalks DEF SendNowhere
  <2>3. health' \in [Scopes -> RouteHealth] /\ gaps' \in SUBSET Scopes
    <3>1. ProviderOf[m] \in Scopes /\ health[ProviderOf[m]] \in RouteHealth
      BY <1>0, <2>1, ScopeTypes
    <3>2. Failed(health[ProviderOf[m]], "network") \in RouteHealth
      BY <2>1, <3>1, HealthTypes
    <3> QED BY <1>2, <3>1, <3>2, RecordType DEF SendNowhere, Inv
  <2> QED BY <1>2, <2>2, <2>3, RequestStep DEF SendNowhere
<1>3. CASE GiveUp(c)
  BY <1>0, <1>3, IdleWalks, RequestStep DEF GiveUp
<1>4. CASE Succeeds(c)
  <2> DEFINE t == Answered(r, "ok")
  <2>1. Walk(t) /\ t.attempts # <<>> /\ At(r) \in Models
    BY <1>0, <1>4, AnsweredWalks DEF Succeeds
  <2>2. t.until \in Nat /\ [t EXCEPT !.pc = "forward"] = [t EXCEPT !.pc = "forward", !.until = t.until]
    BY <2>1 DEF Walk, Request
  <2> HIDE DEF t
  <2>3. Walk([t EXCEPT !.pc = "forward"])
    BY <2>1, <2>2, WaitingWalks
  <2>4. health' \in [Scopes -> RouteHealth] /\ gaps' \in SUBSET Scopes
    <3>1. At(r) \in Scopes /\ Clean \in RouteHealth
      BY <2>1, CleanType DEF Scopes
    <3> QED BY <1>4, <3>1, RecordType DEF Succeeds, Inv
  <2> QED BY <1>4, <2>3, <2>4, RequestStep DEF Succeeds, t
<1>5. ASSUME NEW kind \in Failures, Fails(c, kind) PROVE Inv'
  <2>1. kind \in FailureKind
    BY <1>0
  <2>2. Walk(Answered(r, kind)) /\ At(r) \in Models
    BY <1>0, <1>5, <2>1, AnsweredWalks DEF Fails
  <2>3. health' \in [Scopes -> RouteHealth] /\ gaps' \in SUBSET Scopes
    <3> DEFINE s == ScopeOf(At(r), kind)
    <3>1. s \in Scopes /\ health[s] \in RouteHealth
      BY <1>0, <2>1, <2>2, ScopeTypes
    <3> HIDE DEF s
    <3>2. Failed(health[s], kind) \in RouteHealth
      BY <2>1, <3>1, HealthTypes
    <3> QED BY <1>5, <3>1, <3>2, RecordType DEF Fails, Inv, s
  <2> QED BY <1>5, <2>2, <2>3, RequestStep DEF Fails
<1>6. ASSUME NEW n \in RetryAfters, Limited(c, n) PROVE Inv'
  <2> DEFINE t == Answered(r, "rate_limited")
             pc == IF n > 0 THEN "limited" ELSE "choose"
  <2>1. "rate_limited" \in FailureKind /\ n \in Nat
    BY <1>0 DEF FailureKind
  <2>2. Walk(t) /\ t.attempts # <<>> /\ At(r) \in Models
    BY <1>0, <1>6, <2>1, AnsweredWalks DEF Limited
  <2> HIDE DEF t
  <2>3. Walk([t EXCEPT !.pc = pc, !.until = n])
    BY <2>1, <2>2, WaitingWalks
  <2>4. health' \in [Scopes -> RouteHealth] /\ gaps' \in SUBSET Scopes
    <3> DEFINE p == ProviderOf[At(r)]
    <3>1. p \in Scopes /\ health[p] \in RouteHealth
      BY <1>0, <2>1, <2>2, ScopeTypes
    <3> HIDE DEF p
    <3>2. Failed(health[p], "rate_limited") \in RouteHealth
      BY <2>1, <3>1, HealthTypes
    <3> QED BY <1>6, <3>1, <3>2, RecordType DEF Limited, Inv, p
  <2> QED BY <1>6, <2>3, <2>4, RequestStep DEF Limited, t
<1>7. CASE RetryAfter(c)
  <2> DEFINE p == ProviderOf[At(r)]
  <2>1. r.attempts # <<>>
    BY <1>0, <1>7 DEF RetryAfter, Walk
  <2>2. Walk([r EXCEPT !.pc = "choose", !.until = 0])
    BY <1>0, <2>1, WaitingWalks
  <2>3. p \in Scopes /\ health[p] \in RouteHealth /\ r.until \in Nat
    BY <1>0, <2>1, AtType DEF Request
  <2>4. Extended(health[p], r.until) \in RouteHealth
    <3> HIDE DEF p
    <3>1. "network" \in FailureKind
      BY DEF FailureKind
    <3> QED BY <2>3, <3>1, HealthTypes
  <2>5. health' \in [Scopes -> RouteHealth] /\ gaps' \in SUBSET Scopes
    BY <1>0, <1>7, <2>3, <2>4 DEF RetryAfter
  <2> QED BY <1>7, <2>2, <2>5, RequestStep DEF RetryAfter
<1>8. CASE Rejected(c) \/ Forwarded(c)
  <2>1. r.attempts # <<>>
    BY <1>0, <1>8 DEF Rejected, Forwarded, Walk
  <2>2. At(r) \in Scopes /\ health[At(r)] \in RouteHealth
    BY <1>0, <2>1, AtType DEF Scopes
  <2>3. Failed(health[At(r)], "protocol") \in RouteHealth
    <3>1. "protocol" \in FailureKind
      BY DEF FailureKind
    <3> QED BY <2>2, <3>1, HealthTypes
  <2>4. health' \in [Scopes -> RouteHealth] /\ gaps' \in SUBSET Scopes
    <3>1. CASE Record(At(r), Failed(health[At(r)], "protocol"))
      BY <2>2, <2>3, <3>1, RecordType DEF Inv
    <3>2. CASE UNCHANGED <<health, gaps>>
      BY <1>0, <3>2
    <3> QED BY <1>8, <3>1, <3>2 DEF Rejected, Forwarded
  <2> QED BY <1>8, <2>4, IdleWalks, RequestStep DEF Rejected, Forwarded
<1>9. "rate_limited" \in Failures /\ (\E n \in RetryAfters : Limited(c, n)) => Inv'
  BY <1>6
<1> QED BY <1>1, <1>2, <1>3, <1>4, <1>5, <1>7, <1>8, <1>9 DEF Serve

\* A step that leaves the requests alone, or empties them, keeps the walks.
LEMMA OtherStep ==
    ASSUME Inv,
           \/ \E m \in Models \cap Changing : ToggleModel(m)
           \/ \E p \in Providers \cap Changing : ToggleProvider(p)
           \/ Clear \/ Tick \/ Restart
           \/ \E c \in Clients, wanted \in Wants : Ask(c, wanted)
           \/ ProbeRecovery
           \/ \E s \in Scopes : ProbeSend(s) \/ \E ok \in BOOLEAN : ProbeAnswer(s, ok)
           \/ UNCHANGED vars
    PROVE  Inv'
<1>0. requests' = requests => Walks'
  BY DEF Inv, Walks
<1>1. CASE \E m \in Models \cap Changing : ToggleModel(m)
  BY <1>0, <1>1 DEF Inv, TypeOK, ToggleModel
<1>2. CASE \E p \in Providers \cap Changing : ToggleProvider(p)
  BY <1>0, <1>2 DEF Inv, TypeOK, ToggleProvider
<1>3. CASE Clear
  BY <1>0, <1>3, CleanType DEF Inv, TypeOK, Clear, settings
<1>4. CASE Tick
  <2> DEFINE Dec(k) == IF k = 0 THEN 0 ELSE k - 1
  <2>0. \A k \in Nat : Dec(k) \in Nat
    OBVIOUS
  <2>1. /\ health' = [s \in Scopes |-> [health[s] EXCEPT !.cooldown = Dec(health[s].cooldown)]]
        /\ requests' = [c \in Clients |-> [requests[c] EXCEPT !.until = Dec(requests[c].until)]]
        /\ gaps' \in SUBSET gaps /\ UNCHANGED <<settings, probe>>
    BY <1>4 DEF Tick
  <2> HIDE DEF Dec
  <2>2. health' \in [Scopes -> RouteHealth]
    <3> SUFFICES ASSUME NEW s \in Scopes
                 PROVE  [health[s] EXCEPT !.cooldown = Dec(health[s].cooldown)] \in RouteHealth
      BY <2>1
    <3>1. health[s] \in RouteHealth
      BY DEF Inv, TypeOK
    <3> QED BY <2>0, <3>1 DEF RouteHealth
  <2>3. ASSUME NEW c \in Clients PROVE Walk(requests'[c])
    <3>1. Walk(requests[c]) /\ requests[c] \in Request
      BY DEF Inv, TypeOK, Walks
    <3> DEFINE t == [requests[c] EXCEPT !.until = Dec(requests[c].until)]
    <3>2. /\ t \in Request /\ t.attempts = requests[c].attempts /\ t.pc = requests[c].pc
          /\ t.candidates = requests[c].candidates /\ t.skipped = requests[c].skipped
      BY <2>0, <3>1 DEF Request
    <3>3. requests'[c] = t
      BY <2>1
    <3> HIDE DEF t
    <3>4. Walk(t)
      BY <3>1, <3>2 DEF Walk
    <3> QED BY <3>3, <3>4
  <2>4. requests' \in [Clients -> Request]
    <3>1. \A c \in Clients : requests'[c] \in Request
      BY <2>3 DEF Walk
    <3> QED BY <2>1, <3>1
  <2> QED BY <2>1, <2>2, <2>3, <2>4 DEF Inv, TypeOK, Walks, settings
<1>5. CASE Restart
  BY <1>5, IdleWalks DEF Inv, TypeOK, Walks, Walk, Restart, settings
<1>6. CASE \E c \in Clients, wanted \in Wants : Ask(c, wanted)
  <2>1. PICK c \in Clients, wanted \in Wants : Ask(c, wanted)
    BY <1>6
  <2> DEFINE ranked == {m \in wanted : /\ m \in approved
                                       /\ ProviderOf[m] \in open \cap configs
                                       /\ Available(m)}
             t == [Idle EXCEPT !.pc = "choose", !.candidates = ranked]
  <2>2. ranked \in SUBSET Models
    BY ConstantsAssumption
  <2>3. requests' = [requests EXCEPT ![c] = t] /\ UNCHANGED <<settings, health, probe, gaps>>
    BY <2>1 DEF Ask
  <2> HIDE DEF ranked
  <2>4. Idle \in Request /\ Idle.attempts = <<>>
    BY IdleWalks DEF Idle, Walk
  <2>5. t \in Request /\ t.attempts = <<>> /\ t.pc = "choose"
    BY <2>2, <2>4 DEF Request
  <2> HIDE DEF t
  <2>6. Walk(t)
    BY <2>5, ConstantsAssumption DEF Walk
  <2> QED BY <2>3, <2>6, RequestStep DEF Inv, TypeOK
<1>7. CASE ProbeRecovery
  BY <1>0, <1>7 DEF Inv, TypeOK, ProbeRecovery, DueForProbe, settings
<1>8. ASSUME NEW s \in Scopes, ProbeSend(s) PROVE Inv'
  BY <1>0, <1>8 DEF Inv, TypeOK, ProbeSend, settings
<1>9. ASSUME NEW s \in Scopes, NEW ok \in BOOLEAN, ProbeAnswer(s, ok) PROVE Inv'
  <2>1. "network" \in FailureKind /\ health[s] \in RouteHealth
    BY DEF FailureKind, Inv, TypeOK
  <2>2. (IF ok THEN Clean ELSE ProbeFailed(health[s])) \in RouteHealth
    BY <2>1, HealthTypes, CleanType
  <2>3. health' \in [Scopes -> RouteHealth] /\ gaps' \in SUBSET Scopes
    BY <1>9, <2>2, RecordType DEF ProbeAnswer, Inv
  <2> QED BY <1>0, <1>9, <2>3 DEF Inv, TypeOK, ProbeAnswer, settings
<1>10. CASE UNCHANGED vars
  BY <1>0, <1>10 DEF Inv, TypeOK, vars
<1> QED BY <1>1, <1>2, <1>3, <1>4, <1>5, <1>6, <1>7, <1>8, <1>9, <1>10

\* Every step keeps the invariant.
LEMMA InvNext == ASSUME Inv, [Next]_vars PROVE Inv'
BY ServeStep, OtherStep DEF Next

\* The states of the specification are well typed and every request walks
\* through its candidates as Walk says: the induction the other results use.
THEOREM Invariance == Spec => []Inv
<1>1. Init => Inv
  BY InvInit
<1>2. Inv /\ [Next]_vars => Inv'
  BY InvNext
<1> QED BY <1>1, <1>2, PTL DEF Spec

\* Every reachable state is well typed, in particular no operation makes a
\* health record that the others do not expect.
THEOREM TypeCorrect == Spec => []TypeOK
<1>1. Inv => TypeOK
  BY DEF Inv
<1> QED BY <1>1, Invariance, PTL

\* A request never tries a model twice, nor a provider that already failed it
\* as a whole, nor more than MaxAttempts candidates.
THEOREM DifferentAttempts == Spec => []AttemptsDiffer
<1>1. Inv => AttemptsDiffer
  BY DEF Inv, Walks, Walk, AttemptsDiffer
<1> QED BY <1>1, Invariance, PTL

-----------------------------------------------------------------------------
(* A cooling route comes back by a probe.                                  *)

\* Whatever an operation of Health records asks for a probe if it cools.
Asks(x) == x.cooldown > 0 => x.probe

\* Recording such a value keeps the property.
LEMMA Recorded ==
    ASSUME NEW s \in Scopes, NEW x, Asks(x), TypeOK, CoolingNeedsProbe, Record(s, x)
    PROVE  CoolingNeedsProbe'
BY DEF Asks, TypeOK, CoolingNeedsProbe, Record

\* What the critical sections write is such a value.
LEMMA RecordsAsk ==
    ASSUME NEW x, NEW kind
    PROVE  Asks(Failed(x, kind)) /\ Asks(ProbeFailed(x)) /\ Asks(Clean)
BY DEF Asks, Failed, ProbeFailed, Clean

\* Serving a request keeps the property; only the second critical section of
\* FailUntil writes a cooldown without asking for a probe.
LEMMA CoolingServe ==
    ASSUME Inv, CoolingNeedsProbe, NEW c \in Clients, Serve(c)
    PROVE  CoolingNeedsProbe'
<1> DEFINE r == requests[c]
<1>0. r \in Request /\ Walk(r) /\ TypeOK /\ Failures \subseteq FailureKind
  BY ConstantsAssumption DEF Inv, TypeOK, Walks
<1>1. ASSUME r.pc \in {"sent", "limited", "forward"}
      PROVE  At(r) \in Models /\ At(r) \in Scopes /\ ProviderOf[At(r)] \in Scopes
  <2>1. r.attempts # <<>>
    BY <1>0, <1>1 DEF Walk
  <2> QED BY <1>0, <2>1, AtType DEF Scopes
<1>2. ASSUME NEW m \in Models, Send(c, m) PROVE CoolingNeedsProbe'
  BY <1>2 DEF Send, CoolingNeedsProbe
<1>3. ASSUME NEW m \in Models, SendNowhere(c, m) PROVE CoolingNeedsProbe'
  <2>1. ProviderOf[m] \in Scopes
    BY ConstantsAssumption DEF Scopes
  <2> QED BY <1>0, <1>3, <2>1, Recorded, RecordsAsk DEF SendNowhere
<1>4. CASE GiveUp(c)
  BY <1>4 DEF GiveUp, CoolingNeedsProbe
<1>5. CASE Succeeds(c)
  BY <1>0, <1>1, <1>5, Recorded, RecordsAsk DEF Succeeds
<1>6. ASSUME NEW kind \in Failures, Fails(c, kind) PROVE CoolingNeedsProbe'
  <2>1. ScopeOf(At(r), kind) \in Scopes
    BY <1>0, <1>1, <1>6, ScopeTypes DEF Fails
  <2> QED BY <1>0, <1>6, <2>1, Recorded, RecordsAsk DEF Fails
<1>7. ASSUME NEW n \in RetryAfters, Limited(c, n) PROVE CoolingNeedsProbe'
  BY <1>0, <1>1, <1>7, Recorded, RecordsAsk DEF Limited
<1>8. CASE RetryAfter(c)
  <2> DEFINE p == ProviderOf[At(r)]
  <2>1. p \in Scopes /\ health[p] \in RouteHealth
    BY <1>0, <1>1, <1>8 DEF RetryAfter, TypeOK
  <2>2. /\ health' = [health EXCEPT ![p] = Extended(health[p], r.until)]
        /\ gaps' = IF r.until > health[p].cooldown /\ ~health[p].probe
                   THEN gaps \cup {p} ELSE gaps
    BY <1>8 DEF RetryAfter
  <2>3. Extended(health[p], r.until).probe = health[p].probe
    BY <2>1 DEF Extended, RouteHealth
  <2>4. r.until > health[p].cooldown \/ Extended(health[p], r.until) = health[p]
    BY DEF Extended
  <2> HIDE DEF p
  <2> QED BY <1>0, <2>1, <2>2, <2>3, <2>4 DEF CoolingNeedsProbe, TypeOK
<1>9. CASE Rejected(c) \/ Forwarded(c)
  <2>1. At(r) \in Scopes
    BY <1>1, <1>9 DEF Rejected, Forwarded
  <2>2. CASE Record(At(r), Failed(health[At(r)], "protocol"))
    BY <1>0, <2>1, <2>2, Recorded, RecordsAsk
  <2>3. CASE UNCHANGED <<health, gaps>>
    BY <2>3 DEF CoolingNeedsProbe
  <2> QED BY <1>9, <2>2, <2>3 DEF Rejected, Forwarded
<1> QED BY <1>2, <1>3, <1>4, <1>5, <1>6, <1>7, <1>8, <1>9 DEF Serve

\* So does every other step.
LEMMA CoolingNext ==
    ASSUME Inv, CoolingNeedsProbe, [Next]_vars
    PROVE  CoolingNeedsProbe'
<1>0. TypeOK
  BY DEF Inv
<1>1. CASE UNCHANGED <<health, gaps>>
  BY <1>1 DEF CoolingNeedsProbe
<1>2. CASE Clear
  BY <1>2 DEF Clear, CoolingNeedsProbe, Clean
<1>3. CASE Tick
  <2> SUFFICES ASSUME NEW s \in Scopes \ gaps', health'[s].cooldown > 0
               PROVE  health'[s].probe
    BY DEF CoolingNeedsProbe
  <2>1. health[s] \in RouteHealth
    BY <1>0 DEF TypeOK
  <2>2. /\ health'[s] = [health[s] EXCEPT !.cooldown = IF @ = 0 THEN 0 ELSE @ - 1]
        /\ gaps' = {x \in gaps : health[x].cooldown > 1}
    BY <1>3 DEF Tick
  <2>3. health[s].cooldown > 1 /\ health'[s].probe = health[s].probe
    BY <2>1, <2>2 DEF RouteHealth
  <2>4. s \notin gaps /\ health[s].cooldown > 0
    BY <2>1, <2>2, <2>3 DEF RouteHealth
  <2> QED BY <2>3, <2>4 DEF CoolingNeedsProbe
<1>4. ASSUME NEW c \in Clients, Serve(c) PROVE CoolingNeedsProbe'
  BY <1>4, CoolingServe
<1>5. ASSUME NEW s \in Scopes, NEW ok \in BOOLEAN, ProbeAnswer(s, ok) PROVE CoolingNeedsProbe'
  BY <1>0, <1>5, Recorded, RecordsAsk DEF ProbeAnswer
<1>6. CASE \/ \E m \in Models \cap Changing : ToggleModel(m)
           \/ \E p \in Providers \cap Changing : ToggleProvider(p)
           \/ Restart \/ ProbeRecovery
  BY <1>1, <1>6 DEF ToggleModel, ToggleProvider, Restart, ProbeRecovery
<1>7. CASE \E c \in Clients, wanted \in Wants : Ask(c, wanted)
  BY <1>1, <1>7 DEF Ask
<1>8. ASSUME NEW s \in Scopes, ProbeSend(s) PROVE CoolingNeedsProbe'
  BY <1>1, <1>8 DEF ProbeSend
<1>9. CASE UNCHANGED vars
  BY <1>1, <1>9 DEF vars
<1> QED BY <1>2, <1>3, <1>4, <1>5, <1>6, <1>7, <1>8, <1>9 DEF Next

\* A route in cooldown is waiting for a probe, except where a reset fell
\* between the two critical sections of FailUntil.
THEOREM CoolingRoutesProbed == Spec => []CoolingNeedsProbe
<1>1. Init => CoolingNeedsProbe
  BY DEF Init, CoolingNeedsProbe, Clean
<1>2. Inv /\ CoolingNeedsProbe /\ [Next]_vars => CoolingNeedsProbe'
  BY CoolingNext
<1> QED BY <1>1, <1>2, Invariance, PTL DEF Spec

-----------------------------------------------------------------------------
(* The walk ends.                                                          *)

\* How many steps of its own a request can still take: three for an attempt
\* (Send, Limited, RetryAfter) and one to give up.
Rank(pc) == CASE pc = "idle" -> 0 [] pc = "choose" -> 1 [] pc = "sent" -> 3 [] OTHER -> 2
StepsLeft(r) == IF r.pc = "idle" THEN 0 ELSE 3 * (MaxAttempts - Len(r.attempts)) + Rank(r.pc)

\* A request that has not begun, or has ended.
LEMMA IdleFields == Idle.pc = "idle" /\ StepsLeft(Idle) = 0
BY DEF Idle, StepsLeft

\* A walk has a number of steps left.
LEMMA StepsAreCounted ==
    ASSUME NEW r, Walk(r)
    PROVE  /\ StepsLeft(r) \in 0..(3 * MaxAttempts + 1)
           /\ r.pc # "idle" => StepsLeft(r) > 0
<1> DEFINE n == Len(r.attempts)
<1>1. n \in Nat /\ n <= MaxAttempts /\ MaxAttempts \in Nat
  BY ConstantsAssumption DEF Walk, Request
<1>2. r.pc \in {"sent", "limited", "forward"} => n >= 1
  BY DEF Walk, Request
<1>3. r.pc \in {"idle", "choose", "sent", "limited", "forward"}
  BY DEF Walk, Request
<1>4. StepsLeft(r) = IF r.pc = "idle" THEN 0 ELSE 3 * (MaxAttempts - n) + Rank(r.pc)
  BY DEF StepsLeft
<1>5. Rank(r.pc) \in 0..3 /\ (r.pc \in {"idle", "choose"} => Rank(r.pc) <= 1)
      /\ (r.pc # "idle" => Rank(r.pc) > 0)
  BY <1>3 DEF Rank
<1> DEFINE k == Rank(r.pc)
<1> HIDE DEF n, k
<1>6. CASE r.pc = "idle"
  BY <1>1, <1>4, <1>6
<1>7. CASE r.pc = "choose"
  BY <1>1, <1>4, <1>5, <1>7 DEF k
<1>8. CASE r.pc \in {"sent", "limited", "forward"}
  <2>1. k \in 1..3 /\ n \in 1..MaxAttempts /\ StepsLeft(r) = 3 * (MaxAttempts - n) + k
    BY <1>1, <1>2, <1>4, <1>5, <1>8 DEF k
  <2> QED BY <1>1, <2>1
<1> QED BY <1>3, <1>6, <1>7, <1>8

\* The length of a walk after an attempt, and after the answer to it.
LEMMA AttemptCounts ==
    ASSUME NEW r, Walk(r)
    PROVE  /\ \A m \in Remaining(r), kind \in FailureKind \cup {"pending", "ok", "none"} :
                  /\ Len(Tried(r, m, kind).attempts) = Len(r.attempts) + 1
                  /\ Tried(r, m, kind).pc = "choose"
                  /\ Tried(r, m, kind) \in Request
           /\ r.pc = "sent" => \A kind \in FailureKind \cup {"ok", "none"} :
                  /\ Len(Answered(r, kind).attempts) = Len(r.attempts)
                  /\ Answered(r, kind).pc = "choose"
                  /\ Answered(r, kind) \in Request
<1>0. r \in Request /\ r.attempts \in Seq(Attempt)
  BY DEF Walk, Request
<1>1. ASSUME NEW m \in Remaining(r), NEW kind \in FailureKind \cup {"pending", "ok", "none"}
      PROVE  /\ Len(Tried(r, m, kind).attempts) = Len(r.attempts) + 1
             /\ Tried(r, m, kind).pc = "choose"
             /\ Tried(r, m, kind) \in Request
  <2>1. m \in Models
    BY <1>0 DEF Remaining, Request
  <2> DEFINE t == Tried(r, m, kind)
  <2>2. /\ t \in Request /\ t.pc = "choose"
        /\ t.attempts = Append(r.attempts, [model |-> m, kind |-> kind])
        /\ [model |-> m, kind |-> kind] \in Attempt
    BY <1>0, <2>1, TriedFields
  <2> HIDE DEF t
  <2>3. Len(t.attempts) = Len(r.attempts) + 1
    BY <1>0, <2>2, AppendProperties
  <2> QED BY <2>2, <2>3 DEF t
<1>2. ASSUME r.pc = "sent", NEW kind \in FailureKind \cup {"ok", "none"}
      PROVE  /\ Len(Answered(r, kind).attempts) = Len(r.attempts)
             /\ Answered(r, kind).pc = "choose"
             /\ Answered(r, kind) \in Request
  <2> DEFINE t == Answered(r, kind)
  <2>1. r.attempts # <<>> /\ Last(r.attempts) \in Attempt
    BY <1>0, <1>2 DEF Walk, Last
  <2>2. t \in Request /\ t.pc = "choose" /\ At(r) \in Models
    BY <1>2, AnsweredWalks DEF Walk
  <2>3. Front(r.attempts) \in Seq(Attempt)
    BY <1>0, <2>1, LastReplaced
  <2>4. Before(r) \in Request /\ Before(r).attempts = Front(r.attempts)
    BY <1>0, <2>3 DEF Before, Request
  <2>5. kind \in FailureKind \cup {"pending", "ok", "none"}
    OBVIOUS
  <2> DEFINE x == [model |-> At(r), kind |-> kind]
  <2>6. t.attempts = Append(Front(r.attempts), x) /\ x \in Attempt
    <3> DEFINE u == Tried(Before(r), At(r), kind)
    <3>1. u.attempts = Append(Before(r).attempts, x) /\ x \in Attempt
      BY <2>2, <2>4, <2>5, TriedFields
    <3>2. t = u
      BY DEF Answered
    <3> HIDE DEF t, u, x
    <3> QED BY <2>4, <3>1, <3>2
  <2> HIDE DEF t, x
  <2>7. Len(t.attempts) = Len(r.attempts)
    BY <1>0, <2>1, <2>6, LastReplaced
  <2> QED BY <2>2, <2>7 DEF t
<1> QED BY <1>1, <1>2

\* What a request has left once its place and its attempts have changed.
LEMMA FewerSteps ==
    ASSUME NEW r, Walk(r), NEW t, Walk(t), r.pc # "idle",
           \/ t.pc = "idle"
           \/ Len(t.attempts) > Len(r.attempts)
           \/ Len(t.attempts) = Len(r.attempts) /\ Rank(t.pc) < Rank(r.pc)
    PROVE  StepsLeft(t) < StepsLeft(r)
<1> DEFINE n == Len(r.attempts)
           k == Len(t.attempts)
           a == Rank(r.pc)
           b == Rank(t.pc)
<1>1. n \in Nat /\ k \in Nat /\ k <= MaxAttempts /\ n <= MaxAttempts /\ MaxAttempts \in Nat
  BY ConstantsAssumption DEF Walk, Request
<1>2. CASE t.pc = "idle"
  <2>1. StepsLeft(t) = 0 /\ StepsLeft(r) \in 0..(3 * MaxAttempts + 1) /\ StepsLeft(r) > 0
    BY <1>2, StepsAreCounted DEF StepsLeft
  <2> QED BY <2>1
<1>3. CASE t.pc # "idle"
  <2>1. /\ a \in 1..3 /\ b \in 1..3
        /\ StepsLeft(r) = 3 * (MaxAttempts - n) + a
        /\ StepsLeft(t) = 3 * (MaxAttempts - k) + b
    BY <1>3 DEF StepsLeft, Rank
  <2>2. k > n \/ (k = n /\ b < a)
    BY <1>3
  <2> HIDE DEF n, k, a, b
  <2>3. CASE k > n
    BY <1>1, <2>1, <2>3
  <2>4. CASE k = n /\ b < a
    BY <1>1, <2>1, <2>4
  <2> QED BY <2>2, <2>3, <2>4
<1> QED BY <1>2, <1>3

\* A step of a request brings it nearer to its end.
LEMMA ServeCounts ==
    ASSUME Inv, NEW c \in Clients, Serve(c)
    PROVE  /\ StepsLeft(requests'[c]) < StepsLeft(requests[c])
           /\ \A d \in Clients \ {c} : requests'[d] = requests[d]
<1> DEFINE r == requests[c]
           t == requests'[c]
<1>0. /\ Walk(r) /\ r \in Request /\ requests \in [Clients -> Request] /\ RetryAfters \subseteq Nat
      /\ Failures \subseteq FailureKind
  BY ConstantsAssumption DEF Inv, TypeOK, Walks
<1>1. Walk(t)
  <2>1. Walks'
    BY ServeStep DEF Inv
  <2> QED BY <2>1 DEF Walks, Walk
<1>2. ASSUME NEW u, requests' = [requests EXCEPT ![c] = u], r.pc # "idle",
             \/ u.pc = "idle"
             \/ Len(u.attempts) > Len(r.attempts)
             \/ Len(u.attempts) = Len(r.attempts) /\ Rank(u.pc) < Rank(r.pc)
      PROVE  /\ StepsLeft(requests'[c]) < StepsLeft(requests[c])
             /\ \A d \in Clients \ {c} : requests'[d] = requests[d]
  <2>1. t = u /\ \A d \in Clients \ {c} : requests'[d] = requests[d]
    BY <1>0, <1>2
  <2> HIDE DEF r, t
  <2>2. StepsLeft(t) < StepsLeft(r)
    BY <1>0, <1>1, <1>2, <2>1, FewerSteps
  <2> QED BY <2>1, <2>2 DEF r, t
<1>3. CASE GiveUp(c) \/ Rejected(c) \/ Forwarded(c)
  BY <1>2, <1>3, IdleFields DEF GiveUp, Rejected, Forwarded
<1>4. ASSUME NEW m \in Models, Send(c, m)
      PROVE  /\ StepsLeft(requests'[c]) < StepsLeft(requests[c])
             /\ \A d \in Clients \ {c} : requests'[d] = requests[d]
  <2> DEFINE v == Tried(r, m, "pending")
             u == [v EXCEPT !.pc = "sent"]
  <2>1. m \in Remaining(r) /\ r.pc = "choose" /\ requests' = [requests EXCEPT ![c] = u]
    BY <1>4 DEF Send
  <2>2. Len(v.attempts) = Len(r.attempts) + 1 /\ v \in Request
    BY <1>0, <2>1, AttemptCounts
  <2> HIDE DEF v
  <2>3. Len(u.attempts) > Len(r.attempts)
    BY <1>0, <2>2 DEF Request
  <2> HIDE DEF u
  <2> QED BY <1>2, <2>1, <2>3
<1>5. ASSUME NEW m \in Models, SendNowhere(c, m)
      PROVE  /\ StepsLeft(requests'[c]) < StepsLeft(requests[c])
             /\ \A d \in Clients \ {c} : requests'[d] = requests[d]
  <2> DEFINE u == Tried(r, m, "network")
  <2>1. m \in Remaining(r) /\ r.pc = "choose" /\ requests' = [requests EXCEPT ![c] = u]
    BY <1>5 DEF SendNowhere
  <2>2. Len(u.attempts) = Len(r.attempts) + 1
    BY <1>0, <2>1, AttemptCounts DEF FailureKind
  <2> HIDE DEF u
  <2>3. Len(u.attempts) > Len(r.attempts)
    BY <1>0, <2>2 DEF Request
  <2> QED BY <1>2, <2>1, <2>3
<1>6. ASSUME NEW kind \in FailureKind \cup {"ok"}, NEW pc \in {"choose", "limited", "forward"},
             NEW until \in Nat, r.pc = "sent",
             requests' = [requests EXCEPT ![c] = [Answered(r, kind) EXCEPT !.pc = pc, !.until = until]]
      PROVE  /\ StepsLeft(requests'[c]) < StepsLeft(requests[c])
             /\ \A d \in Clients \ {c} : requests'[d] = requests[d]
  <2> DEFINE v == Answered(r, kind)
             u == [v EXCEPT !.pc = pc, !.until = until]
  <2>1. Len(v.attempts) = Len(r.attempts) /\ v \in Request
    BY <1>0, <1>6, AttemptCounts
  <2>2. requests' = [requests EXCEPT ![c] = u]
    BY <1>6
  <2> HIDE DEF v
  <2>3. Len(u.attempts) = Len(r.attempts) /\ u.pc = pc
    BY <2>1 DEF Request
  <2>4. Rank(u.pc) < Rank(r.pc)
    BY <1>6, <2>3 DEF Rank
  <2> HIDE DEF u
  <2> QED BY <1>2, <1>6, <2>2, <2>3, <2>4
<1>7. ASSUME r.pc = "sent", NEW kind \in FailureKind \cup {"ok"}
      PROVE  Answered(r, kind) \in Request /\ Answered(r, kind).pc = "choose"
  BY <1>0, <1>7, AttemptCounts
<1>8. CASE Succeeds(c)
  <2> DEFINE v == Answered(r, "ok")
  <2>1. r.pc = "sent" /\ requests' = [requests EXCEPT ![c] = [v EXCEPT !.pc = "forward"]]
    BY <1>8 DEF Succeeds
  <2>2. v \in Request
    BY <1>7, <2>1
  <2>3. v.until \in Nat /\ [v EXCEPT !.pc = "forward"] = [v EXCEPT !.pc = "forward", !.until = v.until]
    BY <2>2 DEF Request
  <2> QED BY <1>6, <2>1, <2>3
<1>9. ASSUME NEW kind \in Failures, Fails(c, kind)
      PROVE  /\ StepsLeft(requests'[c]) < StepsLeft(requests[c])
             /\ \A d \in Clients \ {c} : requests'[d] = requests[d]
  <2> DEFINE v == Answered(r, kind)
  <2>1. r.pc = "sent" /\ requests' = [requests EXCEPT ![c] = v] /\ kind \in FailureKind
    BY <1>0, <1>9 DEF Fails
  <2>2. v \in Request /\ v.pc = "choose"
    BY <1>7, <2>1
  <2>3. v.until \in Nat /\ v = [v EXCEPT !.pc = "choose", !.until = v.until]
    BY <2>2 DEF Request
  <2> QED BY <1>6, <2>1, <2>3
<1>10. ASSUME NEW n \in RetryAfters, Limited(c, n)
       PROVE  /\ StepsLeft(requests'[c]) < StepsLeft(requests[c])
              /\ \A d \in Clients \ {c} : requests'[d] = requests[d]
  <2> DEFINE pc == IF n > 0 THEN "limited" ELSE "choose"
  <2>1. r.pc = "sent" /\ "rate_limited" \in FailureKind /\ n \in Nat
    BY <1>0, <1>10 DEF Limited, FailureKind
  <2>2. requests' = [requests EXCEPT ![c] = [Answered(r, "rate_limited") EXCEPT !.pc = pc, !.until = n]]
    BY <1>10 DEF Limited
  <2>3. pc \in {"choose", "limited", "forward"}
    OBVIOUS
  <2> HIDE DEF pc
  <2> QED BY <1>6, <2>1, <2>2, <2>3
<1>11. CASE RetryAfter(c)
  <2> DEFINE u == [r EXCEPT !.pc = "choose", !.until = 0]
  <2>1. r.pc = "limited" /\ requests' = [requests EXCEPT ![c] = u]
    BY <1>11 DEF RetryAfter
  <2>2. Len(u.attempts) = Len(r.attempts) /\ u.pc = "choose"
    BY <1>0 DEF Request
  <2>3. Rank(u.pc) < Rank(r.pc)
    BY <2>1, <2>2 DEF Rank
  <2> HIDE DEF u
  <2> QED BY <1>2, <2>1, <2>2, <2>3
<1> QED BY <1>3, <1>4, <1>5, <1>8, <1>9, <1>10, <1>11 DEF Serve

\* Each step that serves a request leaves it fewer steps, and a step gives it
\* more only where the client asks again.
WearsOut ==
    \A c \in Clients :
        /\ Serve(c) => StepsLeft(requests'[c]) < StepsLeft(requests[c])
        /\ (\A wanted \in Wants : ~Ask(c, wanted)) => StepsLeft(requests'[c]) <= StepsLeft(requests[c])

LEMMA WearsOutStep == ASSUME Inv, [Next]_vars PROVE WearsOut
<1> SUFFICES ASSUME NEW c \in Clients
             PROVE  /\ Serve(c) => StepsLeft(requests'[c]) < StepsLeft(requests[c])
                    /\ (\A wanted \in Wants : ~Ask(c, wanted)) =>
                           StepsLeft(requests'[c]) <= StepsLeft(requests[c])
  BY DEF WearsOut
<1>0. /\ requests \in [Clients -> Request] /\ Walk(requests[c])
      /\ StepsLeft(requests[c]) \in Nat
  <2>1. requests \in [Clients -> Request] /\ Walk(requests[c])
    BY DEF Inv, TypeOK, Walks
  <2>2. StepsLeft(requests[c]) \in 0..(3 * MaxAttempts + 1)
    BY <2>1, StepsAreCounted
  <2> QED BY <2>1, <2>2, ConstantsAssumption
<1>1. Serve(c) => StepsLeft(requests'[c]) < StepsLeft(requests[c])
  BY ServeCounts
<1>2. CASE requests'[c] = requests[c]
  BY <1>0, <1>1, <1>2
<1>3. ASSUME NEW d \in Clients, Serve(d)
      PROVE  StepsLeft(requests'[c]) <= StepsLeft(requests[c])
  <2>1. CASE c = d
    <3>1. StepsLeft(requests'[c]) < StepsLeft(requests[c])
      BY <1>3, <2>1, ServeCounts
    <3>2. Walk(requests'[c])
      <4>1. Walks'
        BY InvNext DEF Inv
      <4> QED BY <4>1 DEF Walks, Walk
    <3>3. StepsLeft(requests'[c]) \in 0..(3 * MaxAttempts + 1)
      BY <3>2, StepsAreCounted
    <3> QED BY <1>0, <3>1, <3>3, ConstantsAssumption
  <2>2. CASE c # d
    <3>1. requests'[c] = requests[c]
      BY <1>3, <2>2, ServeCounts
    <3> QED BY <1>0, <3>1
  <2> QED BY <2>1, <2>2
<1>4. ASSUME NEW d \in Clients, NEW wanted \in Wants, Ask(d, wanted), d # c
      PROVE  requests'[c] = requests[c]
  BY <1>0, <1>4 DEF Ask
<1>5. CASE Tick
  <2>1. requests'[c].pc = requests[c].pc /\ requests'[c].attempts = requests[c].attempts
    BY <1>0, <1>5 DEF Tick, Request
  <2>2. StepsLeft(requests'[c]) = StepsLeft(requests[c])
    BY <2>1 DEF StepsLeft
  <2> QED BY <1>0, <1>1, <2>2
<1>6. CASE Restart
  <2>1. requests'[c] = Idle
    BY <1>6 DEF Restart
  <2> QED BY <1>0, <1>1, <2>1, IdleFields
<1>7. CASE \/ \E m \in Models \cap Changing : ToggleModel(m)
           \/ \E p \in Providers \cap Changing : ToggleProvider(p)
           \/ Clear \/ ProbeRecovery
           \/ \E s \in Scopes : ProbeSend(s) \/ \E ok \in BOOLEAN : ProbeAnswer(s, ok)
           \/ UNCHANGED vars
  <2>1. requests' = requests
    BY <1>7 DEF ToggleModel, ToggleProvider, Clear, ProbeRecovery, ProbeSend, ProbeAnswer, vars
  <2> QED BY <1>2, <2>1
<1>8. CASE \E d \in Clients : Serve(d)
  BY <1>1, <1>3, <1>8
<1>9. CASE \E d \in Clients, wanted \in Wants : Ask(d, wanted)
  BY <1>1, <1>2, <1>4, <1>9
<1> QED BY <1>5, <1>6, <1>7, <1>8, <1>9 DEF Next

\* A request takes at most three steps for each attempt it is allowed and one
\* to give up, whatever the other requests, the recovery loop, the clock and
\* the administrators do meanwhile: what it still has to do is bounded, its own
\* steps use it up and only the client adds to it (Service.CompleteReliable,
\* Chat.ServeHTTP).
THEOREM RequestsWearOut ==
    Spec => /\ [](\A c \in Clients : StepsLeft(requests[c]) \in 0..(3 * MaxAttempts + 1))
            /\ [][WearsOut]_vars
<1>1. Inv => \A c \in Clients : StepsLeft(requests[c]) \in 0..(3 * MaxAttempts + 1)
  BY StepsAreCounted DEF Inv, Walks
<1>2. Inv /\ [Next]_vars => [WearsOut]_vars
  BY WearsOutStep
<1> QED BY <1>1, <1>2, Invariance, PTL DEF Spec

-----------------------------------------------------------------------------
(* Cooldowns are bounded.                                                  *)

\* No failure, no failed probe and no Retry-After asks for more than b.
Longest(b) ==
    /\ \A kind \in FailureKind, n \in 0..MultCap : Cooldown[kind] * n <= b
    /\ \A n \in 0..FailureCap : n * Minute <= b
    /\ \A n \in RetryAfters : n <= b

Within(b) ==
    /\ \A s \in Scopes : health[s].cooldown <= b
    /\ \A c \in Clients : requests[c].until <= b

\* What the operations of Health make of a record is within the bound.
LEMMA HealthWithin ==
    ASSUME NEW b \in Nat, Longest(b), NEW x \in RouteHealth, NEW kind \in FailureKind
    PROVE  /\ Failed(x, kind).cooldown <= b
           /\ ProbeFailed(x).cooldown <= b
           /\ Clean.cooldown <= b
<1> DEFINE n == Lesser(x.failures + 1, FailureCap)
<1>1. n \in 0..FailureCap /\ Lesser(n, MultCap) \in 0..MultCap
  BY ConstantsAssumption DEF Lesser, RouteHealth
<1> HIDE DEF n
<1>2. Cooldown[kind] * Lesser(n, MultCap) <= b /\ n * Minute <= b
  BY <1>1 DEF Longest
<1> QED BY <1>2 DEF Failed, ProbeFailed, Clean, n

\* Recording such a value keeps the bound.
LEMMA RecordWithin ==
    ASSUME TypeOK, NEW b \in Nat, \A s \in Scopes : health[s].cooldown <= b,
           NEW s \in Scopes, NEW x, x.cooldown <= b, Record(s, x)
    PROVE  \A i \in Scopes : health'[i].cooldown <= b
BY DEF TypeOK, Record

\* A change of one request that keeps its deadline within the bound.
LEMMA RequestWithin ==
    ASSUME TypeOK, NEW b \in Nat, \A c \in Clients : requests[c].until <= b,
           NEW c \in Clients, NEW t, t.until <= b, requests' = [requests EXCEPT ![c] = t]
    PROVE  \A d \in Clients : requests'[d].until <= b
BY DEF TypeOK

\* An attempt, or the answer to one, leaves the deadline alone.
LEMMA SameDeadline ==
    ASSUME NEW r \in Request, NEW m, NEW kind
    PROVE  /\ Tried(r, m, kind).until = r.until
           /\ Answered(r, kind).until = r.until
           /\ [Tried(r, m, kind) EXCEPT !.pc = "sent"].until = r.until
           /\ [Answered(r, kind) EXCEPT !.pc = "forward"].until = r.until
BY DEF Tried, Answered, Before, Request

LEMMA ServeWithin ==
    ASSUME Inv, NEW b \in Nat, Longest(b), Within(b), NEW c \in Clients, Serve(c)
    PROVE  Within(b)'
<1> DEFINE r == requests[c]
<1>0. /\ r \in Request /\ Walk(r) /\ TypeOK /\ Failures \subseteq FailureKind
      /\ RetryAfters \subseteq Nat /\ r.until <= b /\ r.until \in Nat
      /\ \A s \in Scopes : health[s] \in RouteHealth /\ health[s].cooldown <= b
      /\ \A d \in Clients : requests[d].until <= b
      /\ Idle.until <= b
  BY ConstantsAssumption DEF Inv, TypeOK, Walks, Within, Request, Idle
<1>1. ASSUME r.pc \in {"sent", "limited", "forward"}
      PROVE  At(r) \in Models /\ At(r) \in Scopes /\ ProviderOf[At(r)] \in Scopes
  <2>1. r.attempts # <<>>
    BY <1>0, <1>1 DEF Walk
  <2> QED BY <1>0, <2>1, AtType DEF Scopes
<1>2. ASSUME NEW s \in Scopes, NEW kind \in FailureKind, Record(s, Failed(health[s], kind))
      PROVE  \A i \in Scopes : health'[i].cooldown <= b
  BY <1>0, <1>2, HealthWithin, RecordWithin
<1>3. ASSUME NEW t, t.until <= b, requests' = [requests EXCEPT ![c] = t],
             \A i \in Scopes : health'[i].cooldown <= b
      PROVE  Within(b)'
  <2>1. \A d \in Clients : requests'[d].until <= b
    BY <1>0, <1>3, RequestWithin
  <2> QED BY <1>3, <2>1 DEF Within
<1>4. ASSUME NEW m \in Models, Send(c, m) PROVE Within(b)'
  <2> DEFINE t == [Tried(r, m, "pending") EXCEPT !.pc = "sent"]
  <2>1. t.until <= b
    BY <1>0, SameDeadline
  <2>2. requests' = [requests EXCEPT ![c] = t] /\ health' = health
    BY <1>4 DEF Send
  <2> HIDE DEF t
  <2> QED BY <1>0, <1>3, <2>1, <2>2
<1>5. ASSUME NEW m \in Models, SendNowhere(c, m) PROVE Within(b)'
  <2> DEFINE t == Tried(r, m, "network")
             p == ProviderOf[m]
  <2>1. t.until <= b /\ p \in Scopes /\ "network" \in FailureKind
    BY <1>0, SameDeadline, ConstantsAssumption DEF Scopes, FailureKind
  <2>2. requests' = [requests EXCEPT ![c] = t] /\ Record(p, Failed(health[p], "network"))
    BY <1>5 DEF SendNowhere
  <2> HIDE DEF t, p
  <2>3. \A i \in Scopes : health'[i].cooldown <= b
    BY <1>2, <2>1, <2>2
  <2> QED BY <1>3, <2>1, <2>2, <2>3
<1>6. CASE GiveUp(c)
  BY <1>0, <1>3, <1>6 DEF GiveUp
<1>7. CASE Succeeds(c)
  <2> DEFINE t == [Answered(r, "ok") EXCEPT !.pc = "forward"]
             m == At(r)
  <2>1. t.until <= b /\ m \in Scopes
    BY <1>0, <1>1, <1>7, SameDeadline DEF Succeeds
  <2>2. requests' = [requests EXCEPT ![c] = t] /\ Record(m, Clean)
    BY <1>7 DEF Succeeds
  <2> HIDE DEF t, m
  <2>3. Clean.cooldown <= b
    BY DEF Clean
  <2>4. \A i \in Scopes : health'[i].cooldown <= b
    BY <1>0, <2>1, <2>2, <2>3, RecordWithin
  <2> QED BY <1>3, <2>1, <2>2, <2>4
<1>8. ASSUME NEW kind \in Failures, Fails(c, kind) PROVE Within(b)'
  <2> DEFINE t == Answered(r, kind)
             s == ScopeOf(At(r), kind)
  <2>1. t.until <= b /\ s \in Scopes /\ kind \in FailureKind
    BY <1>0, <1>1, <1>8, SameDeadline, ScopeTypes DEF Fails
  <2>2. requests' = [requests EXCEPT ![c] = t] /\ Record(s, Failed(health[s], kind))
    BY <1>8 DEF Fails
  <2> HIDE DEF t, s
  <2>3. \A i \in Scopes : health'[i].cooldown <= b
    BY <1>2, <2>1, <2>2
  <2> QED BY <1>3, <2>1, <2>2, <2>3
<1>9. ASSUME NEW n \in RetryAfters, Limited(c, n) PROVE Within(b)'
  <2> DEFINE v == Answered(r, "rate_limited")
             t == [v EXCEPT !.pc = IF n > 0 THEN "limited" ELSE "choose", !.until = n]
             p == ProviderOf[At(r)]
  <2>1. p \in Scopes /\ "rate_limited" \in FailureKind /\ n <= b
    BY <1>1, <1>9 DEF Limited, FailureKind, Longest
  <2>2. requests' = [requests EXCEPT ![c] = t] /\ Record(p, Failed(health[p], "rate_limited"))
    BY <1>9 DEF Limited
  <2>3. v \in Request
    <3>1. Walk(v)
      BY <1>0, <1>9, <2>1, AnsweredWalks DEF Limited
    <3> QED BY <3>1 DEF Walk
  <2> HIDE DEF v, p
  <2>4. t.until = n
    BY <2>3 DEF Request
  <2> HIDE DEF t
  <2>5. \A i \in Scopes : health'[i].cooldown <= b
    BY <1>2, <2>1, <2>2
  <2> QED BY <1>3, <2>1, <2>2, <2>4, <2>5
<1>10. CASE RetryAfter(c)
  <2> DEFINE p == ProviderOf[At(r)]
             t == [r EXCEPT !.pc = "choose", !.until = 0]
  <2>1. /\ health' = [health EXCEPT ![p] = Extended(health[p], r.until)]
        /\ requests' = [requests EXCEPT ![c] = t]
    BY <1>10 DEF RetryAfter
  <2>2. t.until <= b /\ p \in Scopes
    BY <1>0, <1>1, <1>10 DEF RetryAfter, Request
  <2> HIDE DEF p, t
  <2>3. Extended(health[p], r.until).cooldown <= b
    BY <1>0, <2>2 DEF Extended, RouteHealth
  <2>4. \A i \in Scopes : health'[i].cooldown <= b
    BY <1>0, <2>1, <2>3 DEF TypeOK
  <2> QED BY <1>3, <2>1, <2>2, <2>4
<1>11. CASE Rejected(c) \/ Forwarded(c)
  <2> DEFINE m == At(r)
  <2>1. m \in Scopes /\ requests' = [requests EXCEPT ![c] = Idle] /\ "protocol" \in FailureKind
    BY <1>1, <1>11 DEF Rejected, Forwarded, FailureKind
  <2>2. Record(m, Failed(health[m], "protocol")) \/ health' = health
    BY <1>11 DEF Rejected, Forwarded
  <2> HIDE DEF m
  <2>3. \A i \in Scopes : health'[i].cooldown <= b
    BY <1>0, <1>2, <2>1, <2>2
  <2> QED BY <1>0, <1>3, <2>1, <2>3
<1> QED BY <1>4, <1>5, <1>6, <1>7, <1>8, <1>9, <1>10, <1>11 DEF Serve

LEMMA WithinStep ==
    ASSUME Inv, NEW b \in Nat, Longest(b), Within(b), [Next]_vars
    PROVE  Within(b)'
<1>0. TypeOK /\ \A s \in Scopes : health[s] \in RouteHealth
  BY DEF Inv, TypeOK
<1>1. CASE UNCHANGED <<health, requests>>
  BY <1>1 DEF Within
<1>2. CASE Clear
  BY <1>2 DEF Clear, Clean, Within
<1>3. CASE Tick
  <2>1. ASSUME NEW s \in Scopes PROVE health'[s].cooldown <= b
    <3>1. health'[s] = [health[s] EXCEPT !.cooldown = IF @ = 0 THEN 0 ELSE @ - 1]
      BY <1>3 DEF Tick
    <3>2. health[s] \in RouteHealth /\ health[s].cooldown <= b
      BY <1>0 DEF Within
    <3> QED BY <3>1, <3>2 DEF RouteHealth
  <2>2. ASSUME NEW c \in Clients PROVE requests'[c].until <= b
    <3>1. requests'[c] = [requests[c] EXCEPT !.until = IF @ = 0 THEN 0 ELSE @ - 1]
      BY <1>3 DEF Tick
    <3>2. requests[c] \in Request /\ requests[c].until <= b
      BY <1>0 DEF Within, TypeOK
    <3> QED BY <3>1, <3>2 DEF Request
  <2> QED BY <2>1, <2>2 DEF Within
<1>4. CASE Restart
  BY <1>4 DEF Restart, Within, Idle
<1>5. ASSUME NEW c \in Clients, Serve(c) PROVE Within(b)'
  BY <1>5, ServeWithin
<1>6. ASSUME NEW c \in Clients, NEW wanted \in Wants, Ask(c, wanted) PROVE Within(b)'
  <2>1. PICK ranked : requests' = [requests EXCEPT ![c] = [Idle EXCEPT !.pc = "choose", !.candidates = ranked]]
    BY <1>6 DEF Ask
  <2> DEFINE t == [Idle EXCEPT !.pc = "choose", !.candidates = ranked]
  <2>2. t.until <= b
    BY DEF Idle
  <2>3. health' = health /\ \A d \in Clients : requests[d].until <= b
    BY <1>6 DEF Ask, Within
  <2> HIDE DEF t
  <2>4. requests' = [requests EXCEPT ![c] = t]
    BY <2>1 DEF t
  <2>5. \A d \in Clients : requests'[d].until <= b
    BY <1>0, <2>2, <2>3, <2>4, RequestWithin
  <2> QED BY <2>3, <2>5 DEF Within
<1>7. ASSUME NEW s \in Scopes, NEW ok \in BOOLEAN, ProbeAnswer(s, ok) PROVE Within(b)'
  <2>1. "network" \in FailureKind
    BY DEF FailureKind
  <2>2. (IF ok THEN Clean ELSE ProbeFailed(health[s])).cooldown <= b
    BY <1>0, <2>1, HealthWithin
  <2>3. \A i \in Scopes : health[i].cooldown <= b
    BY DEF Within
  <2>4. \A i \in Scopes : health'[i].cooldown <= b
    BY <1>0, <1>7, <2>2, <2>3, RecordWithin DEF ProbeAnswer
  <2> QED BY <1>7, <2>4 DEF Within, ProbeAnswer
<1>8. CASE \/ \E m \in Models \cap Changing : ToggleModel(m)
           \/ \E p \in Providers \cap Changing : ToggleProvider(p)
           \/ ProbeRecovery \/ (\E s \in Scopes : ProbeSend(s)) \/ UNCHANGED vars
  BY <1>1, <1>8 DEF ToggleModel, ToggleProvider, ProbeRecovery, ProbeSend, vars
<1> QED BY <1>2, <1>3, <1>4, <1>5, <1>6, <1>7, <1>8 DEF Next

\* No route is kept out for longer than the longest thing that was ever asked
\* of it: cooldowns do not add up, however failures, Retry-After answers,
\* failed probes and resets of the same record interleave (Fail, FailUntil,
\* ProbeFailed).
THEOREM CooldownsBounded ==
    ASSUME NEW b \in Nat, Longest(b)
    PROVE  Spec => [](\A s \in Scopes : health[s].cooldown <= b)
<1>1. Init => Within(b)
  BY DEF Init, Within, Clean, Idle
<1>2. Inv /\ Within(b) /\ [Next]_vars => Within(b)'
  BY WithinStep
<1>3. Within(b) => \A s \in Scopes : health[s].cooldown <= b
  BY DEF Within
<1> QED BY <1>1, <1>2, <1>3, Invariance, PTL DEF Spec

=============================================================================
