------------------------------ MODULE Gateway ------------------------------
(***************************************************************************)
(* POST /v1/chat/completions (internal/api/chat.go) behind the client      *)
(* keys, with the two memories the gateway keeps of earlier answers: the   *)
(* model a conversation is pinned to (runtime.Sessions) and the answers to *)
(* bodies seen before (runtime.Cache).  Both live in the memory and in a   *)
(* file, and both end by a date.                                           *)
(*                                                                         *)
(* Routing is modelled in Routing; here it ranks the approved models that  *)
(* the request allows, once, tries them in any order without looking at    *)
(* the approvals again, and gets its answer later.  A body is the model it *)
(* asks for; two bodies that ask for the same model are the same body.     *)
(* Time passes in ticks; a request, which has 120 seconds, sees at most    *)
(* one.  A date is the number of ticks left to it.                         *)
(***************************************************************************)
EXTENDS ClientKeys, Integers

CONSTANTS
    Models,      \* what the catalogue routes
    Sessions,    \* conversation ids
    Requests,    \* bound: requests served at a time
    SessionTTL,  \* ticks a pin lives (2 hours)
    CacheTTL,    \* ticks an answer lives (5 minutes)
    CacheMax,    \* answers kept (500)
    Asks         \* bound: what clients ask for

ASSUME GatewayAssumption ==
    /\ SessionTTL \in Nat \ {0} /\ CacheTTL \in Nat \ {0}
    /\ Asks \subseteq Models \cup {"auto", "none"}

VARIABLES
    approved,  \* models HasModel accepts and the router may pick
    pins,      \* Sessions.items
    pinFile,   \* sessions-xing-shu.json
    cache,     \* Cache.items
    cacheFile, \* cache-xing-shu.json
    req,       \* the requests being served
    gone       \* history: ticks since a model lost its approval

memories == <<pins, pinFile, cache, cacheFile>>
gatewayVars == <<approved, memories, req, gone>>
vars == <<keyVars, gatewayVars>>

\* A request names a model, asks for any ("auto") or names none.
Ask == Models \cup {"auto", "none"}
Bodies == (Asks \cup Models) \ {"auto"}

\* A remembered model; nothing is left of a date that has passed.
Nothing == [model |-> "none", left |-> 0]
Memory(ttl) == [model : Models, left : 1..ttl] \cup {Nothing}

Idle == [pc |-> "idle"]
Served == [pc : {"entered", "routing", "waiting", "answered", "kept", "cached"},
           ask : Ask, session : Sessions \cup {"none"}, cacheable : BOOLEAN,
           ranked : SUBSET Models, \* candidates the request has yet to try
           model : Models \cup {"none"}, aged : BOOLEAN]

Horizon == IF SessionTTL > CacheTTL THEN SessionTTL + 2 ELSE CacheTTL + 2

TypeOK ==
    /\ KeysTypeOK
    /\ approved \subseteq Models
    /\ pins \in [Sessions -> Memory(SessionTTL)] /\ pinFile \in [Sessions -> Memory(SessionTTL)]
    /\ cache \in [Bodies -> Memory(CacheTTL)] /\ cacheFile \in [Bodies -> Memory(CacheTTL)]
    /\ req \in [Requests -> Served \cup {Idle}]
    /\ gone \in [Models -> 0..Horizon]

Init ==
    /\ KeysInit
    /\ approved = Models
    /\ pins = [s \in Sessions |-> Nothing] /\ pinFile = pins
    /\ cache = [b \in Bodies |-> Nothing] /\ cacheFile = cache
    /\ req = [r \in Requests |-> Idle]
    /\ gone = [m \in Models |-> 0]

Reply(r) == req' = [req EXCEPT ![r] = Idle]

------------------------------------------------------------------------------
\* What a request asks for once its conversation's pin has been read.
Pinned(ask, s) ==
    IF ask \in {"auto", "none"} /\ s # "none" /\ pins[s] # Nothing THEN pins[s].model ELSE ask

\* The middleware lets the request in; pin, cache and catalogue are looked up
\* in this order.  An answer in the cache is sent without asking whether its
\* model is still approved, and a pinned model that is not fails the request.
Enter(r) ==
    /\ req[r] = Idle
    /\ \/ Anonymous /\ UNCHANGED keyVars
       \/ \E k \in Keys, writes \in BOOLEAN : Authenticate(k, "chat:write", writes)
    /\ \E asked \in Asks, s \in Sessions \cup {"none"}, plain \in BOOLEAN :
          LET ask == Pinned(asked, s)
              cacheable == plain /\ ask # "auto"
          IN IF (cacheable /\ cache[ask] # Nothing) \/ ask \in Models \ approved
             THEN req' = req
             ELSE req' = [req EXCEPT ![r] = [pc |-> "entered", ask |-> ask, session |-> s,
                             cacheable |-> cacheable, ranked |-> {}, model |-> "none", aged |-> FALSE]]
    /\ UNCHANGED <<approved, memories, gone>>

\* CompleteReliable ranks what it may use now ...
Rank(r) ==
    /\ req[r].pc = "entered"
    /\ req' = [req EXCEPT ![r].pc = "routing",
                          ![r].ranked = {m \in approved : req[r].ask \in Models => m = req[r].ask}]
    /\ UNCHANGED <<keyVars, approved, memories, gone>>

\* ... and calls one candidate after the other, approved still or not.
Attempt(r) ==
    /\ req[r].pc = "routing"
    /\ \E m \in req[r].ranked :
          req' = [req EXCEPT ![r].pc = "waiting", ![r].model = m, ![r].ranked = @ \ {m}]
    /\ UNCHANGED <<keyVars, approved, memories, gone>>

\* A failed attempt, after which the router may try another model.
AttemptFails(r) ==
    /\ req[r].pc = "waiting"
    /\ req' = [req EXCEPT ![r].pc = "routing", ![r].model = "none"]
    /\ UNCHANGED <<keyVars, approved, memories, gone>>

\* No route, or no attempt left: 503, and the pin stays as it is.
NoRoute(r) ==
    /\ req[r].pc = "routing"
    /\ Reply(r)
    /\ UNCHANGED <<keyVars, approved, memories, gone>>

\* The answer begins: Sessions.Put pins the conversation before a byte of it
\* has been forwarded.
Answered(r) ==
    /\ req[r].pc = "waiting"
    /\ LET s == req[r].session IN
       IF s = "none"
       THEN req' = [req EXCEPT ![r].pc = "kept"] /\ pins' = pins
       ELSE /\ pins' = [pins EXCEPT ![s] = [model |-> req[r].model, left |-> SessionTTL]]
            /\ req' = [req EXCEPT ![r].pc = "answered"]
    /\ UNCHANGED <<keyVars, approved, pinFile, cache, cacheFile, gone>>

\* Sessions.persist reads the map and replaces the file outside the lock.
KeepPins(r) ==
    /\ req[r].pc = "answered"
    /\ pinFile' = pins
    /\ req' = [req EXCEPT ![r].pc = "kept"]
    /\ UNCHANGED <<keyVars, approved, pins, cache, cacheFile, gone>>

\* Cache.Put makes room by dropping any one answer when the cache is full.
CachePut(b, m) ==
    \E victim \in IF Cardinality({x \in Bodies : cache[x] # Nothing}) < CacheMax
                  THEN {b}
                  ELSE {x \in Bodies : cache[x] # Nothing} :
        cache' = [cache EXCEPT ![victim] = Nothing, ![b] = [model |-> m, left |-> CacheTTL]]

\* forward: a complete answer is cached under the body that was sent; one that
\* streams, has tools or breaks off is not.
Forward(r) ==
    /\ req[r].pc = "kept"
    /\ \/ /\ req[r].cacheable
          /\ CachePut(req[r].ask, req[r].model)
          /\ req' = [req EXCEPT ![r].pc = "cached"]
       \/ Reply(r) /\ cache' = cache
    /\ UNCHANGED <<keyVars, approved, pins, pinFile, cacheFile, gone>>

KeepCache(r) ==
    /\ req[r].pc = "cached"
    /\ cacheFile' = cache
    /\ Reply(r)
    /\ UNCHANGED <<keyVars, approved, pins, pinFile, cache, gone>>

Serve(r) ==
    \/ Enter(r) \/ Rank(r) \/ Attempt(r) \/ AttemptFails(r) \/ NoRoute(r)
    \/ Answered(r) \/ KeepPins(r) \/ Forward(r) \/ KeepCache(r)

------------------------------------------------------------------------------
\* A model loses its approval, or its provider; or it gets them (back).
Approve(m) ==
    /\ approved' = IF m \in approved THEN approved \ {m} ELSE approved \cup {m}
    /\ gone' = [gone EXCEPT ![m] = 0]
    /\ UNCHANGED <<keyVars, memories, req>>

\* Mutant: nothing is forgotten when its date comes.
OlderUntilNever(memory) ==
    [x \in DOMAIN memory |->
        IF memory[x] = Nothing THEN Nothing ELSE [memory[x] EXCEPT !.left = @ - 1]]

Older(memory) ==
    [x \in DOMAIN memory |->
        IF memory[x] = Nothing \/ memory[x].left = 1 THEN Nothing
        ELSE [memory[x] EXCEPT !.left = @ - 1]]

\* Dates are absolute: those in the files come nearer as well.
Tick ==
    /\ \A r \in Requests : req[r] # Idle => ~req[r].aged
    /\ req' = [r \in Requests |-> IF req[r] = Idle THEN Idle ELSE [req[r] EXCEPT !.aged = TRUE]]
    /\ pins' = Older(pins) /\ pinFile' = Older(pinFile)
    /\ cache' = Older(cache) /\ cacheFile' = Older(cacheFile)
    /\ gone' = [m \in Models |-> IF m \in approved \/ gone[m] = Horizon THEN gone[m] ELSE gone[m] + 1]
    /\ UNCHANGED <<keyVars, approved>>

\* Mutant: a restart gives the pins it loads their whole time again.
RestartRenews ==
    /\ Reopen
    /\ pins' = [s \in Sessions |-> IF pinFile[s] = Nothing THEN Nothing
                                  ELSE [pinFile[s] EXCEPT !.left = SessionTTL]]
    /\ cache' = cacheFile
    /\ req' = [r \in Requests |-> Idle]
    /\ UNCHANGED <<approved, pinFile, cacheFile, gone>>

\* The process ends and starts again: NewRuntimeAt loads what has not expired.
Restart ==
    /\ Reopen
    /\ pins' = pinFile /\ cache' = cacheFile
    /\ req' = [r \in Requests |-> Idle]
    /\ UNCHANGED <<approved, pinFile, cacheFile, gone>>

Next ==
    \/ (AdministerKeys \/ Expire) /\ UNCHANGED gatewayVars
    \/ \E k \in Keys, scope \in Scopes, writes \in BOOLEAN :
          Authenticate(k, scope, writes) /\ UNCHANGED gatewayVars
    \/ \E r \in Requests : Serve(r)
    \/ \E m \in Models : Approve(m)
    \/ Tick
    \/ Restart

Spec == Init /\ [][Next]_vars

------------------------------------------------------------------------------
\* A withdrawn model is remembered no longer than its memory was to last, plus
\* the one tick its answer may have taken.
Bounded(memory, ttl) ==
    \A x \in DOMAIN memory :
        memory[x] # Nothing => gone[memory[x].model] + memory[x].left <= ttl + 1

\* Neither the cache nor a pin outlives the approval of its model by more than
\* its time to live: not through restarts, not by being read, not by an answer
\* that was under way when the approval was withdrawn.  (Until then the cache
\* does answer for the withdrawn model and the pin does make every request of
\* its conversation fail.)
StaleIsBounded ==
    /\ Bounded(pins, SessionTTL) /\ Bounded(pinFile, SessionTTL)
    /\ Bounded(cache, CacheTTL) /\ Bounded(cacheFile, CacheTTL)

=============================================================================
