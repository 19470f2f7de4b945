------------------------------- MODULE TTLCache -------------------------------
(***************************************************************************)
(* The read cache of the panel's HTTP API (internal/api/cache.go): values  *)
(* with a lifetime, one load per key at a time whose result everybody who  *)
(* asks meanwhile shares, and an expired value as the answer when a load   *)
(* fails.  Handlers that change the server drop the keys of a prefix.      *)
(*                                                                         *)
(* A value is the version of the world it was read from, and Nothing is no *)
(* value.  A call of GetOrLoad is a member of Requests, and its steps are  *)
(* the sections between two acquisitions of the mutex.                     *)
(***************************************************************************)
EXTENDS Naturals

CONSTANTS
    Requests,
    Keys,
    Dropped,        \* the keys DeletePrefix covers
    Key,            \* the key a request asks for
    MaxVersion      \* bound: changes of the world

Nobody == "nobody"
Nothing == 0

ASSUME KeysAssumption == Dropped \subseteq Keys /\ Key \in [Requests -> Keys]
ASSUME RequestsAssumption == Nobody \notin Requests
ASSUME VersionAssumption == MaxVersion \in Nat

VARIABLES
    version,    \* what a load that reads the world now finds
    items,      \* the cached values
    expired,    \* keys whose value has outlived its ttl
    flights,    \* the request whose call is registered for a key
    pc,
    refresh,    \* the request wants a fresh value
    loaded,     \* what the load of a leader has found, Nothing if it failed
    returned,   \* leaders whose call is done: its WaitGroup is released
    leader,     \* the leader whose call a waiter holds
    answer,
    known,      \* history: what is known about a key: the newest answer, the last invalidation
    owed        \* history: known when the request began

vars == <<version, items, expired, flights, pc, refresh, loaded, returned, leader, answer, known, owed>>
cacheVars == <<items, expired, flights>>
callVars == <<refresh, loaded, returned, leader>>

Loading == {"load", "return", "store"}

TypeOK ==
    /\ version \in Nat \ {Nothing}
    /\ items \in [Keys -> Nat]
    /\ expired \subseteq Keys
    /\ flights \in [Keys -> Requests \cup {Nobody}]
    /\ pc \in [Requests -> Loading \cup {"new", "look", "enter", "wait", "fallback", "done"}]
    /\ refresh \subseteq Requests
    /\ loaded \in [Requests -> Nat]
    /\ returned \subseteq Requests
    /\ leader \in [Requests -> Requests \cup {Nobody}]
    /\ \A r \in Requests : pc[r] = "wait" => leader[r] # Nobody
    /\ answer \in [Requests -> Nat]
    /\ known \in [Keys -> Nat]
    /\ owed \in [Requests -> Nat]

Init ==
    /\ version = 1
    /\ items = [k \in Keys |-> Nothing]
    /\ expired = {}
    /\ flights = [k \in Keys |-> Nobody]
    /\ pc = [r \in Requests |-> "new"]
    /\ refresh = {} /\ returned = {}
    /\ loaded = [r \in Requests |-> Nothing]
    /\ leader = [r \in Requests |-> Nobody]
    /\ answer = [r \in Requests |-> Nothing]
    /\ known = [k \in Keys |-> Nothing]
    /\ owed = [r \in Requests |-> Nothing]

Goto(r, next) == pc' = [pc EXCEPT ![r] = next]

\* The request ends with a value of the cache or of its own load; Nothing is an error.
Deliver(r, value) ==
    /\ Goto(r, "done")
    /\ answer' = [answer EXCEPT ![r] = value]
    /\ known' = [known EXCEPT ![Key[r]] = IF value > @ THEN value ELSE @]

Fresh(k) == items[k] # Nothing /\ k \notin expired

-----------------------------------------------------------------------------
(* GetOrLoad. *)

Begin(r) ==
    /\ pc[r] = "new"
    /\ \/ Goto(r, "look") /\ UNCHANGED refresh
       \/ Goto(r, "enter") /\ refresh' = refresh \cup {r}
    /\ owed' = [owed EXCEPT ![r] = known[Key[r]]]
    /\ UNCHANGED <<version, cacheVars, loaded, returned, leader, answer, known>>

\* The first Get, outside the section that registers a call.
LookFails(r) ==
    /\ pc[r] = "look" /\ Goto(r, "enter")
    /\ ~Fresh(Key[r])
    /\ UNCHANGED <<version, cacheVars, callVars, answer, known, owed>>

Hit(r) ==
    /\ pc[r] \in {"look", "enter"} /\ r \notin refresh
    /\ Fresh(Key[r])
    /\ Deliver(r, items[Key[r]])
    /\ UNCHANGED <<version, cacheVars, callVars, owed>>

MustLoad(r) == pc[r] = "enter" /\ (r \in refresh \/ ~Fresh(Key[r]))

Join(r) ==
    /\ MustLoad(r) /\ Goto(r, "wait")
    /\ flights[Key[r]] # Nobody
    /\ leader' = [leader EXCEPT ![r] = flights[Key[r]]]
    /\ UNCHANGED <<version, cacheVars, refresh, loaded, returned, answer, known, owed>>

Lead(r) ==
    /\ MustLoad(r) /\ Goto(r, "load")
    /\ flights[Key[r]] = Nobody
    /\ flights' = [flights EXCEPT ![Key[r]] = r]
    /\ UNCHANGED <<version, items, expired, callVars, answer, known, owed>>

\* The load finds what the world is now, or fails.
Load(r) ==
    /\ pc[r] = "load" /\ Goto(r, "return")
    /\ \E found \in {version, Nothing} : loaded' = [loaded EXCEPT ![r] = found]
    /\ UNCHANGED <<version, cacheVars, refresh, returned, leader, answer, known, owed>>

\* wg.Done, before the mutex is taken again.
Return_onSuccess(r) ==
    /\ pc[r] = "return" /\ Goto(r, "store")
    /\ returned' = IF loaded[r] # Nothing THEN returned \cup {r} ELSE returned
    /\ UNCHANGED <<version, cacheVars, refresh, loaded, leader, answer, known, owed>>
Return(r) ==
    /\ pc[r] = "return" /\ Goto(r, "store")
    /\ returned' = returned \cup {r}
    /\ UNCHANGED <<version, cacheVars, refresh, loaded, leader, answer, known, owed>>

Store(r) ==
    /\ pc[r] = "store"
    /\ flights' = [flights EXCEPT ![Key[r]] = Nobody]
    /\ IF loaded[r] # Nothing
       THEN /\ items' = [items EXCEPT ![Key[r]] = loaded[r]]
            /\ expired' = expired \ {Key[r]}
            /\ Deliver(r, loaded[r])
       ELSE Goto(r, "fallback") /\ UNCHANGED <<items, expired, answer, known>>
    /\ UNCHANGED <<version, callVars, owed>>

\* A waiter takes the value of the call.
Share(r) ==
    /\ pc[r] = "wait" /\ leader[r] \in returned /\ loaded[leader[r]] # Nothing
    /\ Goto(r, "done")
    /\ answer' = [answer EXCEPT ![r] = loaded[leader[r]]]
    /\ UNCHANGED <<version, cacheVars, callVars, known, owed>>

\* The load has failed: whatever the cache holds, however old, is better than an error.
FallBack(r) ==
    /\ \/ pc[r] = "fallback"
       \/ pc[r] = "wait" /\ leader[r] \in returned /\ loaded[leader[r]] = Nothing
    /\ Deliver(r, items[Key[r]])
    /\ UNCHANGED <<version, cacheVars, callVars, owed>>

-----------------------------------------------------------------------------
Expire(k) ==
    /\ items[k] # Nothing /\ k \notin expired
    /\ expired' = expired \cup {k}
    /\ UNCHANGED <<version, items, flights, pc, callVars, answer, known, owed>>

\* The server, its files or its configuration change, by a handler or by themselves.
Change ==
    /\ version <= MaxVersion
    /\ version' = version + 1
    /\ UNCHANGED <<cacheVars, pc, callVars, answer, known, owed>>

\* DeletePrefix leaves the calls under way alone: what they have read is stored later.
Invalidate_expire ==
    /\ expired' = expired \cup Dropped
    /\ known' = [k \in Keys |-> IF k \in Dropped /\ flights[k] = Nobody THEN version ELSE known[k]]
    /\ UNCHANGED <<version, items, flights, pc, callVars, answer, owed>>
Invalidate ==
    /\ items' = [k \in Keys |-> IF k \in Dropped THEN Nothing ELSE items[k]]
    /\ expired' = expired \ Dropped
    /\ known' = [k \in Keys |-> IF k \in Dropped /\ flights[k] = Nobody THEN version ELSE known[k]]
    /\ UNCHANGED <<version, flights, pc, callVars, answer, owed>>

Proceed(r) ==
    LookFails(r) \/ Hit(r) \/ Join(r) \/ Lead(r) \/ Load(r) \/ Return(r) \/ Store(r) \/ Share(r) \/ FallBack(r)

Next ==
    \/ \E r \in Requests : Begin(r) \/ Proceed(r)
    \/ \E k \in Keys : Expire(k)
    \/ Change \/ Invalidate

\* Goroutines are scheduled, and the loads are bounded by timeouts of their own.
Fairness == \A r \in Requests : WF_vars(Proceed(r))

Spec == Init /\ [][Next]_vars /\ Fairness

-----------------------------------------------------------------------------
(* Properties. *)

\* TestTTLCacheSingleflight: however requests, refreshes, failures and invalidations
\* interleave, a key is loaded by one request at a time.
SingleFlight ==
    \A r, s \in Requests : pc[r] \in Loading /\ pc[s] \in Loading /\ Key[r] = Key[s] => r = s

\* Time does not run backwards.  Who asks after an invalidation that met no load under way
\* gets nothing from before it, not even when his load fails and the cache falls back to
\* what it holds; who asks after an answer of the cache, or of a load that has stored its
\* value, gets nothing older.  An answer shared by a waiter is left out: it is given before
\* the value is stored, when the cache may still hold an older one that has not expired.
NeverOlder ==
    \A r \in Requests : pc[r] = "done" /\ answer[r] # Nothing => answer[r] >= owed[r]

\* Every request is answered, also one that waits for the load of somebody else.
EveryoneAnswered == \A r \in Requests : pc[r] # "new" ~> pc[r] = "done"

-----------------------------------------------------------------------------
(* The inductive invariant. *)

\* The registered call of a key is the one of the request that loads it.
FlightOf(r) == pc[r] \in Loading => flights[Key[r]] = r
FlightOpen(k) == flights[k] # Nobody => pc[flights[k]] \in Loading /\ Key[flights[k]] = k
AfterReturn(r) == r \in returned => pc[r] \in {"store", "fallback", "done"}

\* Nothing is newer than the world, and what is cached is not older than what is known.
Cached(k) == items[k] <= version /\ known[k] <= version /\ (items[k] # Nothing => known[k] <= items[k])

\* What a load has found may replace the cached value: while it is registered, the answers
\* to its key come from older values, and an invalidation promises nothing.
Newest(r) ==
    pc[r] \in {"return", "store"} /\ loaded[r] # Nothing
        => loaded[r] <= version /\ known[Key[r]] <= loaded[r] /\ items[Key[r]] <= loaded[r]

Promise(r) == owed[r] <= known[Key[r]]

Waiting(r) ==
    pc[r] = "wait" =>
        /\ Key[leader[r]] = Key[r]
        /\ leader[r] \in returned /\ loaded[leader[r]] # Nothing => owed[r] <= loaded[leader[r]]

Answered(r) == pc[r] = "done" /\ answer[r] # Nothing => answer[r] >= owed[r]

\* Whoever waits, waits for a call whose load is under way or has released its waiters: one that
\* failed, was stored or was invalidated meanwhile has done so too (cache.go:78-101).
Awaited(r) ==
    /\ pc[r] = "store" => r \in returned
    /\ pc[r] = "wait" => leader[r] \in returned \/ pc[leader[r]] \in {"load", "return"}

NobodyLeftWaiting == \A r \in Requests : Awaited(r)

IInv ==
    /\ TypeOK
    /\ \A r \in Requests : FlightOf(r) /\ AfterReturn(r) /\ Newest(r) /\ Promise(r) /\ Waiting(r) /\ Answered(r)
    /\ \A k \in Keys : FlightOpen(k) /\ Cached(k)
=============================================================================
