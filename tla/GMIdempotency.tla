--------------------------- MODULE GMIdempotency ---------------------------
(***************************************************************************)
(* The idempotency store in front of every GM write of PalDefender         *)
(* (internal/api/paldefender_gm_idempotency.go): one HTTP request is one   *)
(* call of do, which executes the write, replays the answer of an earlier  *)
(* call with the same key, waits for one that is still executing, or       *)
(* refuses.                                                                *)
(*                                                                         *)
(* A key stands for the pair of scope (user) and header value.  What is    *)
(* looked up, purged and evicted happens under one mutex; the write itself *)
(* and the wait for another call happen outside.  The clock is read before *)
(* the mutex is taken.                                                     *)
(***************************************************************************)
EXTENDS Naturals, FiniteSets

CONSTANTS
    Calls,      \* HTTP requests, each handled once
    Keys,       \* scope and Idempotency-Key
    Bodies,     \* method, route pattern and JSON body of a request
    Targets,    \* the player or name in the path of a request
    None,       \* "no entry", "no call"
    Capacity,   \* maxGMIdempotencyEntries
    TTL,        \* palDefenderGMIdempotencyTTL, in ticks
    MaxTime     \* bound: the last tick of the clock

ASSUME NoneAssumption == None \notin Calls
ASSUME KeysAssumption == IsFiniteSet(Keys)
ASSUME RequestsAssumption == Keys # {} /\ Bodies # {} /\ Targets # {}
ASSUME LimitsAssumption == Capacity \in Nat \ {0} /\ TTL \in Nat \ {0} /\ MaxTime \in Nat

VARIABLES
    now,      \* the clock
    req,      \* what every call asks for, of no meaning before it arrives
    at,       \* the clock as the call read it: createdAt of its entry
    pc,       \* arrived, executing, waiting for another call, answered
    entries,  \* the map: the call that made the entry of a key, or None
    expires,  \* expiresAt of the entry a call made, 0 for the zero time
    result,   \* what the entry of a call holds once it is done
    answer,   \* what the client got: [kind, from]
    evicted   \* calls whose entry was dropped to make room

vars == <<now, req, at, pc, entries, expires, result, answer, evicted>>

Request == [key : Keys, body : Bodies, target : Targets]
Outcome == {"ok", "failed"}   \* failed: an error, or a panic, which is kept as one
Answer == [kind : {"none", "executed", "replayed", "conflict", "busy", "cancelled"}, from : Calls \cup {None}]
NoAnswer == [kind |-> "none", from |-> None]

\* The digest of runPalDefenderGMWrite: FullPath is the route pattern, so the target is not in it.
Fingerprint(c) == req[c].body
Key(c) == req[c].key

TypeOK ==
    /\ now \in 0 .. MaxTime
    /\ req \in [Calls -> Request]
    /\ at \in [Calls -> 0 .. MaxTime]
    /\ pc \in [Calls -> {"new", "arrived", "executing", "waiting", "answered"}]
    /\ entries \in [Keys -> Calls \cup {None}]
    /\ expires \in [Calls -> 0 .. MaxTime + TTL]
    /\ result \in [Calls -> Outcome \cup {"none"}]
    /\ answer \in [Calls -> Answer]
    /\ evicted \subseteq Calls

Init ==
    /\ now = 0
    /\ req = [c \in Calls |-> CHOOSE r \in Request : TRUE]
    /\ at = [c \in Calls |-> 0]
    /\ pc = [c \in Calls |-> "new"]
    /\ entries = [k \in Keys |-> None]
    /\ expires = [c \in Calls |-> 0]
    /\ result = [c \in Calls |-> "none"]
    /\ answer = [c \in Calls |-> NoAnswer]
    /\ evicted = {}

Tick ==
    /\ now < MaxTime /\ now' = now + 1
    /\ UNCHANGED <<req, at, pc, entries, expires, result, answer, evicted>>

\* The request is decoded and the clock read; the mutex comes later.
Arrive(c) ==
    /\ pc[c] = "new"
    /\ \E r \in Request : req' = [req EXCEPT ![c] = r]
    /\ at' = [at EXCEPT ![c] = now]
    /\ pc' = [pc EXCEPT ![c] = "arrived"]
    /\ UNCHANGED <<now, entries, expires, result, answer, evicted>>

-----------------------------------------------------------------------------
(* Under the mutex: purge what has expired, then join, refuse or make an entry. *)

Done(d) == expires[d] # 0
Expired(d, t) == Done(d) /\ expires[d] <= t

Purged(c) == [k \in Keys |-> IF entries[k] # None /\ Expired(entries[k], at[c]) THEN None ELSE entries[k]]
Used(map) == {k \in Keys : map[k] # None}

\* Completed entries with the smallest createdAt; several may share it.
Oldest_any(map) == {k \in Used(map) : \A j \in Used(map) : at[map[k]] <= at[map[j]]}
Oldest(map) ==
    LET completed == {k \in Used(map) : Done(map[k])}
    IN  {k \in completed : \A j \in completed : at[map[k]] <= at[map[j]]}

Answered(c, kind, from) ==
    /\ pc' = [pc EXCEPT ![c] = "answered"]
    /\ answer' = [answer EXCEPT ![c] = [kind |-> kind, from |-> from]]

Conflict(c) ==
    /\ pc[c] = "arrived"
    /\ LET d == Purged(c)[Key(c)] IN d # None /\ Fingerprint(d) # Fingerprint(c)
    /\ entries' = Purged(c)
    /\ Answered(c, "conflict", None)
    /\ UNCHANGED <<now, req, at, expires, result, evicted>>

\* Holds on to the entry, which may be purged or evicted while the call waits.
Join_anyBody(c) ==
    /\ pc[c] = "arrived"
    /\ LET d == Purged(c)[Key(c)]
       IN  d # None /\ answer' = [answer EXCEPT ![c] = [kind |-> "none", from |-> d]]
    /\ entries' = Purged(c)
    /\ pc' = [pc EXCEPT ![c] = "waiting"]
    /\ UNCHANGED <<now, req, at, expires, result, evicted>>
Join(c) ==
    /\ pc[c] = "arrived"
    /\ LET d == Purged(c)[Key(c)]
       IN  /\ d # None /\ Fingerprint(d) = Fingerprint(c)
           /\ answer' = [answer EXCEPT ![c] = [kind |-> "none", from |-> d]]
    /\ entries' = Purged(c)
    /\ pc' = [pc EXCEPT ![c] = "waiting"]
    /\ UNCHANGED <<now, req, at, expires, result, evicted>>

Full(map) == Cardinality(Used(map)) >= Capacity

Admit(c) ==
    /\ pc[c] = "arrived"
    /\ Purged(c)[Key(c)] = None /\ ~Full(Purged(c))
    /\ entries' = [Purged(c) EXCEPT ![Key(c)] = c]
    /\ pc' = [pc EXCEPT ![c] = "executing"]
    /\ UNCHANGED <<now, req, at, expires, result, answer, evicted>>

AdmitEvicting(c) ==
    /\ pc[c] = "arrived"
    /\ Purged(c)[Key(c)] = None /\ Full(Purged(c))
    /\ \E k \in Oldest(Purged(c)) :
          /\ entries' = [Purged(c) EXCEPT ![k] = None, ![Key(c)] = c]
          /\ evicted' = evicted \cup {entries[k]}
    /\ pc' = [pc EXCEPT ![c] = "executing"]
    /\ UNCHANGED <<now, req, at, expires, result, answer>>

Busy(c) ==
    /\ pc[c] = "arrived"
    /\ Purged(c)[Key(c)] = None /\ Full(Purged(c)) /\ Oldest(Purged(c)) = {}
    /\ entries' = Purged(c)
    /\ Answered(c, "busy", None)
    /\ UNCHANGED <<now, req, at, expires, result, evicted>>

-----------------------------------------------------------------------------
(* Outside the mutex. *)

\* The write returned, failed or panicked: the outcome is kept and the waiters are woken.
Finish_forgetsErrors(c) ==
    /\ pc[c] = "executing"
    /\ \E outcome \in Outcome :
          /\ result' = [result EXCEPT ![c] = outcome]
          /\ entries' = IF outcome = "ok" THEN entries ELSE [entries EXCEPT ![Key(c)] = None]
    /\ expires' = [expires EXCEPT ![c] = now + TTL]
    /\ Answered(c, "executed", c)
    /\ UNCHANGED <<now, req, at, evicted>>
Finish_panicEscapes(c) ==
    /\ pc[c] = "executing"
    /\ \E outcome \in Outcome :
          /\ result' = [result EXCEPT ![c] = outcome]
          /\ expires' = [expires EXCEPT ![c] = IF outcome = "failed" THEN 0 ELSE now + TTL]
    /\ Answered(c, "executed", c)
    /\ UNCHANGED <<now, req, at, entries, evicted>>
Finish(c) ==
    /\ pc[c] = "executing"
    /\ \E outcome \in Outcome : result' = [result EXCEPT ![c] = outcome]
    /\ expires' = [expires EXCEPT ![c] = now + TTL]
    /\ Answered(c, "executed", c)
    /\ UNCHANGED <<now, req, at, entries, evicted>>

Wake(c) ==
    /\ pc[c] = "waiting" /\ Done(answer[c].from)
    /\ Answered(c, "replayed", answer[c].from)
    /\ UNCHANGED <<now, req, at, entries, expires, result, evicted>>

\* The client of the waiting call is gone.
GiveUp(c) ==
    /\ pc[c] = "waiting"
    /\ Answered(c, "cancelled", None)
    /\ UNCHANGED <<now, req, at, entries, expires, result, evicted>>

Locked(c) == Conflict(c) \/ Join(c) \/ Admit(c) \/ AdmitEvicting(c) \/ Busy(c)

Next == Tick \/ \E c \in Calls : Arrive(c) \/ Locked(c) \/ Finish(c) \/ Wake(c) \/ GiveUp(c)

Spec == Init /\ [][Next]_vars

\* The mutex is handed on, the REST client of PalDefender has a timeout, a closed channel
\* wakes its waiters.  No client has to send or to give up, and the clock may stand still.
FairSpec == Spec /\ \A c \in Calls : WF_vars(Locked(c)) /\ WF_vars(Finish(c)) /\ WF_vars(Wake(c))

-----------------------------------------------------------------------------
(* Properties. *)

Executing(c) == pc[c] = "executing"

\* A key never has two writes in flight: the entry of a write that is executing is neither
\* purged nor evicted, whatever the other keys do and however long it takes.
OneWritePerKey == \A c, d \in Calls : Executing(c) /\ Executing(d) /\ Key(c) = Key(d) => c = d

\* The map never outgrows its limit, also when all of its entries are in flight.
WithinCapacity == Cardinality(Used(entries)) <= Capacity

\* A write that was executed, with whatever outcome, is executed again under its key only
\* after its entry expired or had to make room: a retry of a request whose outcome is
\* uncertain does not repeat it.
NoRepeatedWrite ==
    [][\A c, d \in Calls :
          ~Executing(c) /\ Executing(c)' /\ pc[d] = "answered" /\ answer[d].kind = "executed" /\ Key(d) = Key(c)
          => d \in evicted \/ expires[d] <= now]_vars

\* An answer that is replayed is the outcome of a finished write of the same key and body.
ReplayIsGenuine ==
    \A c \in Calls : answer[c].kind = "replayed" =>
        LET d == answer[c].from
        IN  /\ answer[d].kind = "executed" /\ result[d] # "none"
            /\ Key(d) = Key(c) /\ Fingerprint(d) = Fingerprint(c)

\* Every request that reaches the store is answered, also those that wait for a write that
\* panics or whose entry is evicted meanwhile.
EveryCallAnswered == \A c \in Calls : pc[c] = "arrived" ~> pc[c] = "answered"

\* docs/openapi.yaml line 101: a key is for one GM write intent, and using it for another is
\* answered with a conflict.  An answer is only replayed for the same player.
ReplaySameTarget ==
    \A c \in Calls : answer[c].kind = "replayed" => req[answer[c].from].target = req[c].target
-----------------------------------------------------------------------------
(* The inductive invariant: what an entry, a call and its waiters know of each other. *)

Executed(c) == pc[c] = "answered" /\ answer[c].kind = "executed"

\* An entry belongs to a call with its key that is executing or has executed.
EntryInv == \A k \in Keys, d \in Calls : entries[k] = d => Key(d) = k /\ (Executing(d) \/ Executed(d))

\* A call that executes owns the entry of its key.
ExecutingInv == \A c \in Calls : Executing(c) => entries[Key(c)] = c /\ expires[c] = 0

\* The zero time marks exactly the calls that have not executed.
DoneInv == \A c \in Calls :
    /\ Done(c) => Executed(c)
    /\ Executed(c) => Done(c) /\ result[c] # "none"

\* The clock a call read is not ahead of the clock.
ClockInv == \A c \in Calls : at[c] <= now

\* A waiting or replayed call hangs on a call of the same key and body.
Source(c, d) ==
    /\ Key(d) = Key(c) /\ Fingerprint(d) = Fingerprint(c)
    /\ Executing(d) \/ Executed(d)
    /\ answer[c].kind = "replayed" => Executed(d)
SourceInv == \A c \in Calls :
    /\ pc[c] = "waiting" \/ answer[c].kind = "replayed" => \E d \in Calls : answer[c].from = d /\ Source(c, d)
    /\ answer[c].kind # "none" => pc[c] = "answered"

\* An executed call keeps its entry until the entry expires or makes room.
RetainInv == \A d \in Calls : Executed(d) => entries[Key(d)] = d \/ d \in evicted \/ expires[d] <= now

\* Whoever waits, waits for a write that executes or has been executed, although its entry may
\* have been purged or evicted meanwhile.
WaitsForAWrite ==
    \A c \in Calls : pc[c] = "waiting" => Executing(answer[c].from) \/ Done(answer[c].from)

IInv == TypeOK /\ EntryInv /\ ExecutingInv /\ DoneInv /\ ClockInv /\ SourceInv /\ RetainInv /\ WithinCapacity
=============================================================================
