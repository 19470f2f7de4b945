----------------------- MODULE GMIdempotency_proofs -----------------------
(***************************************************************************)
(* Theorems about GMIdempotency for any number of calls, keys, bodies and  *)
(* targets, every capacity and every time to live.                         *)
(***************************************************************************)
EXTENDS GMIdempotency, FiniteSetTheorems, TLAPS

-----------------------------------------------------------------------------
(* Lemmas about the map. *)

\* Purging only drops entries, and only those that have expired by the clock of the call.
LEMMA PurgedFacts ==
    ASSUME TypeOK, ClockInv, NEW c \in Calls
    PROVE  /\ Purged(c) \in [Keys -> Calls \cup {None}]
           /\ \A k \in Keys : Purged(c)[k] \in {entries[k], None}
           /\ \A k \in Keys : entries[k] # None /\ Purged(c)[k] = None =>
                 Done(entries[k]) /\ expires[entries[k]] <= now
           /\ \A k \in Keys : entries[k] # None /\ ~Done(entries[k]) => Purged(c)[k] = entries[k]
  <1>1. \A k \in Keys : Purged(c)[k] = IF entries[k] # None /\ Expired(entries[k], at[c]) THEN None ELSE entries[k]
    BY DEF Purged
  <1>2. Purged(c) \in [Keys -> Calls \cup {None}]
    BY DEF Purged, TypeOK
  <1>3. ASSUME NEW k \in Keys, entries[k] # None, Expired(entries[k], at[c])
        PROVE  Done(entries[k]) /\ expires[entries[k]] <= now
    <2>1. Done(entries[k]) /\ expires[entries[k]] <= at[c]
      BY <1>3 DEF Expired
    <2>2. at[c] <= now
      BY DEF ClockInv
    <2>3. entries[k] \in Calls
      BY <1>3 DEF TypeOK
    <2>4. expires[entries[k]] \in Nat /\ at[c] \in Nat /\ now \in Nat
      BY <2>3, LimitsAssumption DEF TypeOK
    <2>5. QED
      BY <2>1, <2>2, <2>4
  <1>4. ASSUME NEW k \in Keys, entries[k] # None, ~Done(entries[k]) PROVE Purged(c)[k] = entries[k]
    BY <1>1, <1>4 DEF Expired
  <1>5. QED
    BY <1>1, <1>2, <1>3, <1>4

\* A map of keys has finitely many entries, and dropping some leaves no more.
LEMMA UsedFinite ==
    ASSUME NEW map
    PROVE  Used(map) \subseteq Keys /\ IsFiniteSet(Used(map)) /\ Cardinality(Used(map)) \in Nat
  <1>1. Used(map) \in SUBSET Keys
    BY DEF Used
  <1>2. IsFiniteSet(Used(map))
    BY <1>1, KeysAssumption, FS_Subset
  <1>3. QED
    BY <1>1, <1>2, FS_CardinalityType

\* Purging makes the map no larger.
LEMMA PurgedNoLarger ==
    ASSUME TypeOK, ClockInv, NEW c \in Calls
    PROVE  Cardinality(Used(Purged(c))) <= Cardinality(Used(entries))
  <1>1. Used(Purged(c)) \in SUBSET Used(entries)
    BY PurgedFacts DEF Used
  <1>2. QED
    BY <1>1, UsedFinite, FS_Subset

-----------------------------------------------------------------------------
(* Type correctness. *)

\* The store starts empty.
LEMMA InitType == Init => TypeOK
  <1> SUFFICES ASSUME Init PROVE TypeOK
    OBVIOUS
  <1>1. PICK k \in Keys, b \in Bodies, t \in Targets : TRUE
    BY RequestsAssumption
  <1>2. [key |-> k, body |-> b, target |-> t] \in Request
    BY DEF Request
  <1>3. (CHOOSE r \in Request : TRUE) \in Request
    BY <1>2
  <1>4. now \in 0 .. MaxTime /\ 0 \in 0 .. MaxTime + TTL
    BY LimitsAssumption DEF Init
  <1>5. NoAnswer \in Answer
    BY DEF NoAnswer, Answer
  <1>6. QED
    BY <1>3, <1>4, <1>5 DEF Init, TypeOK

\* The answers a call can get are answers.
LEMMA AnsweredType ==
    ASSUME TypeOK, NEW c \in Calls, NEW from \in Calls \cup {None},
           NEW kind \in {"executed", "replayed", "conflict", "busy", "cancelled"}, Answered(c, kind, from)
    PROVE  /\ pc' \in [Calls -> {"new", "arrived", "executing", "waiting", "answered"}]
           /\ answer' \in [Calls -> Answer]
  <1>1. [kind |-> kind, from |-> from] \in Answer
    BY DEF Answer
  <1>2. QED
    BY <1>1 DEF Answered, TypeOK

\* Every step of the store keeps the types.
LEMMA NextType == TypeOK /\ ClockInv /\ SourceInv /\ [Next]_vars => TypeOK'
  <1> SUFFICES ASSUME TypeOK, ClockInv, SourceInv, [Next]_vars PROVE TypeOK'
    OBVIOUS
  <1>1. CASE UNCHANGED vars
    BY <1>1 DEF vars, TypeOK
  <1>2. CASE Tick
    <2>1. now' \in 0 .. MaxTime
      BY <1>2, LimitsAssumption DEF Tick, TypeOK
    <2>2. QED
      BY <1>2, <2>1 DEF Tick, TypeOK
  <1>3. ASSUME NEW c \in Calls, Arrive(c) PROVE TypeOK'
    BY <1>3 DEF Arrive, TypeOK
  <1>4. ASSUME NEW c \in Calls, Conflict(c) PROVE TypeOK'
    <2>1. Purged(c) \in [Keys -> Calls \cup {None}]
      BY PurgedFacts
    <2>2. Answered(c, "conflict", None)
      BY <1>4 DEF Conflict
    <2>3. QED
      BY <1>4, <2>1, <2>2, AnsweredType DEF Conflict, TypeOK
  <1>5. ASSUME NEW c \in Calls, Join(c) PROVE TypeOK'
    <2>1. Purged(c) \in [Keys -> Calls \cup {None}] /\ Key(c) \in Keys
      BY PurgedFacts DEF Key, TypeOK, Request
    <2>2. Purged(c)[Key(c)] \in Calls
      BY <1>5, <2>1 DEF Join
    <2>3. answer' \in [Calls -> Answer]
      BY <1>5, <2>2 DEF Join, TypeOK, Answer
    <2>4. QED
      BY <1>5, <2>1, <2>3 DEF Join, TypeOK
  <1>6. ASSUME NEW c \in Calls, Admit(c) PROVE TypeOK'
    <2>1. Purged(c) \in [Keys -> Calls \cup {None}] /\ Key(c) \in Keys
      BY PurgedFacts DEF Key, TypeOK, Request
    <2>2. QED
      BY <1>6, <2>1 DEF Admit, TypeOK
  <1>7. ASSUME NEW c \in Calls, AdmitEvicting(c) PROVE TypeOK'
    <2>1. Purged(c) \in [Keys -> Calls \cup {None}] /\ Key(c) \in Keys
      BY PurgedFacts DEF Key, TypeOK, Request
    <2>2. PICK k \in Oldest(Purged(c)) :
             /\ entries' = [Purged(c) EXCEPT ![k] = None, ![Key(c)] = c]
             /\ evicted' = evicted \cup {entries[k]}
      BY <1>7 DEF AdmitEvicting
    <2>3. k \in Keys /\ Purged(c)[k] # None
      BY DEF Oldest, Used
    <2>4. entries[k] \in Calls
      BY <2>3, PurgedFacts DEF TypeOK
    <2>5. entries' \in [Keys -> Calls \cup {None}]
      BY <2>1, <2>2, <2>3
    <2>6. QED
      BY <1>7, <2>2, <2>4, <2>5 DEF AdmitEvicting, TypeOK
  <1>8. ASSUME NEW c \in Calls, Busy(c) PROVE TypeOK'
    <2>1. Purged(c) \in [Keys -> Calls \cup {None}]
      BY PurgedFacts
    <2>2. Answered(c, "busy", None)
      BY <1>8 DEF Busy
    <2>3. QED
      BY <1>8, <2>1, <2>2, AnsweredType DEF Busy, TypeOK
  <1>9. ASSUME NEW c \in Calls, Finish(c) PROVE TypeOK'
    <2>1. now + TTL \in 0 .. MaxTime + TTL
      BY LimitsAssumption DEF TypeOK
    <2>2. Answered(c, "executed", c)
      BY <1>9 DEF Finish
    <2>3. QED
      BY <1>9, <2>1, <2>2, AnsweredType DEF Finish, TypeOK
  <1>10. ASSUME NEW c \in Calls, Wake(c) PROVE TypeOK'
    <2>1. answer[c].from \in Calls
      BY <1>10 DEF Wake, SourceInv
    <2>2. Answered(c, "replayed", answer[c].from)
      BY <1>10 DEF Wake
    <2>3. QED
      BY <1>10, <2>1, <2>2, AnsweredType DEF Wake, TypeOK
  <1>11. ASSUME NEW c \in Calls, GiveUp(c) PROVE TypeOK'
    <2>1. Answered(c, "cancelled", None)
      BY <1>11 DEF GiveUp
    <2>2. QED
      BY <1>11, <2>1, AnsweredType DEF GiveUp, TypeOK
  <1>12. QED
    BY <1>1, <1>2, <1>3, <1>4, <1>5, <1>6, <1>7, <1>8, <1>9, <1>10, <1>11 DEF Next, Locked

-----------------------------------------------------------------------------
(* The inductive invariant, one lemma per kind of step. *)

Related == EntryInv /\ ExecutingInv /\ DoneInv /\ ClockInv /\ SourceInv /\ RetainInv

\* A stutter keeps what calls and entries know of each other.
LEMMA StutterRelated == ASSUME TypeOK, Related, UNCHANGED vars PROVE Related'
  BY DEF Related, EntryInv, ExecutingInv, DoneInv, ClockInv, SourceInv, RetainInv, Executing, Executed, Done,
         Source, Key, Fingerprint, vars

\* When the clock moves, what was in the past stays there.
LEMMA TickRelated == ASSUME TypeOK, Related, Tick PROVE Related'
  <1>1. now \in Nat /\ now' = now + 1
    BY LimitsAssumption DEF Tick, TypeOK
  <1>2. \A c \in Calls : at[c] \in Nat /\ expires[c] \in Nat
    BY LimitsAssumption DEF TypeOK
  <1>3. ClockInv'
    <2>1. SUFFICES ASSUME NEW c \in Calls PROVE at'[c] <= now'
      BY DEF ClockInv
    <2>2. at[c] <= now /\ at'[c] = at[c]
      BY DEF Related, ClockInv, Tick
    <2>3. QED
      BY <1>1, <1>2, <2>2
  <1>4. RetainInv'
    <2>1. SUFFICES ASSUME NEW d \in Calls, Executed(d)'
                   PROVE  (entries[Key(d)] = d \/ d \in evicted \/ expires[d] <= now)'
      BY DEF RetainInv
    <2>2. entries[Key(d)] = d \/ d \in evicted \/ expires[d] <= now
      BY <2>1 DEF Related, RetainInv, Executed, Tick
    <2>3. expires[d] <= now => expires[d] <= now'
      BY <1>1, <1>2
    <2>4. QED
      BY <2>2, <2>3 DEF Tick, Key
  <1>5. (EntryInv /\ ExecutingInv /\ DoneInv /\ SourceInv)'
    BY DEF Related, Tick, EntryInv, ExecutingInv, DoneInv, SourceInv, Executing, Executed, Done, Source, Key, Fingerprint
  <1>6. QED
    BY <1>3, <1>4, <1>5 DEF Related

\* A call that arrives is not yet known to any entry or waiter.
LEMMA ArriveRelated == ASSUME TypeOK, Related, NEW c \in Calls, Arrive(c) PROVE Related'
  <1>1. \A d \in Calls : d # c => pc'[d] = pc[d] /\ Key(d)' = Key(d) /\ Fingerprint(d)' = Fingerprint(d) /\ at'[d] = at[d]
    BY DEF Arrive, TypeOK, Key, Fingerprint
  <1>2. pc[c] = "new" /\ pc'[c] = "arrived" /\ at'[c] = now
    BY DEF Arrive, TypeOK
  <1>3. ~Executing(c) /\ ~Executed(c) /\ ~Executing(c)' /\ ~Executed(c)'
    BY <1>2 DEF Executing, Executed
  <1>4. UNCHANGED <<now, entries, expires, result, answer, evicted>>
    BY DEF Arrive
  <1>5. \A d \in Calls : (Executing(d)' <=> Executing(d)) /\ (Executed(d)' <=> Executed(d)) /\ (Done(d)' <=> Done(d))
    BY <1>1, <1>3, <1>4 DEF Executing, Executed, Done
  <1>6. EntryInv'
    <2>1. SUFFICES ASSUME NEW k \in Keys, NEW d \in Calls, entries[k] = d
                   PROVE  (Key(d) = k /\ (Executing(d) \/ Executed(d)))'
      BY <1>4 DEF EntryInv
    <2>2. Key(d) = k /\ (Executing(d) \/ Executed(d))
      BY <2>1 DEF Related, EntryInv
    <2>3. QED
      BY <1>1, <1>3, <1>5, <2>2
  <1>7. ExecutingInv'
    BY <1>1, <1>3, <1>4, <1>5 DEF Related, ExecutingInv
  <1>8. DoneInv'
    BY <1>4, <1>5 DEF Related, DoneInv
  <1>9. ClockInv'
    <2>1. now \in Nat
      BY LimitsAssumption DEF TypeOK
    <2>2. QED
      BY <1>1, <1>2, <1>4, <2>1 DEF Related, ClockInv
  <1>10. SourceInv'
    <2>1. ASSUME NEW d \in Calls, NEW s \in Calls, d # c, Source(d, s) PROVE Source(d, s)'
      BY <1>1, <1>3, <1>4, <1>5, <2>1 DEF Source
    <2>2. answer[c].kind # "replayed" /\ answer[c].kind = "none"
      BY <1>2 DEF Related, SourceInv
    <2>3. \A d \in Calls : d # c => (pc'[d] = "waiting" <=> pc[d] = "waiting") /\ (pc'[d] = "answered" <=> pc[d] = "answered")
      BY <1>1
    <2>4. QED
      BY <1>2, <1>4, <2>1, <2>2, <2>3 DEF Related, SourceInv
  <1>11. RetainInv'
    BY <1>1, <1>3, <1>4, <1>5 DEF Related, RetainInv
  <1>12. QED
    BY <1>6, <1>7, <1>8, <1>9, <1>10, <1>11 DEF Related
\* A call that has arrived has no entry, no waiters and no answer yet.
LEMMA ArrivedFacts ==
    ASSUME TypeOK, Related, NEW c \in Calls, pc[c] = "arrived"
    PROVE  /\ ~Executing(c) /\ ~Executed(c) /\ expires[c] = 0
           /\ answer[c].kind = "none"
           /\ \A k \in Keys : entries[k] # c
           /\ Key(c) \in Keys
  <1>1. ~Executing(c) /\ ~Executed(c)
    BY DEF Executing, Executed
  <1>2. expires[c] = 0
    BY <1>1 DEF Related, DoneInv, Done
  <1>3. answer[c].kind = "none"
    BY DEF Related, SourceInv
  <1>4. \A k \in Keys : entries[k] # c
    BY <1>1 DEF Related, EntryInv
  <1>5. Key(c) \in Keys
    BY DEF TypeOK, Key, Request
  <1>6. QED
    BY <1>1, <1>2, <1>3, <1>4, <1>5

\* What every step under the mutex has in common: it moves one call, keeps the entries of
\* writes in flight and drops others only when they have expired or make room.
Moves(c, x, s) ==
    /\ pc[c] = "arrived" /\ pc' = [pc EXCEPT ![c] = x]
    /\ UNCHANGED <<now, req, at, expires, result>>
    /\ \A d \in Calls : d # c => answer'[d] = answer[d]
    /\ \A k \in Keys : entries'[k] = c => k = Key(c) /\ x = "executing"
    /\ \A k \in Keys, d \in Calls : entries'[k] = d /\ d # c => entries[k] = d
    /\ \A k \in Keys, d \in Calls : entries[k] = d /\ Executing(d) => entries'[k] = d
    /\ \A k \in Keys, d \in Calls : entries[k] = d /\ Executed(d) =>
          entries'[k] = d \/ d \in evicted' \/ expires[d] <= now
    /\ evicted \subseteq evicted'
    /\ x = "executing" => entries'[Key(c)] = c /\ answer'[c].kind = "none"
    /\ x = "answered" => answer'[c].kind \in {"conflict", "busy"}
    /\ x = "waiting" => answer'[c].kind = "none" /\ answer'[c].from = s /\ s \in Calls \ {c} /\ Source(c, s)

\* Such a step keeps what calls and entries know of each other.
LEMMA LockedRelated ==
    ASSUME TypeOK, Related, NEW c \in Calls, NEW x \in {"answered", "waiting", "executing"}, NEW s, Moves(c, x, s)
    PROVE  Related'
  <1> USE DEF Moves
  <1>1. \A d \in Calls : d # c => pc'[d] = pc[d]
    BY DEF TypeOK
  <1>2. pc'[c] = x
    BY DEF TypeOK
  <1>3. \A d \in Calls : Key(d)' = Key(d) /\ Fingerprint(d)' = Fingerprint(d) /\ (Done(d)' <=> Done(d))
    BY DEF Key, Fingerprint, Done
  <1>4. ~Executing(c) /\ ~Executed(c) /\ expires[c] = 0 /\ answer[c].kind = "none"
    BY ArrivedFacts
  <1>5. ~Executed(c)'
    BY <1>2 DEF Executed
  <1>6. Executing(c)' <=> x = "executing"
    BY <1>2 DEF Executing
  <1>7. \A d \in Calls : d # c => (Executing(d)' <=> Executing(d)) /\ (Executed(d)' <=> Executed(d))
    BY <1>1 DEF Executing, Executed
  <1>8. EntryInv'
    <2>1. SUFFICES ASSUME NEW k \in Keys, NEW d \in Calls, entries'[k] = d
                   PROVE  (Key(d) = k /\ (Executing(d) \/ Executed(d)))'
      BY DEF EntryInv
    <2>2. CASE d = c
      BY <1>3, <1>6, <2>1, <2>2
    <2>3. CASE d # c
      BY <1>3, <1>7, <2>1, <2>3 DEF Related, EntryInv
    <2>4. QED
      BY <2>2, <2>3
  <1>9. ExecutingInv'
    <2>1. SUFFICES ASSUME NEW d \in Calls, Executing(d)' PROVE (entries[Key(d)] = d /\ expires[d] = 0)'
      BY DEF ExecutingInv
    <2>2. CASE d = c
      BY <1>3, <1>4, <1>6, <2>1, <2>2
    <2>3. CASE d # c
      <3>1. Executing(d) /\ entries[Key(d)] = d /\ expires[d] = 0 /\ Key(d) \in Keys
        BY <1>7, <2>1, <2>3 DEF Related, ExecutingInv, TypeOK, Key, Request
      <3>2. QED
        BY <1>3, <3>1
    <2>4. QED
      BY <2>2, <2>3
  <1>10. DoneInv'
    BY <1>3, <1>4, <1>5, <1>7 DEF Related, DoneInv, Done
  <1>11. ClockInv'
    BY DEF Related, ClockInv
  <1>12. SourceInv'
    <2>1. ASSUME NEW d \in Calls, NEW r \in Calls, d # c, r # c, Source(d, r) PROVE Source(d, r)'
      BY <1>3, <1>7, <2>1 DEF Source
    <2>2. ASSUME NEW d \in Calls, Source(d, c) PROVE FALSE
      BY <1>4, <2>2 DEF Source
    <2>3. ASSUME NEW d \in Calls, d # c
          PROVE  /\ pc'[d] = "waiting" \/ answer'[d].kind = "replayed" =>
                        \E r \in Calls : answer'[d].from = r /\ Source(d, r)'
                 /\ answer'[d].kind # "none" => pc'[d] = "answered"
      BY <1>1, <2>1, <2>2, <2>3 DEF Related, SourceInv
    <2>4. ASSUME x = "waiting"
          PROVE  s \in Calls /\ answer'[c].from = s /\ Source(c, s)'
      <3>1. s \in Calls \ {c} /\ answer'[c].from = s /\ Source(c, s)
        BY <2>4
      <3>2. Source(c, s)'
        BY <1>3, <1>7, <2>4, <3>1 DEF Source
      <3>3. QED
        BY <3>1, <3>2
    <2>5. /\ pc'[c] = "waiting" \/ answer'[c].kind = "replayed" => \E r \in Calls : answer'[c].from = r /\ Source(c, r)'
          /\ answer'[c].kind # "none" => pc'[c] = "answered"
      BY <1>2, <2>4
    <2>6. QED
      BY <2>3, <2>5 DEF SourceInv
  <1>13. RetainInv'
    <2>1. SUFFICES ASSUME NEW d \in Calls, Executed(d)'
                   PROVE  (entries[Key(d)] = d \/ d \in evicted \/ expires[d] <= now)'
      BY DEF RetainInv
    <2>2. d # c /\ Executed(d) /\ Key(d) \in Keys
      BY <1>5, <1>7, <2>1 DEF TypeOK, Key, Request
    <2>3. entries[Key(d)] = d \/ d \in evicted \/ expires[d] <= now
      BY <2>2 DEF Related, RetainInv
    <2>4. QED
      BY <1>3, <2>2, <2>3
  <1>14. QED
    BY <1>8, <1>9, <1>10, <1>11, <1>12, <1>13 DEF Related

\* What purging means for the hypotheses of LockedRelated.
LEMMA PurgedRelated ==
    ASSUME TypeOK, Related, NEW c \in Calls, pc[c] = "arrived"
    PROVE  /\ \A k \in Keys : Purged(c)[k] # c
           /\ \A k \in Keys, d \in Calls : Purged(c)[k] = d => entries[k] = d
           /\ \A k \in Keys, d \in Calls : entries[k] = d /\ Executing(d) => Purged(c)[k] = d
           /\ \A k \in Keys, d \in Calls : entries[k] = d /\ Executed(d) => Purged(c)[k] = d \/ expires[d] <= now
  <1>1. ClockInv
    BY DEF Related
  <1>2. \A k \in Keys, d \in Calls : Purged(c)[k] = d => entries[k] = d
    BY <1>1, PurgedFacts, NoneAssumption
  <1>3. \A k \in Keys : Purged(c)[k] # c
    BY <1>2, ArrivedFacts
  <1>4. \A d \in Calls : Executing(d) => ~Done(d)
    BY DEF Related, ExecutingInv, Done
  <1>5. \A k \in Keys, d \in Calls : entries[k] = d /\ Executing(d) => Purged(c)[k] = d
    BY <1>1, <1>4, PurgedFacts, NoneAssumption
  <1>6. \A k \in Keys, d \in Calls : entries[k] = d => Purged(c)[k] = d \/ expires[d] <= now
    BY <1>1, PurgedFacts, NoneAssumption
  <1>7. QED
    BY <1>2, <1>3, <1>5, <1>6
\* A refused call only purges.
LEMMA RefusedRelated == ASSUME TypeOK, Related, NEW c \in Calls, Conflict(c) \/ Busy(c) PROVE Related'
  <1>1. PICK kind \in {"conflict", "busy"} : Answered(c, kind, None)
    BY DEF Conflict, Busy
  <1>2. pc[c] = "arrived" /\ entries' = Purged(c) /\ UNCHANGED <<now, req, at, expires, result, evicted>>
    BY DEF Conflict, Busy
  <1>3. pc' = [pc EXCEPT ![c] = "answered"] /\ answer'[c].kind = kind /\ \A d \in Calls : d # c => answer'[d] = answer[d]
    BY <1>1 DEF Answered, TypeOK
  <1>4. /\ \A k \in Keys : entries'[k] # c
        /\ \A k \in Keys, d \in Calls : entries'[k] = d => entries[k] = d
        /\ \A k \in Keys, d \in Calls : entries[k] = d /\ Executing(d) => entries'[k] = d
        /\ \A k \in Keys, d \in Calls : entries[k] = d /\ Executed(d) => entries'[k] = d \/ expires[d] <= now
    BY <1>2, PurgedRelated
  <1>5. evicted \subseteq evicted' /\ answer'[c].kind \in {"conflict", "busy"}
    BY <1>2, <1>3
  <1>6. Moves(c, "answered", c)
    BY <1>2, <1>3, <1>4, <1>5 DEF Moves
  <1>7. QED
    BY <1>6, LockedRelated

\* A call that joins another waits for the owner of the entry of its key.
LEMMA JoinRelated == ASSUME TypeOK, Related, NEW c \in Calls, Join(c) PROVE Related'
  <1> DEFINE d == Purged(c)[Key(c)]
  <1>1. /\ pc[c] = "arrived" /\ entries' = Purged(c) /\ UNCHANGED <<now, req, at, expires, result, evicted>>
        /\ pc' = [pc EXCEPT ![c] = "waiting"]
        /\ d # None /\ Fingerprint(d) = Fingerprint(c)
        /\ answer' = [answer EXCEPT ![c] = [kind |-> "none", from |-> d]]
    BY DEF Join
  <1>2. d \in Calls /\ entries[Key(c)] = d /\ d # c
    <2>1. ClockInv
      BY DEF Related
    <2>2. QED
      BY <1>1, <2>1, ArrivedFacts, PurgedFacts, PurgedRelated
  <1>3. Key(d) = Key(c) /\ (Executing(d) \/ Executed(d))
    BY <1>1, <1>2, ArrivedFacts DEF Related, EntryInv
  <1>4. Source(c, d)
    BY <1>1, <1>3, ArrivedFacts DEF Source
  <1>5. answer'[c].kind = "none" /\ answer'[c].from = d /\ \A e \in Calls : e # c => answer'[e] = answer[e]
    BY <1>1 DEF TypeOK
  <1>6. answer'[c].from = d /\ d \in Calls \ {c} /\ Source(c, d)
    BY <1>2, <1>4, <1>5
  <1>7. /\ \A k \in Keys : entries'[k] # c
        /\ \A k \in Keys, e \in Calls : entries'[k] = e => entries[k] = e
        /\ \A k \in Keys, e \in Calls : entries[k] = e /\ Executing(e) => entries'[k] = e
        /\ \A k \in Keys, e \in Calls : entries[k] = e /\ Executed(e) => entries'[k] = e \/ expires[e] <= now
    BY <1>1, PurgedRelated
  <1> HIDE DEF d
  <1>8. Moves(c, "waiting", d)
    BY <1>1, <1>5, <1>6, <1>7 DEF Moves
  <1>9. QED
    BY <1>8, LockedRelated

\* A call that is admitted into a map with room owns the entry of its key.
LEMMA AdmitRelated == ASSUME TypeOK, Related, NEW c \in Calls, Admit(c) PROVE Related'
  <1>1. /\ pc[c] = "arrived" /\ UNCHANGED <<now, req, at, expires, result, answer, evicted>>
        /\ pc' = [pc EXCEPT ![c] = "executing"]
        /\ Purged(c)[Key(c)] = None
        /\ entries' = [Purged(c) EXCEPT ![Key(c)] = c]
    BY DEF Admit
  <1>2. Purged(c) \in [Keys -> Calls \cup {None}] /\ Key(c) \in Keys
    BY <1>1, PurgedFacts, ArrivedFacts DEF Related
  <1>3. entries'[Key(c)] = c /\ \A k \in Keys : k # Key(c) => entries'[k] = Purged(c)[k]
    BY <1>1, <1>2
  <1>4. answer'[c].kind = "none"
    BY <1>1, ArrivedFacts
  <1>5. \A k \in Keys : entries'[k] = c => k = Key(c)
    BY <1>1, <1>3, PurgedRelated
  <1>6. \A k \in Keys, d \in Calls : entries'[k] = d /\ d # c => entries[k] = d
    BY <1>1, <1>3, PurgedRelated
  <1>7. \A k \in Keys, d \in Calls : Purged(c)[k] = d => k # Key(c)
    BY <1>1, NoneAssumption
  <1>8. \A k \in Keys, d \in Calls : entries[k] = d /\ Executing(d) => entries'[k] = d
    BY <1>1, <1>3, <1>7, PurgedRelated
  <1>9. \A k \in Keys, d \in Calls : entries[k] = d /\ Executed(d) => entries'[k] = d \/ expires[d] <= now
    BY <1>1, <1>3, <1>7, PurgedRelated
  <1>10. Moves(c, "executing", c)
    BY <1>1, <1>3, <1>4, <1>5, <1>6, <1>8, <1>9 DEF Moves
  <1>11. QED
    BY <1>10, LockedRelated

\* A call that makes room drops an entry of a finished write.
LEMMA EvictRelated == ASSUME TypeOK, Related, NEW c \in Calls, AdmitEvicting(c) PROVE Related'
  <1>1. /\ pc[c] = "arrived" /\ UNCHANGED <<now, req, at, expires, result, answer>>
        /\ pc' = [pc EXCEPT ![c] = "executing"]
        /\ Purged(c)[Key(c)] = None
    BY DEF AdmitEvicting
  <1>2. PICK j \in Oldest(Purged(c)) :
           /\ entries' = [Purged(c) EXCEPT ![j] = None, ![Key(c)] = c]
           /\ evicted' = evicted \cup {entries[j]}
    BY DEF AdmitEvicting
  <1>3. Purged(c) \in [Keys -> Calls \cup {None}] /\ Key(c) \in Keys
    BY <1>1, PurgedFacts, ArrivedFacts DEF Related
  <1>4. j \in Keys /\ Purged(c)[j] # None /\ Done(Purged(c)[j])
    BY DEF Oldest, Used
  <1>5. Purged(c)[j] = entries[j] /\ entries[j] \in Calls /\ Done(entries[j]) /\ j # Key(c)
    BY <1>1, <1>3, <1>4, PurgedRelated
  <1>6. ~Executing(entries[j])
    BY <1>5 DEF Related, ExecutingInv, Done
  <1>7. /\ entries'[Key(c)] = c /\ entries'[j] = None
        /\ \A k \in Keys : k # Key(c) /\ k # j => entries'[k] = Purged(c)[k]
    BY <1>2, <1>3, <1>4, <1>5
  <1>8. answer'[c].kind = "none"
    BY <1>1, ArrivedFacts
  <1>9. \A k \in Keys : entries'[k] = c => k = Key(c)
    BY <1>1, <1>7, NoneAssumption, PurgedRelated
  <1>10. \A k \in Keys, d \in Calls : entries'[k] = d /\ d # c => entries[k] = d
    BY <1>1, <1>7, NoneAssumption, PurgedRelated
  <1>11. \A k \in Keys, d \in Calls : Purged(c)[k] = d => k # Key(c)
    BY <1>1, NoneAssumption
  <1>12. \A k \in Keys, d \in Calls : entries[k] = d /\ Executing(d) => entries'[k] = d
    BY <1>1, <1>6, <1>7, <1>11, PurgedRelated
  <1>13. \A k \in Keys, d \in Calls : entries[k] = d /\ Executed(d) =>
            entries'[k] = d \/ d \in evicted' \/ expires[d] <= now
    BY <1>1, <1>2, <1>7, <1>11, PurgedRelated
  <1>14. evicted \subseteq evicted'
    BY <1>2
  <1>15. Moves(c, "executing", c)
    BY <1>1, <1>7, <1>8, <1>9, <1>10, <1>12, <1>13, <1>14 DEF Moves
  <1>16. QED
    BY <1>15, LockedRelated

\* A write that finishes dates its entry, which stays.
LEMMA FinishRelated == ASSUME TypeOK, Related, NEW c \in Calls, Finish(c) PROVE Related'
  <1>1. /\ UNCHANGED <<now, req, at, entries, evicted>>
        /\ Executing(c) /\ Executed(c)' /\ ~Executing(c)' /\ Done(c)' /\ result'[c] # "none"
        /\ answer'[c].kind = "executed" /\ pc'[c] = "answered"
    <2>1. now + TTL # 0
      BY LimitsAssumption DEF TypeOK
    <2>2. expires'[c] # 0
      BY <2>1 DEF Finish, TypeOK
    <2>3. "none" \notin Outcome
      BY DEF Outcome
    <2>4. result'[c] \in Outcome
      BY DEF Finish, TypeOK
    <2>5. QED
      BY <2>2, <2>3, <2>4 DEF Finish, Answered, TypeOK, Executing, Executed, Done
  <1>2. ~Executed(c)
    BY <1>1 DEF Executing, Executed
  <1>3. \A d \in Calls : d # c => pc'[d] = pc[d] /\ answer'[d] = answer[d] /\ expires'[d] = expires[d] /\ result'[d] = result[d]
    BY DEF Finish, Answered, TypeOK
  <1>4. \A d \in Calls : Key(d)' = Key(d) /\ Fingerprint(d)' = Fingerprint(d)
    BY <1>1 DEF Key, Fingerprint
  <1>5. \A d \in Calls : d # c => (Executing(d)' <=> Executing(d)) /\ (Executed(d)' <=> Executed(d)) /\ (Done(d)' <=> Done(d))
    BY <1>3 DEF Executing, Executed, Done
  <1>6. EntryInv'
    BY <1>1, <1>4, <1>5 DEF Related, EntryInv
  <1>7. ExecutingInv'
    BY <1>1, <1>3, <1>4, <1>5 DEF Related, ExecutingInv
  <1>8. DoneInv'
    BY <1>1, <1>3, <1>5 DEF Related, DoneInv
  <1>9. ClockInv'
    BY <1>1 DEF Related, ClockInv
  <1>10. SourceInv'
    <2>1. ASSUME NEW d \in Calls, NEW s \in Calls, d # c, Source(d, s) PROVE Source(d, s)'
      BY <1>1, <1>3, <1>4, <1>5, <2>1 DEF Source
    <2>2. QED
      BY <1>1, <1>3, <2>1 DEF Related, SourceInv
  <1>11. RetainInv'
    <2>1. entries[Key(c)] = c
      BY <1>1 DEF Related, ExecutingInv
    <2>2. QED
      BY <1>1, <1>3, <1>4, <1>5, <2>1 DEF Related, RetainInv
  <1>12. QED
    BY <1>6, <1>7, <1>8, <1>9, <1>10, <1>11 DEF Related

\* The end of a wait touches nothing but the call that waited.
LEMMA WaitEndsRelated == ASSUME TypeOK, Related, NEW c \in Calls, Wake(c) \/ GiveUp(c) PROVE Related'
  <1>1. /\ UNCHANGED <<now, req, at, entries, expires, result, evicted>>
        /\ pc[c] = "waiting" /\ pc'[c] = "answered"
        /\ answer'[c].kind = "cancelled" \/ (answer'[c].kind = "replayed" /\ answer'[c].from = answer[c].from /\ Done(answer[c].from))
        /\ \A d \in Calls : d # c => pc'[d] = pc[d] /\ answer'[d] = answer[d]
    BY DEF Wake, GiveUp, Answered, TypeOK
  <1>2. ~Executing(c) /\ ~Executed(c) /\ ~Executing(c)' /\ ~Executed(c)'
    BY <1>1 DEF Executing, Executed
  <1>3. \A d \in Calls : Key(d)' = Key(d) /\ Fingerprint(d)' = Fingerprint(d) /\ (Done(d)' <=> Done(d))
    BY <1>1 DEF Key, Fingerprint, Done
  <1>4. \A d \in Calls : (Executing(d)' <=> Executing(d)) /\ (Executed(d)' <=> Executed(d))
    BY <1>1, <1>2 DEF Executing, Executed
  <1>5. EntryInv' /\ ExecutingInv' /\ DoneInv' /\ ClockInv' /\ RetainInv'
    BY <1>1, <1>3, <1>4 DEF Related, EntryInv, ExecutingInv, DoneInv, ClockInv, RetainInv
  <1>6. SourceInv'
    <2>1. ASSUME NEW d \in Calls, NEW s \in Calls, d # c, Source(d, s) PROVE Source(d, s)'
      BY <1>1, <1>3, <1>4, <2>1 DEF Source
    <2>2. PICK s \in Calls : answer[c].from = s /\ Source(c, s)
      BY <1>1 DEF Related, SourceInv
    <2>3. answer'[c].kind = "replayed" => answer'[c].from = s /\ Done(s) /\ Executed(s)
      BY <1>1, <2>2 DEF Related, DoneInv
    <2>4. answer'[c].kind = "replayed" => Source(c, s)'
      BY <1>3, <1>4, <2>2, <2>3 DEF Source
    <2>5. QED
      BY <1>1, <2>1, <2>3, <2>4 DEF Related, SourceInv
  <1>7. QED
    BY <1>5, <1>6 DEF Related

\* Every step keeps what calls and entries know of each other.
LEMMA NextRelated == TypeOK /\ Related /\ [Next]_vars => Related'
  BY StutterRelated, TickRelated, ArriveRelated, RefusedRelated, JoinRelated, AdmitRelated, EvictRelated, FinishRelated,
     WaitEndsRelated DEF Next, Locked
-----------------------------------------------------------------------------
(* Capacity. *)

\* The map is within its limit after every step.
LEMMA NextCapacity == TypeOK /\ Related /\ WithinCapacity /\ [Next]_vars => WithinCapacity'
  <1> SUFFICES ASSUME TypeOK, Related, WithinCapacity, [Next]_vars PROVE Cardinality(Used(entries')) <= Capacity
    BY DEF WithinCapacity, Used
  <1> USE DEF WithinCapacity
  <1>1. ClockInv /\ Capacity \in Nat
    BY LimitsAssumption DEF Related
  <1>2. CASE entries' = entries
    BY <1>2
  <1>3. ASSUME NEW c \in Calls, entries' = Purged(c) PROVE Cardinality(Used(entries')) <= Capacity
    BY <1>1, <1>3, PurgedNoLarger, UsedFinite
  <1>4. ASSUME NEW c \in Calls, Admit(c) PROVE Cardinality(Used(entries')) <= Capacity
    <2>1. entries' = [Purged(c) EXCEPT ![Key(c)] = c] /\ ~(Cardinality(Used(Purged(c))) >= Capacity)
      BY <1>4 DEF Admit, Full
    <2>2. Purged(c) \in [Keys -> Calls \cup {None}]
      BY <1>1, PurgedFacts
    <2>3. Used(entries') \in SUBSET (Used(Purged(c)) \cup {Key(c)})
      BY <2>1, <2>2 DEF Used
    <2>4. IsFiniteSet(Used(Purged(c)) \cup {Key(c)}) /\ Cardinality(Used(Purged(c)) \cup {Key(c)}) <= Cardinality(Used(Purged(c))) + 1
      BY UsedFinite, FS_AddElement
    <2>5. Cardinality(Used(entries')) <= Cardinality(Used(Purged(c)) \cup {Key(c)})
      BY <2>3, <2>4, FS_Subset
    <2>6. Cardinality(Used(Purged(c)) \cup {Key(c)}) \in Nat
      BY <2>4, FS_CardinalityType
    <2>7. QED
      BY <1>1, <2>1, <2>4, <2>5, <2>6, UsedFinite
  <1>5. ASSUME NEW c \in Calls, AdmitEvicting(c) PROVE Cardinality(Used(entries')) <= Capacity
    <2>1. PICK j \in Oldest(Purged(c)) : entries' = [Purged(c) EXCEPT ![j] = None, ![Key(c)] = c]
      BY <1>5 DEF AdmitEvicting
    <2>2. j \in Used(Purged(c)) /\ j # Key(c)
      BY <1>5 DEF Oldest, AdmitEvicting, Used
    <2>3. Purged(c) \in [Keys -> Calls \cup {None}]
      BY <1>1, PurgedFacts
    <2>4. Used(entries') \in SUBSET ((Used(Purged(c)) \ {j}) \cup {Key(c)})
      BY <2>1, <2>2, <2>3 DEF Used
    <2>5. IsFiniteSet(Used(Purged(c)) \ {j}) /\ Cardinality(Used(Purged(c)) \ {j}) = Cardinality(Used(Purged(c))) - 1
      BY <2>2, UsedFinite, FS_RemoveElement
    <2>6. /\ IsFiniteSet((Used(Purged(c)) \ {j}) \cup {Key(c)})
          /\ Cardinality((Used(Purged(c)) \ {j}) \cup {Key(c)}) <= Cardinality(Used(Purged(c)))
      <3>1. Cardinality(Used(Purged(c)) \ {j}) \in Nat
        BY <2>5, FS_CardinalityType
      <3>2. /\ IsFiniteSet((Used(Purged(c)) \ {j}) \cup {Key(c)})
            /\ Cardinality((Used(Purged(c)) \ {j}) \cup {Key(c)}) =
                  IF Key(c) \in Used(Purged(c)) \ {j} THEN Cardinality(Used(Purged(c)) \ {j})
                                                    ELSE Cardinality(Used(Purged(c)) \ {j}) + 1
        BY <2>5, FS_AddElement
      <3>3. Cardinality(Used(Purged(c))) \in Nat
        BY UsedFinite
      <3>4. QED
        BY <2>5, <3>1, <3>2, <3>3
    <2>7. Cardinality(Used(entries')) <= Cardinality((Used(Purged(c)) \ {j}) \cup {Key(c)})
      BY <2>4, <2>6, FS_Subset
    <2>8. Cardinality((Used(Purged(c)) \ {j}) \cup {Key(c)}) \in Nat
      BY <2>6, FS_CardinalityType
    <2>9. QED
      BY <1>1, <2>6, <2>7, <2>8, PurgedNoLarger, UsedFinite
  <1>6. UNCHANGED vars => entries' = entries
    BY DEF vars
  <1>7. Tick => entries' = entries
    BY DEF Tick
  <1>8. \A c \in Calls : Arrive(c) \/ Finish(c) \/ Wake(c) \/ GiveUp(c) => entries' = entries
    BY DEF Arrive, Finish, Wake, GiveUp
  <1>9. \A c \in Calls : Conflict(c) \/ Join(c) \/ Busy(c) => entries' = Purged(c)
    BY DEF Conflict, Join, Busy
  <1>10. QED
    BY <1>2, <1>3, <1>4, <1>5, <1>6, <1>7, <1>8, <1>9 DEF Next, Locked

-----------------------------------------------------------------------------
(* Theorems. *)

\* The empty store satisfies the invariant.
LEMMA InitInv == Init => IInv
  <1> SUFFICES ASSUME Init PROVE IInv
    OBVIOUS
  <1>1. TypeOK
    BY InitType
  <1>2. \A c \in Calls : ~Executing(c) /\ ~Executed(c) /\ ~Done(c) /\ pc[c] = "new" /\ answer[c].kind = "none"
    BY DEF Init, Executing, Executed, Done, NoAnswer
  <1>3. EntryInv
    BY NoneAssumption DEF Init, EntryInv
  <1>4. ExecutingInv /\ DoneInv /\ RetainInv
    BY <1>2 DEF ExecutingInv, DoneInv, RetainInv
  <1>5. ClockInv
    BY DEF Init, ClockInv
  <1>6. SourceInv
    BY <1>2 DEF SourceInv
  <1>7. WithinCapacity
    <2>1. Used(entries) = {}
      BY DEF Init, Used
    <2>2. QED
      BY <2>1, FS_EmptySet, LimitsAssumption DEF WithinCapacity
  <1>8. QED
    BY <1>1, <1>3, <1>4, <1>5, <1>6, <1>7 DEF IInv

\* The inductive invariant of the store: an entry belongs to a call that executes or has
\* executed, a call that executes owns the entry of its key, waiters hang on such calls.
THEOREM StoreInvariance == Spec => []IInv
  <1>1. Init => IInv
    BY InitInv
  <1>2. IInv /\ [Next]_vars => IInv'
    BY NextType, NextRelated, NextCapacity DEF IInv, Related
  <1>3. QED
    BY <1>1, <1>2, PTL DEF Spec

\* Type correctness of the store.
THEOREM StoreTypeCorrect == Spec => []TypeOK
  <1>1. IInv => TypeOK
    BY DEF IInv
  <1>2. QED
    BY <1>1, StoreInvariance, PTL

\* Never two writes in flight for one key, for any number of concurrent requests.
THEOREM WritesCoalesce == Spec => []OneWritePerKey
  <1>1. IInv => OneWritePerKey
    BY DEF IInv, ExecutingInv, OneWritePerKey
  <1>2. QED
    BY <1>1, StoreInvariance, PTL

\* The map never outgrows its limit, for every limit.
THEOREM CapacityBound == Spec => []WithinCapacity
  <1>1. IInv => WithinCapacity
    BY DEF IInv
  <1>2. QED
    BY <1>1, StoreInvariance, PTL

\* A replayed answer is the outcome of a finished write of the same key and body.
THEOREM GenuineReplay == Spec => []ReplayIsGenuine
  <1>1. IInv => ReplayIsGenuine
    <2> SUFFICES ASSUME IInv, NEW c \in Calls, answer[c].kind = "replayed"
                 PROVE  LET d == answer[c].from
                        IN  /\ answer[d].kind = "executed" /\ result[d] # "none"
                            /\ Key(d) = Key(c) /\ Fingerprint(d) = Fingerprint(c)
      BY DEF ReplayIsGenuine
    <2>1. PICK d \in Calls : answer[c].from = d /\ Source(c, d)
      BY DEF IInv, SourceInv
    <2>2. QED
      BY <2>1 DEF IInv, DoneInv, Source, Executed
  <1>2. QED
    BY <1>1, StoreInvariance, PTL

\* Within the time to live a write that was executed is not executed again under its key
\* unless its entry had to make room.
THEOREM RetriesReplay == Spec => NoRepeatedWrite
  <1> DEFINE Step == \A c, d \in Calls :
          ~Executing(c) /\ Executing(c)' /\ pc[d] = "answered" /\ answer[d].kind = "executed" /\ Key(d) = Key(c)
          => d \in evicted \/ expires[d] <= now
  <1>1. IInv /\ [Next]_vars => Step
    <2> SUFFICES ASSUME IInv, [Next]_vars, NEW c \in Calls, NEW d \in Calls,
                        ~Executing(c), Executing(c)', Executed(d), Key(d) = Key(c)
                 PROVE  d \in evicted \/ expires[d] <= now
      BY DEF Executed
    <2>1. TypeOK /\ ClockInv /\ RetainInv
      BY DEF IInv
    <2>2. pc[c] # "executing" /\ pc'[c] = "executing"
      BY DEF Executing
    <2>3. Admit(c) \/ AdmitEvicting(c)
      <3>1. \A e \in Calls : Arrive(e) \/ Conflict(e) \/ Join(e) \/ Busy(e) \/ Finish(e) \/ Wake(e) \/ GiveUp(e)
               => pc'[c] # "executing"
        BY <2>1, <2>2 DEF Arrive, Conflict, Join, Busy, Finish, Wake, GiveUp, Answered, TypeOK
      <3>2. \A e \in Calls : Admit(e) \/ AdmitEvicting(e) => e = c
        BY <2>1, <2>2 DEF Admit, AdmitEvicting, TypeOK
      <3>3. ~Tick /\ ~UNCHANGED vars
        BY <2>2 DEF Tick, vars
      <3>4. PICK e \in Calls : Arrive(e) \/ Locked(e) \/ Finish(e) \/ Wake(e) \/ GiveUp(e)
        BY <3>3 DEF Next
      <3>5. Admit(e) \/ AdmitEvicting(e)
        BY <2>2, <3>1, <3>4 DEF Locked
      <3>6. QED
        BY <3>2, <3>5
    <2>4. Purged(c)[Key(c)] = None /\ Key(c) \in Keys
      BY <2>1, <2>3 DEF Admit, AdmitEvicting, TypeOK, Key, Request
    <2>5. entries[Key(c)] = d => expires[d] <= now
      BY <2>1, <2>4, NoneAssumption, PurgedFacts
    <2>6. QED
      BY <2>1, <2>5 DEF RetainInv
  <1>2. QED
    BY <1>1, StoreInvariance, PTL DEF Spec, NoRepeatedWrite

\* Nobody waits for a write that is not under way and has not been executed: the part of
\* EveryCallAnswered that is an invariant.
THEOREM WaitersHaveAWrite == Spec => []WaitsForAWrite
  <1>1. ASSUME IInv PROVE WaitsForAWrite
    <2> SUFFICES ASSUME NEW c \in Calls, pc[c] = "waiting"
                 PROVE  Executing(answer[c].from) \/ Done(answer[c].from)
      BY DEF WaitsForAWrite
    <2>1. PICK d \in Calls : answer[c].from = d /\ Source(c, d)
      BY <1>1 DEF IInv, SourceInv
    <2>2. QED
      BY <1>1, <2>1 DEF IInv, DoneInv, Source
  <1>2. QED
    BY <1>1, StoreInvariance, PTL
=============================================================================
