-------------------------- MODULE TTLCache_proofs --------------------------
(***************************************************************************)
(* Theorems about TTLCache for any number of requests, keys and versions.  *)
(***************************************************************************)
EXTENDS TTLCache, TLAPS

USE KeysAssumption, RequestsAssumption DEF Goto, Nothing, Loading

\* The invariant holds before the first request.
LEMMA InitIInv == Init => IInv
  <1> SUFFICES ASSUME Init PROVE IInv
    OBVIOUS
  <1>1. TypeOK
    BY DEF Init, TypeOK
  <1>2. \A k \in Keys : FlightOpen(k) /\ Cached(k)
    BY DEF Init, FlightOpen, Cached
  <1>3. \A r \in Requests : FlightOf(r) /\ AfterReturn(r) /\ Newest(r) /\ Waiting(r) /\ Answered(r)
    BY DEF Init, FlightOf, AfterReturn, Newest, Waiting, Answered
  <1>4. ASSUME NEW r \in Requests PROVE Promise(r)
    <2>1. owed[r] = 0 /\ Key[r] \in Keys
      BY DEF Init
    <2>2. known[Key[r]] = 0
      BY <2>1 DEF Init
    <2>3. QED
      BY <2>1, <2>2 DEF Promise
  <1>5. QED
    BY <1>1, <1>2, <1>3, <1>4 DEF IInv

\* Every action keeps the types.
LEMMA TypesStep ==
    ASSUME IInv, [Next]_vars
    PROVE  TypeOK'
  <1> USE DEF IInv, TypeOK, cacheVars, callVars
  <1>1. ASSUME NEW r \in Requests, Begin(r) PROVE TypeOK'
    BY <1>1 DEF Begin
  <1>2. ASSUME NEW r \in Requests, LookFails(r) PROVE TypeOK'
    BY <1>2 DEF LookFails
  <1>3. ASSUME NEW r \in Requests, Hit(r) PROVE TypeOK'
    BY <1>3 DEF Hit, Deliver
  <1>4. ASSUME NEW r \in Requests, Join(r) PROVE TypeOK'
    BY <1>4 DEF Join, MustLoad
  <1>5. ASSUME NEW r \in Requests, Lead(r) PROVE TypeOK'
    BY <1>5 DEF Lead, MustLoad
  <1>6. ASSUME NEW r \in Requests, Load(r) PROVE TypeOK'
    BY <1>6 DEF Load
  <1>7. ASSUME NEW r \in Requests, Return(r) PROVE TypeOK'
    BY <1>7 DEF Return
  <1>8. ASSUME NEW r \in Requests, Store(r) PROVE TypeOK'
    <2>1. CASE loaded[r] # Nothing
      BY <1>8, <2>1 DEF Store, Deliver
    <2>2. CASE loaded[r] = Nothing
      BY <1>8, <2>2 DEF Store
    <2>3. QED
      BY <2>1, <2>2
  <1>9. ASSUME NEW r \in Requests, Share(r) PROVE TypeOK'
    BY <1>9 DEF Share
  <1>10. ASSUME NEW r \in Requests, FallBack(r) PROVE TypeOK'
    BY <1>10 DEF FallBack, Deliver
  <1>11. ASSUME NEW k \in Keys, Expire(k) PROVE TypeOK'
    BY <1>11 DEF Expire
  <1>12. CASE Change
    BY <1>12 DEF Change
  <1>13. CASE Invalidate
    BY <1>13 DEF Invalidate
  <1>14. CASE UNCHANGED vars
    BY <1>14 DEF vars
  <1>15. QED
    BY <1>1, <1>2, <1>3, <1>4, <1>5, <1>6, <1>7, <1>8, <1>9, <1>10, <1>11, <1>12, <1>13, <1>14 DEF Next, Proceed

\* The loader of a key stays registered until it stores.
LEMMA FlightOfStep ==
    ASSUME IInv, [Next]_vars, NEW q \in Requests
    PROVE  FlightOf(q)'
  <1> USE DEF IInv, TypeOK, cacheVars, callVars, FlightOf, FlightOpen, AfterReturn
  <1>1. ASSUME NEW r \in Requests, Begin(r) PROVE FlightOf(q)'
    BY <1>1 DEF Begin
  <1>2. ASSUME NEW r \in Requests, LookFails(r) PROVE FlightOf(q)'
    BY <1>2 DEF LookFails
  <1>3. ASSUME NEW r \in Requests, Hit(r) PROVE FlightOf(q)'
    BY <1>3 DEF Hit, Deliver
  <1>4. ASSUME NEW r \in Requests, Join(r) PROVE FlightOf(q)'
    BY <1>4 DEF Join, MustLoad
  <1>5. ASSUME NEW r \in Requests, Lead(r) PROVE FlightOf(q)'
    BY <1>5 DEF Lead, MustLoad
  <1>6. ASSUME NEW r \in Requests, Load(r) PROVE FlightOf(q)'
    BY <1>6 DEF Load
  <1>7. ASSUME NEW r \in Requests, Return(r) PROVE FlightOf(q)'
    BY <1>7 DEF Return
  <1>8. ASSUME NEW r \in Requests, Store(r) PROVE FlightOf(q)'
    BY <1>8 DEF Store, Deliver
  <1>9. ASSUME NEW r \in Requests, Share(r) PROVE FlightOf(q)'
    BY <1>9 DEF Share
  <1>10. ASSUME NEW r \in Requests, FallBack(r) PROVE FlightOf(q)'
    BY <1>10 DEF FallBack, Deliver
  <1>11. ASSUME NEW k \in Keys, Expire(k) PROVE FlightOf(q)'
    BY <1>11 DEF Expire
  <1>12. CASE Change
    BY <1>12 DEF Change
  <1>13. CASE Invalidate
    BY <1>13 DEF Invalidate
  <1>14. CASE UNCHANGED vars
    BY <1>14 DEF vars
  <1>15. QED
    BY <1>1, <1>2, <1>3, <1>4, <1>5, <1>6, <1>7, <1>8, <1>9, <1>10, <1>11, <1>12, <1>13, <1>14 DEF Next, Proceed

\* The registered request is loading.
LEMMA FlightOpenStep ==
    ASSUME IInv, [Next]_vars, NEW q \in Keys
    PROVE  FlightOpen(q)'
  <1> USE DEF IInv, TypeOK, cacheVars, callVars, FlightOf, FlightOpen, AfterReturn
  <1>1. ASSUME NEW r \in Requests, Begin(r) PROVE FlightOpen(q)'
    BY <1>1 DEF Begin
  <1>2. ASSUME NEW r \in Requests, LookFails(r) PROVE FlightOpen(q)'
    BY <1>2 DEF LookFails
  <1>3. ASSUME NEW r \in Requests, Hit(r) PROVE FlightOpen(q)'
    BY <1>3 DEF Hit, Deliver
  <1>4. ASSUME NEW r \in Requests, Join(r) PROVE FlightOpen(q)'
    BY <1>4 DEF Join, MustLoad
  <1>5. ASSUME NEW r \in Requests, Lead(r) PROVE FlightOpen(q)'
    BY <1>5 DEF Lead, MustLoad
  <1>6. ASSUME NEW r \in Requests, Load(r) PROVE FlightOpen(q)'
    BY <1>6 DEF Load
  <1>7. ASSUME NEW r \in Requests, Return(r) PROVE FlightOpen(q)'
    BY <1>7 DEF Return
  <1>8. ASSUME NEW r \in Requests, Store(r) PROVE FlightOpen(q)'
    BY <1>8 DEF Store, Deliver
  <1>9. ASSUME NEW r \in Requests, Share(r) PROVE FlightOpen(q)'
    BY <1>9 DEF Share
  <1>10. ASSUME NEW r \in Requests, FallBack(r) PROVE FlightOpen(q)'
    BY <1>10 DEF FallBack, Deliver
  <1>11. ASSUME NEW k \in Keys, Expire(k) PROVE FlightOpen(q)'
    BY <1>11 DEF Expire
  <1>12. CASE Change
    BY <1>12 DEF Change
  <1>13. CASE Invalidate
    BY <1>13 DEF Invalidate
  <1>14. CASE UNCHANGED vars
    BY <1>14 DEF vars
  <1>15. QED
    BY <1>1, <1>2, <1>3, <1>4, <1>5, <1>6, <1>7, <1>8, <1>9, <1>10, <1>11, <1>12, <1>13, <1>14 DEF Next, Proceed

\* A call is done only after its load.
LEMMA AfterReturnStep ==
    ASSUME IInv, [Next]_vars, NEW q \in Requests
    PROVE  AfterReturn(q)'
  <1> USE DEF IInv, TypeOK, cacheVars, callVars, AfterReturn
  <1>1. ASSUME NEW r \in Requests, Begin(r) PROVE AfterReturn(q)'
    BY <1>1 DEF Begin
  <1>2. ASSUME NEW r \in Requests, LookFails(r) PROVE AfterReturn(q)'
    BY <1>2 DEF LookFails
  <1>3. ASSUME NEW r \in Requests, Hit(r) PROVE AfterReturn(q)'
    BY <1>3 DEF Hit, Deliver
  <1>4. ASSUME NEW r \in Requests, Join(r) PROVE AfterReturn(q)'
    BY <1>4 DEF Join, MustLoad
  <1>5. ASSUME NEW r \in Requests, Lead(r) PROVE AfterReturn(q)'
    BY <1>5 DEF Lead, MustLoad
  <1>6. ASSUME NEW r \in Requests, Load(r) PROVE AfterReturn(q)'
    BY <1>6 DEF Load
  <1>7. ASSUME NEW r \in Requests, Return(r) PROVE AfterReturn(q)'
    BY <1>7 DEF Return
  <1>8. ASSUME NEW r \in Requests, Store(r) PROVE AfterReturn(q)'
    BY <1>8 DEF Store, Deliver
  <1>9. ASSUME NEW r \in Requests, Share(r) PROVE AfterReturn(q)'
    BY <1>9 DEF Share
  <1>10. ASSUME NEW r \in Requests, FallBack(r) PROVE AfterReturn(q)'
    BY <1>10 DEF FallBack, Deliver
  <1>11. ASSUME NEW k \in Keys, Expire(k) PROVE AfterReturn(q)'
    BY <1>11 DEF Expire
  <1>12. CASE Change
    BY <1>12 DEF Change
  <1>13. CASE Invalidate
    BY <1>13 DEF Invalidate
  <1>14. CASE UNCHANGED vars
    BY <1>14 DEF vars
  <1>15. QED
    BY <1>1, <1>2, <1>3, <1>4, <1>5, <1>6, <1>7, <1>8, <1>9, <1>10, <1>11, <1>12, <1>13, <1>14 DEF Next, Proceed

\* What is cached is not older than what is known.
LEMMA CachedStep ==
    ASSUME IInv, [Next]_vars, NEW q \in Keys
    PROVE  Cached(q)'
  <1> USE DEF IInv, TypeOK, cacheVars, callVars, FlightOf, FlightOpen, Cached, Newest
  <1>1. ASSUME NEW r \in Requests, Begin(r) PROVE Cached(q)'
    BY <1>1 DEF Begin
  <1>2. ASSUME NEW r \in Requests, LookFails(r) PROVE Cached(q)'
    BY <1>2 DEF LookFails
  <1>3. ASSUME NEW r \in Requests, Hit(r) PROVE Cached(q)'
    BY <1>3 DEF Hit, Deliver
  <1>4. ASSUME NEW r \in Requests, Join(r) PROVE Cached(q)'
    BY <1>4 DEF Join, MustLoad
  <1>5. ASSUME NEW r \in Requests, Lead(r) PROVE Cached(q)'
    BY <1>5 DEF Lead, MustLoad
  <1>6. ASSUME NEW r \in Requests, Load(r) PROVE Cached(q)'
    BY <1>6 DEF Load
  <1>7. ASSUME NEW r \in Requests, Return(r) PROVE Cached(q)'
    BY <1>7 DEF Return
  <1>8. ASSUME NEW r \in Requests, Store(r) PROVE Cached(q)'
    BY <1>8 DEF Store, Deliver
  <1>9. ASSUME NEW r \in Requests, Share(r) PROVE Cached(q)'
    BY <1>9 DEF Share
  <1>10. ASSUME NEW r \in Requests, FallBack(r) PROVE Cached(q)'
    BY <1>10 DEF FallBack, Deliver
  <1>11. ASSUME NEW k \in Keys, Expire(k) PROVE Cached(q)'
    BY <1>11 DEF Expire
  <1>12. CASE Change
    BY <1>12 DEF Change
  <1>13. CASE Invalidate
    BY <1>13 DEF Invalidate
  <1>14. CASE UNCHANGED vars
    BY <1>14 DEF vars
  <1>15. QED
    BY <1>1, <1>2, <1>3, <1>4, <1>5, <1>6, <1>7, <1>8, <1>9, <1>10, <1>11, <1>12, <1>13, <1>14 DEF Next, Proceed

\* A loaded value is the newest until it is stored.
LEMMA NewestStep ==
    ASSUME IInv, [Next]_vars, NEW q \in Requests
    PROVE  Newest(q)'
  <1> USE DEF IInv, TypeOK, cacheVars, callVars, FlightOf, FlightOpen, Cached, Newest
  <1>1. ASSUME NEW r \in Requests, Begin(r) PROVE Newest(q)'
    BY <1>1 DEF Begin
  <1>2. ASSUME NEW r \in Requests, LookFails(r) PROVE Newest(q)'
    BY <1>2 DEF LookFails
  <1>3. ASSUME NEW r \in Requests, Hit(r) PROVE Newest(q)'
    BY <1>3 DEF Hit, Deliver
  <1>4. ASSUME NEW r \in Requests, Join(r) PROVE Newest(q)'
    BY <1>4 DEF Join, MustLoad
  <1>5. ASSUME NEW r \in Requests, Lead(r) PROVE Newest(q)'
    BY <1>5 DEF Lead, MustLoad
  <1>6. ASSUME NEW r \in Requests, Load(r) PROVE Newest(q)'
    BY <1>6 DEF Load
  <1>7. ASSUME NEW r \in Requests, Return(r) PROVE Newest(q)'
    BY <1>7 DEF Return
  <1>8. ASSUME NEW r \in Requests, Store(r) PROVE Newest(q)'
    BY <1>8 DEF Store, Deliver
  <1>9. ASSUME NEW r \in Requests, Share(r) PROVE Newest(q)'
    BY <1>9 DEF Share
  <1>10. ASSUME NEW r \in Requests, FallBack(r) PROVE Newest(q)'
    BY <1>10 DEF FallBack, Deliver
  <1>11. ASSUME NEW k \in Keys, Expire(k) PROVE Newest(q)'
    BY <1>11 DEF Expire
  <1>12. CASE Change
    BY <1>12 DEF Change
  <1>13. CASE Invalidate
    BY <1>13 DEF Invalidate
  <1>14. CASE UNCHANGED vars
    BY <1>14 DEF vars
  <1>15. QED
    BY <1>1, <1>2, <1>3, <1>4, <1>5, <1>6, <1>7, <1>8, <1>9, <1>10, <1>11, <1>12, <1>13, <1>14 DEF Next, Proceed

\* What is known only grows.
LEMMA PromiseStep ==
    ASSUME IInv, [Next]_vars, NEW q \in Requests
    PROVE  Promise(q)'
  <1> USE DEF IInv, TypeOK, cacheVars, callVars, Cached, Newest, Promise
  <1>1. ASSUME NEW r \in Requests, Begin(r) PROVE Promise(q)'
    BY <1>1 DEF Begin
  <1>2. ASSUME NEW r \in Requests, LookFails(r) PROVE Promise(q)'
    BY <1>2 DEF LookFails
  <1>3. ASSUME NEW r \in Requests, Hit(r) PROVE Promise(q)'
    BY <1>3 DEF Hit, Deliver
  <1>4. ASSUME NEW r \in Requests, Join(r) PROVE Promise(q)'
    BY <1>4 DEF Join, MustLoad
  <1>5. ASSUME NEW r \in Requests, Lead(r) PROVE Promise(q)'
    BY <1>5 DEF Lead, MustLoad
  <1>6. ASSUME NEW r \in Requests, Load(r) PROVE Promise(q)'
    BY <1>6 DEF Load
  <1>7. ASSUME NEW r \in Requests, Return(r) PROVE Promise(q)'
    BY <1>7 DEF Return
  <1>8. ASSUME NEW r \in Requests, Store(r) PROVE Promise(q)'
    BY <1>8 DEF Store, Deliver
  <1>9. ASSUME NEW r \in Requests, Share(r) PROVE Promise(q)'
    BY <1>9 DEF Share
  <1>10. ASSUME NEW r \in Requests, FallBack(r) PROVE Promise(q)'
    BY <1>10 DEF FallBack, Deliver
  <1>11. ASSUME NEW k \in Keys, Expire(k) PROVE Promise(q)'
    BY <1>11 DEF Expire
  <1>12. CASE Change
    BY <1>12 DEF Change
  <1>13. CASE Invalidate
    BY <1>13 DEF Invalidate
  <1>14. CASE UNCHANGED vars
    BY <1>14 DEF vars
  <1>15. QED
    BY <1>1, <1>2, <1>3, <1>4, <1>5, <1>6, <1>7, <1>8, <1>9, <1>10, <1>11, <1>12, <1>13, <1>14 DEF Next, Proceed

\* A waiter holds a call of its key that is new enough.
LEMMA WaitingStep ==
    ASSUME IInv, [Next]_vars, NEW q \in Requests
    PROVE  Waiting(q)'
  <1> USE DEF IInv, TypeOK, cacheVars, callVars, FlightOf, FlightOpen, AfterReturn, Newest, Promise, Waiting
  <1>1. ASSUME NEW r \in Requests, Begin(r) PROVE Waiting(q)'
    BY <1>1 DEF Begin
  <1>2. ASSUME NEW r \in Requests, LookFails(r) PROVE Waiting(q)'
    BY <1>2 DEF LookFails
  <1>3. ASSUME NEW r \in Requests, Hit(r) PROVE Waiting(q)'
    BY <1>3 DEF Hit, Deliver
  <1>4. ASSUME NEW r \in Requests, Join(r) PROVE Waiting(q)'
    BY <1>4 DEF Join, MustLoad
  <1>5. ASSUME NEW r \in Requests, Lead(r) PROVE Waiting(q)'
    BY <1>5 DEF Lead, MustLoad
  <1>6. ASSUME NEW r \in Requests, Load(r) PROVE Waiting(q)'
    BY <1>6 DEF Load
  <1>7. ASSUME NEW r \in Requests, Return(r) PROVE Waiting(q)'
    BY <1>7 DEF Return
  <1>8. ASSUME NEW r \in Requests, Store(r) PROVE Waiting(q)'
    BY <1>8 DEF Store, Deliver
  <1>9. ASSUME NEW r \in Requests, Share(r) PROVE Waiting(q)'
    BY <1>9 DEF Share
  <1>10. ASSUME NEW r \in Requests, FallBack(r) PROVE Waiting(q)'
    BY <1>10 DEF FallBack, Deliver
  <1>11. ASSUME NEW k \in Keys, Expire(k) PROVE Waiting(q)'
    BY <1>11 DEF Expire
  <1>12. CASE Change
    BY <1>12 DEF Change
  <1>13. CASE Invalidate
    BY <1>13 DEF Invalidate
  <1>14. CASE UNCHANGED vars
    BY <1>14 DEF vars
  <1>15. QED
    BY <1>1, <1>2, <1>3, <1>4, <1>5, <1>6, <1>7, <1>8, <1>9, <1>10, <1>11, <1>12, <1>13, <1>14 DEF Next, Proceed

\* An answer is new enough.
LEMMA AnsweredStep ==
    ASSUME IInv, [Next]_vars, NEW q \in Requests
    PROVE  Answered(q)'
  <1> USE DEF IInv, TypeOK, cacheVars, callVars, Cached, Newest, Promise, Waiting, Answered
  <1>1. ASSUME NEW r \in Requests, Begin(r) PROVE Answered(q)'
    BY <1>1 DEF Begin
  <1>2. ASSUME NEW r \in Requests, LookFails(r) PROVE Answered(q)'
    BY <1>2 DEF LookFails
  <1>3. ASSUME NEW r \in Requests, Hit(r) PROVE Answered(q)'
    BY <1>3 DEF Hit, Deliver
  <1>4. ASSUME NEW r \in Requests, Join(r) PROVE Answered(q)'
    BY <1>4 DEF Join, MustLoad
  <1>5. ASSUME NEW r \in Requests, Lead(r) PROVE Answered(q)'
    BY <1>5 DEF Lead, MustLoad
  <1>6. ASSUME NEW r \in Requests, Load(r) PROVE Answered(q)'
    BY <1>6 DEF Load
  <1>7. ASSUME NEW r \in Requests, Return(r) PROVE Answered(q)'
    BY <1>7 DEF Return
  <1>8. ASSUME NEW r \in Requests, Store(r) PROVE Answered(q)'
    BY <1>8 DEF Store, Deliver
  <1>9. ASSUME NEW r \in Requests, Share(r) PROVE Answered(q)'
    BY <1>9 DEF Share
  <1>10. ASSUME NEW r \in Requests, FallBack(r) PROVE Answered(q)'
    BY <1>10 DEF FallBack, Deliver
  <1>11. ASSUME NEW k \in Keys, Expire(k) PROVE Answered(q)'
    BY <1>11 DEF Expire
  <1>12. CASE Change
    BY <1>12 DEF Change
  <1>13. CASE Invalidate
    BY <1>13 DEF Invalidate
  <1>14. CASE UNCHANGED vars
    BY <1>14 DEF vars
  <1>15. QED
    BY <1>1, <1>2, <1>3, <1>4, <1>5, <1>6, <1>7, <1>8, <1>9, <1>10, <1>11, <1>12, <1>13, <1>14 DEF Next, Proceed

-----------------------------------------------------------------------------
\* The inductive invariant.
THEOREM Invariance == Spec => []IInv
  <1>1. IInv /\ [Next]_vars => IInv'
    <2> SUFFICES ASSUME IInv, [Next]_vars PROVE IInv'
      OBVIOUS
    <2>1. TypeOK'
      BY TypesStep
    <2>2. \A k \in Keys : FlightOpen(k)' /\ Cached(k)'
      BY FlightOpenStep, CachedStep
    <2>3. \A r \in Requests : FlightOf(r)' /\ AfterReturn(r)' /\ Newest(r)'
      BY FlightOfStep, AfterReturnStep, NewestStep
    <2>4. \A r \in Requests : Promise(r)' /\ Waiting(r)' /\ Answered(r)'
      BY PromiseStep, WaitingStep, AnsweredStep
    <2>5. QED
      BY <2>1, <2>2, <2>3, <2>4 DEF IInv
  <1>2. QED
    BY InitIInv, <1>1, PTL DEF Spec

\* Type correctness.
THEOREM TypeCorrect == Spec => []TypeOK
  <1>1. IInv => TypeOK
    BY DEF IInv
  <1>2. QED
    BY <1>1, Invariance, PTL

\* A key is loaded by one request at a time.
THEOREM LoadedOnce == Spec => []SingleFlight
  <1>1. IInv => SingleFlight
    BY DEF IInv, FlightOf, SingleFlight
  <1>2. QED
    BY <1>1, Invariance, PTL

\* No request gets a value older than what was known of its key when it began.
THEOREM AnswersMoveForward == Spec => []NeverOlder
  <1>1. IInv => NeverOlder
    BY DEF IInv, Answered, NeverOlder
  <1>2. QED
    BY <1>1, Invariance, PTL

-----------------------------------------------------------------------------
\* A call has released its waiters before it leaves the map, and whoever finds it there finds a
\* call that has yet to do so.
LEMMA AwaitedStep == IInv /\ NobodyLeftWaiting /\ [Next]_vars => NobodyLeftWaiting'
  <1> SUFFICES ASSUME IInv, NobodyLeftWaiting, [Next]_vars, NEW q \in Requests PROVE Awaited(q)'
    BY DEF NobodyLeftWaiting
  <1>0. Awaited(q) /\ TypeOK /\ \A r \in Requests : Awaited(r)
    BY DEF IInv, NobodyLeftWaiting
  <1> USE DEF Awaited, TypeOK, cacheVars, callVars
  <1>1. ASSUME NEW r \in Requests, Begin(r) \/ LookFails(r) \/ Lead(r) PROVE Awaited(q)'
    BY <1>0, <1>1 DEF Begin, LookFails, Lead, MustLoad
  <1>2. ASSUME NEW r \in Requests, Hit(r) \/ Share(r) \/ FallBack(r) PROVE Awaited(q)'
    BY <1>0, <1>2 DEF Hit, Share, FallBack, Deliver
  <1>3. ASSUME NEW r \in Requests, Join(r) PROVE Awaited(q)'
    <2>1. flights[Key[r]] \in Requests /\ pc[flights[Key[r]]] \in {"load", "return", "store"}
      BY <1>0, <1>3 DEF Join, IInv, FlightOpen
    <2>2. leader'[r] \in returned \/ pc[leader'[r]] \in {"load", "return"}
      BY <1>0, <1>3, <2>1 DEF Join
    <2>3. QED
      BY <1>0, <1>3, <2>1, <2>2 DEF Join, MustLoad
  <1>4. ASSUME NEW r \in Requests, Load(r) \/ Return(r) PROVE Awaited(q)'
    BY <1>0, <1>4 DEF Load, Return
  <1>5. ASSUME NEW r \in Requests, Store(r) PROVE Awaited(q)'
    BY <1>0, <1>5 DEF Store, Deliver
  <1>6. CASE Change \/ Invalidate \/ \E k \in Keys : Expire(k)
    BY <1>0, <1>6 DEF Change, Invalidate, Expire
  <1>7. CASE UNCHANGED vars
    BY <1>0, <1>7 DEF vars
  <1>8. QED
    BY <1>1, <1>2, <1>3, <1>4, <1>5, <1>6, <1>7 DEF Next, Proceed

\* Nobody waits for a call that nobody will end, whatever fails and is invalidated: the part of
\* EveryoneAnswered that is an invariant (cache.go:78-101).
THEOREM WaitersAreReleased == Spec => []NobodyLeftWaiting
  <1>1. Init => NobodyLeftWaiting
    BY DEF Init, NobodyLeftWaiting, Awaited
  <1>2. QED
    BY <1>1, Invariance, AwaitedStep, PTL DEF Spec
=============================================================================
