------------------------ MODULE BreedingJobs_proofs ------------------------
(***************************************************************************)
(* Theorems about CreditStore and BreedingJobs for any number of users,    *)
(* reservations and requests and every cost: whoever calls the store in    *)
(* whatever order, points are conserved and a reservation is decided once; *)
(* the system uses the store only through its operations, so this holds in *)
(* it too, and a member is charged only for a result.  Then the other half *)
(* of the panel that works with the plugin: the save sources and Bindings, *)
(* for any imports, tasks and saves.                                       *)
(***************************************************************************)
EXTENDS BreedingJobs, Bindings, FiniteSetTheorems, TLAPS

-----------------------------------------------------------------------------
(* The store of points. *)

CreditInv == CreditTypeOK /\ PointsConserved

-----------------------------------------------------------------------------
(* Lemmas. *)

\* A product grows by its factor.
LEMMA Times ==
    ASSUME NEW c \in Nat, NEW m \in Nat, NEW n \in Nat
    PROVE  /\ c * (m + n) = c * m + c * n
           /\ c * m \in Nat
  <1>1. c * (m + n) = c * m + c * n
    BY Z3
  <1>2. c * m \in Nat
    BY Z3
  <1>3. QED
    BY <1>1, <1>2

\* The same for one more.
LEMMA TimesOne ==
    ASSUME NEW c \in Nat, NEW m \in Nat
    PROVE  /\ c * (m + 1) = c * m + c
           /\ c * m \in Nat
  <1>1. c * (m + 1) = c * m + c * 1 /\ c * m \in Nat
    BY Times
  <1>2. c * 1 = c
    OBVIOUS
  <1>3. QED
    BY <1>1, <1>2

\* A set of reservations is finite.
LEMMA SomeCharges ==
    ASSUME NEW S \in SUBSET Charges
    PROVE  IsFiniteSet(S) /\ Cardinality(S) \in Nat
  <1>1. IsFiniteSet(S)
    BY ChargesAssumption, FS_Subset
  <1>2. QED
    BY <1>1, FS_CardinalityType

\* A finite set without some of its members is as much smaller.
LEMMA Without ==
    ASSUME NEW S, IsFiniteSet(S), NEW T
    PROVE  /\ Cardinality(S \ T) \in Nat /\ Cardinality(S \cap T) \in Nat
           /\ Cardinality(S) = Cardinality(S \ T) + Cardinality(S \cap T)
  <1>1. IsFiniteSet(S \ T) /\ Cardinality(S \ T) = Cardinality(S) - Cardinality(S \cap T)
    BY FS_Difference
  <1>2. IsFiniteSet(S \cap T)
    BY FS_Subset
  <1>3. Cardinality(S) \in Nat /\ Cardinality(S \ T) \in Nat /\ Cardinality(S \cap T) \in Nat
    BY <1>1, <1>2, FS_CardinalityType
  <1>4. QED
    BY <1>1, <1>3

\* What is explained by natural numbers is one.
LEMMA ExplainedLedger ==
    ASSUME NEW b \in Nat, NEW S \in SUBSET Charges, NEW l, b + Cost * Cardinality(S) = l
    PROVE  l \in Nat
  <1>1. Cost * Cardinality(S) \in Nat
    BY SomeCharges, Times, PointsAssumption
  <1>2. QED
    BY <1>1

-----------------------------------------------------------------------------
(* Initial states and steps. *)

LEMMA CreditInitInv == ASSUME CreditInit PROVE CreditInv
  <1>1. \A u \in Users : Held(u) = {}
    BY DEF CreditInit, Held
  <1>2. \A u \in Users : Cardinality(Held(u)) = 0
    BY <1>1, FS_EmptySet
  <1>3. Cost * 0 = 0
    BY PointsAssumption
  <1>4. PointsConserved
    <2>1. ASSUME NEW u \in Users PROVE balance[u] + Cost * Cardinality(Held(u)) = ledger[u]
      <3>1. balance[u] = 0 /\ ledger[u] = 0
        BY DEF CreditInit
      <3>2. QED
        BY <1>2, <1>3, <3>1
    <2>2. QED
      BY <2>1 DEF PointsConserved
  <1>5. CreditTypeOK
    BY UsersAssumption, TimesAssumption DEF CreditInit, CreditTypeOK
  <1>6. QED
    BY <1>4, <1>5 DEF CreditInv

\* The step of a user's account, as every action has to show it.
AccountKept(u) ==
    /\ balance'[u] \in Nat
    /\ balance'[u] + Cost * Cardinality(Held(u)') = ledger'[u]

\* Releasing what has expired moves points from what is held to the balance.
LEMMA ReleaseExpiredKeeps ==
    ASSUME CreditInv, ReleaseExpired, NEW u \in Users
    PROVE  AccountKept(u)
  <1> DEFINE gone == {r \in Charges : status[r] = "reserved" /\ due[r] < clock}
             m == Cardinality(Held(u) \ gone)
             n == Cardinality(Held(u) \cap gone)
  <1>1. Held(u)' = Held(u) \ gone
    BY DEF ReleaseExpired, Held, CreditInv, CreditTypeOK
  <1>2. m \in Nat /\ n \in Nat /\ Cardinality(Held(u)) = m + n
    <2>1. Held(u) \in SUBSET Charges
      BY DEF Held
    <2>2. QED
      BY <2>1, SomeCharges, Without
  <1>3. balance'[u] = balance[u] + Cost * n
    <2>1. gone \cap Held(u) = Held(u) \cap gone
      OBVIOUS
    <2>2. QED
      BY <2>1 DEF ReleaseExpired
  <1>4. Cost * (m + n) = Cost * m + Cost * n /\ Cost * m \in Nat /\ Cost * n \in Nat
    BY <1>2, Times, PointsAssumption
  <1>5. balance[u] \in Nat /\ balance[u] + Cost * Cardinality(Held(u)) = ledger[u]
    BY DEF CreditInv, CreditTypeOK, PointsConserved
  <1>6. balance[u] + Cost * (m + n) = ledger[u]
    BY <1>2, <1>5
  <1>7. ledger'[u] = ledger[u]
    BY DEF ReleaseExpired
  <1>8. Cardinality(Held(u)') = m
    BY <1>1
  <1> HIDE DEF m, n, gone
  <1>9. balance'[u] \in Nat
    BY <1>3, <1>4, <1>5
  <1>10. balance'[u] + Cost * m = ledger'[u]
    BY <1>3, <1>4, <1>5, <1>6, <1>7
  <1>11. QED
    BY <1>8, <1>9, <1>10 DEF AccountKept

\* Opening or closing a reservation of a user changes what is held for that user by one.
LEMMA OneMore ==
    ASSUME NEW S \in SUBSET Charges, NEW r \in Charges, r \notin S
    PROVE  /\ Cost * Cardinality(S \cup {r}) = Cost * Cardinality(S) + Cost
           /\ Cost * Cardinality(S) \in Nat
  <1>1. IsFiniteSet(S) /\ Cardinality(S) \in Nat
    BY SomeCharges
  <1>2. Cardinality(S \cup {r}) = Cardinality(S) + 1
    BY <1>1, FS_AddElement
  <1>3. Cost * (Cardinality(S) + 1) = Cost * Cardinality(S) + Cost /\ Cost * Cardinality(S) \in Nat
    BY <1>1, TimesOne, PointsAssumption
  <1>4. QED
    BY <1>2, <1>3

\* An account that nobody touches stays explained.
LEMMA UntouchedKeeps ==
    ASSUME CreditInv, NEW u \in Users, balance'[u] = balance[u], ledger'[u] = ledger[u], Held(u)' = Held(u)
    PROVE  AccountKept(u)
  <1>1. balance[u] \in Nat /\ balance[u] + Cost * Cardinality(Held(u)) = ledger[u]
    BY DEF CreditInv, CreditTypeOK, PointsConserved
  <1>2. QED
    BY <1>1 DEF AccountKept

\* Taking a reservation moves its cost from the balance to what is held.
LEMMA TakeKeeps ==
    ASSUME CreditInv, NEW v \in Users, NEW r \in Charges, Take(v, r), NEW u \in Users
    PROVE  AccountKept(u)
  <1>1. balance[u] \in Nat /\ balance[u] + Cost * Cardinality(Held(u)) = ledger[u]
    BY DEF CreditInv, CreditTypeOK, PointsConserved
  <1>2. ledger'[u] = ledger[u]
    BY DEF Take
  <1>3. CASE u = v
    <2>1. Held(u)' = Held(u) \cup {r} /\ r \notin Held(u)
      BY <1>3 DEF Take, Held, CreditInv, CreditTypeOK
    <2>2. Held(u) \in SUBSET Charges
      BY DEF Held
    <2>3. Cost * Cardinality(Held(u) \cup {r}) = Cost * Cardinality(Held(u)) + Cost
      BY <2>1, <2>2, OneMore
    <2>4. balance'[u] = balance[u] - Cost /\ balance[u] >= Cost
      BY <1>3 DEF Take, CreditInv, CreditTypeOK
    <2>5. Cost * Cardinality(Held(u)) \in Nat /\ Cost \in Nat
      BY <2>1, <2>2, OneMore, PointsAssumption
    <2>6. balance'[u] \in Nat
      BY <1>1, <2>4, <2>5
    <2>7. balance'[u] + Cost * Cardinality(Held(u)') = ledger'[u]
      BY <1>1, <1>2, <2>1, <2>3, <2>4, <2>5
    <2>8. QED
      BY <2>6, <2>7 DEF AccountKept
  <1>4. CASE u # v
    <2>1. Held(u)' = Held(u)
      BY <1>4 DEF Take, Held, CreditInv, CreditTypeOK
    <2>2. balance'[u] = balance[u]
      BY <1>4 DEF Take, CreditInv, CreditTypeOK
    <2>3. QED
      BY <1>2, <2>1, <2>2, UntouchedKeeps
  <1>5. QED
    BY <1>3, <1>4

\* Committing takes the cost of a reservation from the ledger, releasing gives it back.
LEMMA SettleKeeps ==
    ASSUME CreditInv, NEW r \in Charges, Commit(r) \/ Release(r), NEW u \in Users
    PROVE  AccountKept(u)
  <1>1. balance[u] \in Nat /\ balance[u] + Cost * Cardinality(Held(u)) = ledger[u]
    BY DEF CreditInv, CreditTypeOK, PointsConserved
  <1>2. CASE u = payer[r]
    <2>1. Held(u)' = Held(u) \ {r} /\ r \in Held(u)
      BY <1>2 DEF Commit, Release, Held, CreditInv, CreditTypeOK
    <2>2. Held(u) \ {r} \in SUBSET Charges /\ r \notin Held(u) \ {r}
      BY DEF Held
    <2>3. (Held(u) \ {r}) \cup {r} = Held(u)
      BY <2>1
    <2>4. Cost * Cardinality(Held(u)) = Cost * Cardinality(Held(u)') + Cost
      BY <2>1, <2>2, <2>3, OneMore
    <2>5. Cost * Cardinality(Held(u)') \in Nat /\ Cost \in Nat
      BY <2>1, <2>2, OneMore, PointsAssumption
    <2>6. ledger[u] \in Nat
      BY DEF CreditInv, CreditTypeOK
    <2>7. \/ balance'[u] = balance[u] /\ ledger'[u] = ledger[u] - Cost
          \/ balance'[u] = balance[u] + Cost /\ ledger'[u] = ledger[u]
      BY <1>2 DEF Commit, Release, CreditInv, CreditTypeOK
    <2>8. balance'[u] \in Nat
      BY <1>1, <2>5, <2>7
    <2>9. balance'[u] + Cost * Cardinality(Held(u)') = ledger'[u]
      BY <1>1, <2>4, <2>5, <2>6, <2>7
    <2>10. QED
      BY <2>8, <2>9 DEF AccountKept
  <1>3. CASE u # payer[r]
    <2>1. Held(u)' = Held(u)
      BY <1>3 DEF Commit, Release, Held, CreditInv, CreditTypeOK
    <2>2. balance'[u] = balance[u] /\ ledger'[u] = ledger[u]
      BY <1>3 DEF Commit, Release, CreditInv, CreditTypeOK
    <2>3. QED
      BY <2>1, <2>2, UntouchedKeeps
  <1>4. QED
    BY <1>2, <1>3

\* A check-in or an adjustment changes balance and ledger alike, down to an empty balance.
LEMMA ChatKeeps ==
    ASSUME CreditInv, Chat, NEW u \in Users
    PROVE  AccountKept(u)
  <1> DEFINE k == Cost * Cardinality(Held(u))
  <1>1. balance[u] \in Nat /\ ledger[u] \in Nat /\ balance[u] + k = ledger[u]
    BY DEF CreditInv, CreditTypeOK, PointsConserved
  <1>2. Held(u)' = Held(u)
    BY DEF Chat, Checkin, AdjustPoints, Held
  <1>3. k \in Nat
    <2>1. Held(u) \in SUBSET Charges
      BY DEF Held
    <2>2. Cardinality(Held(u)) \in Nat
      BY <2>1, SomeCharges
    <2>3. QED
      BY <2>2, Times, PointsAssumption
  <1>4. \/ balance'[u] = balance[u] /\ ledger'[u] = ledger[u]
        \/ balance'[u] = balance[u] + Daily /\ ledger'[u] = ledger[u] + Daily
        \/ /\ balance'[u] \in Nat
           /\ ledger'[u] = ledger[u] + (balance'[u] - balance[u])
    <2>1. CASE \E v \in Users, date \in Dates : Checkin(v, date)
      BY <2>1 DEF Checkin, CreditInv, CreditTypeOK
    <2>2. CASE \E v \in Users, delta \in Deltas : AdjustPoints(v, delta)
      <3>1. PICK v \in Users, delta \in Deltas : AdjustPoints(v, delta)
        BY <2>2
      <3> DEFINE next == IF balance[v] + delta < 0 THEN 0 ELSE balance[v] + delta
      <3>2. balance[v] \in Nat /\ delta \in Int
        BY PointsAssumption DEF CreditInv, CreditTypeOK
      <3>3. next \in Nat
        BY <3>2
      <3>4. balance' = [balance EXCEPT ![v] = next] /\ ledger' = [ledger EXCEPT ![v] = ledger[v] + (next - balance[v])]
        BY <3>1 DEF AdjustPoints
      <3> HIDE DEF next
      <3>5. CASE u = v
        BY <3>3, <3>4, <3>5 DEF CreditInv, CreditTypeOK
      <3>6. CASE u # v
        BY <3>4, <3>6 DEF CreditInv, CreditTypeOK
      <3>7. QED
        BY <3>5, <3>6
    <2>3. QED
      BY <2>1, <2>2 DEF Chat
  <1>5. Cost * Cardinality(Held(u)') = k
    BY <1>2
  <1> HIDE DEF k
  <1>6. balance'[u] \in Nat
    BY <1>1, <1>4, PointsAssumption
  <1>7. balance'[u] + k = ledger'[u]
    BY <1>1, <1>3, <1>4, <1>6, PointsAssumption
  <1>8. QED
    BY <1>5, <1>6, <1>7 DEF AccountKept

\* Every step of the store keeps the invariant.
LEMMA CreditStepInv ==
    ASSUME CreditInv, [CreditNext]_creditVars
    PROVE  CreditInv'
  <1>1. ASSUME NEW u \in Users PROVE AccountKept(u)
    <2>1. CASE ReleaseExpired
      BY <2>1, ReleaseExpiredKeeps
    <2>2. CASE Chat
      BY <2>2, ChatKeeps
    <2>3. CASE \E r \in Charges, v \in Users : Take(v, r)
      BY <2>3, TakeKeeps
    <2>4. CASE \E r \in Charges : Commit(r) \/ Release(r)
      BY <2>4, SettleKeeps
    <2>5. CASE Tick \/ UNCHANGED creditVars
      <3>1. balance'[u] = balance[u] /\ ledger'[u] = ledger[u] /\ Held(u)' = Held(u)
        BY <2>5 DEF Tick, creditVars, Held
      <3>2. QED
        BY <3>1, UntouchedKeeps
    <2>6. QED
      BY <2>1, <2>2, <2>3, <2>4, <2>5 DEF CreditNext, SettleCharge
  <1>2. \A u \in Users : ledger'[u] \in Nat
    <2>1. ASSUME NEW u \in Users PROVE ledger'[u] \in Nat
      <3>1. balance'[u] \in Nat /\ balance'[u] + Cost * Cardinality(Held(u)') = ledger'[u]
        BY <1>1 DEF AccountKept
      <3>2. Held(u)' \in SUBSET Charges
        BY DEF Held
      <3>3. QED
        BY <3>1, <3>2, ExplainedLedger
    <2>2. QED
      BY <2>1
  <1>3. DOMAIN balance' = Users /\ DOMAIN ledger' = Users
        /\ balance' = [u \in Users |-> balance'[u]] /\ ledger' = [u \in Users |-> ledger'[u]]
    <2>1. balance \in [Users -> Nat] /\ ledger \in [Users -> Nat]
      BY DEF CreditInv, CreditTypeOK
    <2>2. CASE Chat
      BY <2>1, <2>2 DEF Chat, Checkin, AdjustPoints
    <2>3. CASE ReleaseExpired
      BY <2>1, <2>3 DEF ReleaseExpired
    <2>4. CASE \E r \in Charges : Commit(r) \/ Release(r) \/ \E v \in Users : Take(v, r)
      BY <2>1, <2>4 DEF Take, Commit, Release
    <2>5. CASE UNCHANGED <<balance, ledger>>
      BY <2>1, <2>5
    <2>6. QED
      BY <2>2, <2>3, <2>4, <2>5 DEF CreditNext, SettleCharge, Tick, creditVars
  <1>4. balance' \in [Users -> Nat] /\ ledger' \in [Users -> Nat]
    <2>1. \A u \in Users : balance'[u] \in Nat
      BY <1>1 DEF AccountKept
    <2>2. QED
      BY <1>2, <1>3, <2>1
  <1>5. /\ clock' \in 0 .. MaxTime
        /\ status' \in [Charges -> {"none", "reserved", "committed", "released", "expired"}]
        /\ payer' \in [Charges -> Users]
        /\ checkins' \subseteq Users \X Dates
    <2>1. CASE Tick
      BY <2>1, TimesAssumption DEF CreditInv, CreditTypeOK, Tick
    <2>2. CASE Chat
      <3>1. checkins \subseteq Users \X Dates
        BY DEF CreditInv, CreditTypeOK
      <3>2. checkins' = checkins \/ \E pair \in Users \X Dates : checkins' = checkins \cup {pair}
        BY <2>2 DEF Chat, Checkin, AdjustPoints
      <3>3. checkins' \subseteq Users \X Dates
        BY <3>1, <3>2, Zenon
      <3>4. UNCHANGED <<clock, status, payer>>
        BY <2>2 DEF Chat, Checkin, AdjustPoints
      <3>5. QED
        BY <3>3, <3>4 DEF CreditInv, CreditTypeOK
    <2>3. CASE ReleaseExpired
      BY <2>3 DEF CreditInv, CreditTypeOK, ReleaseExpired
    <2>4. CASE \E r \in Charges : Commit(r) \/ Release(r) \/ \E v \in Users : Take(v, r)
      BY <2>4 DEF CreditInv, CreditTypeOK, Take, Commit, Release
    <2>5. CASE UNCHANGED creditVars
      BY <2>5 DEF CreditInv, CreditTypeOK, creditVars
    <2>6. QED
      BY <2>1, <2>2, <2>3, <2>4, <2>5 DEF CreditNext, SettleCharge
  <1>6. due' \in [Charges -> 0 .. MaxTime + TTL]
    <2>1. CASE \E r \in Charges, v \in Users : Take(v, r)
      BY <2>1, TimesAssumption DEF CreditInv, CreditTypeOK, Take
    <2>2. CASE UNCHANGED due
      BY <2>2 DEF CreditInv, CreditTypeOK
    <2>3. QED
      BY <2>1, <2>2 DEF CreditNext, SettleCharge, ReleaseExpired, Chat, Checkin, AdjustPoints, Commit, Release, Tick, creditVars
  <1>7. CreditTypeOK'
    BY <1>4, <1>5, <1>6 DEF CreditTypeOK
  <1>8. PointsConserved'
    BY <1>1 DEF PointsConserved, AccountKept
  <1>9. QED
    BY <1>7, <1>8 DEF CreditInv

\* No step of the store reopens or redecides a reservation.
LEMMA CreditStepDecided ==
    ASSUME CreditInv, [CreditNext]_creditVars
    PROVE  \A r \in Charges : status[r] \notin {"none", "reserved"} => status'[r] = status[r]
  BY DEF CreditInv, CreditTypeOK, CreditNext, SettleCharge, ReleaseExpired, Chat, Checkin, AdjustPoints, Take,
     Commit, Release, Tick, creditVars

-----------------------------------------------------------------------------
(* Theorems. *)

\* Type correctness and the explanation of every balance, together the inductive invariant.
THEOREM CreditInvariance == CreditSpec => []CreditInv
  <1>1. CreditInit => CreditInv
    BY CreditInitInv
  <1>2. CreditInv /\ [CreditNext]_creditVars => CreditInv'
    BY CreditStepInv
  <1>3. QED
    BY <1>1, <1>2, PTL DEF CreditSpec

\* Points are conserved under calls of the store in any order.
THEOREM Conservation == CreditSpec => []PointsConserved
  <1>1. CreditInv => PointsConserved
    BY DEF CreditInv
  <1>2. QED
    BY <1>1, CreditInvariance, PTL

\* Under calls in any order the points are conserved and a reservation is decided once.
THEOREM StoreHolds == CreditSpec => AccountsHold
  <1>1. ASSUME CreditInv, [CreditNext]_creditVars PROVE [PointsConserved' /\ DecidedStays]_creditVars
    <2>1. [DecidedStays]_creditVars
      BY <1>1, CreditStepDecided DEF DecidedStays
    <2>2. PointsConserved'
      BY <1>1, CreditStepInv DEF CreditInv
    <2>3. QED
      BY <2>1, <2>2
  <1>2. QED
    BY <1>1, CreditInvariance, PTL DEF CreditSpec, AccountsHold

-----------------------------------------------------------------------------
(* The breeding system implements the store of points. *)

\* Every step of the system is a step of the store or does not touch it.
LEMMA StepOfStore ==
    ASSUME OwnerAssumption, [Next]_vars
    PROVE  [CreditNext]_creditVars
  <1>1. CASE \E r \in Charges : Sweep(r)
    BY <1>1 DEF Sweep, CreditNext
  <1>2. ASSUME NEW r \in Charges, Granted(r) PROVE CreditNext
    <2>1. Take(Owner[r], r) /\ Owner[r] \in Users
      BY <1>2, OwnerAssumption DEF Granted
    <2>2. QED
      BY <2>1 DEF CreditNext
  <1>3. ASSUME NEW r \in Charges, Settle(r) PROVE CreditNext
    <2>1. \E commit \in BOOLEAN : SettleCharge(r, commit)
      BY <1>3 DEF Settle
    <2>2. QED
      BY <2>1 DEF CreditNext
  <1>4. CASE Elsewhere
    BY <1>4 DEF Elsewhere, CreditNext
  <1>5. CASE \E r \in Charges : Request(r) \/ Refused(r) \/ Unreachable(r) \/ Submit(r) \/ SettleLost(r)
    BY <1>5 DEF Request, Refused, Unreachable, Submit, SubmitRejected, SubmitCached, SubmitQueued, SettleLost
  <1>6. CASE \E r \in Charges : Post(r) \/ PostFails(r) \/ Fetch(r) \/ FetchFails(r) \/ StoreResult(r) \/ Fail(r) \/ Poll(r) \/ Timeout(r)
    BY <1>6 DEF Post, PostFails, Fetch, FetchFails, StoreResult, Fail, Poll, Timeout
  <1>7. CASE Restart \/ BridgeCrash \/ \E r \in Charges : Solver(r)
    BY <1>7 DEF Restart, BridgeCrash, Solver, SolverStarts, SolverEnds, Control
  <1>8. CASE UNCHANGED vars
    BY <1>8 DEF vars
  <1>9. CASE PluginStart
    BY <1>9 DEF PluginStart, CreditNext
  <1>10. QED
    BY <1>1, <1>2, <1>3, <1>4, <1>5, <1>6, <1>7, <1>8, <1>9 DEF Next, Reserve, Work

\* The points in the breeding system behave as the store promises.
THEOREM UsesTheStore == Spec => CreditSpec
  <1>1. Init => CreditInit
    BY DEF Init
  <1>2. [Next]_vars => [CreditNext]_creditVars
    BY StepOfStore, OwnerAssumption
  <1>3. QED
    BY <1>1, <1>2, PTL DEF Spec, CreditSpec

\* Points are conserved whatever fails between panel, plugin and bridge.
THEOREM BreedingConservesPoints == Spec => []PointsConserved
  BY UsesTheStore, Conservation, PTL

-----------------------------------------------------------------------------
(* Type correctness of the panel and the bridge. *)

PanelTypeOK ==
    /\ pc \in [Charges -> Busy \cup {"new", "end", "killed"}]
    /\ row \in [Charges -> Open \cup {"none", "completed", "failed"}]
    /\ result \in [Charges -> {"none", "active", "completed", "failed"}]
    /\ unsaved \subseteq Charges
    /\ bridge \in [Charges -> Open \cup {"none", "canceling", "completed", "failed"}]
    /\ solver \in [Charges -> {"none", "waiting", "solving"}]

LEMMA PanelTypes == TypeOK <=> CreditTypeOK /\ PanelTypeOK
  BY DEF TypeOK, PanelTypeOK

LEMMA PanelInit == Init => PanelTypeOK /\ \A r \in Charges : Outcome(r)
  BY DEF Init, CreditInit, PanelTypeOK, Outcome, Busy, Handling, Settling, Agree

LEMMA PanelStepTypes ==
    ASSUME PanelTypeOK, [Next]_vars
    PROVE  PanelTypeOK'
  <1> USE DEF PanelTypeOK, Busy, Handling, Running, Settling, Open
  <1>1. CASE UNCHANGED <<panelVars, bridgeVars>>
    BY <1>1 DEF panelVars, bridgeVars
  <1>2. ASSUME NEW r \in Charges, Request(r) \/ Sweep(r) \/ Granted(r) \/ Refused(r) \/ Unreachable(r) \/ SubmitRejected(r)
               \/ Timeout(r) \/ Fetch(r) \/ FetchFails(r) \/ Settle(r) \/ SettleLost(r)
        PROVE  PanelTypeOK'
    BY <1>2 DEF Request, Sweep, Granted, Refused, Unreachable, SubmitRejected, Timeout, Fetch, FetchFails, Settle, SettleLost,
       Settled, Goto, bridgeVars
  <1>3. ASSUME NEW r \in Charges, SubmitCached(r) PROVE PanelTypeOK'
    BY <1>3 DEF SubmitCached, Goto, bridgeVars
  <1>4. ASSUME NEW r \in Charges, SubmitQueued(r) PROVE PanelTypeOK'
    BY <1>4 DEF SubmitQueued, Goto, bridgeVars
  <1>5. ASSUME NEW r \in Charges, Post(r) \/ PostFails(r) PROVE PanelTypeOK'
    BY <1>5 DEF Post, PostFails, Accept, Goto, bridgeVars
  <1>6. ASSUME NEW r \in Charges, Poll(r) PROVE PanelTypeOK'
    <2>1. Normalized(bridge[r]) \in Open \cup {"none", "completed", "failed"}
      BY DEF Normalized
    <2>2. (IF bridge[r] = "failed" THEN bridge[r] ELSE result[r]) \in {"none", "active", "completed", "failed"}
      OBVIOUS
    <2>3. pc' \in [Charges -> Busy \cup {"new", "end", "killed"}]
      BY <1>6 DEF Poll, Goto
    <2>4. UNCHANGED bridgeVars
      BY <1>6 DEF Poll
    <2>5. /\ row' \in [Charges -> Open \cup {"none", "completed", "failed"}]
          /\ result' \in [Charges -> {"none", "active", "completed", "failed"}]
          /\ unsaved' \subseteq Charges
      BY <1>6, <2>1, <2>2 DEF Poll, Write
    <2>6. QED
      BY <2>3, <2>4, <2>5 DEF bridgeVars
  <1>7. ASSUME NEW r \in Charges, StoreResult(r) \/ Fail(r) PROVE PanelTypeOK'
    BY <1>7 DEF StoreResult, Fail, Write, Goto, bridgeVars
  <1>8. ASSUME NEW r \in Charges, Solver(r) PROVE PanelTypeOK'
    BY <1>8 DEF Solver, SolverStarts, SolverEnds, Control, panelVars
  <1>9. CASE Restart
    BY <1>9 DEF Restart, bridgeVars
  <1>10. CASE BridgeCrash
    BY <1>10 DEF BridgeCrash, panelVars
  <1>11. QED
    BY <1>1, <1>2, <1>3, <1>4, <1>5, <1>6, <1>7, <1>8, <1>9, <1>10
       DEF Next, Reserve, Submit, Work, PluginStart, Elsewhere, vars

-----------------------------------------------------------------------------
(* What a request's stage says of its rows and its charge. *)

\* Only a settlement of the request itself, and no release, commits its reservation.
LEMMA OnlySettleCommits ==
    ASSUME TypeOK, [Next]_vars, NEW q \in Charges, status'[q] = "committed", status[q] # "committed"
    PROVE  Settle(q) /\ pc[q] \in {"commit", "commitCached"}
  <1> USE DEF TypeOK, CreditTypeOK
  <1>1. ASSUME UNCHANGED creditVars PROVE FALSE
    BY <1>1 DEF creditVars
  <1>2. ASSUME ReleaseExpired PROVE FALSE
    BY <1>2 DEF ReleaseExpired
  <1>3. ASSUME NEW r \in Charges, Granted(r) PROVE FALSE
    BY <1>3 DEF Granted, Take
  <1>4. ASSUME Elsewhere PROVE FALSE
    BY <1>4 DEF Elsewhere, Tick, Chat, Checkin, AdjustPoints
  <1>5. ASSUME NEW r \in Charges, Settle(r) PROVE Settle(q) /\ pc[q] \in {"commit", "commitCached"}
    <2>1. r = q /\ Commit(r) /\ pc[r] # "release"
      BY <1>5 DEF Settle, SettleCharge, Commit, Release, creditVars
    <2>2. pc[r] \in Settling
      BY <1>5 DEF Settle
    <2>3. QED
      BY <1>5, <2>1, <2>2 DEF Settling
  <1>6. CASE \E r \in Charges : Sweep(r)
    BY <1>2, <1>6 DEF Sweep
  <1>7. CASE PluginStart
    BY <1>2, <1>7 DEF PluginStart
  <1>8. CASE \E r \in Charges : Request(r) \/ Refused(r) \/ Unreachable(r) \/ Submit(r) \/ SettleLost(r)
    BY <1>1, <1>8 DEF Request, Refused, Unreachable, Submit, SubmitRejected, SubmitCached, SubmitQueued, SettleLost
  <1>9. CASE \E r \in Charges : Post(r) \/ PostFails(r) \/ Fetch(r) \/ FetchFails(r) \/ StoreResult(r) \/ Fail(r) \/ Poll(r) \/ Timeout(r)
    BY <1>1, <1>9 DEF Post, PostFails, Fetch, FetchFails, StoreResult, Fail, Poll, Timeout
  <1>10. CASE Restart \/ BridgeCrash \/ \E r \in Charges : Solver(r)
    BY <1>1, <1>10 DEF Restart, BridgeCrash, Solver, SolverStarts, SolverEnds, Control
  <1>11. CASE UNCHANGED vars
    BY <1>1, <1>11 DEF vars
  <1>12. QED
    BY <1>3, <1>4, <1>5, <1>6, <1>7, <1>8, <1>9, <1>10, <1>11 DEF Next, Reserve, Work

\* A request that a step leaves alone keeps its outcome.
LEMMA OutcomeUntouched ==
    ASSUME NEW q \in Charges, Outcome(q), pc'[q] = pc[q], row'[q] = row[q], result'[q] = result[q],
           q \in unsaved' <=> q \in unsaved, status'[q] = "committed" => status[q] = "committed"
    PROVE  Outcome(q)'
  BY DEF Outcome, Agree

\* A step keeps what every request's stage says.
LEMMA OutcomeStep ==
    ASSUME TypeOK, [Next]_vars, NEW q \in Charges, Outcome(q)
    PROVE  Outcome(q)'
  <1> USE DEF Goto, Busy, Handling, Running, Settling, Open
  <1>1. PanelTypeOK
    BY PanelTypes
  <1>2. status'[q] = "committed" => status[q] = "committed" \/ (Settle(q) /\ pc[q] \in {"commit", "commitCached"})
    BY OnlySettleCommits
  <1>3. CASE UNCHANGED <<pc, row, result, unsaved>> /\ ~Settle(q)
    BY <1>2, <1>3, OutcomeUntouched
  <1>4. ASSUME NEW r \in Charges, r # q,
               Request(r) \/ Reserve(r) \/ Submit(r) \/ Work(r) \/ Poll(r) \/ Timeout(r)
        PROVE  Outcome(q)'
    <2>1. pc'[q] = pc[q]
      BY <1>1, <1>4 DEF PanelTypeOK, Request, Reserve, Sweep, Granted, Refused, Unreachable, Submit, SubmitRejected, SubmitCached,
         SubmitQueued, Work, Post, PostFails, Fetch, FetchFails, StoreResult, Fail, Settle, SettleLost, Settled, Poll, Timeout
    <2>2. row'[q] = row[q] /\ result'[q] = result[q] /\ (q \in unsaved' <=> q \in unsaved)
      BY <1>1, <1>4 DEF PanelTypeOK, Request, Reserve, Sweep, Granted, Refused, Unreachable, Submit, SubmitRejected, SubmitCached,
         SubmitQueued, Work, Post, PostFails, Fetch, FetchFails, StoreResult, Fail, Settle, SettleLost, Poll, Timeout, Write
    <2>3. status'[q] = "committed" => status[q] = "committed"
      <3>1. ~(Settle(q) /\ pc'[q] = pc[q])
        BY <1>1 DEF Settle, Settled, PanelTypeOK
      <3>2. QED
        BY <1>2, <2>1, <3>1
    <2>4. QED
      BY <2>1, <2>2, <2>3, OutcomeUntouched
  <1>5. CASE Request(q) \/ Sweep(q) \/ Granted(q) \/ Refused(q) \/ Unreachable(q) \/ SubmitRejected(q)
    <2>1. /\ row'[q] = row[q] /\ result'[q] = result[q] /\ (q \in unsaved' <=> q \in unsaved)
          /\ pc'[q] \in Handling \cup {"end", "release"} /\ pc[q] \in Handling \cup {"new"}
      BY <1>1, <1>5 DEF PanelTypeOK, Request, Sweep, Granted, Refused, Unreachable, SubmitRejected
    <2>2. row[q] = "none" /\ status[q] # "committed"
      BY <2>1 DEF Outcome
    <2>3. status'[q] # "committed"
      BY <1>2, <2>1, <2>2
    <2>4. QED
      BY <2>1, <2>2, <2>3 DEF Outcome
  <1>6. CASE SubmitCached(q) \/ SubmitQueued(q) \/ Post(q) \/ PostFails(q) \/ Timeout(q) \/ Fetch(q) \/ FetchFails(q) \/ StoreResult(q)
             \/ Fail(q) \/ Poll(q)
    <2>1. pc[q] \in Handling \cup Running
      BY <1>6 DEF SubmitCached, SubmitQueued, Post, PostFails, Timeout, Fetch, FetchFails, StoreResult, Fail, Poll
    <2>2. status'[q] # "committed"
      BY <1>2, <2>1 DEF Outcome
    <2>3. pc'[q] \notin Handling \cup {"new"}
      BY <1>1, <1>6 DEF PanelTypeOK, SubmitCached, SubmitQueued, Post, PostFails, Timeout, Fetch, FetchFails, StoreResult, Fail, Poll
    <2>4. pc'[q] \in {"commit", "commitCached"} /\ q \notin unsaved' => row'[q] = "completed" /\ result'[q] = "completed"
      BY <1>1, <1>6 DEF PanelTypeOK, SubmitCached, SubmitQueued, Post, PostFails, Timeout, Fetch, FetchFails, StoreResult, Fail, Poll, Write
    <2>5. pc'[q] \in {"release", "end"} /\ q \notin unsaved' /\ row'[q] # "none" => Agree(q)'
      <3>1. CASE SubmitCached(q)
        BY <1>1, <3>1 DEF PanelTypeOK, SubmitCached, Agree
      <3>2. CASE SubmitQueued(q)
        <4>1. result[q] # "completed"
          BY <3>2 DEF Outcome, SubmitQueued
        <4>2. QED
          BY <1>1, <3>2, <4>1 DEF PanelTypeOK, SubmitQueued, Agree
      <3>3. CASE Poll(q)
        BY <1>1, <3>3 DEF PanelTypeOK, Poll, Write, Normalized, Agree
      <3>4. CASE Fail(q)
        BY <1>1, <3>4 DEF PanelTypeOK, Fail, Write, Agree
      <3>5. CASE Post(q) \/ PostFails(q) \/ Timeout(q) \/ Fetch(q) \/ FetchFails(q) \/ StoreResult(q)
        BY <1>1, <3>5 DEF PanelTypeOK, Post, PostFails, Timeout, Fetch, FetchFails, StoreResult
      <3>6. QED
        BY <1>6, <3>1, <3>2, <3>3, <3>4, <3>5
    <2>6. QED
      BY <2>2, <2>3, <2>4, <2>5 DEF Outcome
  <1>7. CASE Settle(q) \/ SettleLost(q)
    <2>1. UNCHANGED <<row, result, unsaved>> /\ pc[q] \in Settling /\ pc'[q] \in {"release", "end"}
      BY <1>1, <1>7 DEF PanelTypeOK, Settle, SettleLost, Settled
    <2>2. q \notin unsaved /\ row[q] # "none" => Agree(q)
      BY <2>1 DEF Outcome, Agree
    <2>3. status'[q] = "committed" => result[q] = "completed" \/ q \in unsaved
      BY <1>2 DEF Outcome
    <2>4. QED
      BY <2>1, <2>2, <2>3 DEF Outcome, Agree
  <1>8. CASE Restart
    <2>1. /\ pc'[q] = IF pc[q] \in Busy THEN "killed" ELSE pc[q]
          /\ row'[q] = IF row[q] = "active" THEN "failed" ELSE row[q]
          /\ UNCHANGED <<result, unsaved, status>>
      BY <1>8 DEF Restart, creditVars
    <2>2. QED
      BY <1>1, <2>1 DEF PanelTypeOK, Outcome, Agree
  <1>9. QED
    <2>1. CASE UNCHANGED vars \/ BridgeCrash \/ PluginStart \/ Elsewhere \/ \E r \in Charges : Solver(r)
      <3>1. UNCHANGED <<pc, row, result, unsaved>>
        BY <2>1 DEF vars, panelVars, BridgeCrash, PluginStart, Elsewhere, Solver, SolverStarts, SolverEnds, Control
      <3>2. ~Settle(q)
        BY <1>1, <3>1 DEF Settle, Settled, PanelTypeOK
      <3>3. QED
        BY <1>3, <3>1, <3>2
    <2>2. CASE \E r \in Charges : Request(r) \/ Reserve(r) \/ Submit(r) \/ Work(r) \/ Poll(r) \/ Timeout(r)
      <3>1. PICK r \in Charges : Request(r) \/ Reserve(r) \/ Submit(r) \/ Work(r) \/ Poll(r) \/ Timeout(r)
        BY <2>2
      <3>2. CASE r = q
        BY <1>5, <1>6, <1>7, <3>1, <3>2 DEF Reserve, Submit, Work
      <3>3. QED
        BY <1>4, <3>1, <3>2
    <2>3. QED
      BY <1>8, <2>1, <2>2 DEF Next

-----------------------------------------------------------------------------
\* The inductive invariant of the panel's part: the types, and what every stage says.
THEOREM BreedingInvariance == Spec => []IInv
  <1> DEFINE Panel == PanelTypeOK /\ \A r \in Charges : Outcome(r)
             Typed == CreditTypeOK
  <1>1. Init => Panel
    <2>1. Init => \A r \in Charges : Outcome(r)
      BY DEF Init, CreditInit, Outcome, Handling, Agree
    <2>2. QED
      BY <2>1, PanelInit
  <1>2. Panel /\ Typed /\ [Next]_vars => Panel'
    <2> SUFFICES ASSUME Panel, Typed, [Next]_vars
                 PROVE  Panel'
      OBVIOUS
    <2>1. TypeOK
      BY PanelTypes DEF Panel, Typed
    <2>2. PanelTypeOK'
      BY PanelStepTypes
    <2>3. \A r \in Charges : Outcome(r)'
      BY <2>1, OutcomeStep
    <2>4. QED
      BY <2>2, <2>3
  <1>3. Spec => []Typed
    <2>1. CreditInv => Typed
      BY DEF CreditInv
    <2>2. QED
      BY <2>1, UsesTheStore, CreditInvariance, PTL
  <1>4. Panel /\ Typed => IInv
    BY PanelTypes DEF IInv
  <1> HIDE DEF Panel, Typed
  <1>5. QED
    BY <1>1, <1>2, <1>3, <1>4, PTL DEF Spec

\* Type correctness of the composition.
THEOREM TypeCorrect == Spec => []TypeOK
  <1>1. IInv => TypeOK
    BY DEF IInv
  <1>2. QED
    BY <1>1, BreedingInvariance, PTL

\* A charge always has its result, unless the panel failed to write it.
THEOREM ChargedOnlyForResult == Spec => []ChargedForResult
  <1>1. IInv => ChargedForResult
    BY DEF IInv, Outcome, ChargedForResult
  <1>2. QED
    BY <1>1, BreedingInvariance, PTL

\* The job row and the result of a finished request agree.
THEOREM RowAgrees == Spec => []RowTellsOutcome
  <1>1. IInv => RowTellsOutcome
    BY DEF IInv, Outcome, RowTellsOutcome
  <1>2. QED
    BY <1>1, BreedingInvariance, PTL

\* Charge, job row and result of a request tell the same story.
THEOREM StoriesAgree == Spec => []OutcomesAgree
  <1>1. ChargedForResult /\ RowTellsOutcome => OutcomesAgree
    BY DEF OutcomesAgree
  <1>2. QED
    BY <1>1, ChargedOnlyForResult, RowAgrees, PTL

\* The accounts hold in the composed system, whenever the settlements of the panel arrive.
THEOREM BreedingAccountsHold == Spec => AccountsHold
  BY UsesTheStore, StoreHolds, PTL

-----------------------------------------------------------------------------
(* The save sources: what is known of a task, the index, the active source, *)
(* the files and the synchronisations.  TLC checks the five parts as well.   *)

\* What is known of the variables of a task, by where it is.
TaskKnows(t) ==
    /\ stage[t] \in {"mark", "point"} => src[t] \in Source
    /\ stage[t] \in {"mark", "point", "unmark", "back", "clear back"} => kind[t] = "activate"
    /\ stage[t] \in {"unmark", "back", "clear back"} => prev[t] \in Source
    /\ stage[t] \in {"look", "send"} => kind[t] = "sync"
    /\ stage[t] = "read" => src[t] \in Source /\ kind[t] \in {"delete", "rename"}
    /\ stage[t] = "read" => kind[t] = "rename" \/ src[t] \in Imports
    /\ stage[t] \in {"gone", "placed"} => src[t] \in Imports /\ kind[t] \in {"import", "delete"}
    /\ stage[t] = "idle" => src[t] = Nothing
    /\ t \in soft => kind[t] = "sync" /\ stage[t] \in {"lock", "parse", "store"}

TypeInv == SourcesTypeOK /\ \A t \in Tasks : TaskKnows(t)

\* The fingerprint of a world that has been there, and an index read from it since.
Real(w) == w.of \in Source /\ (w.of = Server => w.save <= version) /\ (w.of # Server => w.save = 1)
ReadSince(w, v) == Real(w) /\ Real(v) /\ v.of = w.of /\ w.save <= v.save

IndexInv ==
    /\ cache = NoCache \/ ReadSince(cache.fingerprint, cache.index)
    /\ \A t \in Tasks :
        /\ stage[t] \in {"look", "parse"} => Real(fp[t])
        /\ stage[t] = "store" => ReadSince(fp[t], index[t])

\* The row and the path, and how far the only activation has changed them.
Aligned == mixed \/ active = Nothing \/ path = active

Only(t) ==
    /\ stage[t] = "mark" => Aligned /\ prev[t] = active
    /\ stage[t] = "point" => active = src[t]
    /\ stage[t] \in {"clear", "lock", "parse", "store"} => active = src[t] /\ path = active
    /\ stage[t] = "back" => mixed \/ active = prev[t]
    /\ stage[t] = "clear back" => Aligned

ActivationInv ==
    /\ lone # Nothing => Activating = {lone} /\ Only(lone)
    /\ lone = Nothing => IF Activating = {} THEN Aligned ELSE mixed
    /\ \A t \in Tasks : kind[t] = "rename" /\ prev[t] # Nothing => active # Nothing

\* Rows and files, and the sources between the one and the other.
FilesInv ==
    /\ rows \cap Imports \subseteq files \cup revived
    /\ active \in Imports => active \in rows
    /\ rows \cap unused = {}
    /\ \A t \in Tasks :
        /\ src[t] \notin unused
        /\ stage[t] = "gone" => src[t] \notin rows \/ src[t] \in revived
        /\ stage[t] = "placed" => /\ src[t] \in files /\ src[t] \notin rows
                                  /\ \A u \in Tasks \ {t} : src[u] # src[t]
        /\ stage[t] = "read" /\ src[t] = Server => Server \in rows

\* A synchronisation that has lost nothing still has a cache to fall back on, and then an index.
RaceInv ==
    \A t \in Tasks \ raced :
        /\ t \in soft => cache # NoCache
        /\ stage[t] = "send" => index[t].of \in Source

USE SourceAssumption, TasksAssumption, MaxVersionAssumption DEF At, Proceed

-----------------------------------------------------------------------------
\* A step of a task changes nothing of the others.
Beside(t) ==
    \A u \in Tasks \ {t} :
        /\ stage'[u] = stage[u] /\ kind'[u] = kind[u] /\ src'[u] = src[u] /\ prev'[u] = prev[u]
        /\ fp'[u] = fp[u] /\ index'[u] = index[u] /\ (u \in soft' <=> u \in soft)

LEMMA OthersKept ==
    ASSUME SourcesTypeOK, NEW t \in Tasks, Handler(t) \/ Synchronisation(t)
    PROVE  Beside(t)
  <1> USE DEF SourcesTypeOK, Beside, Begin, Forget, End, locals
  <1>1. CASE \/ \E s \in Source : BeginActivate(t, s) \/ BeginRename(t, s)
             \/ \E s \in Imports : BeginImport(t, s) \/ BeginDelete(t, s)
    BY <1>1 DEF BeginActivate, BeginRename, BeginImport, BeginDelete
  <1>2. CASE Mark(t) \/ Point(t) \/ Unmark(t)
    <2>1. CASE UNCHANGED locals
      BY <1>2, <2>1 DEF Mark, Point, Unmark
    <2>2. CASE End(t)
      BY <2>2
    <2>3. QED
      BY <1>2, <2>1, <2>2 DEF Mark, Point, Unmark
  <1>3. CASE Invalidate(t) \/ Back(t)
    <2>1. CASE UNCHANGED locals
      BY <1>3, <2>1 DEF Invalidate, Back
    <2>2. CASE Forget(t)
      BY <2>2
    <2>3. QED
      BY <1>3, <2>1, <2>2 DEF Invalidate, Back
  <1>4. CASE BeginRebuild(t) \/ BeginIndex(t) \/ BeginSync(t)
    BY <1>4 DEF BeginRebuild, BeginIndex, BeginSync
  <1>5. CASE Lock(t)
    BY <1>5 DEF Lock, Failed
  <1>6. CASE Parse(t) \/ ParseFails(t)
    BY <1>6 DEF Parse, ParseFails, Failed
  <1>7. CASE Store(t) \/ StoreFails(t)
    BY <1>7 DEF Store, StoreFails, Failed, Succeeded
  <1>8. CASE StoreImport(t) \/ DeleteRow(t) \/ RemoveFiles(t) \/ Rename(t)
    BY <1>8 DEF StoreImport, DeleteRow, RemoveFiles, Rename
  <1>9. CASE LookAtCache(t) \/ Lost(t)
    BY <1>9 DEF LookAtCache, Lost
  <1>10. QED
    BY <1>1, <1>2, <1>3, <1>4, <1>5, <1>6, <1>7, <1>8, <1>9 DEF Handler, Synchronisation

LEMMA Contents ==
    ASSUME SourcesTypeOK
    PROVE  /\ Empty \in Content /\ NoCache \in [fingerprint : Content, index : Content] /\ cache.index \in Content
           /\ \A s \in Source : World(s) \in Content
  BY DEF SourcesTypeOK, Empty, NoCache, World, Content

\* The variables of the tasks are typed again.
LocalsTyped ==
    /\ kind \in [Tasks -> Kind] /\ stage \in [Tasks -> Step]
    /\ src \in [Tasks -> Source \cup {Nothing}] /\ prev \in [Tasks -> Source \cup {Nothing}]
    /\ fp \in [Tasks -> Content] /\ index \in [Tasks -> Content]
    /\ soft \subseteq Tasks /\ lone \in Tasks \cup {Nothing}

LEMMA ForgetLeaves ==
    ASSUME SourcesTypeOK, NEW t \in Tasks, Forget(t)
    PROVE  /\ LocalsTyped' /\ stage'[t] = "idle" /\ kind'[t] = "sync" /\ src'[t] = Nothing /\ prev'[t] = Nothing
           /\ t \notin soft' /\ lone' # t /\ (lone # t => lone' = lone) /\ (lone = t => lone' = Nothing)
  BY Contents DEF SourcesTypeOK, Forget, LocalsTyped, Kind, Step

\* After a rebuild that failed.
LEMMA FailedLeaves ==
    ASSUME SourcesTypeOK, NEW t \in Tasks, NEW found \in Content, Failed(t, found)
    PROVE  /\ LocalsTyped'
           /\ \/ stage'[t] = "unmark" /\ kind[t] = "activate" /\ kind'[t] = kind[t]
                 /\ prev[t] # Nothing /\ prev'[t] = prev[t] /\ lone' = lone /\ soft' = soft
              \/ stage'[t] = "send" /\ t \in soft /\ t \notin soft' /\ index'[t] = found /\ kind'[t] = kind[t] /\ lone' = lone
              \/ t \notin soft /\ (kind[t] = "activate" => prev[t] = Nothing) /\ Forget(t)
  <1>1. CASE t \notin soft /\ (kind[t] = "activate" => prev[t] = Nothing) /\ Forget(t)
    BY <1>1, ForgetLeaves
  <1>2. CASE /\ kind[t] = "activate" /\ prev[t] # Nothing /\ Proceed(t, "unmark")
             /\ fp' = [fp EXCEPT ![t] = Empty] /\ index' = [index EXCEPT ![t] = Empty]
             /\ UNCHANGED <<kind, src, prev, soft, lone>>
    BY <1>2, Contents DEF SourcesTypeOK, LocalsTyped, Step
  <1>3. CASE /\ t \in soft /\ Proceed(t, "send")
             /\ fp' = [fp EXCEPT ![t] = Empty] /\ index' = [index EXCEPT ![t] = found]
             /\ soft' = soft \ {t} /\ UNCHANGED <<kind, src, prev, lone>>
    BY <1>3, Contents DEF SourcesTypeOK, LocalsTyped, Step
  <1>4. QED
    BY <1>1, <1>2, <1>3 DEF Failed

\* The locals of a task whose step is not the end of a rebuild.
LEMMA LocalsStep ==
    ASSUME TypeInv, NEW t \in Tasks, Handler(t) \/ Synchronisation(t)
    PROVE  LocalsTyped' /\ TaskKnows(t)'
  <1>0. SourcesTypeOK /\ TaskKnows(t)
    BY DEF TypeInv
  <1>1. ASSUME NEW s \in Source, BeginActivate(t, s) \/ BeginRename(t, s) PROVE LocalsTyped' /\ TaskKnows(t)'
    <2>1. PICK k \in {"activate", "rename"}, at \in {"mark", "read"}, p \in Source \cup {Nothing} :
                /\ kind' = [kind EXCEPT ![t] = k] /\ stage' = [stage EXCEPT ![t] = at] /\ prev' = [prev EXCEPT ![t] = p]
                /\ src' = [src EXCEPT ![t] = s] /\ stage[t] = "idle" /\ at = (IF k = "rename" THEN "read" ELSE "mark")
      <3>1. active \in Source \cup {Nothing}
        BY <1>0 DEF SourcesTypeOK
      <3>2. CASE BeginActivate(t, s)
        BY <3>1, <3>2 DEF BeginActivate, Begin
      <3>3. CASE BeginRename(t, s)
        BY <3>1, <3>3 DEF BeginRename, Begin
      <3>4. QED
        BY <1>1, <3>2, <3>3
    <2>2. UNCHANGED <<fp, index, soft>> /\ lone' \in {lone, t, Nothing}
      BY <1>1 DEF BeginActivate, BeginRename
    <2>3. LocalsTyped'
      BY <1>0, <2>1, <2>2 DEF SourcesTypeOK, LocalsTyped, Kind, Step
    <2>4. TaskKnows(t)'
      BY <1>0, <2>1, <2>2 DEF SourcesTypeOK, TaskKnows
    <2>5. QED
      BY <2>3, <2>4
  <1>2. ASSUME NEW s \in Imports, BeginImport(t, s) \/ BeginDelete(t, s) PROVE LocalsTyped' /\ TaskKnows(t)'
    <2>1. PICK k \in {"import", "delete"}, at \in {"placed", "read"} :
                /\ kind' = [kind EXCEPT ![t] = k] /\ stage' = [stage EXCEPT ![t] = at]
                /\ src' = [src EXCEPT ![t] = s] /\ stage[t] = "idle" /\ at = (IF k = "delete" THEN "read" ELSE "placed")
      <3>1. CASE BeginImport(t, s)
        BY <3>1 DEF BeginImport, Begin
      <3>2. CASE BeginDelete(t, s)
        BY <3>2 DEF BeginDelete, Begin
      <3>3. QED
        BY <1>2, <3>1, <3>2
    <2>2. UNCHANGED <<prev, fp, index, soft, lone>> /\ s \in Source
      BY <1>2 DEF BeginImport, BeginDelete, Source
    <2>3. LocalsTyped'
      BY <1>0, <2>1, <2>2 DEF SourcesTypeOK, LocalsTyped, Kind, Step
    <2>4. TaskKnows(t)'
      BY <1>0, <1>2, <2>1, <2>2 DEF SourcesTypeOK, TaskKnows
    <2>5. QED
      BY <2>3, <2>4
  <1>3. CASE BeginRebuild(t) \/ BeginIndex(t) \/ BeginSync(t)
    <2>1. World(path) \in Content
      BY <1>0, Contents DEF SourcesTypeOK
    <2>2. PICK k \in {"rebuild", "sync"}, at \in {"clear", "lock", "look"} :
                /\ kind' = [kind EXCEPT ![t] = k] /\ stage' = [stage EXCEPT ![t] = at]
                /\ src' = [src EXCEPT ![t] = Nothing] /\ stage[t] = "idle" /\ (at = "look" => k = "sync")
      <3>1. CASE BeginRebuild(t)
        BY <3>1 DEF BeginRebuild, Begin
      <3>2. CASE BeginIndex(t)
        BY <3>2 DEF BeginIndex, Begin
      <3>3. CASE BeginSync(t)
        BY <3>3 DEF BeginSync, Begin
      <3>4. QED
        BY <1>3, <3>1, <3>2, <3>3
    <2>3. UNCHANGED <<prev, index, soft, lone>> /\ fp' \in {fp, [fp EXCEPT ![t] = World(path)]}
      BY <1>3 DEF BeginRebuild, BeginIndex, BeginSync
    <2>4. LocalsTyped'
      <3>1. fp' \in [Tasks -> Content]
        BY <1>0, <2>1, <2>3 DEF SourcesTypeOK
      <3>2. QED
        BY <1>0, <2>2, <2>3, <3>1 DEF SourcesTypeOK, LocalsTyped, Kind, Step
    <2>5. TaskKnows(t)'
      BY <1>0, <2>2, <2>3 DEF SourcesTypeOK, TaskKnows
    <2>6. QED
      BY <2>4, <2>5
  <1>4. ASSUME Forget(t) PROVE LocalsTyped' /\ TaskKnows(t)'
    BY <1>0, <1>4, ForgetLeaves DEF TaskKnows
  <1>5. CASE Mark(t) \/ Point(t) \/ Unmark(t) \/ DeleteRow(t)
    <2>1. CASE UNCHANGED locals
      <3>1. CASE DeleteRow(t)
        <4>1. stage[t] = "read" /\ kind[t] = "delete" /\ stage' \in {[stage EXCEPT ![t] = "gone"], [stage EXCEPT ![t] = "idle"]}
          BY <3>1 DEF DeleteRow, End, Forget
        <4>2. UNCHANGED <<kind, src, prev, fp, index, soft, lone>> /\ kind' = kind
          BY <2>1 DEF locals
        <4>3. stage'[t] = "gone" \/ (stage'[t] = "idle" /\ src'[t] = Nothing)
          <5>1. CASE End(t)
            BY <1>0, <5>1, ForgetLeaves DEF End
          <5>2. CASE ~End(t)
            <6>1. stage' = [stage EXCEPT ![t] = "gone"]
              BY <3>1, <5>2 DEF DeleteRow
            <6>2. QED
              BY <1>0, <6>1 DEF SourcesTypeOK
          <5>3. QED
            BY <5>1, <5>2
        <4>4. LocalsTyped'
          BY <1>0, <4>1, <4>2 DEF SourcesTypeOK, LocalsTyped, Step
        <4>5. TaskKnows(t)'
          BY <1>0, <4>1, <4>2, <4>3 DEF TaskKnows
        <4>6. QED
          BY <4>4, <4>5
      <3>2. CASE ~DeleteRow(t)
        BY <1>0, <1>5, <2>1, <3>2 DEF Mark, Point, Unmark, End, Forget, locals, SourcesTypeOK, LocalsTyped, TaskKnows, Step
      <3>3. QED
        BY <3>1, <3>2
    <2>2. CASE ~UNCHANGED locals
      BY <1>4, <1>5, <2>2 DEF Mark, Point, Unmark, DeleteRow, End
    <2>3. QED
      BY <2>1, <2>2
  <1>6. CASE Invalidate(t) \/ Back(t)
    <2>1. CASE UNCHANGED locals
      BY <1>0, <1>4, <1>6, <2>1 DEF Invalidate, Back, End, locals, SourcesTypeOK, LocalsTyped, TaskKnows, Step
    <2>2. CASE ~UNCHANGED locals
      BY <1>4, <1>6, <2>2 DEF Invalidate, Back, End
    <2>3. QED
      BY <2>1, <2>2
  <1>7. ASSUME stage[t] \in {"lock", "parse", "store"}, NEW found \in Content, Failed(t, found) PROVE LocalsTyped' /\ TaskKnows(t)'
    <2>1. CASE Forget(t)
      BY <1>4, <2>1
    <2>2. CASE ~Forget(t)
      <3>1. prev[t] # Nothing => prev[t] \in Source
        BY <1>0 DEF SourcesTypeOK
      <3>2. QED
        BY <1>0, <1>7, <2>2, <3>1, FailedLeaves DEF TaskKnows
    <2>3. QED
      BY <2>1, <2>2
  <1>8. CASE Lock(t)
    <2>1. CASE Failed(t, Empty)
      BY <1>0, <1>7, <1>8, <2>1, Contents DEF Lock
    <2>2. CASE ~Failed(t, Empty)
      <3>1. World(path) \in Content
        BY <1>0, Contents DEF SourcesTypeOK
      <3>2. /\ stage[t] = "lock" /\ stage' = [stage EXCEPT ![t] = "parse"] /\ fp' = [fp EXCEPT ![t] = World(path)]
            /\ UNCHANGED <<kind, src, prev, index, soft, lone>>
        BY <1>8, <2>2 DEF Lock
      <3>3. LocalsTyped'
        BY <1>0, <3>1, <3>2 DEF SourcesTypeOK, LocalsTyped, Step
      <3>4. TaskKnows(t)'
        BY <1>0, <3>2 DEF SourcesTypeOK, TaskKnows
      <3>5. QED
        BY <3>3, <3>4
    <2>3. QED
      BY <2>1, <2>2
  <1>9. CASE Parse(t)
    <2>1. World(fp[t].of) \in Content
      BY <1>0, <1>9 DEF Parse, Present, World, SourcesTypeOK, Content, Source
    <2>2. QED
      BY <1>0, <1>9, <2>1 DEF Parse, SourcesTypeOK, LocalsTyped, TaskKnows, Step
  <1>10. CASE ParseFails(t) \/ StoreFails(t)
    <2>1. cache.index \in Content /\ index[t] \in Content
      BY <1>0, Contents DEF SourcesTypeOK
    <2>2. QED
      BY <1>7, <1>10, <2>1 DEF ParseFails, StoreFails
  <1>11. CASE Store(t)
    <2>1. CASE End(t)
      BY <1>4, <2>1 DEF End
    <2>2. CASE ~End(t)
      <3>1. /\ stage[t] = "store" /\ stage' = [stage EXCEPT ![t] = "send"] /\ fp' = [fp EXCEPT ![t] = Empty]
            /\ soft' = soft \ {t} /\ UNCHANGED <<kind, src, prev, index, lone>> /\ kind[t] = "sync"
        BY <1>11, <2>2 DEF Store, Succeeded
      <3>2. LocalsTyped'
        BY <1>0, <3>1, Contents DEF SourcesTypeOK, LocalsTyped, Step
      <3>3. TaskKnows(t)'
        BY <1>0, <3>1 DEF SourcesTypeOK, TaskKnows
      <3>4. QED
        BY <3>2, <3>3
    <2>3. QED
      BY <2>1, <2>2
  <1>12. CASE StoreImport(t) \/ RemoveFiles(t) \/ Rename(t) \/ Lost(t)
    BY <1>4, <1>12 DEF StoreImport, RemoveFiles, Rename, Lost, End
  <1>13. CASE LookAtCache(t)
    BY <1>0, <1>13, Contents DEF LookAtCache, SourcesTypeOK, LocalsTyped, TaskKnows, Step
  <1>14. QED
    BY <1>1, <1>2, <1>3, <1>5, <1>6, <1>8, <1>9, <1>10, <1>11, <1>12, <1>13 DEF Handler, Synchronisation

\* What the tasks share is typed again.
SharedTyped ==
    /\ rows \subseteq Source /\ active \in Source \cup {Nothing}
    /\ files \subseteq Imports /\ unused \subseteq Imports
    /\ version \in 0 .. MaxVersion /\ present \in BOOLEAN
    /\ path \in Source /\ cache \in [fingerprint : Content, index : Content]
    /\ mu \in Tasks \cup {Nothing} /\ raced \subseteq Tasks
    /\ mixed \in BOOLEAN /\ revived \subseteq Imports

LEMMA SharedStep ==
    ASSUME TypeInv, (\A u \in Tasks : stage[u] = "read" /\ src[u] = Server => Server \in rows),
           NEW t \in Tasks, Handler(t) \/ Synchronisation(t)
    PROVE  SharedTyped'
  <1>0. SourcesTypeOK /\ TaskKnows(t) /\ SharedTyped
    BY DEF TypeInv, SourcesTypeOK, SharedTyped
  <1> USE DEF SharedTyped, sources, world, history
  <1>1. ASSUME BadWrite \/ Remove PROVE cache' \in [fingerprint : Content, index : Content] /\ raced' \subseteq Tasks
    <2>1. UNCHANGED <<cache, raced>> \/ Remove
      BY <1>1 DEF BadWrite
    <2>2. soft \subseteq Tasks
      BY <1>0 DEF SourcesTypeOK
    <2>3. QED
      BY <1>0, <2>1, <2>2, Contents DEF Remove
  <1>2. CASE \/ \E s \in Source : BeginActivate(t, s) \/ BeginRename(t, s)
             \/ \E s \in Imports : BeginImport(t, s) \/ BeginDelete(t, s)
             \/ BeginRebuild(t) \/ BeginIndex(t) \/ BeginSync(t) \/ LookAtCache(t) \/ Lost(t) \/ Parse(t)
    BY <1>0, <1>2 DEF BeginActivate, BeginRename, BeginImport, BeginDelete, BeginRebuild, BeginIndex, BeginSync, LookAtCache,
                      Lost, Parse, End
  <1>3. CASE Mark(t) \/ Point(t) \/ Unmark(t) \/ Back(t)
    BY <1>0, <1>3 DEF Mark, Point, Unmark, Back, End, TaskKnows
  <1>4. CASE Invalidate(t)
    BY <1>0, <1>1, <1>4 DEF Invalidate
  <1>5. CASE Lock(t)
    BY <1>0, <1>5 DEF Lock
  <1>6. CASE ParseFails(t) \/ StoreFails(t)
    <2>1. cache' \in [fingerprint : Content, index : Content] /\ raced' \subseteq Tasks
      BY <1>0, <1>1, <1>6 DEF ParseFails, StoreFails
    <2>2. QED
      BY <1>0, <1>6, <2>1 DEF ParseFails, StoreFails
  <1>7. CASE Store(t)
    <2>1. fp[t] \in Content /\ index[t] \in Content
      BY <1>0 DEF SourcesTypeOK
    <2>2. mixed' \in BOOLEAN /\ raced' \subseteq Tasks /\ revived' = revived
      BY <1>0, <1>7 DEF Store, Succeeded, End
    <2>3. QED
      BY <1>0, <1>7, <2>1, <2>2 DEF Store
  <1>8. CASE StoreImport(t) \/ DeleteRow(t) \/ RemoveFiles(t)
    BY <1>0, <1>8 DEF StoreImport, DeleteRow, RemoveFiles, End, TaskKnows, Source
  <1>9. CASE Rename(t)
    <2>1. src[t] \in Source /\ (src[t] = Server => Server \in rows)
      BY <1>0, <1>9 DEF Rename, TaskKnows
    <2>2. QED
      BY <1>0, <1>9, <2>1 DEF Rename, End, Source
  <1>10. QED
    BY <1>2, <1>3, <1>4, <1>5, <1>6, <1>7, <1>8, <1>9 DEF Handler, Synchronisation

LEMMA PanelStep ==
    ASSUME TypeInv, GameSaves \/ MoveWorld \/ ResetInvalidates \/ PanelRestarts \/ UNCHANGED sourceVars
    PROVE  TypeInv'
  <1>0. SourcesTypeOK /\ SharedTyped /\ LocalsTyped
    BY DEF TypeInv, SourcesTypeOK, SharedTyped, LocalsTyped
  <1>1. CASE PanelRestarts
    <2>1. LocalsTyped'
      BY <1>1, Contents, <1>0 DEF PanelRestarts, LocalsTyped, Kind, Step
    <2>2. cache' \in [fingerprint : Content, index : Content]
      BY <1>0, <1>1, Contents DEF PanelRestarts, SharedTyped
    <2>3. rows' \subseteq Source /\ active' \in Source \cup {Nothing} /\ path' \in Source /\ mixed' \in BOOLEAN
      <3>1. mixed' \in BOOLEAN
        <4>1. mixed' = FALSE \/ mixed' = (active \in Imports)
          BY <1>1 DEF PanelRestarts
        <4>2. (active \in Imports) \in BOOLEAN
          OBVIOUS
        <4>3. QED
          BY <4>1, <4>2, Zenon
      <3>2. path' \in {Server, active} /\ (path' = active => active # Nothing)
        BY <1>0, <1>1 DEF PanelRestarts, SharedTyped, Source
      <3>3. rows' \in {rows, rows \cup {Server}} /\ active' \in {active, Server, Nothing}
        BY <1>1 DEF PanelRestarts
      <3>4. QED
        BY <1>0, <3>1, <3>2, <3>3 DEF SharedTyped, Source
    <2>4. SharedTyped'
      BY <1>0, <1>1, <2>2, <2>3 DEF PanelRestarts, SharedTyped, world
    <2>5. \A t \in Tasks : TaskKnows(t)'
      BY <1>1 DEF PanelRestarts, TaskKnows
    <2>6. QED
      BY <2>1, <2>4, <2>5 DEF TypeInv, SourcesTypeOK, LocalsTyped, SharedTyped
  <1>2. CASE GameSaves \/ MoveWorld \/ ResetInvalidates \/ UNCHANGED sourceVars
    <2>1. UNCHANGED <<locals, stage, rows, active, files, unused, path, mu, mixed, revived>>
      BY <1>2 DEF GameSaves, MoveWorld, ResetInvalidates, sourceVars, sources, history
    <2>2. cache' \in [fingerprint : Content, index : Content] /\ raced' \subseteq Tasks
      BY <1>0, <1>2, Contents DEF GameSaves, MoveWorld, ResetInvalidates, Remove, sourceVars, SourcesTypeOK
    <2>3. version' \in 0 .. MaxVersion /\ present' \in BOOLEAN
      <3>1. CASE GameSaves
        BY <1>0, <3>1 DEF GameSaves, SharedTyped
      <3>2. CASE ~GameSaves
        BY <1>0, <1>2, <3>2 DEF MoveWorld, ResetInvalidates, sourceVars, world, SharedTyped
      <3>3. QED
        BY <3>1, <3>2
    <2>4. SourcesTypeOK'
      BY <1>0, <2>1, <2>2, <2>3 DEF locals, SourcesTypeOK
    <2>5. \A t \in Tasks : TaskKnows(t)'
      BY <2>1 DEF TypeInv, TaskKnows, locals
    <2>6. QED
      BY <2>4, <2>5 DEF TypeInv
  <1>3. QED
    BY <1>1, <1>2

LEMMA TypeStep ==
    ASSUME TypeInv, FilesInv, [SourcesNext]_sourceVars
    PROVE  TypeInv'
  <1>1. ASSUME NEW t \in Tasks, Handler(t) \/ Synchronisation(t) PROVE TypeInv'
    <2>1. LocalsTyped' /\ TaskKnows(t)'
      BY <1>1, LocalsStep
    <2>2. SharedTyped'
      <3>1. \A u \in Tasks : stage[u] = "read" /\ src[u] = Server => Server \in rows
        BY DEF FilesInv
      <3>2. QED
        BY <1>1, <3>1, SharedStep
    <2>3. SourcesTypeOK'
      BY <2>1, <2>2 DEF SourcesTypeOK, LocalsTyped, SharedTyped
    <2>4. \A u \in Tasks : TaskKnows(u)'
      <3>1. Beside(t)
        BY <1>1, OthersKept DEF TypeInv
      <3>2. QED
        BY <2>1, <3>1 DEF TypeInv, TaskKnows, Beside
    <2>5. QED
      BY <2>3, <2>4 DEF TypeInv
  <1>2. QED
    BY <1>1, PanelStep DEF SourcesNext

-----------------------------------------------------------------------------
\* The index.
LEMMA IndexStep ==
    ASSUME TypeInv, IndexInv, [SourcesNext]_sourceVars
    PROVE  IndexInv'
  <1>0. SourcesTypeOK /\ version \in Nat
    BY DEF TypeInv, SourcesTypeOK
  <1> USE DEF Real, ReadSince
  <1>1. ASSUME NEW t \in Tasks, Handler(t) \/ Synchronisation(t), UNCHANGED version,
               cache' = cache \/ cache' = NoCache,
               stage'[t] \notin {"look", "parse", "store"}
        PROVE  IndexInv'
    <2>1. Beside(t)
      BY <1>0, <1>1, OthersKept
    <2>2. QED
      BY <1>1, <2>1 DEF IndexInv, Beside
  <1>2. ASSUME NEW t \in Tasks, \/ \E s \in Source : BeginActivate(t, s) \/ BeginRename(t, s)
                                \/ \E s \in Imports : BeginImport(t, s) \/ BeginDelete(t, s)
                                \/ BeginRebuild(t) \/ BeginIndex(t) \/ LookAtCache(t)
        PROVE  UNCHANGED <<version, cache>> /\ stage'[t] \notin {"look", "parse", "store"}
    BY <1>0, <1>2 DEF BeginActivate, BeginRename, BeginImport, BeginDelete, BeginRebuild, BeginIndex, LookAtCache, world, SourcesTypeOK
  <1>3. ASSUME NEW t \in Tasks, \/ Mark(t) \/ Point(t) \/ Unmark(t) \/ Back(t)
                                \/ StoreImport(t) \/ DeleteRow(t) \/ RemoveFiles(t) \/ Rename(t) \/ Lost(t)
        PROVE  UNCHANGED <<version, cache>> /\ stage'[t] \notin {"look", "parse", "store"}
    <2>1. UNCHANGED <<version, cache>>
      BY <1>3 DEF Mark, Point, Unmark, Back, StoreImport, DeleteRow, RemoveFiles, Rename, Lost, world
    <2>2. CASE End(t)
      BY <1>0, <2>1, <2>2 DEF End, Forget, SourcesTypeOK
    <2>3. CASE ~End(t)
      BY <1>0, <1>3, <2>1, <2>3 DEF Mark, Point, Unmark, Back, StoreImport, DeleteRow, RemoveFiles, Rename, Lost, SourcesTypeOK
    <2>4. QED
      BY <2>2, <2>3
  <1>4. ASSUME NEW t \in Tasks, Invalidate(t)
        PROVE  UNCHANGED version /\ cache' = NoCache /\ stage'[t] \notin {"look", "parse", "store"}
    BY <1>0, <1>4 DEF Invalidate, Remove, Forget, world, SourcesTypeOK
  <1>5. ASSUME NEW t \in Tasks, NEW found \in Content, Failed(t, found)
        PROVE  stage'[t] \in {"unmark", "send", "idle"}
    BY <1>0, <1>5 DEF Failed, Forget, SourcesTypeOK
  <1>6. ASSUME NEW t \in Tasks, ParseFails(t) \/ StoreFails(t)
        PROVE  UNCHANGED version /\ (cache' = cache \/ cache' = NoCache) /\ stage'[t] \notin {"look", "parse", "store"}
    <2>1. cache.index \in Content /\ index[t] \in Content
      BY <1>0, Contents DEF SourcesTypeOK
    <2>2. stage'[t] \in {"unmark", "send", "idle"}
      BY <1>5, <1>6, <2>1 DEF ParseFails, StoreFails
    <2>3. QED
      BY <1>6, <2>2 DEF ParseFails, StoreFails, BadWrite, Remove, world
  <1>7. ASSUME NEW t \in Tasks, BeginSync(t) \/ Lock(t) PROVE IndexInv'
    <2>1. CASE Failed(t, Empty)
      <3>1. stage'[t] \in {"unmark", "send", "idle"} /\ UNCHANGED <<version, cache>>
        BY <1>0, <1>5, <1>7, <2>1, Contents DEF BeginSync, Lock, world
      <3>2. QED
        BY <1>1, <1>7, <3>1 DEF Handler, Synchronisation
    <2>2. CASE ~Failed(t, Empty)
      <3>1. /\ fp' = [fp EXCEPT ![t] = World(path)] /\ stage'[t] \in {"look", "parse"}
            /\ UNCHANGED <<version, cache>>
        BY <1>0, <1>7, <2>2 DEF BeginSync, Lock, world, SourcesTypeOK
      <3>2. path \in Source /\ fp'[t] = World(path)
        BY <1>0, <3>1 DEF SourcesTypeOK
      <3>3. fp'[t].of \in Source /\ (fp'[t].of = Server => fp'[t].save <= version) /\ (fp'[t].of # Server => fp'[t].save = 1)
        BY <1>0, <3>2 DEF World
      <3>4. Beside(t)
        BY <1>0, <1>7, OthersKept DEF Handler, Synchronisation
      <3>5. QED
        BY <3>1, <3>3, <3>4 DEF IndexInv, Beside
    <2>3. QED
      BY <2>1, <2>2
  <1>8. ASSUME NEW t \in Tasks, Parse(t) PROVE IndexInv'
    <2>1. Real(fp[t])
      BY <1>8 DEF Parse, IndexInv
    <2>2. /\ index' = [index EXCEPT ![t] = World(fp[t].of)] /\ stage'[t] = "store"
          /\ UNCHANGED <<version, cache, fp>>
      BY <1>0, <1>8 DEF Parse, world, SourcesTypeOK
    <2>3. index'[t] = World(fp[t].of)
      BY <1>0, <2>2 DEF SourcesTypeOK
    <2>4. /\ index'[t].of = fp[t].of /\ fp[t].save <= index'[t].save
          /\ (index'[t].of = Server => index'[t].save <= version) /\ (index'[t].of # Server => index'[t].save = 1)
      BY <1>0, <2>1, <2>3 DEF World
    <2>5. Beside(t)
      BY <1>0, <1>8, OthersKept DEF Handler
    <2>6. QED
      BY <2>1, <2>2, <2>4, <2>5 DEF IndexInv, Beside
  <1>9. ASSUME NEW t \in Tasks, Store(t) PROVE IndexInv'
    <2>1. ReadSince(fp[t], index[t])
      BY <1>9 DEF Store, IndexInv
    <2>2. /\ cache' = [fingerprint |-> fp[t], index |-> index[t]] /\ stage'[t] \in {"send", "idle"}
          /\ UNCHANGED version
      BY <1>0, <1>9 DEF Store, Succeeded, End, Forget, world, SourcesTypeOK
    <2>3. cache'.fingerprint = fp[t] /\ cache'.index = index[t]
      BY <2>2
    <2>4. Beside(t)
      BY <1>0, <1>9, OthersKept DEF Handler
    <2>5. QED
      BY <2>1, <2>2, <2>3, <2>4 DEF IndexInv, Beside
  <1>10. CASE GameSaves \/ MoveWorld \/ ResetInvalidates \/ UNCHANGED sourceVars
    <2>1. /\ UNCHANGED <<fp, index, stage>> /\ version' \in Nat /\ version <= version'
          /\ cache' = cache \/ cache' = NoCache
      BY <1>0, <1>10 DEF GameSaves, MoveWorld, ResetInvalidates, Remove, sourceVars, locals, world
    <2>2. \A t \in Tasks : fp[t].save \in Nat /\ index[t].save \in Nat
      BY <1>0 DEF SourcesTypeOK, Content
    <2>3. cache.fingerprint.save \in Nat /\ cache.index.save \in Nat
      BY <1>0 DEF SourcesTypeOK, Content
    <2>4. QED
      BY <1>0, <2>1, <2>2, <2>3 DEF IndexInv
  <1>11. CASE PanelRestarts
    BY <1>0, <1>11 DEF PanelRestarts, IndexInv, world
  <1>12. ASSUME NEW t \in Tasks, Handler(t) \/ Synchronisation(t) PROVE IndexInv'
    BY <1>1, <1>2, <1>3, <1>4, <1>6, <1>7, <1>8, <1>9, <1>12 DEF Handler, Synchronisation
  <1>13. QED
    BY <1>10, <1>11, <1>12 DEF SourcesNext

-----------------------------------------------------------------------------
\* Activations.  First the steps of tasks that activate nothing.
LEMMA QuietStep ==
    ASSUME TypeInv, ActivationInv, NEW t \in Tasks, Beside(t), t \notin Activating, t \notin Activating',
           UNCHANGED <<active, path, mixed, lone>>, kind'[t] = "rename" /\ prev'[t] # Nothing => active # Nothing
    PROVE  ActivationInv'
  <1>1. Activating' = Activating
    BY DEF Activating, Beside
  <1>2. lone # Nothing => lone # t /\ lone \in Tasks
    BY DEF ActivationInv, TypeInv, SourcesTypeOK
  <1>3. lone # Nothing => Only(lone)'
    <2>1. ASSUME lone # Nothing PROVE Only(lone)'
      BY <1>2, <2>1 DEF ActivationInv, Only, Aligned, Beside
    <2>2. QED
      BY <2>1
  <1>4. (lone = Nothing => IF Activating = {} THEN Aligned ELSE mixed)'
    BY <1>1 DEF ActivationInv, Aligned
  <1>5. \A u \in Tasks : kind'[u] = "rename" /\ prev'[u] # Nothing => active' # Nothing
    BY DEF ActivationInv, Beside
  <1>6. QED
    BY <1>1, <1>3, <1>4, <1>5 DEF ActivationInv

\* A step of an activation: it is the only one, or the row and the path are not known to agree.
LEMMA ActivatingStep ==
    ASSUME TypeInv, ActivationInv, NEW t \in Tasks, Beside(t), t \in Activating,
           active' # Nothing \/ active' = active, kind'[t] # "rename",
           lone # t => mixed',
           IF t \in Activating' THEN lone' = lone /\ (lone = t => Only(t)')
           ELSE lone' = (IF lone = t THEN Nothing ELSE lone) /\ (lone = t => Aligned')
    PROVE  ActivationInv'
  <1>1. \A u \in Tasks \ {t} : u \in Activating' <=> u \in Activating
    BY DEF Activating, Beside
  <1>2. lone = Nothing \/ lone = t
    BY DEF ActivationInv
  <1>3. lone = t => Activating = {t}
    BY DEF ActivationInv
  <1>4. \A u \in Tasks : kind'[u] = "rename" /\ prev'[u] # Nothing => active' # Nothing
    BY DEF ActivationInv, Beside
  <1>5. Activating' \subseteq Tasks /\ Activating \subseteq Tasks
    BY DEF Activating
  <1>6. CASE lone = t /\ t \in Activating'
    <2>1. Activating' = {t} /\ lone' = t /\ Only(t)'
      BY <1>1, <1>3, <1>5, <1>6
    <2>2. Only(lone)'
      BY <2>1 DEF Only, Aligned
    <2>3. QED
      BY <1>4, <1>6, <2>1, <2>2 DEF ActivationInv
  <1>7. CASE lone = t /\ t \notin Activating'
    <2>1. Activating' = {} /\ lone' = Nothing /\ Aligned'
      BY <1>1, <1>3, <1>5, <1>7
    <2>2. QED
      BY <1>4, <2>1 DEF ActivationInv
  <1>8. CASE lone = Nothing
    <2>1. lone' = Nothing /\ mixed' /\ Aligned'
      BY <1>8 DEF Aligned
    <2>2. QED
      BY <1>4, <2>1 DEF ActivationInv
  <1>9. QED
    BY <1>2, <1>6, <1>7, <1>8

\* What an activation may count on.
LEMMA Activates ==
    ASSUME TypeInv, ActivationInv, NEW t \in Tasks
    PROVE  /\ t \in Activating => (lone = t /\ Only(t)) \/ (lone = Nothing /\ mixed)
           /\ t \notin Activating => lone # t
           /\ stage[t] \in {"mark", "point", "unmark", "back", "clear back"} => t \in Activating
           /\ stage[t] \in {"idle", "look", "send", "read", "gone", "placed"} => t \notin Activating
  <1>1. TaskKnows(t)
    BY DEF TypeInv
  <1>2. QED
    BY <1>1 DEF ActivationInv, Activating, TaskKnows

LEMMA FailedStep ==
    ASSUME TypeInv, ActivationInv, NEW t \in Tasks, Beside(t), stage[t] \in {"lock", "parse", "store"},
           NEW found \in Content, Failed(t, found), UNCHANGED <<active, path, mixed>>
    PROVE  ActivationInv'
  <1>0. SourcesTypeOK /\ TaskKnows(t)
    BY DEF TypeInv
  <1>1. CASE Forget(t)
    <2>1. /\ stage'[t] = "idle" /\ kind'[t] = "sync" /\ lone' = (IF lone = t THEN Nothing ELSE lone)
      BY <1>0, <1>1, ForgetLeaves DEF Forget
    <2>2. CASE t \in Activating
      <3>1. lone = t => Aligned
        BY <1>0, <2>2, Activates DEF Only, Aligned
      <3>2. QED
        BY <2>1, <2>2, <3>1, Activates, ActivatingStep DEF Activating, Aligned
    <2>3. CASE t \notin Activating
      BY <2>1, <2>3, Activates, QuietStep DEF Activating
    <2>4. QED
      BY <2>2, <2>3
  <1>2. CASE ~Forget(t)
    <2>1. \/ stage'[t] = "unmark" /\ kind[t] = "activate" /\ kind'[t] = "activate" /\ lone' = lone
          \/ stage'[t] = "send" /\ kind[t] = "sync" /\ kind'[t] = "sync" /\ lone' = lone
      BY <1>0, <1>2, FailedLeaves DEF TaskKnows
    <2>2. CASE kind[t] = "activate"
      <3>1. t \in Activating /\ t \in Activating'
        BY <2>1, <2>2 DEF Activating
      <3>2. Only(t)'
        BY <2>1, <2>2 DEF Only
      <3>3. QED
        BY <2>1, <2>2, <3>1, <3>2, Activates, ActivatingStep
    <2>3. CASE kind[t] # "activate"
      BY <2>1, <2>3, QuietStep DEF Activating
    <2>4. QED
      BY <2>2, <2>3
  <1>3. QED
    BY <1>1, <1>2

\* A task that has begun something else, or that ends.
LEMMA BeginsQuietly ==
    ASSUME TypeInv, ActivationInv, NEW t \in Tasks, Beside(t),
           \/ \E s \in Source : BeginRename(t, s)
           \/ \E s \in Imports : BeginImport(t, s) \/ BeginDelete(t, s)
           \/ BeginRebuild(t) \/ BeginIndex(t) \/ BeginSync(t) \/ LookAtCache(t)
    PROVE  ActivationInv'
  <1>0. SourcesTypeOK /\ TaskKnows(t)
    BY DEF TypeInv
  <1>1. stage[t] \in {"idle", "look"} /\ UNCHANGED <<active, path, mixed, lone>>
    BY DEF BeginRename, BeginImport, BeginDelete, BeginRebuild, BeginIndex, BeginSync, LookAtCache, Begin, sources, history
  <1>2. kind'[t] \in {"rename", "import", "delete", "rebuild", "sync"}
    BY <1>0 DEF BeginRename, BeginImport, BeginDelete, BeginRebuild, BeginIndex, BeginSync, LookAtCache, Begin,
                TaskKnows, SourcesTypeOK
  <1>3. kind'[t] = "rename" /\ prev'[t] # Nothing => active # Nothing
    <2>1. CASE \E s \in Source : BeginRename(t, s)
      BY <1>0, <2>1 DEF BeginRename, SourcesTypeOK
    <2>2. CASE ~\E s \in Source : BeginRename(t, s)
      <3>1. kind'[t] # "rename"
        BY <1>0, <2>2 DEF BeginImport, BeginDelete, BeginRebuild, BeginIndex, BeginSync, LookAtCache, Begin, TaskKnows, SourcesTypeOK
      <3>2. QED
        BY <3>1
    <2>3. QED
      BY <2>1, <2>2
  <1>4. t \notin Activating /\ t \notin Activating'
    BY <1>1, <1>2, Activates DEF Activating
  <1>5. QED
    BY <1>1, <1>3, <1>4, QuietStep

LEMMA EndsQuietly ==
    ASSUME TypeInv, ActivationInv, NEW t \in Tasks, Beside(t),
           StoreImport(t) \/ DeleteRow(t) \/ RemoveFiles(t) \/ Rename(t) \/ Lost(t)
    PROVE  ActivationInv'
  <1>0. SourcesTypeOK /\ TaskKnows(t)
    BY DEF TypeInv
  <1>1. stage[t] \in {"placed", "read", "gone", "send"} /\ UNCHANGED <<path, mixed>>
    BY DEF StoreImport, DeleteRow, RemoveFiles, Rename, Lost, sources, history
  <1>2. active' = active
    <2>1. CASE Rename(t)
      BY <2>1 DEF Rename, ActivationInv
    <2>2. CASE ~Rename(t)
      BY <2>2 DEF StoreImport, DeleteRow, RemoveFiles, Lost, sources
    <2>3. QED
      BY <2>1, <2>2
  <1>3. t \notin Activating /\ lone # t
    BY <1>1, Activates
  <1>4. CASE Forget(t)
    <2>1. stage'[t] = "idle" /\ kind'[t] = "sync" /\ lone' = lone
      BY <1>0, <1>3, <1>4, ForgetLeaves
    <2>2. QED
      BY <1>1, <1>2, <1>3, <2>1, QuietStep DEF Activating
  <1>5. CASE ~Forget(t)
    <2>1. UNCHANGED locals /\ stage'[t] = "gone"
      BY <1>0, <1>5 DEF StoreImport, DeleteRow, RemoveFiles, Rename, Lost, End, SourcesTypeOK
    <2>2. kind'[t] = kind[t] /\ prev'[t] = prev[t] /\ lone' = lone
      BY <2>1 DEF locals
    <2>3. kind[t] # "activate"
      BY <1>0, <1>1 DEF TaskKnows
    <2>4. kind'[t] = "rename" /\ prev'[t] # Nothing => active # Nothing
      BY <2>2 DEF ActivationInv
    <2>5. QED
      BY <1>1, <1>2, <1>3, <2>2, <2>3, <2>4, QuietStep DEF Activating
  <1>6. QED
    BY <1>4, <1>5

\* A step of an activation that goes on.
LEMMA GoesOn ==
    ASSUME TypeInv, ActivationInv, NEW t \in Activating, Beside(t),
           NEW at \in Step \ {"idle"}, stage' = [stage EXCEPT ![t] = at], UNCHANGED locals,
           active' \in Source \/ active' = active, lone # t => mixed', lone = t => Only(t)'
    PROVE  ActivationInv'
  <1>1. t \in Tasks /\ kind[t] = "activate" /\ SourcesTypeOK
    BY DEF Activating, TypeInv
  <1>2. stage'[t] = at /\ kind'[t] = "activate" /\ lone' = lone
    BY <1>1 DEF SourcesTypeOK, locals
  <1>3. t \in Activating' /\ (active' # Nothing \/ active' = active)
    BY <1>1, <1>2 DEF Activating
  <1>4. QED
    BY <1>1, <1>2, <1>3, ActivatingStep

\* A step of an activation that ends it.
LEMMA GoesAway ==
    ASSUME TypeInv, ActivationInv, NEW t \in Activating, Beside(t), Forget(t),
           active' = active, lone # t => mixed', lone = t => Aligned'
    PROVE  ActivationInv'
  <1>1. t \in Tasks /\ SourcesTypeOK
    BY DEF Activating, TypeInv
  <1>2. stage'[t] = "idle" /\ kind'[t] = "sync" /\ lone' = (IF lone = t THEN Nothing ELSE lone)
    BY <1>1, ForgetLeaves DEF Forget
  <1>3. QED
    BY <1>1, <1>2, ActivatingStep DEF Activating

LEMMA ActivateStep ==
    ASSUME TypeInv, ActivationInv, NEW t \in Tasks, Beside(t),
           Mark(t) \/ Point(t) \/ Unmark(t) \/ Back(t) \/ (Invalidate(t) /\ t \in Activating)
    PROVE  ActivationInv'
  <1>0. SourcesTypeOK /\ TaskKnows(t)
    BY DEF TypeInv
  <1>1. stage[t] \in {"mark", "point", "unmark", "back", "clear", "clear back"} /\ t \in Activating
    BY Activates DEF Mark, Point, Unmark, Back, Invalidate
  <1>2. (lone = t /\ Only(t)) \/ (lone = Nothing /\ mixed /\ lone # t)
    BY <1>1, Activates
  <1>3. CASE Mark(t)
    <2>1. CASE active' = src[t] /\ Proceed(t, "point") /\ UNCHANGED locals
      <3>1. src[t] \in Source /\ src' = src /\ UNCHANGED mixed /\ stage'[t] = "point"
        BY <1>0, <1>3, <2>1 DEF Mark, TaskKnows, locals, history, SourcesTypeOK
      <3>2. Only(t)'
        BY <2>1, <3>1 DEF Only
      <3>3. QED
        BY <1>1, <1>2, <2>1, <3>1, <3>2, GoesOn DEF Step
    <2>2. CASE UNCHANGED active /\ End(t)
      <3>1. UNCHANGED <<active, path, mixed>> /\ stage[t] = "mark"
        BY <1>3, <2>2 DEF Mark, history
      <3>2. lone = t => Aligned'
        BY <1>2, <3>1 DEF Only, Aligned
      <3>3. QED
        BY <1>1, <1>2, <2>2, <3>1, <3>2, GoesAway DEF End
    <2>3. QED
      BY <1>3, <2>1, <2>2 DEF Mark
  <1>4. CASE Point(t)
    <2>1. PICK at \in {"lock", "clear"} : stage' = [stage EXCEPT ![t] = at]
      BY <1>4 DEF Point
    <2>2. UNCHANGED <<active, mixed, locals>> /\ path' = src[t] /\ src' = src /\ stage[t] = "point" /\ stage'[t] = at
      BY <1>0, <1>4, <2>1 DEF Point, sources, history, locals, SourcesTypeOK
    <2>3. lone = t => Only(t)'
      BY <1>2, <2>2 DEF Only
    <2>4. QED
      BY <1>1, <1>2, <2>1, <2>2, <2>3, GoesOn DEF Step
  <1>5. CASE Unmark(t)
    <2>1. stage' = [stage EXCEPT ![t] = "back"] /\ UNCHANGED <<path, locals>> /\ prev' = prev /\ prev[t] \in Source /\ stage'[t] = "back"
      BY <1>0, <1>5 DEF Unmark, locals, TaskKnows, SourcesTypeOK
    <2>2. active' \in Source \/ active' = active
      BY <1>5, <2>1 DEF Unmark
    <2>3. (mixed => mixed') /\ (mixed' \/ active' = prev[t])
      BY <1>5 DEF Unmark
    <2>4. Only(t)'
      BY <2>1, <2>3 DEF Only
    <2>5. QED
      BY <1>1, <1>2, <2>1, <2>2, <2>3, <2>4, GoesOn DEF Step
  <1>6. CASE Back(t)
    <2>1. UNCHANGED <<active, mixed>> /\ path' = prev[t] /\ stage[t] = "back"
      BY <1>6 DEF Back, sources, history
    <2>2. lone = t => Aligned'
      BY <1>2, <2>1 DEF Only, Aligned
    <2>3. CASE End(t)
      BY <1>1, <1>2, <2>1, <2>2, <2>3, GoesAway DEF End
    <2>4. CASE ~End(t)
      <3>1. stage' = [stage EXCEPT ![t] = "clear back"] /\ UNCHANGED locals /\ stage'[t] = "clear back"
        BY <1>0, <1>6, <2>4 DEF Back, SourcesTypeOK
      <3>2. lone = t => Only(t)'
        BY <2>2, <3>1 DEF Only
      <3>3. QED
        BY <1>1, <1>2, <2>1, <3>1, <3>2, GoesOn DEF Step
    <2>5. QED
      BY <2>3, <2>4
  <1>7. CASE Invalidate(t)
    <2>1. UNCHANGED <<active, path, mixed>> /\ stage[t] \in {"clear", "clear back"}
      BY <1>7 DEF Invalidate, sources, history
    <2>2. CASE stage[t] = "clear"
      <3>1. stage' = [stage EXCEPT ![t] = "lock"] /\ UNCHANGED locals /\ src' = src /\ stage'[t] = "lock"
        BY <1>0, <1>7, <2>2 DEF Invalidate, locals, SourcesTypeOK
      <3>2. lone = t => Only(t)'
        BY <1>2, <2>1, <2>2, <3>1 DEF Only
      <3>3. QED
        BY <1>1, <1>2, <2>1, <3>1, <3>2, GoesOn DEF Step
    <2>3. CASE stage[t] = "clear back"
      <3>1. Forget(t)
        BY <1>7, <2>3 DEF Invalidate
      <3>2. lone = t => Aligned'
        BY <1>2, <2>1, <2>3 DEF Only, Aligned
      <3>3. QED
        BY <1>1, <1>2, <2>1, <3>1, <3>2, GoesAway
    <2>4. QED
      BY <2>1, <2>2, <2>3
  <1>8. QED
    BY <1>3, <1>4, <1>5, <1>6, <1>7

\* A rebuild, for whom it may be.
LEMMA RebuildStep ==
    ASSUME TypeInv, ActivationInv, NEW t \in Tasks, Beside(t),
           (Invalidate(t) /\ t \notin Activating) \/ Lock(t) \/ Parse(t) \/ ParseFails(t) \/ Store(t) \/ StoreFails(t)
    PROVE  ActivationInv'
  <1>0. SourcesTypeOK /\ TaskKnows(t)
    BY DEF TypeInv
  <1>1. (lone = t /\ Only(t) /\ t \in Activating) \/ (lone = Nothing /\ mixed /\ lone # t /\ t \in Activating) \/ (t \notin Activating /\ lone # t)
    BY Activates
  <1>2. CASE Invalidate(t) /\ t \notin Activating
    <2>1. stage[t] = "clear"
      BY <1>2, Activates DEF Invalidate
    <2>2. stage' = [stage EXCEPT ![t] = "lock"] /\ UNCHANGED <<locals, active, path, mixed>>
      BY <1>2, <2>1 DEF Invalidate, sources, history
    <2>3. kind'[t] = kind[t] /\ prev'[t] = prev[t] /\ lone' = lone /\ kind[t] # "activate"
      BY <1>2, <2>1, <2>2 DEF locals, Activating
    <2>4. QED
      BY <1>2, <2>2, <2>3, QuietStep DEF Activating, ActivationInv
  <1>3. ASSUME NEW at \in {"parse", "store"}, stage[t] \in {"lock", "parse"}, stage' = [stage EXCEPT ![t] = at],
               UNCHANGED <<active, path, mixed, kind, src, prev, lone>>
        PROVE  ActivationInv'
    <2>1. stage'[t] = at
      BY <1>0, <1>3 DEF SourcesTypeOK
    <2>2. CASE t \in Activating
      <3>1. t \in Activating' /\ kind'[t] # "rename"
        BY <1>3, <2>1, <2>2 DEF Activating
      <3>2. lone = t => Only(t)'
        BY <1>1, <1>3, <2>1 DEF Only
      <3>3. QED
        BY <1>1, <1>3, <2>2, <3>1, <3>2, ActivatingStep
    <2>3. CASE t \notin Activating
      <3>1. t \notin Activating'
        BY <1>3, <2>3 DEF Activating
      <3>2. QED
        BY <1>3, <2>3, <3>1, QuietStep DEF ActivationInv
    <2>4. QED
      BY <2>2, <2>3
  <1>4. CASE Lock(t)
    <2>1. stage[t] = "lock" /\ UNCHANGED <<active, path, mixed>>
      BY <1>4 DEF Lock, sources, history
    <2>2. CASE Failed(t, Empty)
      BY <1>0, <2>1, <2>2, FailedStep, Contents
    <2>3. CASE ~Failed(t, Empty)
      BY <1>3, <1>4, <2>1, <2>3 DEF Lock
    <2>4. QED
      BY <2>2, <2>3
  <1>5. CASE Parse(t)
    BY <1>3, <1>5 DEF Parse, sources, history
  <1>6. CASE ParseFails(t) \/ StoreFails(t)
    <2>1. stage[t] \in {"parse", "store"} /\ UNCHANGED <<active, path, mixed>>
      BY <1>6 DEF ParseFails, StoreFails, sources, history
    <2>2. cache.index \in Content /\ index[t] \in Content
      BY <1>0, Contents DEF SourcesTypeOK
    <2>3. QED
      BY <1>6, <2>1, <2>2, FailedStep DEF ParseFails, StoreFails
  <1>7. CASE Store(t)
    <2>1. stage[t] = "store" /\ UNCHANGED <<active, path>>
      BY <1>7 DEF Store, sources
    <2>2. CASE kind[t] = "sync"
      <3>1. stage' = [stage EXCEPT ![t] = "send"] /\ UNCHANGED <<kind, prev, lone, mixed>>
        BY <1>7, <2>2 DEF Store, Succeeded, history
      <3>2. t \notin Activating /\ t \notin Activating'
        BY <2>2, <3>1 DEF Activating
      <3>3. QED
        BY <2>1, <2>2, <3>1, <3>2, QuietStep
    <2>3. CASE kind[t] # "sync"
      <3>1. Forget(t) /\ mixed' = (mixed /\ lone # t)
        BY <1>7, <2>3 DEF Store, Succeeded, End
      <3>2. CASE t \in Activating
        <4>1. lone = t => Aligned'
          BY <1>1, <2>1 DEF Only, Aligned
        <4>2. lone # t => mixed'
          BY <1>1, <3>1, <3>2
        <4>3. QED
          BY <2>1, <3>1, <3>2, <4>1, <4>2, GoesAway
      <3>3. CASE t \notin Activating
        <4>1. mixed' = mixed
          BY <1>0, <1>1, <3>1, <3>3 DEF SourcesTypeOK
        <4>2. stage'[t] = "idle" /\ kind'[t] = "sync" /\ lone' = lone
          BY <1>0, <1>1, <3>1, <3>3, ForgetLeaves
        <4>3. QED
          BY <2>1, <3>3, <4>1, <4>2, QuietStep DEF Activating
      <3>4. QED
        BY <3>2, <3>3
    <2>4. QED
      BY <2>2, <2>3
  <1>8. QED
    BY <1>2, <1>4, <1>5, <1>6, <1>7

LEMMA ActivationStep ==
    ASSUME TypeInv, ActivationInv, [SourcesNext]_sourceVars
    PROVE  ActivationInv'
  <1>0. SourcesTypeOK
    BY DEF TypeInv
  <1>1. ASSUME NEW t \in Tasks, NEW s \in Source, BeginActivate(t, s), Beside(t) PROVE ActivationInv'
    <2>1. /\ stage'[t] = "mark" /\ kind'[t] = "activate" /\ prev'[t] = active /\ UNCHANGED <<active, path>>
          /\ lone' = (IF Activating = {} THEN t ELSE Nothing) /\ mixed' = (mixed \/ Activating # {})
      BY <1>0, <1>1 DEF BeginActivate, Begin, sources, SourcesTypeOK
    <2>2. Activating' = Activating \cup {t}
      BY <1>1, <2>1 DEF Activating, Beside
    <2>3. \A u \in Tasks : kind'[u] = "rename" /\ prev'[u] # Nothing => active' # Nothing
      BY <1>1, <2>1 DEF ActivationInv, Beside
    <2>4. CASE Activating = {}
      <3>1. lone = Nothing /\ Aligned
        BY <2>4 DEF ActivationInv
      <3>2. mixed' = mixed /\ lone' = t /\ Activating' = {t}
        BY <1>0, <2>1, <2>2, <2>4 DEF SourcesTypeOK
      <3>3. Only(lone)'
        BY <2>1, <3>1, <3>2 DEF Only, Aligned
      <3>4. QED
        BY <2>3, <3>2, <3>3 DEF ActivationInv
    <2>5. CASE Activating # {}
      <3>1. mixed' /\ lone' = Nothing
        BY <2>1, <2>5
      <3>2. QED
        BY <2>3, <3>1 DEF ActivationInv, Aligned
    <2>6. QED
      BY <2>4, <2>5
  <1>2. ASSUME NEW t \in Tasks, Handler(t) \/ Synchronisation(t) PROVE ActivationInv'
    <2>1. Beside(t)
      BY <1>0, <1>2, OthersKept
    <2>2. CASE \E s \in Source : BeginActivate(t, s)
      BY <1>1, <2>1, <2>2
    <2>3. CASE \/ \E s \in Source : BeginRename(t, s)
               \/ \E s \in Imports : BeginImport(t, s) \/ BeginDelete(t, s)
               \/ BeginRebuild(t) \/ BeginIndex(t) \/ BeginSync(t) \/ LookAtCache(t)
      BY <2>1, <2>3, BeginsQuietly
    <2>4. CASE StoreImport(t) \/ DeleteRow(t) \/ RemoveFiles(t) \/ Rename(t) \/ Lost(t)
      BY <2>1, <2>4, EndsQuietly
    <2>5. CASE Mark(t) \/ Point(t) \/ Unmark(t) \/ Back(t) \/ Invalidate(t)
      BY <2>1, <2>5, ActivateStep, RebuildStep
    <2>6. CASE Lock(t) \/ Parse(t) \/ ParseFails(t) \/ Store(t) \/ StoreFails(t)
      BY <2>1, <2>6, RebuildStep
    <2>7. QED
      BY <1>2, <2>2, <2>3, <2>4, <2>5, <2>6 DEF Handler, Synchronisation
  <1>3. CASE GameSaves \/ MoveWorld \/ ResetInvalidates \/ UNCHANGED sourceVars
    <2>1. UNCHANGED <<stage, kind, src, prev, lone, active, path, mixed>>
      BY <1>3 DEF GameSaves, MoveWorld, ResetInvalidates, sourceVars, sources, locals, history
    <2>2. Activating' = Activating /\ Aligned' = Aligned
      BY <2>1 DEF Activating, Aligned
    <2>3. lone # Nothing => Only(lone)'
      BY <2>1, <2>2 DEF ActivationInv, Only
    <2>4. QED
      BY <2>1, <2>2, <2>3 DEF ActivationInv
  <1>4. CASE PanelRestarts
    <2>1. Activating' = {} /\ lone' = Nothing /\ \A t \in Tasks : kind'[t] = "sync"
      BY <1>4 DEF PanelRestarts, Activating
    <2>2. Aligned'
      <3>1. CASE path' = Server /\ mixed' = (active \in Imports) /\ UNCHANGED active
        <4>1. active = Nothing \/ active = Server \/ active \in Imports
          BY <1>0 DEF SourcesTypeOK, Source
        <4>2. active \in Imports => mixed'
          BY <3>1
        <4>3. QED
          BY <3>1, <4>1, <4>2 DEF Aligned
      <3>2. CASE path' = Server /\ active' \in {Server, Nothing}
        BY <3>2 DEF Aligned
      <3>3. CASE path' = active /\ UNCHANGED active
        BY <3>3 DEF Aligned
      <3>4. QED
        BY <1>4, <3>1, <3>2, <3>3 DEF PanelRestarts
    <2>3. QED
      BY <2>1, <2>2 DEF ActivationInv
  <1>5. QED
    BY <1>2, <1>3, <1>4 DEF SourcesNext

-----------------------------------------------------------------------------
\* Rows and files.
LEMMA FilesStep ==
    ASSUME TypeInv, FilesInv, [SourcesNext]_sourceVars
    PROVE  FilesInv'
  <1>0. SourcesTypeOK
    BY DEF TypeInv
  <1> DEFINE Shared == /\ rows \cap Imports \subseteq files \cup revived
                       /\ active \in Imports => active \in rows
                       /\ rows \cap unused = {}
             Placed(t) == stage[t] = "placed" => /\ src[t] \in files /\ src[t] \notin rows
                                                 /\ \A u \in Tasks \ {t} : src[u] # src[t]
             Task(t) == /\ src[t] \notin unused
                        /\ stage[t] = "gone" => src[t] \notin rows \/ src[t] \in revived
                        /\ stage[t] = "read" /\ src[t] = Server => Server \in rows
  <1>a. FilesInv <=> Shared /\ \A t \in Tasks : Task(t) /\ Placed(t)
    BY DEF FilesInv
  <1>b. FilesInv' <=> Shared' /\ \A t \in Tasks : Task(t)' /\ Placed(t)'
    BY DEF FilesInv
  <1>c. Nothing \notin unused
    BY <1>0 DEF SourcesTypeOK, Source
  <1>1. ASSUME NEW t \in Tasks, Handler(t) \/ Synchronisation(t), UNCHANGED sources, revived' = revived,
               src'[t] = src[t] \/ src'[t] = Nothing \/ src'[t] \in rows,
               stage'[t] \notin {"gone", "placed"}, stage'[t] = "read" => src'[t] \in rows
        PROVE  FilesInv'
    <2>1. Beside(t)
      BY <1>0, <1>1, OthersKept
    <2>2. Shared'
      BY <1>a, <1>1 DEF sources
    <2>3. ASSUME NEW u \in Tasks PROVE Task(u)' /\ Placed(u)'
      <3>1. CASE u = t
        BY <1>a, <1>c, <1>1, <3>1 DEF sources
      <3>2. CASE u # t
        <4>1. stage'[u] = stage[u] /\ src'[u] = src[u] /\ \A v \in Tasks \ {t} : src'[v] = src[v]
          BY <2>1, <3>2 DEF Beside
        <4>2. Task(u)'
          BY <1>a, <1>1, <4>1 DEF sources
        <4>3. ASSUME stage[u] = "placed" PROVE src'[t] # src'[u]
          <5>1. src[u] \notin rows /\ src[t] # src[u] /\ src[u] \in Imports
            BY <1>a, <3>2, <4>3 DEF TypeInv, TaskKnows
          <5>2. QED
            BY <1>1, <4>1, <5>1 DEF Source
        <4>4. Placed(u)'
          BY <1>a, <1>1, <4>1, <4>3 DEF sources
        <4>5. QED
          BY <4>2, <4>4
      <3>3. QED
        BY <3>1, <3>2
    <2>4. QED
      BY <1>b, <2>2, <2>3
  <1>2. ASSUME NEW t \in Tasks, NEW s \in Source,
               BeginActivate(t, s) \/ BeginRename(t, s) \/ (BeginDelete(t, s) /\ s \in Imports) PROVE FilesInv'
    <2>1. /\ UNCHANGED sources /\ revived' = revived /\ src'[t] = s /\ s \in rows
          /\ stage'[t] \in {"mark", "read"}
      BY <1>0, <1>2 DEF BeginActivate, BeginRename, BeginDelete, Begin, history, SourcesTypeOK
    <2>2. QED
      BY <1>1, <1>2, <2>1 DEF Handler
  <1>3. ASSUME NEW t \in Tasks, Forget(t), UNCHANGED sources, revived' = revived, Handler(t) \/ Synchronisation(t) PROVE FilesInv'
    <2>1. src'[t] = Nothing /\ stage'[t] = "idle"
      BY <1>0, <1>3, ForgetLeaves
    <2>2. QED
      BY <1>1, <1>3, <2>1
  <1>4. ASSUME NEW t \in Tasks, BeginRebuild(t) \/ BeginIndex(t) \/ BeginSync(t) \/ LookAtCache(t) \/ Point(t) \/ Parse(t) PROVE FilesInv'
    <2>1. /\ UNCHANGED sources /\ revived' = revived /\ (src'[t] = Nothing \/ src'[t] = src[t])
          /\ stage'[t] \in {"clear", "lock", "look", "send", "store"}
      BY <1>0, <1>4 DEF BeginRebuild, BeginIndex, BeginSync, LookAtCache, Point, Parse, Begin, history, locals, SourcesTypeOK
    <2>2. QED
      BY <1>1, <1>4, <2>1 DEF Handler, Synchronisation
  <1>5. ASSUME NEW t \in Tasks, Invalidate(t) \/ Back(t) \/ Lost(t) PROVE FilesInv'
    <2>1. UNCHANGED sources /\ revived' = revived
      BY <1>5 DEF Invalidate, Back, Lost, history
    <2>2. CASE Forget(t)
      BY <1>3, <1>5, <2>1, <2>2 DEF Handler, Synchronisation
    <2>3. CASE ~Forget(t)
      <3>1. stage'[t] \in {"lock", "clear back"} /\ src' = src
        BY <1>0, <1>5, <2>3 DEF Invalidate, Back, Lost, End, locals, SourcesTypeOK
      <3>2. QED
        BY <1>1, <1>5, <2>1, <3>1 DEF Handler, Synchronisation
    <2>4. QED
      BY <2>2, <2>3
  <1>6. ASSUME NEW t \in Tasks, Lock(t) \/ ParseFails(t) \/ Store(t) \/ StoreFails(t) PROVE FilesInv'
    <2>1. UNCHANGED sources /\ revived' = revived
      BY <1>6 DEF Lock, ParseFails, Store, StoreFails, Succeeded, history
    <2>2. CASE Forget(t)
      BY <1>3, <1>6, <2>1, <2>2 DEF Handler
    <2>3. CASE ~Forget(t)
      <3>1. stage'[t] \in {"parse", "unmark", "send"} /\ src' = src
        BY <1>0, <1>6, <2>3 DEF Lock, ParseFails, Store, StoreFails, Failed, Succeeded, End, SourcesTypeOK
      <3>2. QED
        BY <1>1, <1>6, <2>1, <3>1 DEF Handler
    <2>4. QED
      BY <2>2, <2>3
  \* From here on rows or files change.
  <1>7. ASSUME NEW t \in Tasks, Handler(t), UNCHANGED <<rows, files, unused, revived>>,
               active' \in Imports => active' \in rows,
               src'[t] = src[t] \/ src'[t] = Nothing, stage'[t] \notin {"gone", "placed", "read"}
        PROVE  FilesInv'
    <2>1. Beside(t)
      BY <1>0, <1>7, OthersKept
    <2>2. Shared'
      BY <1>a, <1>7
    <2>3. ASSUME NEW u \in Tasks PROVE Task(u)' /\ Placed(u)'
      <3>1. CASE u = t
        BY <1>a, <1>c, <1>7, <3>1
      <3>2. CASE u # t
        <4>1. stage'[u] = stage[u] /\ src'[u] = src[u] /\ \A v \in Tasks \ {t} : src'[v] = src[v]
          BY <2>1, <3>2 DEF Beside
        <4>2. stage[u] = "placed" => src[u] \in Imports
          BY DEF TypeInv, TaskKnows
        <4>3. QED
          BY <1>a, <1>7, <3>2, <4>1, <4>2 DEF Source
      <3>3. QED
        BY <3>1, <3>2
    <2>4. QED
      BY <1>b, <2>2, <2>3
  <1>8. ASSUME NEW t \in Tasks, Mark(t) \/ Unmark(t) PROVE FilesInv'
    <2>1. UNCHANGED <<rows, files, unused, revived>> /\ (active' = active \/ active' \in rows)
      BY <1>8 DEF Mark, Unmark, history
    <2>2. /\ src'[t] = src[t] \/ src'[t] = Nothing
          /\ stage'[t] \in {"point", "back", "idle"}
      <3>1. CASE Forget(t)
        BY <1>0, <3>1, ForgetLeaves
      <3>2. CASE ~Forget(t)
        BY <1>0, <1>8, <3>2 DEF Mark, Unmark, End, locals, SourcesTypeOK
      <3>3. QED
        BY <3>1, <3>2
    <2>3. QED
      BY <1>a, <1>7, <1>8, <2>1, <2>2 DEF Handler
  <1>9. ASSUME NEW t \in Tasks, NEW s \in Imports, BeginImport(t, s) PROVE FilesInv'
    <2>1. /\ UNCHANGED <<rows, active, revived>> /\ s \in unused /\ unused' = unused \ {s} /\ files' = files \cup {s}
          /\ src'[t] = s /\ stage'[t] = "placed" /\ Beside(t)
      BY <1>0, <1>9, OthersKept DEF BeginImport, Begin, history, SourcesTypeOK, Handler
    <2>2. Shared'
      BY <1>a, <2>1
    <2>3. ASSUME NEW u \in Tasks PROVE Task(u)' /\ Placed(u)'
      <3>1. CASE u = t
        <4>1. \A v \in Tasks \ {t} : src'[v] # s
          BY <1>a, <2>1 DEF Beside
        <4>2. s \notin rows
          BY <1>a, <2>1
        <4>3. QED
          BY <2>1, <3>1, <4>1, <4>2
      <3>2. CASE u # t
        <4>1. stage'[u] = stage[u] /\ src'[u] = src[u] /\ src[u] # s /\ \A v \in Tasks \ {t} : src'[v] = src[v]
          BY <1>a, <2>1, <3>2 DEF Beside
        <4>2. QED
          BY <1>a, <2>1, <3>2, <4>1
      <3>3. QED
        BY <3>1, <3>2
    <2>4. QED
      BY <1>b, <2>2, <2>3
  <1>10. ASSUME NEW t \in Tasks, StoreImport(t) PROVE FilesInv'
    <2>1. /\ UNCHANGED <<active, unused, revived>> /\ stage[t] = "placed" /\ src'[t] = Nothing /\ stage'[t] = "idle" /\ Beside(t)
          /\ (rows' = rows \cup {src[t]} /\ files' = files) \/ (rows' = rows /\ files' \in {files, files \ {src[t]}})
      BY <1>0, <1>10, OthersKept, ForgetLeaves DEF StoreImport, End, history, Handler
    <2>2. src[t] \in files /\ src[t] \notin rows /\ src[t] \notin unused /\ \A u \in Tasks \ {t} : src[u] # src[t]
      BY <1>a, <2>1
    <2>3. Shared'
      BY <1>a, <2>1, <2>2
    <2>4. ASSUME NEW u \in Tasks PROVE Task(u)' /\ Placed(u)'
      <3>1. CASE u = t
        BY <1>c, <2>1, <3>1
      <3>2. CASE u # t
        <4>1. /\ stage'[u] = stage[u] /\ src'[u] = src[u] /\ src[u] # src[t] /\ \A v \in Tasks \ {t} : src'[v] = src[v]
              /\ stage[u] = "placed" => src[u] # Nothing
          BY <2>1, <2>2, <3>2 DEF Beside, TypeInv, TaskKnows, Source
        <4>2. QED
          BY <1>a, <2>1, <3>2, <4>1
      <3>3. QED
        BY <3>1, <3>2
    <2>5. QED
      BY <1>b, <2>3, <2>4
  <1>11. ASSUME NEW t \in Tasks, DeleteRow(t) PROVE FilesInv'
    <2>1. UNCHANGED <<active, files, unused, revived>> /\ stage[t] = "read" /\ Beside(t) /\ src[t] \in Imports
      BY <1>0, <1>11, OthersKept DEF DeleteRow, history, Handler, TypeInv, TaskKnows
    <2>2. CASE Forget(t) /\ UNCHANGED rows
      <3>1. UNCHANGED sources
        BY <2>1, <2>2 DEF sources
      <3>2. QED
        BY <1>3, <1>11, <2>1, <2>2, <3>1 DEF Handler
    <2>3. CASE src[t] # active /\ rows' = rows \ {src[t]} /\ Proceed(t, "gone") /\ UNCHANGED locals
      <3>1. stage'[t] = "gone" /\ src' = src
        BY <1>0, <2>3 DEF locals, SourcesTypeOK
      <3>2. Shared'
        BY <1>a, <2>1, <2>3
      <3>3. ASSUME NEW u \in Tasks PROVE Task(u)' /\ Placed(u)'
        <4>1. u # t => stage'[u] = stage[u]
          BY <2>1 DEF Beside
        <4>2. src[t] # Server
          BY <2>1
        <4>3. QED
          BY <1>a, <2>1, <2>3, <3>1, <4>1, <4>2
      <3>4. QED
        BY <1>b, <3>2, <3>3
    <2>4. QED
      BY <1>11, <2>2, <2>3 DEF DeleteRow, End
  <1>12. ASSUME NEW t \in Tasks, RemoveFiles(t) PROVE FilesInv'
    <2>1. /\ UNCHANGED <<rows, active, unused, revived>> /\ stage[t] = "gone" /\ Beside(t) /\ files' \in {files, files \ {src[t]}}
          /\ src'[t] = Nothing /\ stage'[t] = "idle"
      BY <1>0, <1>12, OthersKept, ForgetLeaves DEF RemoveFiles, End, history, Handler
    <2>2. src[t] \notin rows \/ src[t] \in revived
      BY <1>a, <2>1
    <2>3. Shared'
      BY <1>a, <2>1, <2>2
    <2>4. ASSUME NEW u \in Tasks PROVE Task(u)' /\ Placed(u)'
      <3>1. CASE u = t
        BY <1>c, <2>1, <3>1
      <3>2. CASE u # t
        <4>1. /\ stage'[u] = stage[u] /\ src'[u] = src[u] /\ \A v \in Tasks \ {t} : src'[v] = src[v]
              /\ stage[u] = "placed" => src[u] # Nothing
          BY <2>1, <3>2 DEF Beside, TypeInv, TaskKnows, Source
        <4>2. QED
          BY <1>a, <2>1, <3>2, <4>1
      <3>3. QED
        BY <3>1, <3>2
    <2>5. QED
      BY <1>b, <2>3, <2>4
  <1>13. ASSUME NEW t \in Tasks, Rename(t) PROVE FilesInv'
    <2>1. /\ UNCHANGED <<files, unused>> /\ stage[t] = "read" /\ Beside(t) /\ src[t] \in Source
          /\ src'[t] = Nothing /\ stage'[t] = "idle"
      BY <1>0, <1>13, OthersKept, ForgetLeaves DEF Rename, End, Handler, TypeInv, TaskKnows
    <2>2. \/ UNCHANGED <<rows, active, revived>>
          \/ /\ rows' = rows \cup {src[t]} /\ revived' = revived \cup {src[t]}
             /\ active' = active \/ active' = src[t]
      BY <1>13 DEF Rename
    <2>3. Shared'
      BY <1>a, <2>1, <2>2
    <2>4. ASSUME NEW u \in Tasks PROVE Task(u)' /\ Placed(u)'
      <3>1. CASE u = t
        BY <1>c, <2>1, <3>1
      <3>2. CASE u # t
        <4>1. /\ stage'[u] = stage[u] /\ src'[u] = src[u] /\ \A v \in Tasks \ {t} : src'[v] = src[v]
              /\ stage[u] = "placed" => src[u] # Nothing /\ src[u] # src[t]
          BY <1>a, <2>1, <3>2 DEF Beside, TypeInv, TaskKnows, Source
        <4>2. QED
          BY <1>a, <2>1, <2>2, <3>2, <4>1
      <3>3. QED
        BY <3>1, <3>2
    <2>5. QED
      BY <1>b, <2>3, <2>4
  <1>14. CASE GameSaves \/ MoveWorld \/ ResetInvalidates \/ UNCHANGED sourceVars
    <2>1. UNCHANGED <<rows, active, files, unused, revived, stage, src>>
      BY <1>14 DEF GameSaves, MoveWorld, ResetInvalidates, sourceVars, sources, locals, history
    <2>2. QED
      BY <2>1 DEF FilesInv
  <1>15. CASE PanelRestarts
    <2>1. UNCHANGED <<files, unused, revived>> /\ \A t \in Tasks : stage'[t] = "idle" /\ src'[t] = Nothing
      BY <1>15 DEF PanelRestarts
    <2>2. rows' \in {rows, rows \cup {Server}} /\ active' \in {active, Server, Nothing}
      BY <1>15 DEF PanelRestarts
    <2>3. unused \subseteq Imports
      BY <1>0 DEF SourcesTypeOK
    <2>4. Shared'
      BY <1>a, <2>1, <2>2, <2>3 DEF Source
    <2>5. QED
      BY <1>b, <1>c, <2>1, <2>4
  <1>16. ASSUME NEW t \in Tasks, Handler(t) \/ Synchronisation(t) PROVE FilesInv'
    <2>1. CASE \E s \in Source : BeginActivate(t, s) \/ BeginRename(t, s)
      BY <1>2, <2>1
    <2>2. CASE \E s \in Imports : BeginImport(t, s) \/ BeginDelete(t, s)
      <3>1. Imports \subseteq Source
        BY DEF Source
      <3>2. QED
        BY <1>2, <1>9, <2>2, <3>1
    <2>3. QED
      BY <1>4, <1>5, <1>6, <1>8, <1>10, <1>11, <1>12, <1>13, <1>16, <2>1, <2>2 DEF Handler, Synchronisation
  <1>17. QED
    BY <1>14, <1>15, <1>16 DEF SourcesNext

-----------------------------------------------------------------------------
\* What a synchronisation has to fall back on.
LEMMA RaceStep ==
    ASSUME TypeInv, IndexInv, RaceInv, [SourcesNext]_sourceVars
    PROVE  RaceInv'
  <1>0. SourcesTypeOK /\ \A t \in Tasks : TaskKnows(t)
    BY DEF TypeInv
  <1>1. cache # NoCache => cache.index.of \in Source
    BY DEF IndexInv, ReadSince, Real
  <1>2. ASSUME NEW t \in Tasks, Beside(t), \A u \in Tasks \ {t} : u \in raced => u \in raced',
               cache' # NoCache \/ cache' = cache \/ Remove, t \notin soft' \/ (t \in soft /\ stage'[t] \in {"lock", "parse", "store"}),
               t \in soft' /\ t \in raced => t \in raced',
               stage'[t] = "send" /\ t \notin raced' => index'[t].of \in Source
        PROVE  RaceInv'
    <2>1. ASSUME NEW u \in Tasks \ raced', u \in soft' PROVE cache' # NoCache
      <3>1. u \in soft /\ u \notin raced
        BY <1>2, <2>1 DEF Beside
      <3>2. stage[u] \in {"lock", "parse", "store"} /\ cache # NoCache
        BY <1>0, <2>1, <3>1 DEF TaskKnows, RaceInv
      <3>3. ~Remove
        BY <2>1, <3>1, <3>2 DEF Remove
      <3>4. QED
        BY <1>2, <3>2, <3>3
    <2>2. ASSUME NEW u \in Tasks \ raced', stage'[u] = "send" PROVE index'[u].of \in Source
      BY <1>2, <2>2 DEF Beside, RaceInv
    <2>3. QED
      BY <2>1, <2>2 DEF RaceInv, NoCache
  <1>3. ASSUME NEW t \in Tasks, Forget(t), Handler(t) \/ Synchronisation(t),
               \A u \in Tasks \ {t} : u \in raced => u \in raced',
               cache' # NoCache \/ cache' = cache \/ Remove
        PROVE  RaceInv'
    <2>1. stage'[t] = "idle" /\ t \notin soft' /\ Beside(t)
      BY <1>0, <1>3, ForgetLeaves, OthersKept
    <2>2. QED
      BY <1>2, <1>3, <2>1
  <1>4. ASSUME NEW t \in Tasks,
               \/ \E s \in Source : BeginActivate(t, s) \/ BeginRename(t, s)
               \/ \E s \in Imports : BeginImport(t, s) \/ BeginDelete(t, s)
               \/ BeginRebuild(t) \/ BeginIndex(t) \/ BeginSync(t)
        PROVE  RaceInv'
    <2>1. /\ UNCHANGED <<cache, raced, soft>> /\ stage[t] = "idle" /\ stage'[t] \in {"mark", "read", "placed", "clear", "lock", "look"}
          /\ Beside(t)
      BY <1>0, <1>4, OthersKept DEF BeginActivate, BeginRename, BeginImport, BeginDelete, BeginRebuild, BeginIndex, BeginSync,
                                    Begin, SourcesTypeOK, Handler, Synchronisation
    <2>2. t \notin soft
      BY <1>0, <2>1 DEF TaskKnows
    <2>3. QED
      BY <1>2, <2>1, <2>2
  <1>5. ASSUME NEW t \in Tasks,
               \/ Mark(t) \/ Point(t) \/ Unmark(t) \/ Back(t) \/ Lost(t)
               \/ StoreImport(t) \/ DeleteRow(t) \/ RemoveFiles(t) \/ Rename(t)
        PROVE  RaceInv'
    <2>1. UNCHANGED cache /\ raced' \in {raced, raced \ {t}} /\ Beside(t)
      BY <1>0, <1>5, OthersKept DEF Mark, Point, Unmark, Back, Lost, StoreImport, DeleteRow, RemoveFiles, Rename, End,
                                    Handler, Synchronisation
    <2>2. CASE Forget(t)
      BY <1>3, <1>5, <2>1, <2>2 DEF Handler, Synchronisation
    <2>3. CASE ~Forget(t)
      <3>1. /\ UNCHANGED <<soft, raced>> /\ stage[t] \notin {"lock", "parse", "store"}
            /\ stage'[t] \in {"point", "lock", "clear", "back", "clear back", "gone"}
        BY <1>0, <1>5, <2>3 DEF Mark, Point, Unmark, Back, Lost, StoreImport, DeleteRow, RemoveFiles, Rename, End,
                                locals, SourcesTypeOK
      <3>2. t \notin soft
        BY <1>0, <3>1 DEF TaskKnows
      <3>3. QED
        BY <1>2, <2>1, <3>1, <3>2
    <2>4. QED
      BY <2>2, <2>3
  <1>6. ASSUME NEW t \in Tasks, Invalidate(t) PROVE RaceInv'
    <2>1. Remove /\ stage[t] \in {"clear", "clear back"} /\ Beside(t)
      BY <1>0, <1>6, OthersKept DEF Invalidate, Handler
    <2>2. t \notin soft /\ raced \subseteq raced'
      BY <1>0, <2>1 DEF TaskKnows, Remove
    <2>3. CASE Forget(t)
      BY <1>3, <1>6, <2>1, <2>2, <2>3 DEF Handler
    <2>4. CASE ~Forget(t)
      <3>1. stage'[t] = "lock" /\ soft' = soft
        BY <1>0, <1>6, <2>4 DEF Invalidate, locals, SourcesTypeOK
      <3>2. QED
        BY <1>2, <2>1, <2>2, <3>1
    <2>5. QED
      BY <2>3, <2>4
  <1>7. ASSUME NEW t \in Tasks, stage[t] \in {"lock", "parse", "store"}, NEW found \in Content, Failed(t, found), Handler(t),
               raced \subseteq raced', cache' = cache \/ Remove,
               t \in soft => t \in raced' \/ found.of \in Source
        PROVE  RaceInv'
    <2>1. Beside(t)
      BY <1>0, <1>7, OthersKept
    <2>2. CASE Forget(t)
      BY <1>3, <1>7, <2>2
    <2>3. CASE ~Forget(t)
      <3>1. \/ stage'[t] = "unmark" /\ kind[t] = "activate" /\ soft' = soft
            \/ stage'[t] = "send" /\ t \in soft /\ t \notin soft' /\ index'[t] = found
        BY <1>0, <1>7, <2>3, FailedLeaves
      <3>2. kind[t] = "activate" => t \notin soft
        BY <1>0 DEF TaskKnows
      <3>3. QED
        BY <1>2, <1>7, <2>1, <3>1, <3>2
    <2>4. QED
      BY <2>2, <2>3
  <1>8. ASSUME NEW t \in Tasks, Lock(t) PROVE RaceInv'
    <2>1. stage[t] = "lock" /\ UNCHANGED cache /\ raced \subseteq raced'
      BY <1>8 DEF Lock
    <2>2. CASE Failed(t, Empty) /\ raced' = raced \cup ({t} \cap soft)
      <3>1. t \in soft => t \in raced'
        BY <2>2
      <3>2. QED
        BY <1>0, <1>7, <1>8, <2>1, <2>2, <3>1, Contents DEF Handler
    <2>3. CASE ~(Failed(t, Empty) /\ raced' = raced \cup ({t} \cap soft))
      <3>1. stage'[t] = "parse" /\ UNCHANGED <<soft, raced>> /\ Beside(t)
        BY <1>0, <1>8, <2>3, OthersKept DEF Lock, SourcesTypeOK, Handler
      <3>2. QED
        BY <1>2, <2>1, <3>1
    <2>4. QED
      BY <2>2, <2>3
  <1>9. ASSUME NEW t \in Tasks, Parse(t) PROVE RaceInv'
    <2>1. stage[t] = "parse" /\ stage'[t] = "store" /\ UNCHANGED <<cache, soft, raced>> /\ Beside(t)
      BY <1>0, <1>9, OthersKept DEF Parse, SourcesTypeOK, Handler
    <2>2. QED
      BY <1>2, <2>1
  <1>10. ASSUME NEW t \in Tasks, ParseFails(t) PROVE RaceInv'
    <2>1. stage[t] = "parse" /\ Failed(t, cache.index) /\ cache.index \in Content
      BY <1>0, <1>10, Contents DEF ParseFails
    <2>2. (cache' = cache /\ raced' = raced) \/ Remove
      BY <1>10 DEF ParseFails, BadWrite
    <2>3. raced \subseteq raced'
      BY <2>2 DEF Remove
    <2>4. t \in soft => t \in raced' \/ cache.index.of \in Source
      BY <1>1, <2>3 DEF RaceInv
    <2>5. QED
      BY <1>7, <1>10, <2>1, <2>2, <2>3, <2>4 DEF Handler
  <1>11. ASSUME NEW t \in Tasks, StoreFails(t) PROVE RaceInv'
    <2>1. stage[t] = "store" /\ Failed(t, index[t]) /\ index[t] \in Content
      BY <1>0, <1>11 DEF StoreFails, SourcesTypeOK
    <2>2. (cache' = cache /\ raced' = raced) \/ Remove
      BY <1>11 DEF StoreFails, BadWrite
    <2>3. raced \subseteq raced'
      BY <2>2 DEF Remove
    <2>4. index[t].of \in Source
      BY <2>1 DEF IndexInv, ReadSince, Real
    <2>5. QED
      BY <1>7, <1>11, <2>1, <2>2, <2>3, <2>4 DEF Handler
  <1>12. ASSUME NEW t \in Tasks, Store(t) PROVE RaceInv'
    <2>1. stage[t] = "store" /\ cache' = [fingerprint |-> fp[t], index |-> index[t]] /\ Beside(t)
      BY <1>0, <1>12, OthersKept DEF Store, Handler
    <2>2. index[t].of \in Source
      BY <2>1 DEF IndexInv, ReadSince, Real
    <2>3. cache' # NoCache
      <3>1. cache'.index.of \in Source
        BY <2>1, <2>2
      <3>2. NoCache.index.of = Nothing
        BY DEF NoCache, Empty
      <3>3. QED
        BY <3>1, <3>2
    <2>4. CASE Forget(t)
      <3>1. raced' = raced \/ raced' = raced \ {t}
        BY <1>12 DEF Store, Succeeded, End
      <3>2. QED
        BY <1>3, <1>12, <2>3, <2>4, <3>1 DEF Handler
    <2>5. CASE ~Forget(t)
      <3>1. stage'[t] = "send" /\ soft' = soft \ {t} /\ UNCHANGED <<index, raced>>
        BY <1>0, <1>12, <2>5 DEF Store, Succeeded, End, SourcesTypeOK
      <3>2. QED
        BY <1>2, <2>1, <2>2, <2>3, <3>1
    <2>6. QED
      BY <2>4, <2>5
  <1>13. ASSUME NEW t \in Tasks, LookAtCache(t) PROVE RaceInv'
    <2>1. stage[t] = "look" /\ UNCHANGED <<cache, raced>> /\ Beside(t) /\ Real(fp[t]) /\ t \notin soft
      BY <1>0, <1>13, OthersKept DEF LookAtCache, Synchronisation, IndexInv, TaskKnows
    <2>2. CASE cache.fingerprint = fp[t] /\ Proceed(t, "send") /\ index' = [index EXCEPT ![t] = cache.index] /\ UNCHANGED soft
      <3>1. stage'[t] = "send" /\ index'[t] = cache.index
        BY <1>0, <2>2 DEF SourcesTypeOK
      <3>2. cache # NoCache
        BY <2>1, <2>2 DEF NoCache, Empty, Real
      <3>3. QED
        BY <1>1, <1>2, <2>1, <2>2, <3>1, <3>2
    <2>3. CASE cache # NoCache /\ Proceed(t, "lock") /\ soft' = soft \cup {t}
      <3>1. stage'[t] = "lock"
        BY <1>0, <2>3 DEF SourcesTypeOK
      <3>2. QED
        BY <2>1, <2>3, <3>1 DEF RaceInv, Beside, NoCache
    <2>4. CASE Proceed(t, "lock") /\ UNCHANGED soft
      <3>1. stage'[t] = "lock"
        BY <1>0, <2>4 DEF SourcesTypeOK
      <3>2. QED
        BY <1>2, <2>1, <2>4, <3>1
    <2>5. QED
      BY <1>13, <2>2, <2>3, <2>4 DEF LookAtCache
  <1>14. CASE GameSaves \/ MoveWorld \/ UNCHANGED sourceVars
    <2>1. UNCHANGED <<stage, soft, index, cache, raced>>
      BY <1>14 DEF GameSaves, MoveWorld, sourceVars, locals
    <2>2. QED
      BY <2>1 DEF RaceInv, NoCache
  <1>15. CASE ResetInvalidates
    <2>1. Remove /\ UNCHANGED <<stage, soft, index>>
      BY <1>15 DEF ResetInvalidates, locals
    <2>2. \A t \in soft : t \in raced'
      BY <1>0, <2>1 DEF Remove, TaskKnows, SourcesTypeOK
    <2>3. raced \subseteq raced'
      BY <2>1 DEF Remove
    <2>4. QED
      BY <2>1, <2>2, <2>3 DEF RaceInv
  <1>16. CASE PanelRestarts
    BY <1>16 DEF PanelRestarts, RaceInv
  <1>17. ASSUME NEW t \in Tasks, Handler(t) \/ Synchronisation(t) PROVE RaceInv'
    BY <1>4, <1>5, <1>6, <1>8, <1>9, <1>10, <1>11, <1>12, <1>13, <1>17 DEF Handler, Synchronisation
  <1>18. QED
    BY <1>14, <1>15, <1>16, <1>17 DEF SourcesNext

-----------------------------------------------------------------------------
(* The invariant of the save sources, and what follows from it. *)

SourcesInv == TypeInv /\ IndexInv /\ ActivationInv /\ FilesInv /\ RaceInv

LEMMA SourcesBegin ==
    ASSUME BindingsInit
    PROVE  SourcesInv
  <1> USE DEF BindingsInit, SourcesInit
  <1>1. Empty \in Content /\ NoCache \in [fingerprint : Content, index : Content]
    BY DEF Empty, NoCache, World, Content
  <1>2. TypeInv
    <2>1. SourcesTypeOK
      <3>1. active \in Source \cup {Nothing} /\ rows \subseteq Source /\ Server \in Source
        BY DEF Source
      <3>2. version \in 0 .. MaxVersion
        OBVIOUS
      <3>3. LocalsTyped
        BY <1>1 DEF LocalsTyped, Kind, Step
      <3>4. QED
        BY <1>1, <3>1, <3>2, <3>3 DEF SourcesTypeOK, LocalsTyped
    <2>2. \A t \in Tasks : TaskKnows(t)
      BY DEF TaskKnows
    <2>3. QED
      BY <2>1, <2>2 DEF TypeInv
  <1>3. IndexInv
    BY DEF IndexInv
  <1>4. ActivationInv
    BY DEF ActivationInv, Activating, Aligned, Source
  <1>5. FilesInv
    BY DEF FilesInv, Source
  <1>6. RaceInv
    BY DEF RaceInv
  <1>7. QED
    BY <1>2, <1>3, <1>4, <1>5, <1>6 DEF SourcesInv

\* The catalog and the bindings change nothing of the sources but the end of a synchronisation.
LEMMA BindingsStep ==
    ASSUME [BindingsNext]_allVars
    PROVE  [SourcesNext]_sourceVars
  <1>1. CASE \E t \in Tasks : SyncCatalog(t)
    <2>1. PICK t \in Tasks : SyncCatalog(t)
      BY <1>1
    <2>2. Lost(t)
      BY <2>1 DEF SyncCatalog, Lost
    <2>3. QED
      BY <2>2 DEF SourcesNext, Synchronisation
  <1>2. CASE UNCHANGED sourceVars
    BY <1>2
  <1>3. CASE SourcesNext
    BY <1>3
  <1>4. QED
    BY <1>1, <1>2, <1>3 DEF BindingsNext, allVars, Bind, SetBindingStatus

LEMMA SourcesStep ==
    ASSUME SourcesInv, [BindingsNext]_allVars
    PROVE  SourcesInv'
  BY BindingsStep, TypeStep, IndexStep, ActivationStep, FilesStep, RaceStep DEF SourcesInv

\* Whatever the requests, the synchronisations and the restarts of the panel interleave to: the
\* tasks know what their places say, the cache holds an index no older than its fingerprint, an
\* activation that is alone is where the row and the path say it is, active rows have files, and
\* a synchronisation that lost nothing has an index to send.
THEOREM SourcesInvariance == BindingsSpec => []SourcesInv
  <1>1. BindingsInit => SourcesInv
    BY SourcesBegin
  <1>2. SourcesInv /\ [BindingsNext]_allVars => SourcesInv'
    BY SourcesStep
  <1>3. QED
    BY <1>1, <1>2, PTL DEF BindingsSpec

\* The source that is active is the one the index looks at, and its files are there, but for the
\* ways of losing them that the histories name (save_sources.go:136-155, 209-223).
THEOREM ActiveOneIsShown == BindingsSpec => []ActiveIsShown
  <1>1. SourcesInv => ActiveIsShown
    <2>1. ASSUME SourcesInv PROVE PathFollowsRow
      BY <2>1 DEF SourcesInv, ActivationInv, PathFollowsRow, Aligned
    <2>2. ASSUME SourcesInv PROVE ActiveHasFiles
      BY <2>2 DEF SourcesInv, FilesInv, ActiveHasFiles
    <2>3. QED
      BY <2>1, <2>2 DEF ActiveIsShown
  <1>2. QED
    BY <1>1, SourcesInvariance, PTL

\* An index whose fingerprint is still that of its world was read from exactly that world
\* (saveindex.go:298, 327).
THEOREM CurrentIndexTrue == BindingsSpec => []CurrentIndexIsTrue
  <1>1. SourcesInv => CurrentIndexIsTrue
    <2> SUFFICES ASSUME SourcesInv, cache.fingerprint.of # Nothing,
                        cache.fingerprint = World(cache.fingerprint.of)
                 PROVE  cache.index = cache.fingerprint
      BY DEF CurrentIndexIsTrue
    <2>1. SourcesTypeOK /\ IndexInv
      BY DEF SourcesInv, TypeInv
    <2>2. cache.fingerprint \in Content /\ cache.index \in Content /\ version \in Nat
      BY <2>1 DEF SourcesTypeOK
    <2>3. cache # NoCache
      BY DEF NoCache, Empty
    <2>4. ReadSince(cache.fingerprint, cache.index)
      BY <2>1, <2>3 DEF IndexInv
    <2>5. cache.fingerprint.save = IF cache.fingerprint.of = Server THEN version ELSE 1
      BY DEF World
    <2>6. cache.index.save = cache.fingerprint.save /\ cache.index.of = cache.fingerprint.of
      BY <2>2, <2>4, <2>5 DEF ReadSince, Real, Content
    <2>7. QED
      BY <2>2, <2>6 DEF Content
  <1>2. QED
    BY <1>1, SourcesInvariance, PTL

\* Only a synchronisation that lost the cache or the world while it rebuilt freezes the binding of
\* a member who is in every world (saveindex.go:275-281, storage.py:97).
THEOREM FreezesOnlyByRace == BindingsSpec => FrozenOnlyByRace
  <1> DEFINE Frozen(t) == At(t, "send") /\ stage'[t] = "idle" /\ binding = "active" /\ binding' = "frozen"
                              => t \in raced \/ index[t].of \in Source \ Home
  <1>1. SourcesInv /\ [BindingsNext]_allVars => [\A t \in Tasks : Frozen(t)]_allVars
    <2> SUFFICES ASSUME SourcesInv, BindingsNext, NEW t \in Tasks, At(t, "send"), stage'[t] = "idle",
                        binding = "active", binding' = "frozen"
                 PROVE  t \in raced \/ index[t].of \in Source \ Home
      OBVIOUS
    <2>1. SourcesTypeOK /\ RaceInv
      BY DEF SourcesInv, TypeInv
    <2>2. PICK u \in Tasks : SyncCatalog(u)
      <3>1. stage' # stage
        OBVIOUS
      <3>2. QED
        BY <3>1 DEF BindingsNext, Bind, SetBindingStatus, sourceVars
    <2>3. stage' = [stage EXCEPT ![u] = "idle"]
      BY <2>2 DEF SyncCatalog, End, Forget
    <2>4. u = t
      BY <2>1, <2>3 DEF SourcesTypeOK
    <2>5. index[t].of \notin Home
      BY <2>2, <2>4 DEF SyncCatalog
    <2>6. QED
      BY <2>1, <2>5 DEF RaceInv
  <1>2. QED
    BY <1>1, SourcesInvariance, PTL DEF BindingsSpec, FrozenOnlyByRace
=============================================================================
