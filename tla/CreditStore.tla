---------------------------- MODULE CreditStore ----------------------------
(***************************************************************************)
(* The points of the AstrBot plugin (astrbot_plugin_palpanel/storage.py):  *)
(* accounts, the ledger, daily check-ins, adjustments by administrators    *)
(* and the reservations that pay for breeding calculations.                *)
(*                                                                         *)
(* Every operation is one BEGIN IMMEDIATE transaction and so one action,   *)
(* except that reserve first releases what has expired in a transaction of *)
(* its own.  A reservation is named by its reference, which is unique in   *)
(* the table and fresh for every request of the panel.  Users listed as    *)
(* administrators are never charged and do not occur here.                 *)
(***************************************************************************)
EXTENDS Integers, FiniteSets

CONSTANTS
    Users,      \* qq_id
    Charges,    \* reference_id of the reservations
    Cost,       \* solve_cost
    Daily,      \* daily_points
    Dates,      \* local dates on which users check in
    Deltas,     \* adjustments administrators make
    TTL,        \* lifetime of a reservation, in ticks
    MaxTime,    \* bound: the last tick of the clock
    MaxPoints   \* bound: administrators grant no more than this

ASSUME UsersAssumption == Users # {}
ASSUME ChargesAssumption == IsFiniteSet(Charges)
ASSUME PointsAssumption == Cost \in Nat /\ Daily \in Nat /\ Deltas \subseteq Int
ASSUME TimesAssumption == TTL \in Nat /\ MaxTime \in Nat /\ MaxPoints \in Nat

VARIABLES
    clock,
    balance,    \* accounts.balance, 0 for a user without a row
    ledger,     \* the sum of a user's deltas in credit_ledger
    status,     \* credit_reservations.status, "none" before the row exists
    payer,      \* credit_reservations.qq_id
    due,        \* credit_reservations.expires_at
    checkins    \* pairs of user and date

creditVars == <<clock, balance, ledger, status, payer, due, checkins>>

CreditTypeOK ==
    /\ clock \in 0 .. MaxTime
    /\ balance \in [Users -> Nat]
    /\ ledger \in [Users -> Nat]
    /\ status \in [Charges -> {"none", "reserved", "committed", "released", "expired"}]
    /\ payer \in [Charges -> Users]
    /\ due \in [Charges -> 0 .. MaxTime + TTL]
    /\ checkins \subseteq Users \X Dates

CreditInit ==
    /\ clock = 0
    /\ balance = [u \in Users |-> 0]
    /\ ledger = [u \in Users |-> 0]
    /\ status = [r \in Charges |-> "none"]
    /\ payer = [r \in Charges |-> CHOOSE u \in Users : TRUE]
    /\ due = [r \in Charges |-> 0]
    /\ checkins = {}

Tick ==
    /\ clock < MaxTime /\ clock' = clock + 1
    /\ UNCHANGED <<balance, ledger, status, payer, due, checkins>>

Held(u) == {r \in Charges : status[r] = "reserved" /\ payer[r] = u}

\* release_expired_reservations, run at the start of the plugin and by every reserve.
ReleaseExpired ==
    LET gone == {r \in Charges : status[r] = "reserved" /\ due[r] < clock}
    IN  /\ balance' = [u \in Users |-> balance[u] + Cost * Cardinality(gone \cap Held(u))]
        /\ status' = [r \in Charges |-> IF r \in gone THEN "expired" ELSE status[r]]
        /\ UNCHANGED <<clock, ledger, payer, due, checkins>>

\* The second transaction of reserve: refused when the balance is short.
Take(u, r) ==
    /\ status[r] = "none" /\ balance[u] >= Cost
    /\ balance' = [balance EXCEPT ![u] = @ - Cost]
    /\ status' = [status EXCEPT ![r] = "reserved"]
    /\ payer' = [payer EXCEPT ![r] = u]
    /\ due' = [due EXCEPT ![r] = clock + TTL]
    /\ UNCHANGED <<clock, ledger, checkins>>

Commit(r) ==
    /\ status[r] = "reserved"
    /\ status' = [status EXCEPT ![r] = "committed"]
    /\ ledger' = [ledger EXCEPT ![payer[r]] = @ - Cost]
    /\ UNCHANGED <<clock, balance, payer, due, checkins>>

Release(r) ==
    /\ status[r] = "reserved"
    /\ status' = [status EXCEPT ![r] = "released"]
    /\ balance' = [balance EXCEPT ![payer[r]] = @ + Cost]
    /\ UNCHANGED <<clock, ledger, payer, due, checkins>>

\* A reservation that is no longer open is left alone, the caller learns ok = false.
SettleCharge_late(r, commit) ==
    \/ commit /\ Commit(r)
    \/ ~commit /\ Release(r)
    \/ /\ commit /\ status[r] = "expired" /\ balance[payer[r]] >= Cost
       /\ status' = [status EXCEPT ![r] = "committed"]
       /\ balance' = [balance EXCEPT ![payer[r]] = @ - Cost]
       /\ ledger' = [ledger EXCEPT ![payer[r]] = @ - Cost]
       /\ UNCHANGED <<clock, payer, due, checkins>>
    \/ status[r] # "reserved" /\ UNCHANGED creditVars
SettleCharge(r, commit) ==
    \/ commit /\ Commit(r)
    \/ ~commit /\ Release(r)
    \/ status[r] # "reserved" /\ UNCHANGED creditVars

Checkin(u, date) ==
    /\ <<u, date>> \notin checkins
    /\ checkins' = checkins \cup {<<u, date>>}
    /\ balance' = [balance EXCEPT ![u] = @ + Daily]
    /\ ledger' = [ledger EXCEPT ![u] = @ + Daily]
    /\ UNCHANGED <<clock, status, payer, due>>

\* A negative adjustment stops at zero and the ledger gets what was applied.
AdjustPoints(u, delta) ==
    LET next == IF balance[u] + delta < 0 THEN 0 ELSE balance[u] + delta
    IN  /\ ledger[u] + delta <= MaxPoints
        /\ balance' = [balance EXCEPT ![u] = next]
        /\ ledger' = [ledger EXCEPT ![u] = @ + (next - balance[u])]
        /\ UNCHANGED <<clock, status, payer, due, checkins>>

\* Commands of members and administrators in the chat.
Chat == \E u \in Users : \/ \E date \in Dates : Checkin(u, date)
                         \/ \E delta \in Deltas : AdjustPoints(u, delta)

\* The store under calls in any order, whoever makes them.
CreditNext ==
    \/ Tick \/ Chat \/ ReleaseExpired
    \/ \E r \in Charges : \/ \E u \in Users : Take(u, r)
                          \/ \E commit \in BOOLEAN : SettleCharge(r, commit)
CreditSpec == CreditInit /\ [][CreditNext]_creditVars

-----------------------------------------------------------------------------
(* Properties. *)

\* No point is made or lost: what a user owns and what is held for calculations add up to
\* the ledger, through refunds, late settlements, expiry and adjustments that stop at zero.
PointsConserved == \A u \in Users : balance[u] + Cost * Cardinality(Held(u)) = ledger[u]

\* A reservation is decided once: a settlement that arrives after the expiry, or twice,
\* neither charges nor refunds again.
DecidedStays ==
    \A r \in Charges : status[r] \notin {"none", "reserved"} => status'[r] = status[r]

\* The accounts hold: no point is made or lost, and nobody is charged or refunded twice.
AccountsHold == [][PointsConserved' /\ DecidedStays]_creditVars
=============================================================================
