---------------------------- MODULE ShopSettings ----------------------------
(***************************************************************************)
(* What the administrator decides, in the database and in memory: the      *)
(* switches of the shop, the resellers and their debt.  Every mutation of  *)
(* app_settings.py commits a transaction and then replaces the snapshot    *)
(* all handlers read, holding _MUTATION_LOCK; the orders of resellers do   *)
(* the same from threads of their own when they are charged.  A change of  *)
(* a debt reads the database once more for the snapshot, and that read may *)
(* fail.  At start the migrations run one transaction at a time.           *)
(***************************************************************************)
EXTENDS Integers, Sequences, FiniteSets, FiniteSetsExt, Functions

CONSTANTS
    Ids,            (* the rows of the resellers table                     *)
    People,         (* Telegram users who may be resellers                 *)
    Former,         (* a former administrator, converted to a reseller     *)
    Orders,         (* orders resellers place                              *)
    Rates,          (* prices of the package to a reseller, 0: not set     *)
    Targets,        (* debts the administrator types in                    *)
    MaxDebt,        (* MAX_RESELLER_DEBT_TOMAN                             *)
    MaxChanges, MaxFaults   (* bounds                                      *)

ASSUME SettingsAssumption ==
    /\ IsFiniteSet(Ids) /\ Ids \subseteq Nat \ {0} /\ 1 \in Ids
    /\ IsFiniteSet(Orders) /\ Orders \intersect {"free", "admin", "debt"} = {}
    /\ Former \in People /\ "none" \notin People
    /\ 0 \in Rates /\ Rates \subseteq 0..MaxDebt /\ MaxDebt \in Nat
    /\ Targets \subseteq 0..MaxDebt
    /\ MaxChanges \in Nat /\ MaxFaults \in Nat

VARIABLES
    settings,   \* app_settings: a value, or Unset
    rows,       \* resellers: the rows, deleted ones included
    entries,    \* reseller_debt_entries, by operation
    marked,     \* the migrations whose marker is in meta
    snapshot,   \* APP_SETTINGS: settings and resellers as last replaced
    lock,       \* who holds _MUTATION_LOCK
    carried,    \* the state its holder will put in place
    boot,       \* the migration to run next; Running: the bot is up
    preview,    \* the confirmation the administrator has in front of him
    stage,      \* for each order, where it is
    order,      \* for each order, what its row says
    served,     \* orders whose account has been made or renewed
    behind,     \* rows whose debt the snapshot may not have (ghost)
    changes, faults

database == <<settings, rows, entries, marked>>
memory == <<snapshot, lock, carried, boot, preview>>
orders == <<stage, order, served>>
vars == <<database, memory, orders, behind, changes, faults>>

Services == {"openvpn_sales", "v2ray_sales"}
Gateways == {"zarinpal", "card_transfer"}
Keys == Services \union Gateways \union {"card_details", "referral", "wallet"}
Unset == "unset"
Value(on) == IF on THEN "on" ELSE "off"
Default == [k \in Keys |-> Value(k \notin {"card_transfer", "card_details"})]

\* The four migrations of an older database, in their order; the third
\* turns the former administrators into resellers without a rate.
Migrations == << Services, Gateways \union {"card_details"}, {"reseller"},
                 {"referral", "wallet"} >>
Running == Len(Migrations) + 1

Free == "free"
Admin == "admin"
Debt == "debt"      \* the administrator, who changes a debt
NoRow == [active |-> FALSE, tg |-> "none", rate |-> 0, debt |-> 0]
NoOrder == [tg |-> "none", id |-> 0, charge |-> 0]
Known(i) == rows[i] # NoRow
\* RuntimeSettingsRegistry.replace: what is missing has its default.
Filled(values) == [k \in Keys |-> IF values[k] = Unset THEN Default[k] ELSE values[k]]
State == [settings |-> Filled(settings), rows |-> rows]
On(k) == snapshot.settings[k] = "on"
IsReseller(p) == \E i \in Ids : snapshot.rows[i].active /\ snapshot.rows[i].tg = p

-----------------------------------------------------------------------------
Init ==
    /\ settings = [k \in Keys |-> Unset]
    /\ rows = [i \in Ids |-> NoRow]
    /\ entries = {} /\ marked = {}
    /\ snapshot = [settings |-> Default, rows |-> [i \in Ids |-> NoRow]]
    /\ lock = Free /\ carried = snapshot
    /\ boot = 1
    /\ preview = [kind |-> "none", message |-> 0, id |-> 1, target |-> 0]
    /\ stage = [o \in Orders |-> "none"]
    /\ order = [o \in Orders |-> NoOrder]
    /\ served = {} /\ behind = {}
    /\ changes = 0 /\ faults = 0

\* Mutant: a migration does not look at its marker.
MigrateAgain ==
    /\ boot < Running
    /\ marked' = marked \union {boot}
    /\ settings' = [k \in Keys |-> IF k \in Migrations[boot] THEN Default[k] ELSE settings[k]]
    /\ boot' = boot + 1
    /\ snapshot' = IF boot' = Running THEN [State EXCEPT !.settings = Filled(settings')]
                                      ELSE snapshot
    /\ UNCHANGED <<rows, entries, lock, carried, preview, orders, behind, changes, faults>>

\* initialize_runtime_settings, one migration after the other: a marker
\* makes it happen once, and what is there already is left alone.  After
\* the last one the snapshot is put in place.
Migrate ==
    /\ boot < Running
    /\ marked' = marked \union {boot}
    /\ settings' = [k \in Keys |->
                       IF boot \notin marked /\ k \in Migrations[boot] /\ settings[k] = Unset
                         THEN Default[k] ELSE settings[k]]
    /\ rows' = IF boot \notin marked /\ "reseller" \in Migrations[boot]
                 THEN [rows EXCEPT ![1] = [NoRow EXCEPT !.active = TRUE, !.tg = Former]]
                 ELSE rows
    /\ boot' = boot + 1
    /\ snapshot' = IF boot' = Running
                     THEN [settings |-> Filled(settings'), rows |-> rows'] ELSE snapshot
    /\ UNCHANGED <<entries, lock, carried, preview, orders, behind, changes, faults>>

-----------------------------------------------------------------------------
(***************************************************************************)
(* Mutations: a transaction, and then the snapshot                         *)
(***************************************************************************)

Mutate(who) ==
    /\ boot = Running
    /\ lock = Free /\ lock' = who
    /\ carried' = [settings |-> Filled(settings'), rows |-> rows']

Decide == Mutate(Admin) /\ changes < MaxChanges /\ changes' = changes + 1

MutateUnlocked(who) ==
    /\ boot = Running
    /\ lock' = IF lock = Free THEN who ELSE lock
    /\ carried' = IF lock = Free THEN [settings |-> Filled(settings'), rows |-> rows']
                                 ELSE carried

\* update_setting, with its rules read from the snapshot.
Switch(k, on) ==
    /\ ~on /\ k \in Services => \E other \in Services \ {k} : On(other)
    /\ ~on /\ k \in Gateways => \E other \in Gateways \ {k} : On(other)
    /\ on /\ k = "card_transfer" => On("card_details")
    /\ ~on /\ k = "wallet" => ~On("referral")
    /\ k = "card_details" => on
    /\ settings' = [settings EXCEPT ![k] = Value(on),
                                    !["wallet"] = IF k \in {"referral", "wallet"} /\ (on \/ k = "wallet")
                                                    THEN Value(on) ELSE @]
    /\ UNCHANGED rows
    /\ Decide
    /\ UNCHANGED <<entries, marked, snapshot, boot, preview, orders, behind, faults>>

\* Mutant: a restored reseller starts without his debt.
AddForgetting(p, rate) ==
    LET old == {i \in Ids : rows[i].tg = p}
        i == IF old # {} THEN Min(old) ELSE Min({j \in Ids : ~Known(j)}) IN
    /\ rate > 0
    /\ \A j \in old : ~rows[j].active
    /\ old = {} => \E j \in Ids : ~Known(j)
    /\ rows' = [rows EXCEPT ![i] = [active |-> TRUE, tg |-> p, rate |-> rate, debt |-> 0]]
    /\ UNCHANGED settings
    /\ Decide
    /\ UNCHANGED <<entries, marked, snapshot, boot, preview, orders, behind, faults>>

\* add_reseller: a deleted one comes back with the debt he had.
Add(p, rate) ==
    LET old == {i \in Ids : rows[i].tg = p}
        i == IF old # {} THEN Min(old) ELSE Min({j \in Ids : ~Known(j)}) IN
    /\ rate > 0
    /\ \A j \in old : ~rows[j].active
    /\ old = {} => \E j \in Ids : ~Known(j)
    /\ rows' = [rows EXCEPT ![i] = [@ EXCEPT !.active = TRUE, !.tg = p, !.rate = rate]]
    /\ UNCHANGED settings
    /\ Decide
    /\ UNCHANGED <<entries, marked, snapshot, boot, preview, orders, behind, faults>>

\* edit_reseller: another rate, or another Telegram user nobody has.
Edit(i, p, rate) ==
    /\ rows[i].active /\ rate > 0
    /\ \A j \in Ids \ {i} : rows[j].tg # p
    /\ rows' = [rows EXCEPT ![i].tg = p, ![i].rate = rate]
    /\ rows' # rows
    /\ UNCHANGED settings
    /\ Decide
    /\ UNCHANGED <<entries, marked, snapshot, boot, preview, orders, behind, faults>>

\* remove_reseller marks the row; his open orders keep its number.
Delete(i) ==
    /\ rows[i].active
    /\ rows' = [rows EXCEPT ![i].active = FALSE]
    /\ UNCHANGED settings
    /\ Decide
    /\ UNCHANGED <<entries, marked, snapshot, boot, preview, orders, behind, faults>>

\* The administrator types a debt and is asked, in a new message: "from so
\* much to so much?"  His updates are handled one after the other.
Ask(i, target) ==
    /\ boot = Running /\ changes < MaxChanges
    /\ lock \notin {Admin, Debt}
    /\ snapshot.rows[i].active
    /\ preview' = [kind |-> "set", message |-> preview.message + 1, id |-> i, target |-> target]
    /\ changes' = changes + 1
    /\ UNCHANGED <<database, snapshot, lock, carried, boot, orders, behind, faults>>

\* rszero asks in the message of the menu, be it a new one or the one that
\* asked before.
AskZero(i, message) ==
    /\ boot = Running /\ changes < MaxChanges
    /\ lock \notin {Admin, Debt}
    /\ snapshot.rows[i].active
    /\ message \in {preview.message, preview.message + 1} \ {0}
    /\ preview' = [kind |-> "zero", message |-> message, id |-> i, target |-> 0]
    /\ changes' = changes + 1
    /\ UNCHANGED <<database, snapshot, lock, carried, boot, orders, behind, faults>>

Entry(op, i, delta) == [op |-> op, id |-> i, delta |-> delta]

\* change_reseller_debt, when the button is pressed.  The operation is named
\* after the message: with a name that has been entered before it enters
\* nothing, whether the button is pressed again or the question was new.
Confirm ==
    LET i == preview.id
        op == <<preview.kind, preview.message, i>> IN
    /\ preview.kind # "none"
    /\ IF \E e \in entries : e.op = op
         THEN UNCHANGED <<entries, rows>>
         ELSE /\ rows[i].active
              /\ entries' = entries \union {Entry(op, i, preview.target - rows[i].debt)}
              /\ rows' = [rows EXCEPT ![i].debt = preview.target]
    /\ UNCHANGED settings
    /\ Mutate(Debt)
    /\ UNCHANGED <<marked, snapshot, boot, preview, orders, behind, changes, faults>>

\* APP_SETTINGS.replace, and the lock is free again.  The amount typed in is
\* done with.
Publish ==
    /\ lock # Free
    /\ snapshot' = carried
    /\ lock' = Free
    /\ stage' = [o \in Orders |-> IF lock = o THEN "charged" ELSE stage[o]]
    /\ preview' = IF lock = Debt /\ preview.kind = "set" THEN [preview EXCEPT !.kind = "none"]
                                                        ELSE preview
    /\ behind' = {}
    /\ UNCHANGED <<database, carried, boot, order, served, changes, faults>>

\* A debt is committed, but get_app_settings_state raises before the snapshot
\* is replaced: the lock is free, the button is there, the order is still open.
PublishFails ==
    /\ lock \in Orders \union {Debt}
    /\ faults < MaxFaults /\ faults' = faults + 1
    /\ lock' = Free
    /\ stage' = [o \in Orders |-> IF lock = o THEN "open" ELSE stage[o]]
    /\ behind' = behind \union {IF lock = Debt THEN preview.id ELSE order[lock].id}
    /\ UNCHANGED <<database, snapshot, carried, boot, preview, order, served, changes>>

-----------------------------------------------------------------------------
(***************************************************************************)
(* The order of a reseller                                                 *)
(***************************************************************************)

\* start_order_message asks the snapshot who is a reseller ...
Start(o, p) ==
    /\ boot = Running
    /\ stage[o] = "none" /\ IsReseller(p)
    /\ \A x \in Orders : order[x].tg = p => stage[x] \in {"closed", "none"}
    /\ stage' = [stage EXCEPT ![o] = "asked"]
    /\ order' = [order EXCEPT ![o] = [NoOrder EXCEPT !.tg = p]]
    /\ UNCHANGED <<database, memory, served, behind, changes, faults>>

\* ... and create_reseller_pending the table; the rate is written down.
Create(o) ==
    LET found == {i \in Ids : rows[i].active /\ rows[i].tg = order[o].tg /\ rows[i].rate > 0} IN
    /\ stage[o] = "asked"
    /\ IF found = {}
         THEN /\ order' = [order EXCEPT ![o] = NoOrder]
              /\ stage' = [stage EXCEPT ![o] = "none"]
         ELSE /\ \E i \in found : order' = [order EXCEPT ![o].id = i, ![o].charge = rows[i].rate]
              /\ stage' = [stage EXCEPT ![o] = "open"]
    /\ UNCHANGED <<database, memory, served, behind, changes, faults>>

\* fulfill, once for an order.
Serve(o) ==
    /\ stage[o] = "open" /\ boot = Running
    /\ served' = served \union {o}
    /\ stage' = [stage EXCEPT ![o] = "charge"]
    /\ UNCHANGED <<database, memory, order, behind, changes, faults>>

Booked(o) == \E e \in entries : e.op = <<"order", o>>
After(o) == rows[order[o].id].debt + order[o].charge
Book(o) ==
    LET i == order[o].id IN
    /\ entries' = entries \union {Entry(<<"order", o>>, i, order[o].charge)}
    /\ rows' = [rows EXCEPT ![i].debt = After(o)]

\* Mutant: a charge refreshes the snapshot without the lock.
ChargeUnlocked(o) ==
    /\ stage[o] = "charge"
    /\ After(o) <= MaxDebt /\ ~Booked(o) /\ Book(o)
    /\ stage' = [stage EXCEPT ![o] = "charged"]
    /\ UNCHANGED settings
    /\ MutateUnlocked(o)
    /\ UNCHANGED <<marked, snapshot, boot, preview, order, served, behind, changes, faults>>

\* Mutant: the limit of the debt is not enforced.
ChargeUnlimited(o) ==
    /\ stage[o] = "charge"
    /\ ~Booked(o) /\ Book(o)
    /\ UNCHANGED <<settings, stage>>
    /\ Mutate(o)
    /\ UNCHANGED <<marked, snapshot, boot, preview, order, served, behind, changes, faults>>

\* charge_reseller_order: once for an order; above the limit it raises,
\* with the account made and the row still open.
Charge(o) ==
    /\ stage[o] = "charge"
    /\ UNCHANGED settings
    /\ \/ /\ Booked(o)
          /\ UNCHANGED <<entries, rows, stage>>
          /\ Mutate(o)
       \/ /\ ~Booked(o) /\ After(o) <= MaxDebt
          /\ Book(o)
          /\ UNCHANGED stage
          /\ Mutate(o)
       \/ /\ ~Booked(o) /\ After(o) > MaxDebt
          /\ lock = Free
          /\ stage' = [stage EXCEPT ![o] = "open"]
          /\ UNCHANGED <<entries, rows, lock, carried>>
    /\ UNCHANGED <<marked, snapshot, boot, preview, order, served, behind, changes, faults>>

\* The rest of the bookkeeping, and pop_pending.
Close(o) ==
    /\ stage[o] = "charged"
    /\ stage' = [stage EXCEPT ![o] = "closed"]
    /\ UNCHANGED <<database, memory, order, served, behind, changes, faults>>

\* The reseller cancels an order that has not begun.
Cancel(o) ==
    /\ stage[o] = "open" /\ o \notin served
    /\ order' = [order EXCEPT ![o] = NoOrder]
    /\ stage' = [stage EXCEPT ![o] = "none"]
    /\ UNCHANGED <<database, memory, served, behind, changes, faults>>

\* The process dies; rows and entries stay, the migrations run again.  A
\* typed amount is forgotten, the button that says zero is not.
Crash ==
    /\ faults < MaxFaults /\ faults' = faults + 1
    /\ boot' = 1 /\ lock' = Free
    /\ snapshot' = [settings |-> Default, rows |-> [i \in Ids |-> NoRow]] /\ carried' = snapshot'
    /\ stage' = [o \in Orders |-> CASE stage[o] = "asked" -> "none"
                                    [] stage[o] \in {"charge", "charged"} -> "open"
                                    [] OTHER -> stage[o]]
    /\ order' = [o \in Orders |-> IF stage'[o] = "none" THEN NoOrder ELSE order[o]]
    /\ preview' = IF preview.kind = "set" THEN [preview EXCEPT !.kind = "none"] ELSE preview
    /\ behind' = {}
    /\ UNCHANGED <<database, served, changes>>

Next ==
    \/ Migrate \/ Confirm \/ Publish \/ PublishFails \/ Crash
    \/ \E k \in Keys, on \in BOOLEAN : Switch(k, on)
    \/ \E p \in People, rate \in Rates :
           Add(p, rate) \/ \E i \in Ids : Edit(i, p, rate)
    \/ \E i \in Ids :
           \/ Delete(i)
           \/ \E target \in Targets : Ask(i, target)
           \/ \E message \in 1..MaxChanges : AskZero(i, message)
    \/ \E o \in Orders :
           \/ \E p \in People : Start(o, p)
           \/ Create(o) \/ Serve(o) \/ Charge(o) \/ Close(o) \/ Cancel(o)

Spec == Init /\ [][Next]_vars

-----------------------------------------------------------------------------
SettingsTypeOK ==
    /\ settings \in [Keys -> {"on", "off", Unset}]
    /\ rows \in [Ids -> [active : BOOLEAN, tg : People \union {"none"},
                          rate : Rates, debt : 0..MaxDebt]]
    /\ \A i, j \in Ids : i # j /\ Known(i) => rows[i].tg # rows[j].tg
    /\ marked \subseteq 1..Len(Migrations) /\ boot \in 1..Running
    /\ lock \in {Free, Admin, Debt} \union Orders
    /\ stage \in [Orders -> {"none", "asked", "open", "charge", "charged", "closed"}]
    /\ served \subseteq Orders /\ behind \subseteq Ids
    /\ changes \in 0..MaxChanges /\ faults \in 0..MaxFaults

(***************************************************************************)
(* At rest every handler reads what the database says, but for a debt      *)
(* whose second read failed (app_settings.py:645, 652) until the next      *)
(* change; and the shop can always sell: a service and a gateway are on, a *)
(* card transfer has a card to name, rewards have a wallet to go to.  The  *)
(* rules are checked against memory and written to the database: it takes  *)
(* the lock around both for them to hold, as a charge in another thread    *)
(* replaces the snapshot too, and it takes the switches in the snapshot to *)
(* be the database's even after a failed read.                             *)
(***************************************************************************)
ShopStaysOpen ==
    LET is_on(k) == Filled(settings)[k] = "on" IN
    /\ boot = Running /\ lock = Free =>
           /\ snapshot.settings = Filled(settings)
           /\ \A i \in Ids :
                  /\ [snapshot.rows[i] EXCEPT !.debt = rows[i].debt] = rows[i]
                  /\ i \notin behind => snapshot.rows[i].debt = rows[i].debt
    /\ \E k \in Services : is_on(k)
    /\ \E k \in Gateways : is_on(k)
    /\ is_on("card_transfer") => is_on("card_details")
    /\ is_on("referral") => is_on("wallet")

(***************************************************************************)
(* The debt of a reseller is the sum of what his orders and the            *)
(* administrator entered, through removal and return, another Telegram     *)
(* user, retries and restarts; and an order leaves the books only with its *)
(* charge at the rate it was placed at (record_reseller_debt_charge).      *)
(***************************************************************************)
DebtIsRight ==
    /\ \A i \in Ids :
           rows[i].debt = SumFunctionOnSet([e \in entries |-> e.delta], {e \in entries : e.id = i})
    /\ \A o \in Orders : stage[o] = "closed" =>
           \E e \in entries : e.op = <<"order", o>> /\ e.id = order[o].id
                              /\ e.delta = order[o].charge

(***************************************************************************)
(* A start, and one repeated after a stop half-way, overwrites nothing the *)
(* administrator has decided ("Existing Admin choices can therefore never  *)
(* be overwritten", storage.py:2382).                                      *)
(***************************************************************************)
StartupKeepsChoices ==
    [][boot < Running =>
           /\ \A k \in Keys : settings[k] # Unset => settings'[k] = settings[k]
           /\ \A i \in Ids : Known(i) => rows'[i] = rows[i]]_vars
=============================================================================
