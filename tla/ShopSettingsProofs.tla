-------------------------- MODULE ShopSettingsProofs --------------------------
(***************************************************************************)
(* The settings of the shop and the debt of its resellers, for any number  *)
(* of rows, people and orders: what is proved of ShopSettings, along one   *)
(* inductive invariant, SettingsInv.                                       *)
(***************************************************************************)
EXTENDS ShopSettings, CollectionLemmas

-----------------------------------------------------------------------------
(* The inductive invariant                                                 *)

\* What the questions, the orders and the entries hold.
FieldsOK ==
    /\ preview \in [kind : {"none", "set", "zero"}, message : Nat, id : Ids, target : 0..MaxDebt]
    /\ order \in [Orders -> [tg : People \union {"none"}, id : Ids \union {0}, charge : Rates]]
    /\ IsFiniteSet(entries) /\ \A e \in entries : e.id \in Ids /\ e.delta \in Int

\* The migrations before the next one have their markers; without its own
\* the third finds no reseller, and nothing is mutated before the last.
BootOK ==
    /\ \A m \in 1..Len(Migrations) : m < boot => m \in marked
    /\ 3 \notin marked => \A i \in Ids : rows[i] = NoRow
    /\ boot < Running => lock = Free

\* The holder of the lock carries the state of the database.
CarriedOK == boot = Running /\ lock # Free => carried = State

\* Memory is what the database says, but for the debts of some rows.
Agrees(except) ==
    /\ snapshot.settings = Filled(settings)
    /\ \A i \in Ids :
           /\ [snapshot.rows[i] EXCEPT !.debt = rows[i].debt] = rows[i]
           /\ i \notin except => snapshot.rows[i].debt = rows[i].debt

\* The row whose debt the holder of the lock may have changed.
Held == IF lock = Debt THEN {preview.id} ELSE IF lock \in Orders THEN {order[lock].id} ELSE {}

\* Unless the administrator is at another change, only debts differ.
MemoryOK == boot = Running /\ lock # Admin => Agrees(behind \union Held)

ResellersOK == \A i \in Ids : Known(i) => rows[i].tg \in People

\* An order is charged to its reseller at its rate, and is not closed before.
BooksOK ==
    /\ \A o \in Orders : stage[o] \notin {"none", "asked"} =>
           order[o].id \in Ids /\ Known(order[o].id)
    /\ \A o \in Orders : stage[o] \in {"charge", "charged", "closed"} => o \in served
    /\ \A o \in served : stage[o] \notin {"none", "asked"}
    /\ \A o \in Orders : stage[o] \in {"charged", "closed"} \/ lock = o => Booked(o)
    /\ \A e \in entries, o \in Orders : e.op = <<"order", o>> =>
           o \in served /\ e.id = order[o].id /\ e.delta = order[o].charge

SettingsInv ==
    /\ SettingsTypeOK /\ FieldsOK /\ BootOK /\ CarriedOK /\ MemoryOK /\ ResellersOK /\ BooksOK
    /\ ShopStaysOpen /\ DebtIsRight

-----------------------------------------------------------------------------
(* Lemmas about the settings, the rows and the debt                        *)

\* There are four migrations, and the third is that of the resellers.
LEMMA FourMigrations ==
    /\ Len(Migrations) = 4 /\ Running = 5
    /\ \A m \in 1..4 : "reseller" \in Migrations[m] <=> m = 3
BY DEF Migrations, Running, Services, Gateways

\* A migration fills in what the registry would fill in anyway.
LEMMA FilledKept ==
  ASSUME SettingsTypeOK, Migrate
  PROVE  /\ settings' \in [Keys -> {"on", "off", Unset}]
         /\ Filled(settings') = Filled(settings)
<1>1. Default \in [Keys -> {"on", "off"}] BY DEF Default, Value
<1>2. settings \in [Keys -> {"on", "off", Unset}] BY DEF SettingsTypeOK
<1>3. \A k \in Keys : settings'[k] = settings[k] \/ (settings[k] = Unset /\ settings'[k] = Default[k])
  BY DEF Migrate
<1>4. settings' \in [Keys -> {"on", "off", Unset}]
  <2>1. settings' = [k \in Keys |-> settings'[k]] BY DEF Migrate
  <2>2. \A k \in Keys : settings'[k] \in {"on", "off", Unset} BY <1>1, <1>2, <1>3
  <2> HIDE DEF Migrate
  <2> QED BY <2>1, <2>2
<1>5. \A k \in Keys : Default[k] # Unset BY <1>1 DEF Unset
<1> QED BY <1>2, <1>3, <1>4, <1>5 DEF Filled

\* The row a reseller is put in is his old one, or one nobody has had.
LEMMA RowOfReseller ==
  ASSUME NEW p, {i \in Ids : rows[i].tg = p} = {} => \E j \in Ids : ~Known(j)
  PROVE  LET old == {i \in Ids : rows[i].tg = p}
             i == IF old # {} THEN Min(old) ELSE Min({j \in Ids : ~Known(j)})
         IN  i \in Ids /\ (IF old # {} THEN rows[i].tg = p ELSE ~Known(i))
<1> DEFINE old == {i \in Ids : rows[i].tg = p}
           new == {j \in Ids : ~Known(j)}
<1>1. \A T \in SUBSET Ids : T # {} => Min(T) \in T
  <2> SUFFICES ASSUME NEW T \in SUBSET Ids, T # {} PROVE Min(T) \in T
    OBVIOUS
  <2>1. T \in SUBSET Nat BY SettingsAssumption
  <2>2. \E n \in T : \A m \in T : n <= m BY <2>1, LeastNumber
  <2> QED BY <2>2 DEF Min
<1>2. old \in SUBSET Ids /\ new \in SUBSET Ids /\ (old = {} => new # {}) OBVIOUS
<1>3. old # {} => Min(old) \in old BY <1>1, <1>2
<1>4. old = {} => Min(new) \in new BY <1>1, <1>2
<1> QED BY <1>3, <1>4

\* What a reseller owes, and what one more entry adds to it.
Owed(i) == SumFunctionOnSet([e \in entries |-> e.delta], {e \in entries : e.id = i})

LEMMA NothingOwed == ASSUME entries = {} PROVE \A i : Owed(i) = 0
<1> TAKE i
<1>1. {e \in entries : e.id = i} = {} OBVIOUS
<1> QED BY <1>1, SumEmpty DEF Owed

LEMMA OneMoreEntry ==
  ASSUME FieldsOK, NEW x, x.id \in Ids, x.delta \in Int, x \notin entries,
         entries' = entries \union {x}, NEW i \in Ids
  PROVE  /\ IsFiniteSet(entries')
         /\ Owed(i)' = IF x.id = i THEN Owed(i) + x.delta ELSE Owed(i)
<1> DEFINE f == [e \in entries |-> e.delta]
           g == [e \in entries' |-> e.delta]
           E == {e \in entries : e.id = i}
           F == {e \in entries' : e.id = i}
<1>1. IsFiniteSet(entries) /\ \A e \in entries : e.id \in Ids /\ e.delta \in Int BY DEF FieldsOK
<1>2. IsFiniteSet(entries') BY <1>1, FS_AddElement
<1>3. IsFiniteSet(E) BY <1>1, FS_Subset
<1>4. Owed(i) = SumFunctionOnSet(f, E) /\ Owed(i)' = SumFunctionOnSet(g, F) BY DEF Owed
<1>5. SumFunctionOnSet(g, E) = SumFunctionOnSet(f, E) BY <1>3, SumAgrees
<1>6. SumFunctionOnSet(f, E) \in Int
  <2>1. \A e \in E : f[e] \in Int BY <1>1
  <2> QED BY <1>3, <2>1, SumInt
<1>7. CASE x.id # i
  <2>1. F = E BY <1>7
  <2> HIDE DEF E, F, f, g
  <2> QED BY <1>2, <1>4, <1>5, <1>7, <2>1
<1>8. CASE x.id = i
  <2>1. F = E \union {x} /\ x \notin E BY <1>8
  <2>2. \A e \in E \union {x} : g[e] \in Int BY <1>1
  <2>3. g[x] = x.delta OBVIOUS
  <2> HIDE DEF E, F, f, g
  <2>4. SumFunctionOnSet(g, F) = g[x] + SumFunctionOnSet(g, E) BY <1>3, <2>1, <2>2, SumAdd
  <2> QED BY <1>2, <1>4, <1>5, <1>6, <1>8, <2>3, <2>4
<1> QED BY <1>2, <1>7, <1>8

-----------------------------------------------------------------------------
(* Types                                                                   *)

\* An entry that is added to the books, and the debt it makes.
LEMMA EntryAdded ==
  ASSUME SettingsInv, NEW o \in Orders, stage[o] = "charge", After(o) <= MaxDebt
  PROVE  /\ order[o].id \in Ids /\ Known(order[o].id)
         /\ order[o].charge \in Rates /\ order[o].charge \in Int
         /\ After(o) \in 0..MaxDebt /\ After(o) = rows[order[o].id].debt + order[o].charge
<1>1. order[o].id \in Ids /\ Known(order[o].id) /\ order[o].charge \in Rates
  BY DEF SettingsInv, BooksOK, FieldsOK
<1>2. rows[order[o].id].debt \in 0..MaxDebt BY <1>1 DEF SettingsInv, SettingsTypeOK
<1>3. order[o].charge \in 0..MaxDebt /\ MaxDebt \in Nat BY <1>1, SettingsAssumption
<1> QED BY <1>1, <1>2, <1>3 DEF After

\* The mutations of a row leave it a row.
LEMMA RowFields ==
  LET Row == [active : BOOLEAN, tg : People \union {"none"}, rate : Rates, debt : 0..MaxDebt] IN
    /\ NoRow \in Row /\ [NoRow EXCEPT !.active = TRUE, !.tg = Former] \in Row
    /\ \A r \in Row, p \in People, rate \in Rates :
           LET added == [r EXCEPT !.active = TRUE, !.tg = p, !.rate = rate]
               edited == [r EXCEPT !.tg = p, !.rate = rate]
           IN  /\ added \in Row /\ added.tg = p /\ added.debt = r.debt
               /\ edited \in Row /\ edited.tg = p /\ edited.debt = r.debt
    /\ \A r \in Row : LET deleted == [r EXCEPT !.active = FALSE]
                      IN  deleted \in Row /\ deleted.tg = r.tg /\ deleted.debt = r.debt
    /\ \A r \in Row, n \in 0..MaxDebt :
           LET owing == [r EXCEPT !.debt = n] IN owing \in Row /\ owing.tg = r.tg /\ owing.debt = n
BY SettingsAssumption DEF NoRow

\* Every step keeps the types and one row for each Telegram user.
LEMMA TypeStep == ASSUME SettingsInv, [Next]_vars PROVE SettingsTypeOK'
<1> USE DEF database, memory, orders
<1>1. SettingsTypeOK /\ ResellersOK /\ FieldsOK BY DEF SettingsInv
<1> DEFINE Row == [active : BOOLEAN, tg : People \union {"none"}, rate : Rates, debt : 0..MaxDebt]
           RowsOK == /\ rows' \in [Ids -> Row]
                     /\ \A i, j \in Ids : i # j /\ rows'[i] # NoRow => rows'[i].tg # rows'[j].tg
           RestOK == /\ settings' \in [Keys -> {"on", "off", Unset}]
                     /\ marked' \subseteq 1..Len(Migrations) /\ boot' \in 1..Running
                     /\ lock' \in {Free, Admin, Debt} \union Orders
                     /\ stage' \in [Orders -> {"none", "asked", "open", "charge", "charged", "closed"}]
                     /\ served' \subseteq Orders /\ behind' \subseteq Ids
                     /\ changes' \in 0..MaxChanges /\ faults' \in 0..MaxFaults
<1>2. SUFFICES RowsOK /\ RestOK BY DEF SettingsTypeOK, Known
<1>3. rows \in [Ids -> Row] /\ \A i, j \in Ids : i # j /\ rows[i] # NoRow => rows[i].tg # rows[j].tg
  BY <1>1 DEF SettingsTypeOK, Known
<1>4. UNCHANGED rows => RowsOK BY <1>3
<1>5. ASSUME NEW n \in Ids, NEW r \in Row, rows' = [rows EXCEPT ![n] = r], r.tg = rows[n].tg,
             rows[n] # NoRow
      PROVE  RowsOK
  BY <1>3, <1>5
<1>6. ASSUME NEW n \in Ids, NEW r \in Row, rows' = [rows EXCEPT ![n] = r], r.tg \in People,
             \A j \in Ids \ {n} : rows[j].tg # r.tg
      PROVE  RowsOK
  BY <1>3, <1>6
<1>7. \A i \in Ids : rows[i] # NoRow <=> rows[i].tg \in People
  BY <1>1, SettingsAssumption DEF ResellersOK, Known, NoRow
<1>10. CASE Migrate
  <2>1. RowsOK
    <3>1. CASE UNCHANGED rows BY <1>4, <3>1
    <3>2. CASE boot \notin marked /\ "reseller" \in Migrations[boot]
      <4>1. boot = 3 BY <1>1, <1>10, <3>2, FourMigrations DEF SettingsTypeOK, Migrate
      <4>2. \A i \in Ids : rows[i] = NoRow BY <3>2, <4>1 DEF SettingsInv, BootOK
      <4>3. \A j \in Ids : rows[j].tg = "none" BY <4>2 DEF NoRow
      <4>4. 1 \in Ids /\ Former \in People /\ "none" \notin People BY SettingsAssumption
      <4> DEFINE r == [NoRow EXCEPT !.active = TRUE, !.tg = Former]
      <4>5. r \in Row /\ r.tg = Former BY RowFields DEF NoRow
      <4>6. rows' = [rows EXCEPT ![1] = r] BY <1>10, <3>2 DEF Migrate
      <4> HIDE DEF r
      <4> QED BY <1>6, <4>3, <4>4, <4>5, <4>6
    <3> QED BY <1>10, <3>1, <3>2 DEF Migrate
  <2>2. settings' \in [Keys -> {"on", "off", Unset}] BY <1>1, <1>10, FilledKept
  <2>3. marked' \subseteq 1..Len(Migrations) /\ boot' \in 1..Running
    BY <1>1, <1>10, FourMigrations DEF SettingsTypeOK, Migrate
  <2> QED BY <1>1, <1>10, <2>1, <2>2, <2>3 DEF SettingsTypeOK, Migrate
<1>11. CASE Confirm
  <2>1. RowsOK
    <3> DEFINE i == preview.id
               r == [rows[i] EXCEPT !.debt = preview.target]
    <3>1. i \in Ids /\ preview.target \in 0..MaxDebt BY <1>1 DEF FieldsOK
    <3>2. r \in Row /\ r.tg = rows[i].tg BY <1>3, <3>1, RowFields
    <3>3. UNCHANGED rows \/ (rows[i] # NoRow /\ rows' = [rows EXCEPT ![i] = r])
      BY <1>11, <3>1 DEF Confirm, NoRow
    <3> HIDE DEF r, i
    <3> QED BY <1>4, <1>5, <3>1, <3>2, <3>3
  <2> QED BY <1>1, <1>11, <2>1 DEF Confirm, Mutate, SettingsTypeOK
<1>12. CASE Publish
  <2>1. stage' \in [Orders -> {"none", "asked", "open", "charge", "charged", "closed"}]
    BY <1>1, <1>12 DEF Publish, SettingsTypeOK
  <2> QED BY <1>1, <1>4, <1>12, <2>1 DEF Publish, SettingsTypeOK
<1>27. CASE PublishFails
  <2>1. stage' \in [Orders -> {"none", "asked", "open", "charge", "charged", "closed"}]
    BY <1>1, <1>27 DEF PublishFails, SettingsTypeOK
  <2>2. faults' \in 0..MaxFaults
    BY <1>1, <1>27, SettingsAssumption DEF PublishFails, SettingsTypeOK
  <2>3. behind' \subseteq Ids
    <3>1. lock \in Orders => order[lock].id \in Ids
      BY <1>1 DEF SettingsInv, BooksOK, Booked
    <3>2. preview.id \in Ids BY <1>1 DEF FieldsOK
    <3> QED BY <1>1, <1>27, <3>1, <3>2 DEF PublishFails, SettingsTypeOK
  <2> QED BY <1>1, <1>4, <1>27, <2>1, <2>2, <2>3 DEF PublishFails, SettingsTypeOK
<1>13. CASE Crash
  <2>1. stage' \in [Orders -> {"none", "asked", "open", "charge", "charged", "closed"}]
    BY <1>1, <1>13 DEF Crash, SettingsTypeOK
  <2>2. faults' \in 0..MaxFaults
    BY <1>1, <1>13, SettingsAssumption DEF Crash, SettingsTypeOK
  <2> QED BY <1>1, <1>4, <1>13, <2>1, <2>2, FourMigrations DEF Crash, SettingsTypeOK
<1>14. ASSUME NEW k \in Keys, NEW on \in BOOLEAN, Switch(k, on)
      PROVE  RowsOK /\ RestOK
  <2>1. settings' \in [Keys -> {"on", "off", Unset}]
    BY <1>1, <1>14 DEF Switch, SettingsTypeOK, Value
  <2>2. changes' \in 0..MaxChanges
    BY <1>1, <1>14, SettingsAssumption DEF Switch, Decide, SettingsTypeOK
  <2> QED BY <1>1, <1>4, <1>14, <2>1, <2>2 DEF Switch, Decide, Mutate, SettingsTypeOK
<1>15. ASSUME NEW p \in People, NEW rate \in Rates, Add(p, rate)
      PROVE  RowsOK /\ RestOK
  <2>1. PICK n \in Ids :
             /\ rows' = [rows EXCEPT ![n] = [rows[n] EXCEPT !.active = TRUE, !.tg = p, !.rate = rate]]
             /\ \A j \in Ids : j # n => rows[j].tg # p
    <3> DEFINE old == {i \in Ids : rows[i].tg = p}
               n == IF old # {} THEN Min(old) ELSE Min({j \in Ids : ~Known(j)})
    <3>1. n \in Ids /\ (IF old # {} THEN rows[n].tg = p ELSE ~Known(n))
      BY <1>15, RowOfReseller DEF Add
    <3>2. rows' = [rows EXCEPT ![n] = [rows[n] EXCEPT !.active = TRUE, !.tg = p, !.rate = rate]]
      BY <1>15 DEF Add
    <3> HIDE DEF n
    <3>3. \A j \in Ids : j # n => rows[j].tg # p BY <1>3, <1>7, <3>1
    <3> QED BY <3>1, <3>2, <3>3
  <2> DEFINE r == [rows[n] EXCEPT !.active = TRUE, !.tg = p, !.rate = rate]
  <2>2. r \in Row /\ r.tg = p BY <1>3, RowFields
  <2> HIDE DEF r
  <2>3. rows' = [rows EXCEPT ![n] = r] BY <2>1 DEF r
  <2>4. \A j \in Ids \ {n} : rows[j].tg # r.tg BY <2>1, <2>2
  <2>5. RowsOK BY <1>6, <2>2, <2>3, <2>4
  <2>6. changes < MaxChanges /\ changes' = changes + 1 BY <1>15 DEF Add, Decide
  <2>7. changes' \in 0..MaxChanges BY <1>1, <2>6, SettingsAssumption DEF SettingsTypeOK
  <2> QED BY <1>1, <1>15, <2>5, <2>7 DEF Add, Decide, Mutate, SettingsTypeOK
<1>16. ASSUME NEW p \in People, NEW rate \in Rates, NEW i \in Ids, Edit(i, p, rate)
      PROVE  RowsOK /\ RestOK
  <2> DEFINE r == [rows[i] EXCEPT !.tg = p, !.rate = rate]
  <2>1. r \in Row /\ r.tg = p BY <1>3, RowFields
  <2>2. rows' = [rows EXCEPT ![i] = r] /\ \A j \in Ids \ {i} : rows[j].tg # p
    BY <1>3, <1>16 DEF Edit
  <2> HIDE DEF r
  <2>3. RowsOK BY <1>6, <2>1, <2>2
  <2>4. changes' \in 0..MaxChanges
    BY <1>1, <1>16, SettingsAssumption DEF Edit, Decide, SettingsTypeOK
  <2> QED BY <1>1, <1>16, <2>3, <2>4 DEF Edit, Decide, Mutate, SettingsTypeOK
<1>17. ASSUME NEW i \in Ids, Delete(i)
      PROVE  RowsOK /\ RestOK
  <2> DEFINE r == [rows[i] EXCEPT !.active = FALSE]
  <2>1. r \in Row /\ r.tg = rows[i].tg BY <1>3, RowFields
  <2>2. rows' = [rows EXCEPT ![i] = r] /\ rows[i] # NoRow BY <1>3, <1>17 DEF Delete, NoRow
  <2> HIDE DEF r
  <2>3. RowsOK BY <1>5, <2>1, <2>2
  <2>4. changes' \in 0..MaxChanges
    BY <1>1, <1>17, SettingsAssumption DEF Delete, Decide, SettingsTypeOK
  <2> QED BY <1>1, <1>17, <2>3, <2>4 DEF Delete, Decide, Mutate, SettingsTypeOK
<1>18. ASSUME NEW i \in Ids, NEW target \in Targets, Ask(i, target)
      PROVE  RowsOK /\ RestOK
  BY <1>1, <1>4, <1>18, SettingsAssumption DEF Ask, SettingsTypeOK
<1>19. ASSUME NEW i \in Ids, NEW message \in 1..MaxChanges, AskZero(i, message)
      PROVE  RowsOK /\ RestOK
  BY <1>1, <1>4, <1>19, SettingsAssumption DEF AskZero, SettingsTypeOK
<1>20. ASSUME NEW o \in Orders, NEW p \in People, Start(o, p)
      PROVE  RowsOK /\ RestOK
  BY <1>1, <1>4, <1>20 DEF Start, SettingsTypeOK
<1>21. ASSUME NEW o \in Orders, Create(o)
      PROVE  RowsOK /\ RestOK
  BY <1>1, <1>4, <1>21 DEF Create, SettingsTypeOK
<1>22. ASSUME NEW o \in Orders, Serve(o)
      PROVE  RowsOK /\ RestOK
  BY <1>1, <1>4, <1>22 DEF Serve, SettingsTypeOK
<1>23. ASSUME NEW o \in Orders, Charge(o)
      PROVE  RowsOK /\ RestOK
  <2>1. RowsOK
    <3>1. CASE UNCHANGED rows BY <1>4, <3>1
    <3>2. CASE After(o) <= MaxDebt /\ Book(o)
      <4> DEFINE i == order[o].id
                 r == [rows[i] EXCEPT !.debt = After(o)]
      <4>1. i \in Ids /\ After(o) \in 0..MaxDebt BY <1>23, <3>2, EntryAdded DEF Charge
      <4>2. r \in Row /\ r.tg = rows[i].tg BY <1>3, <4>1, RowFields
      <4>3. rows' = [rows EXCEPT ![i] = r] BY <3>2, <4>1 DEF Book
      <4>4. rows[i] # NoRow BY <1>23, <3>2, EntryAdded DEF Charge, Known
      <4> HIDE DEF i, r
      <4> QED BY <1>5, <4>1, <4>2, <4>3, <4>4
    <3> QED BY <1>23, <3>1, <3>2 DEF Charge
  <2>2. stage' \in [Orders -> {"none", "asked", "open", "charge", "charged", "closed"}]
    BY <1>1, <1>23 DEF Charge, SettingsTypeOK
  <2>3. lock' \in {Free, Admin, Debt} \union Orders BY <1>1, <1>23 DEF Charge, Mutate, SettingsTypeOK
  <2> QED BY <1>1, <1>23, <2>1, <2>2, <2>3 DEF Charge, SettingsTypeOK
<1>24. ASSUME NEW o \in Orders, Close(o)
      PROVE  RowsOK /\ RestOK
  BY <1>1, <1>4, <1>24 DEF Close, SettingsTypeOK
<1>25. ASSUME NEW o \in Orders, Cancel(o)
      PROVE  RowsOK /\ RestOK
  BY <1>1, <1>4, <1>25 DEF Cancel, SettingsTypeOK
<1>26. CASE UNCHANGED vars
  BY <1>1, <1>4, <1>26 DEF vars, SettingsTypeOK
<1> QED
  BY <1>10, <1>11, <1>12, <1>13, <1>14, <1>15, <1>16, <1>17, <1>18, <1>19, <1>20, <1>21, <1>22, <1>23, <1>24, <1>25, <1>26, <1>27 DEF Next

-----------------------------------------------------------------------------
(* The rows and the books                                                  *)

\* What a step does to the rows and the books: nothing, the third migration, a
\* mutation of a row that leaves its debt, or an entry with its debt.
LEMMA RowsChange ==
  ASSUME SettingsInv, [Next]_vars
  PROVE  \/ UNCHANGED <<rows, entries>>
         \/ /\ Migrate /\ boot = 3 /\ UNCHANGED entries
            /\ \A i \in Ids : rows'[i].debt = rows[i].debt /\ rows[i] = NoRow
            /\ \A i \in Ids : rows'[i] # NoRow => rows'[i].tg \in People
         \/ /\ boot = Running /\ UNCHANGED entries
            /\ \E n \in Ids : \E r : /\ rows' = [rows EXCEPT ![n] = r]
                                     /\ r.debt = rows[n].debt /\ r.tg \in People
         \/ /\ boot = Running
            /\ \E x : /\ x.id \in Ids /\ x.delta \in Int /\ x \notin entries
                       /\ Known(x.id)
                       /\ entries' = entries \union {x}
                       /\ \E r : /\ rows' = [rows EXCEPT ![x.id] = r]
                                  /\ r.tg = rows[x.id].tg
                                  /\ r.debt = rows[x.id].debt + x.delta
<1> USE DEF database, memory, orders
<1>1. SettingsTypeOK /\ ResellersOK /\ FieldsOK BY DEF SettingsInv
<1> DEFINE Row == [active : BOOLEAN, tg : People \union {"none"}, rate : Rates, debt : 0..MaxDebt]
<1>2. rows \in [Ids -> Row] BY <1>1 DEF SettingsTypeOK
<1>3. \A i \in Ids : rows[i] # NoRow <=> rows[i].tg \in People
  BY <1>1, SettingsAssumption DEF ResellersOK, Known, NoRow
<1>4. \A i \in Ids : rows[i].debt \in Int BY <1>2, SettingsAssumption
<1>5. ASSUME Migrate
      PROVE  \/ UNCHANGED <<rows, entries>>
         \/ /\ Migrate /\ boot = 3 /\ UNCHANGED entries
            /\ \A i \in Ids : rows'[i].debt = rows[i].debt /\ rows[i] = NoRow
            /\ \A i \in Ids : rows'[i] # NoRow => rows'[i].tg \in People
  <2>1. CASE boot \notin marked /\ "reseller" \in Migrations[boot]
    <3>1. boot = 3 BY <1>1, <1>5, <2>1, FourMigrations DEF SettingsTypeOK, Migrate
    <3>2. \A i \in Ids : rows[i] = NoRow BY <2>1, <3>1 DEF SettingsInv, BootOK
    <3> DEFINE r == [NoRow EXCEPT !.active = TRUE, !.tg = Former]
    <3>3. rows' = [rows EXCEPT ![1] = r] /\ UNCHANGED entries BY <1>5, <2>1 DEF Migrate
    <3>4. r.debt = NoRow.debt /\ r.tg = Former /\ Former \in People
      BY SettingsAssumption DEF NoRow
    <3> HIDE DEF r
    <3>5. \A i \in Ids : rows'[i].debt = rows[i].debt BY <1>2, <3>2, <3>3, <3>4
    <3>6. \A i \in Ids : rows'[i] # NoRow => rows'[i].tg \in People BY <1>2, <3>2, <3>3, <3>4
    <3> QED BY <1>5, <3>1, <3>2, <3>3, <3>5, <3>6
  <2> QED BY <1>5, <2>1 DEF Migrate
<1>6. ASSUME Confirm
      PROVE  \/ UNCHANGED <<rows, entries>>
             \/ /\ boot = Running
                /\ \E x : /\ x.id \in Ids /\ x.delta \in Int /\ x \notin entries
                           /\ Known(x.id)
                           /\ entries' = entries \union {x}
                           /\ \E r : /\ rows' = [rows EXCEPT ![x.id] = r]
                                      /\ r.tg = rows[x.id].tg
                                      /\ r.debt = rows[x.id].debt + x.delta
  <2> DEFINE i == preview.id
             x == Entry(<<preview.kind, preview.message, i>>, i, preview.target - rows[i].debt)
             r == [rows[i] EXCEPT !.debt = preview.target]
  <2>1. i \in Ids /\ preview.target \in 0..MaxDebt /\ preview.target \in Int
    BY <1>1, SettingsAssumption DEF FieldsOK
  <2>0. SUFFICES ASSUME ~UNCHANGED <<rows, entries>>
                 PROVE  /\ boot = Running
                        /\ \E y : /\ y.id \in Ids /\ y.delta \in Int /\ y \notin entries
                                   /\ Known(y.id)
                                   /\ entries' = entries \union {y}
                                   /\ \E t : /\ rows' = [rows EXCEPT ![y.id] = t]
                                              /\ t.tg = rows[y.id].tg
                                              /\ t.debt = rows[y.id].debt + y.delta
    OBVIOUS
  <2>2. x.id = i /\ x.delta = preview.target - rows[i].debt BY DEF Entry
  <2>3. x \notin entries BY <1>6, <2>0 DEF Confirm, Entry
  <2>4. Known(i) BY <1>6, <2>0 DEF Confirm, Known, NoRow
  <2>5. rows' = [rows EXCEPT ![i] = r] /\ entries' = entries \union {x}
    BY <1>6, <2>0, <2>1 DEF Confirm
  <2>6. r.tg = rows[i].tg /\ r.debt = preview.target
    <3> DEFINE row == rows[i]
    <3>1. row \in Row BY <1>2, <2>1
    <3> HIDE DEF row, i
    <3>2. [row EXCEPT !.debt = preview.target].tg = row.tg
          /\ [row EXCEPT !.debt = preview.target].debt = preview.target
      BY <2>1, <3>1
    <3> QED BY <3>2 DEF row
  <2>7. boot = Running BY <1>6 DEF Confirm, Mutate
  <2> HIDE DEF x, r, i
  <2>8. x.delta \in Int /\ r.debt = rows[i].debt + x.delta BY <1>4, <2>1, <2>2, <2>6
  <2> QED BY <2>1, <2>2, <2>3, <2>4, <2>5, <2>6, <2>7, <2>8
<1>7. ASSUME Publish
      PROVE  UNCHANGED <<rows, entries>>
  BY <1>7 DEF Publish
<1>22. ASSUME PublishFails
      PROVE  UNCHANGED <<rows, entries>>
  BY <1>22 DEF PublishFails
<1>8. ASSUME Crash
      PROVE  UNCHANGED <<rows, entries>>
  BY <1>8 DEF Crash
<1>9. ASSUME NEW k \in Keys, NEW on \in BOOLEAN, Switch(k, on)
      PROVE  UNCHANGED <<rows, entries>>
  BY <1>9 DEF Switch
<1>10. ASSUME NEW p \in People, NEW rate \in Rates, Add(p, rate)
      PROVE  /\ boot = Running /\ UNCHANGED entries
             /\ \E n \in Ids : \E r : /\ rows' = [rows EXCEPT ![n] = r]
                                      /\ r.debt = rows[n].debt /\ r.tg \in People
  <2> DEFINE old == {i \in Ids : rows[i].tg = p}
             n == IF old # {} THEN Min(old) ELSE Min({j \in Ids : ~Known(j)})
             r == [rows[n] EXCEPT !.active = TRUE, !.tg = p, !.rate = rate]
  <2>1. n \in Ids BY <1>10, RowOfReseller DEF Add
  <2>2. rows' = [rows EXCEPT ![n] = r] /\ UNCHANGED entries BY <1>10 DEF Add
  <2>3. boot = Running BY <1>10 DEF Add, Decide, Mutate
  <2> HIDE DEF n
  <2>4. r.debt = rows[n].debt /\ r.tg \in People BY <1>2, <2>1, RowFields
  <2> HIDE DEF r
  <2> QED BY <2>1, <2>2, <2>3, <2>4
<1>11. ASSUME NEW p \in People, NEW rate \in Rates, NEW i \in Ids, Edit(i, p, rate)
      PROVE  /\ boot = Running /\ UNCHANGED entries
             /\ \E n \in Ids : \E r : /\ rows' = [rows EXCEPT ![n] = r]
                                      /\ r.debt = rows[n].debt /\ r.tg \in People
  <2> DEFINE r == [rows[i] EXCEPT !.tg = p, !.rate = rate]
  <2>1. r.debt = rows[i].debt /\ r.tg \in People BY <1>2, RowFields
  <2>2. rows' = [rows EXCEPT ![i] = r] BY <1>2, <1>11 DEF Edit
  <2> HIDE DEF r
  <2> QED BY <1>11, <2>1, <2>2 DEF Edit, Decide, Mutate
<1>12. ASSUME NEW i \in Ids, Delete(i)
      PROVE  /\ boot = Running /\ UNCHANGED entries
             /\ \E n \in Ids : \E r : /\ rows' = [rows EXCEPT ![n] = r]
                                      /\ r.debt = rows[n].debt /\ r.tg \in People
  <2> DEFINE r == [rows[i] EXCEPT !.active = FALSE]
  <2>1. r.debt = rows[i].debt /\ r.tg = rows[i].tg BY <1>2, RowFields
  <2>2. rows' = [rows EXCEPT ![i] = r] /\ rows[i].tg \in People
    BY <1>2, <1>3, <1>12 DEF Delete, NoRow
  <2> HIDE DEF r
  <2> QED BY <1>12, <2>1, <2>2 DEF Delete, Decide, Mutate
<1>13. ASSUME NEW i \in Ids, NEW target \in Targets, Ask(i, target)
      PROVE  UNCHANGED <<rows, entries>>
  BY <1>13 DEF Ask
<1>14. ASSUME NEW i \in Ids, NEW message \in 1..MaxChanges, AskZero(i, message)
      PROVE  UNCHANGED <<rows, entries>>
  BY <1>14 DEF AskZero
<1>15. ASSUME NEW o \in Orders, NEW p \in People, Start(o, p)
      PROVE  UNCHANGED <<rows, entries>>
  BY <1>15 DEF Start
<1>16. ASSUME NEW o \in Orders, Create(o)
      PROVE  UNCHANGED <<rows, entries>>
  BY <1>16 DEF Create
<1>17. ASSUME NEW o \in Orders, Serve(o)
      PROVE  UNCHANGED <<rows, entries>>
  BY <1>17 DEF Serve
<1>18. ASSUME NEW o \in Orders, Charge(o)
      PROVE  \/ UNCHANGED <<rows, entries>>
         \/ /\ boot = Running
            /\ \E x : /\ x.id \in Ids /\ x.delta \in Int /\ x \notin entries
                       /\ Known(x.id)
                       /\ entries' = entries \union {x}
                       /\ \E r : /\ rows' = [rows EXCEPT ![x.id] = r]
                                  /\ r.tg = rows[x.id].tg
                                  /\ r.debt = rows[x.id].debt + x.delta
  <2>1. CASE ~Booked(o) /\ After(o) <= MaxDebt /\ Book(o) /\ Mutate(o)
    <3> DEFINE i == order[o].id
               x == Entry(<<"order", o>>, i, order[o].charge)
               r == [rows[i] EXCEPT !.debt = After(o)]
    <3>1. /\ i \in Ids /\ Known(i) /\ order[o].charge \in Int /\ After(o) \in 0..MaxDebt
          /\ After(o) = rows[i].debt + order[o].charge
      BY <1>18, <2>1, EntryAdded DEF Charge
    <3>2. x.id = i /\ x.delta = order[o].charge BY DEF Entry
    <3>3. x \notin entries BY <2>1 DEF Booked, Entry
    <3>4. rows' = [rows EXCEPT ![i] = r] /\ entries' = entries \union {x} BY <2>1, <3>1 DEF Book
    <3>5. r.tg = rows[i].tg /\ r.debt = After(o)
      <4> DEFINE row == rows[i]
      <4>1. row \in Row BY <1>2, <3>1
      <4> HIDE DEF row, i
      <4>2. [row EXCEPT !.debt = After(o)].tg = row.tg /\ [row EXCEPT !.debt = After(o)].debt = After(o)
        BY <3>1, <4>1
      <4> QED BY <4>2 DEF row
    <3>6. boot = Running BY <2>1 DEF Mutate
    <3> HIDE DEF x, r, i
    <3> QED BY <3>1, <3>2, <3>3, <3>4, <3>5, <3>6
  <2> QED BY <1>18, <2>1 DEF Charge
<1>19. ASSUME NEW o \in Orders, Close(o)
      PROVE  UNCHANGED <<rows, entries>>
  BY <1>19 DEF Close
<1>20. ASSUME NEW o \in Orders, Cancel(o)
      PROVE  UNCHANGED <<rows, entries>>
  BY <1>20 DEF Cancel
<1>21. CASE UNCHANGED vars
  BY <1>21 DEF vars
<1> QED
  BY <1>5, <1>6, <1>7, <1>8, <1>9, <1>10, <1>11, <1>12, <1>13, <1>14, <1>15, <1>16, <1>17, <1>18, <1>19, <1>20, <1>21, <1>22 DEF Next

\* Every step keeps the rows of resellers those of people.
LEMMA ResellersStep == ASSUME SettingsInv, [Next]_vars PROVE ResellersOK'
<1>1. SettingsTypeOK /\ ResellersOK BY DEF SettingsInv
<1> SUFFICES ASSUME NEW i \in Ids, rows'[i] # NoRow PROVE rows'[i].tg \in People
  BY DEF ResellersOK, Known
<1>2. rows[i] # NoRow => rows[i].tg \in People BY <1>1 DEF ResellersOK, Known
<1>3. CASE UNCHANGED <<rows, entries>> BY <1>2, <1>3
<1>4. ASSUME NEW n \in Ids, NEW r, rows' = [rows EXCEPT ![n] = r],
             r.tg \in People \/ (r.tg = rows[n].tg /\ rows[n] # NoRow)
      PROVE  rows'[i].tg \in People
  BY <1>1, <1>2, <1>4 DEF SettingsTypeOK, ResellersOK, Known
<1> QED BY <1>3, <1>4, RowsChange DEF Known

\* A row that is known stays known.
LEMMA StaysKnown ==
  ASSUME SettingsInv, [Next]_vars, NEW i \in Ids, Known(i) PROVE rows'[i] # NoRow
<1>1. SettingsTypeOK /\ ResellersOK BY DEF SettingsInv
<1>2. rows[i].tg \in People /\ "none" \notin People /\ NoRow.tg = "none"
  BY <1>1, SettingsAssumption DEF ResellersOK, NoRow
<1>3. CASE UNCHANGED <<rows, entries>> BY <1>3 DEF Known
<1>4. ASSUME NEW n \in Ids, NEW r, rows' = [rows EXCEPT ![n] = r],
             r.tg \in People \/ r.tg = rows[n].tg
      PROVE  rows'[i] # NoRow
  <2>1. CASE n = i
    <3>1. rows'[i] = r BY <1>1, <1>4, <2>1 DEF SettingsTypeOK
    <3>2. r.tg # "none" BY <1>2, <1>4, <2>1
    <3> QED BY <1>2, <3>1, <3>2
  <2>2. CASE n # i
    <3>1. rows'[i] = rows[i] BY <1>1, <1>4, <2>2 DEF SettingsTypeOK
    <3> QED BY <3>1 DEF Known
  <2> QED BY <2>1, <2>2
<1>5. ~\A j \in Ids : rows'[j].debt = rows[j].debt /\ rows[j] = NoRow BY DEF Known
<1> QED BY <1>3, <1>4, <1>5, RowsChange

\* Every step keeps the debts of the resellers equal to their entries.
LEMMA OwedStep ==
  ASSUME SettingsInv, [Next]_vars, NEW i \in Ids
  PROVE  rows'[i].debt = Owed(i)' /\ IsFiniteSet(entries')
<1>1. SettingsTypeOK /\ FieldsOK BY DEF SettingsInv
<1>2. rows[i].debt = Owed(i) BY DEF SettingsInv, DebtIsRight, Owed
<1>3. UNCHANGED entries => Owed(i)' = Owed(i) /\ IsFiniteSet(entries')
  BY <1>1 DEF Owed, FieldsOK
<1>4. CASE UNCHANGED <<rows, entries>> BY <1>2, <1>3, <1>4
<1>5. CASE UNCHANGED entries /\ \A j \in Ids : rows'[j].debt = rows[j].debt
  BY <1>2, <1>3, <1>5
<1>6. ASSUME NEW n \in Ids, NEW r, rows' = [rows EXCEPT ![n] = r], r.debt = rows[n].debt,
             UNCHANGED entries
      PROVE  rows'[i].debt = Owed(i)' /\ IsFiniteSet(entries')
  BY <1>1, <1>2, <1>3, <1>6 DEF SettingsTypeOK
<1>7. ASSUME NEW x, x.id \in Ids, x.delta \in Int, x \notin entries,
             entries' = entries \union {x},
             NEW r, rows' = [rows EXCEPT ![x.id] = r], r.debt = rows[x.id].debt + x.delta
      PROVE  rows'[i].debt = Owed(i)' /\ IsFiniteSet(entries')
  <2>1. IsFiniteSet(entries') /\ Owed(i)' = IF x.id = i THEN Owed(i) + x.delta ELSE Owed(i)
    BY <1>1, <1>7, OneMoreEntry
  <2>2. rows'[i] = IF x.id = i THEN r ELSE rows[i] BY <1>1, <1>7 DEF SettingsTypeOK
  <2> QED BY <1>2, <1>7, <2>1, <2>2
<1> QED BY <1>4, <1>5, <1>6, <1>7, RowsChange

\* Every step keeps the fields of questions, orders and entries.
LEMMA FieldsStep == ASSUME SettingsInv, [Next]_vars PROVE FieldsOK'
<1> USE DEF database, memory, orders
<1>1. SettingsTypeOK /\ FieldsOK /\ BooksOK BY DEF SettingsInv
<1>2. IsFiniteSet(entries') BY SettingsAssumption, OwedStep
<1>3. \A e \in entries' : e.id \in Ids /\ e.delta \in Int
  <2>1. \A e \in entries : e.id \in Ids /\ e.delta \in Int BY <1>1 DEF FieldsOK
  <2> QED BY <2>1, RowsChange
<1> DEFINE Question == [kind : {"none", "set", "zero"}, message : Nat, id : Ids, target : 0..MaxDebt]
           Line == [tg : People \union {"none"}, id : Ids \union {0}, charge : Rates]
<1>4. SUFFICES preview' \in Question /\ order' \in [Orders -> Line]
  BY <1>2, <1>3 DEF FieldsOK
<1>5. /\ preview \in Question /\ order \in [Orders -> Line]
      /\ NoOrder \in Line
      /\ \A i \in Ids : rows[i].rate \in Rates
  BY <1>1, SettingsAssumption DEF FieldsOK, NoOrder, SettingsTypeOK
<1>6. CASE Migrate
  BY <1>5, <1>6 DEF Migrate
<1>7. CASE Confirm
  BY <1>5, <1>7 DEF Confirm
<1>8. CASE Publish
  BY <1>5, <1>8 DEF Publish
<1>23. CASE PublishFails
  BY <1>5, <1>23 DEF PublishFails
<1>9. CASE Crash
  <2>1. preview' \in Question BY <1>5, <1>9 DEF Crash
  <2>2. order' \in [Orders -> Line] BY <1>5, <1>9 DEF Crash
  <2> QED BY <2>1, <2>2
<1>10. ASSUME NEW k \in Keys, NEW on \in BOOLEAN, Switch(k, on)
      PROVE  preview' \in Question /\ order' \in [Orders -> Line]
  BY <1>5, <1>10 DEF Switch
<1>11. ASSUME NEW p \in People, NEW rate \in Rates, Add(p, rate)
      PROVE  preview' \in Question /\ order' \in [Orders -> Line]
  BY <1>5, <1>11 DEF Add
<1>12. ASSUME NEW p \in People, NEW rate \in Rates, NEW i \in Ids, Edit(i, p, rate)
      PROVE  preview' \in Question /\ order' \in [Orders -> Line]
  BY <1>5, <1>12 DEF Edit
<1>13. ASSUME NEW i \in Ids, Delete(i)
      PROVE  preview' \in Question /\ order' \in [Orders -> Line]
  BY <1>5, <1>13 DEF Delete
<1>14. ASSUME NEW i \in Ids, NEW target \in Targets, Ask(i, target)
      PROVE  preview' \in Question /\ order' \in [Orders -> Line]
  BY <1>5, <1>14, SettingsAssumption DEF Ask
<1>15. ASSUME NEW i \in Ids, NEW message \in 1..MaxChanges, AskZero(i, message)
      PROVE  preview' \in Question /\ order' \in [Orders -> Line]
  BY <1>5, <1>15, SettingsAssumption DEF AskZero
<1>16. ASSUME NEW o \in Orders, NEW p \in People, Start(o, p)
      PROVE  preview' \in Question /\ order' \in [Orders -> Line]
  <2>1. [NoOrder EXCEPT !.tg = p] \in Line BY SettingsAssumption DEF NoOrder
  <2> QED BY <1>5, <1>16, <2>1 DEF Start
<1>17. ASSUME NEW o \in Orders, Create(o)
      PROVE  preview' \in Question /\ order' \in [Orders -> Line]
  <2>1. CASE order' = [order EXCEPT ![o] = NoOrder] BY <1>5, <1>17, <2>1 DEF Create
  <2>2. ASSUME NEW i \in Ids, order' = [order EXCEPT ![o].id = i, ![o].charge = rows[i].rate]
        PROVE  order' \in [Orders -> Line]
    <3>1. order[o] \in Line /\ rows[i].rate \in Rates BY <1>5
    <3>2. [order[o] EXCEPT !.id = i, !.charge = rows[i].rate] \in Line BY <3>1
    <3>3. order' = [order EXCEPT ![o] = [order[o] EXCEPT !.id = i, !.charge = rows[i].rate]]
      BY <1>5, <2>2
    <3> QED BY <1>5, <3>2, <3>3
  <2> QED BY <1>5, <1>17, <2>1, <2>2 DEF Create
<1>18. ASSUME NEW o \in Orders, Serve(o)
      PROVE  preview' \in Question /\ order' \in [Orders -> Line]
  BY <1>5, <1>18 DEF Serve
<1>19. ASSUME NEW o \in Orders, Charge(o)
      PROVE  preview' \in Question /\ order' \in [Orders -> Line]
  BY <1>5, <1>19 DEF Charge
<1>20. ASSUME NEW o \in Orders, Close(o)
      PROVE  preview' \in Question /\ order' \in [Orders -> Line]
  BY <1>5, <1>20 DEF Close
<1>21. ASSUME NEW o \in Orders, Cancel(o)
      PROVE  preview' \in Question /\ order' \in [Orders -> Line]
  BY <1>5, <1>21 DEF Cancel
<1>22. CASE UNCHANGED vars
  BY <1>5, <1>22 DEF vars
<1> QED
  BY <1>6, <1>7, <1>8, <1>9, <1>10, <1>11, <1>12, <1>13, <1>14, <1>15, <1>16, <1>17, <1>18, <1>19, <1>20, <1>21, <1>22, <1>23 DEF Next

\* Every step keeps the migrations in their order.
LEMMA BootStep == ASSUME SettingsInv, [Next]_vars PROVE BootOK'
<1> USE DEF database, memory, orders
<1>1. SettingsTypeOK /\ BootOK BY DEF SettingsInv
<1>2. /\ boot \in 1..5 /\ marked \subseteq 1..4
      /\ \A m \in 1..4 : m < boot => m \in marked
      /\ 3 \notin marked => \A i \in Ids : rows[i] = NoRow
      /\ boot < 5 => lock = Free
  BY <1>1, FourMigrations DEF SettingsTypeOK, BootOK
<1> DEFINE Goal == /\ \A m \in 1..4 : m < boot' => m \in marked'
                   /\ 3 \notin marked' => \A i \in Ids : rows'[i] = NoRow
                   /\ boot' < 5 => lock' = Free
<1>3. SUFFICES Goal BY FourMigrations DEF BootOK
<1>4. ASSUME UNCHANGED marked, boot' = boot, boot < 5 => UNCHANGED <<rows, lock>> PROVE Goal
  BY <1>2, <1>4
<1>5. CASE Migrate
  <2>1. boot < 5 /\ marked' = marked \union {boot} /\ boot' = boot + 1 /\ lock' = lock
    BY <1>5, FourMigrations DEF Migrate
  <2>2. UNCHANGED rows \/ ("reseller" \in Migrations[boot])
    BY <1>5 DEF Migrate
  <2>3. boot = 3 \/ UNCHANGED rows BY <1>2, <2>1, <2>2, FourMigrations
  <2> QED BY <1>2, <2>1, <2>3
<1>6. CASE Confirm
  <2>1. boot = Running /\ boot' = boot /\ marked' = marked BY <1>6 DEF Confirm, Mutate
  <2> QED BY <1>4, <2>1, FourMigrations
<1>7. CASE Publish
  BY <1>2, <1>7 DEF Publish
<1>22. CASE PublishFails
  BY <1>2, <1>22 DEF PublishFails
<1>8. CASE Crash
  BY <1>2, <1>8 DEF Crash
<1>9. ASSUME NEW k \in Keys, NEW on \in BOOLEAN, Switch(k, on)
      PROVE  Goal
  <2>1. boot = Running /\ boot' = boot /\ marked' = marked BY <1>9 DEF Switch, Decide, Mutate
  <2> QED BY <1>4, <2>1, FourMigrations
<1>10. ASSUME NEW p \in People, NEW rate \in Rates, Add(p, rate)
      PROVE  Goal
  <2>1. boot = Running /\ boot' = boot /\ marked' = marked BY <1>10 DEF Add, Decide, Mutate
  <2> QED BY <1>4, <2>1, FourMigrations
<1>11. ASSUME NEW p \in People, NEW rate \in Rates, NEW i \in Ids, Edit(i, p, rate)
      PROVE  Goal
  <2>1. boot = Running /\ boot' = boot /\ marked' = marked BY <1>11 DEF Edit, Decide, Mutate
  <2> QED BY <1>4, <2>1, FourMigrations
<1>12. ASSUME NEW i \in Ids, Delete(i)
      PROVE  Goal
  <2>1. boot = Running /\ boot' = boot /\ marked' = marked BY <1>12 DEF Delete, Decide, Mutate
  <2> QED BY <1>4, <2>1, FourMigrations
<1>13. ASSUME NEW i \in Ids, NEW target \in Targets, Ask(i, target)
      PROVE  Goal
  BY <1>4, <1>13 DEF Ask
<1>14. ASSUME NEW i \in Ids, NEW message \in 1..MaxChanges, AskZero(i, message)
      PROVE  Goal
  BY <1>4, <1>14 DEF AskZero
<1>15. ASSUME NEW o \in Orders, NEW p \in People, Start(o, p)
      PROVE  Goal
  BY <1>4, <1>15 DEF Start
<1>16. ASSUME NEW o \in Orders, Create(o)
      PROVE  Goal
  BY <1>4, <1>16 DEF Create
<1>17. ASSUME NEW o \in Orders, Serve(o)
      PROVE  Goal
  BY <1>4, <1>17 DEF Serve
<1>18. ASSUME NEW o \in Orders, Charge(o)
      PROVE  Goal
  <2>1. boot < 5 => UNCHANGED <<rows, lock>> BY <1>2, <1>18, FourMigrations DEF Charge, Mutate
  <2> QED BY <1>4, <1>18, <2>1 DEF Charge
<1>19. ASSUME NEW o \in Orders, Close(o)
      PROVE  Goal
  BY <1>4, <1>19 DEF Close
<1>20. ASSUME NEW o \in Orders, Cancel(o)
      PROVE  Goal
  BY <1>4, <1>20 DEF Cancel
<1>21. CASE UNCHANGED vars
  BY <1>4, <1>21 DEF vars
<1> QED
  BY <1>5, <1>6, <1>7, <1>8, <1>9, <1>10, <1>11, <1>12, <1>13, <1>14, <1>15, <1>16, <1>17, <1>18, <1>19, <1>20, <1>21, <1>22 DEF Next

\* Every step keeps the state its holder carries.
LEMMA CarriedStep == ASSUME SettingsInv, [Next]_vars PROVE CarriedOK'
<1> USE DEF database, memory, orders
<1>1. CarriedOK /\ BootOK BY DEF SettingsInv
<1>2. SUFFICES boot' = Running /\ lock' # Free =>
                 carried' = [settings |-> Filled(settings'), rows |-> rows']
  BY DEF CarriedOK, State, Running, Filled
<1> DEFINE Goal == boot' = Running /\ lock' # Free =>
                     carried' = [settings |-> Filled(settings'), rows |-> rows']
<1>3. ASSUME UNCHANGED <<boot, lock, carried, settings, rows>> PROVE Goal
  BY <1>1, <1>3 DEF CarriedOK, State
<1>4. CASE Migrate
  <2>1. boot < Running /\ lock' = lock BY <1>4 DEF Migrate
  <2> QED BY <1>1, <2>1 DEF BootOK
<1>5. CASE Confirm
  BY <1>5 DEF Confirm, Mutate
<1>6. CASE Publish
  BY <1>6 DEF Publish
<1>21. CASE PublishFails
  BY <1>21 DEF PublishFails
<1>7. CASE Crash
  BY <1>7 DEF Crash
<1>8. ASSUME NEW k \in Keys, NEW on \in BOOLEAN, Switch(k, on)
      PROVE  Goal
  BY <1>8 DEF Switch, Decide, Mutate
<1>9. ASSUME NEW p \in People, NEW rate \in Rates, Add(p, rate)
      PROVE  Goal
  BY <1>9 DEF Add, Decide, Mutate
<1>10. ASSUME NEW p \in People, NEW rate \in Rates, NEW i \in Ids, Edit(i, p, rate)
      PROVE  Goal
  BY <1>10 DEF Edit, Decide, Mutate
<1>11. ASSUME NEW i \in Ids, Delete(i)
      PROVE  Goal
  BY <1>11 DEF Delete, Decide, Mutate
<1>12. ASSUME NEW i \in Ids, NEW target \in Targets, Ask(i, target)
      PROVE  Goal
  BY <1>3, <1>12 DEF Ask
<1>13. ASSUME NEW i \in Ids, NEW message \in 1..MaxChanges, AskZero(i, message)
      PROVE  Goal
  BY <1>3, <1>13 DEF AskZero
<1>14. ASSUME NEW o \in Orders, NEW p \in People, Start(o, p)
      PROVE  Goal
  BY <1>3, <1>14 DEF Start
<1>15. ASSUME NEW o \in Orders, Create(o)
      PROVE  Goal
  BY <1>3, <1>15 DEF Create
<1>16. ASSUME NEW o \in Orders, Serve(o)
      PROVE  Goal
  BY <1>3, <1>16 DEF Serve
<1>17. ASSUME NEW o \in Orders, Charge(o)
      PROVE  Goal
  <2>1. CASE Mutate(o) BY <2>1 DEF Mutate
  <2>2. CASE ~Mutate(o) BY <1>3, <1>17, <2>2 DEF Charge
  <2> QED BY <2>1, <2>2
<1>18. ASSUME NEW o \in Orders, Close(o)
      PROVE  Goal
  BY <1>3, <1>18 DEF Close
<1>19. ASSUME NEW o \in Orders, Cancel(o)
      PROVE  Goal
  BY <1>3, <1>19 DEF Cancel
<1>20. CASE UNCHANGED vars
  BY <1>3, <1>20 DEF vars
<1> QED
  BY <1>4, <1>5, <1>6, <1>7, <1>8, <1>9, <1>10, <1>11, <1>12, <1>13, <1>14, <1>15, <1>16, <1>17, <1>18, <1>19, <1>20, <1>21 DEF Next

-----------------------------------------------------------------------------
(* The shop and the debts                                                  *)

\* The rules on the settings.
Rules(values) ==
    /\ \E k \in Services : values[k] = "on"
    /\ \E k \in Gateways : values[k] = "on"
    /\ values["card_transfer"] = "on" => values["card_details"] = "on"
    /\ values["referral"] = "on" => values["wallet"] = "on"

\* A switch obeys the rules when the switches in memory are the database's
\* (update_setting).
LEMMA SwitchObeys ==
  ASSUME SettingsTypeOK, snapshot.settings = Filled(settings), Rules(Filled(settings)),
         NEW k \in Keys, NEW on \in BOOLEAN, Switch(k, on)
  PROVE  Rules(Filled(settings'))
<1> DEFINE v == Filled(settings)
           w == Filled(settings')
           linked == k \in {"referral", "wallet"} /\ (on \/ k = "wallet")
<1>1. \A j \in Keys : On(j) <=> v[j] = "on" BY DEF On
<1>2. \A j \in Keys : w[j] = IF (linked /\ j = "wallet") \/ j = k THEN Value(on) ELSE v[j]
  <2>1. \A j \in Keys :
           settings'[j] = IF (linked /\ j = "wallet") \/ j = k THEN Value(on) ELSE settings[j]
    BY DEF Switch, SettingsTypeOK, Keys
  <2> QED BY <2>1 DEF Filled, Value, Unset
<1>3. /\ ~on /\ k \in Services => \E other \in Services \ {k} : v[other] = "on"
      /\ ~on /\ k \in Gateways => \E other \in Gateways \ {k} : v[other] = "on"
      /\ on /\ k = "card_transfer" => v["card_details"] = "on"
      /\ ~on /\ k = "wallet" => v["referral"] # "on"
      /\ k = "card_details" => on
  BY <1>1 DEF Switch, Keys, Services, Gateways
<1> HIDE DEF v, w
<1>4. Rules(v) BY DEF v
<1>5. Value(TRUE) = "on" /\ Value(FALSE) # "on" BY DEF Value
<1>6. \E j \in Services : w[j] = "on" BY <1>2, <1>3, <1>4, <1>5 DEF Rules, Services, Keys, Gateways
<1>7. \E j \in Gateways : w[j] = "on" BY <1>2, <1>3, <1>4, <1>5 DEF Rules, Services, Keys, Gateways
<1>8. w["card_transfer"] = "on" => w["card_details"] = "on"
  BY <1>2, <1>3, <1>4, <1>5 DEF Rules, Services, Keys, Gateways
<1>9. w["referral"] = "on" => w["wallet"] = "on"
  BY <1>2, <1>3, <1>4, <1>5 DEF Rules, Services, Keys, Gateways
<1> QED BY <1>6, <1>7, <1>8, <1>9 DEF Rules, w

\* Memory that agrees goes on agreeing when only a debt changes that may differ.
LEMMA AgreesStill ==
  ASSUME NEW S, NEW T, Agrees(S), S \subseteq T, UNCHANGED <<snapshot, settings>>,
         \/ UNCHANGED rows
         \/ \E i \in T \intersect Ids : \E n : rows' = [rows EXCEPT ![i] = [rows[i] EXCEPT !.debt = n]],
         rows \in [Ids -> [active : BOOLEAN, tg : People \union {"none"}, rate : Rates, debt : 0..MaxDebt]]
  PROVE  Agrees(T)'
<1> SUFFICES ASSUME NEW j \in Ids
             PROVE  /\ [snapshot.rows[j] EXCEPT !.debt = rows'[j].debt] = rows'[j]
                    /\ j \notin T => snapshot.rows[j].debt = rows'[j].debt
  BY DEF Agrees, Filled
<1>1. /\ [snapshot.rows[j] EXCEPT !.debt = rows[j].debt] = rows[j]
      /\ j \notin T => snapshot.rows[j].debt = rows[j].debt
  BY DEF Agrees
<1>2. CASE rows'[j] = rows[j]
  BY <1>1, <1>2
<1>3. CASE rows'[j] # rows[j]
  <2>1. PICK n : rows'[j] = [rows[j] EXCEPT !.debt = n] /\ j \in T
    BY <1>3
  <2>2. rows[j] \in [active : BOOLEAN, tg : People \union {"none"}, rate : Rates, debt : 0..MaxDebt]
    OBVIOUS
  <2> DEFINE m == snapshot.rows[j]
             r == rows[j]
  <2>3. [r EXCEPT !.debt = n].debt = n /\ [m EXCEPT !.debt = r.debt] = r
    BY <1>1, <2>2
  <2>4. [[m EXCEPT !.debt = r.debt] EXCEPT !.debt = n] = [m EXCEPT !.debt = n]
    OBVIOUS
  <2> HIDE DEF m, r
  <2>5. [m EXCEPT !.debt = n] = [r EXCEPT !.debt = n]
    BY <2>3, <2>4
  <2> QED BY <2>1, <2>3, <2>5 DEF m, r
<1> QED BY <1>2, <1>3

\* What was carried agrees in everything.
LEMMA CarriedAgrees ==
  ASSUME NEW S, rows' \in [Ids -> [active : BOOLEAN, tg : People \union {"none"},
                                  rate : Rates, debt : 0..MaxDebt]],
         snapshot' = [settings |-> Filled(settings'), rows |-> rows']
  PROVE  Agrees(S)'
<1>1. snapshot'.rows = rows' /\ snapshot'.settings = Filled(settings') OBVIOUS
<1>2. ASSUME NEW i \in Ids PROVE [rows'[i] EXCEPT !.debt = rows'[i].debt] = rows'[i]
  <2> DEFINE r == rows'[i]
  <2>1. r \in [active : BOOLEAN, tg : People \union {"none"}, rate : Rates, debt : 0..MaxDebt]
    OBVIOUS
  <2> HIDE DEF r
  <2>2. [r EXCEPT !.debt = r.debt] = r BY <2>1
  <2> QED BY <2>2 DEF r
<1> QED BY <1>1, <1>2 DEF Agrees, Filled

\* Every step keeps the rules of the shop, and memory what the database says.
LEMMA OpenStep == ASSUME SettingsInv, [Next]_vars PROVE MemoryOK' /\ ShopStaysOpen'
<1> USE DEF database, memory, orders
<1>1. /\ SettingsTypeOK /\ FieldsOK /\ CarriedOK /\ BootOK /\ BooksOK
      /\ MemoryOK /\ ShopStaysOpen
  BY DEF SettingsInv
<1>2. Rules(Filled(settings)) /\ (boot = Running /\ lock # Admin => Agrees(behind \union Held))
  BY <1>1 DEF ShopStaysOpen, Rules, MemoryOK
<1>0. /\ rows \in [Ids -> [active : BOOLEAN, tg : People \union {"none"}, rate : Rates, debt : 0..MaxDebt]]
      /\ rows' \in [Ids -> [active : BOOLEAN, tg : People \union {"none"}, rate : Rates, debt : 0..MaxDebt]]
  BY <1>1, TypeStep DEF SettingsTypeOK
<1> DEFINE Goal == MemoryOK' /\ Rules(Filled(settings'))
<1>6. Orders \intersect {Free, Admin, Debt} = {} /\ Admin # Free /\ Debt # Free /\ Admin # Debt
  BY SettingsAssumption DEF Free, Admin, Debt
<1>3. SUFFICES Goal
  <2>1. ASSUME boot' = Running, lock' = Free PROVE Agrees(behind)'
    <3>1. Held' = {} BY <1>6, <2>1 DEF Held
    <3>2. Agrees(behind \union Held)' BY <1>3, <1>6, <2>1 DEF MemoryOK, Running
    <3> QED BY <3>1, <3>2 DEF Agrees
  <2> QED BY <1>3, <2>1 DEF ShopStaysOpen, Agrees, Rules, Running
<1>4. ASSUME UNCHANGED <<boot, lock, snapshot, settings, rows, behind>>, Held' = Held PROVE Goal
  BY <1>2, <1>4 DEF MemoryOK, Agrees, Filled
<1>5. ASSUME lock' = Admin, UNCHANGED settings PROVE Goal
  BY <1>2, <1>5 DEF MemoryOK
<1>27. ASSUME NEW o \in Orders, lock = o
       PROVE  o \in served /\ stage[o] \notin {"none", "asked"}
  BY <1>1, <1>27 DEF BooksOK, Booked
<1>28. ASSUME order' = order, UNCHANGED <<lock, preview>> PROVE Held' = Held
  BY <1>28 DEF Held
<1>29. ASSUME NEW o \in Orders, lock # o, UNCHANGED <<lock, preview>>,
              \A q \in Orders : q # o => order'[q] = order[q]
       PROVE  Held' = Held
  BY <1>29 DEF Held
<1>7. CASE Migrate
  <2>1. CASE boot' # Running
    BY <1>1, <1>2, <1>7, <2>1, FilledKept DEF Migrate, MemoryOK, Running
  <2>2. CASE boot' = Running
    <3>1. snapshot' = [settings |-> Filled(settings'), rows |-> rows'] BY <1>7, <2>2 DEF Migrate
    <3>2. Agrees(behind \union Held)' BY <1>0, <3>1, CarriedAgrees
    <3> QED BY <1>1, <1>2, <1>7, <3>2, FilledKept DEF MemoryOK
  <2> QED BY <2>1, <2>2
<1>8. CASE Confirm
  <2>1. lock' = Debt /\ lock = Free /\ boot = Running /\ UNCHANGED <<boot, snapshot, settings, preview, behind>>
    BY <1>8 DEF Confirm, Mutate
  <2>2. Agrees(behind) BY <1>2, <1>6, <2>1 DEF Held, Agrees
  <2>3. Held' = {preview.id} /\ preview.id \in Ids BY <1>1, <2>1 DEF Held, FieldsOK
  <2>4. UNCHANGED rows \/ rows' = [rows EXCEPT ![preview.id] = [rows[preview.id] EXCEPT !.debt = preview.target]]
    BY <1>0, <1>8, <2>3 DEF Confirm
  <2>5. Agrees(behind \union {preview.id})' BY <1>0, <2>1, <2>2, <2>3, <2>4, AgreesStill
  <2> QED BY <1>2, <2>1, <2>3, <2>5 DEF MemoryOK, Agrees
<1>9. CASE Publish
  <2>1. boot = Running /\ snapshot' = State /\ UNCHANGED <<settings, rows>>
    BY <1>1, <1>9 DEF Publish, CarriedOK, BootOK, SettingsTypeOK, Running
  <2>2. snapshot' = [settings |-> Filled(settings'), rows |-> rows'] BY <2>1 DEF State
  <2>3. Agrees(behind \union Held)' BY <1>0, <2>2, CarriedAgrees
  <2> QED BY <1>2, <2>1, <2>3 DEF MemoryOK
<1>30. CASE PublishFails
  <2>1. lock # Admin /\ UNCHANGED <<boot, snapshot, settings, rows>> /\ lock' = Free
        /\ behind' = behind \union Held
    BY <1>6, <1>30 DEF PublishFails, Held
  <2>2. boot = Running => Agrees(behind \union Held)' BY <1>2, <2>1 DEF Agrees, Filled
  <2> QED BY <1>2, <2>1, <2>2 DEF MemoryOK
<1>10. CASE Crash
  BY <1>2, <1>10, FourMigrations DEF Crash, MemoryOK
<1>11. ASSUME NEW k \in Keys, NEW on \in BOOLEAN, Switch(k, on)
      PROVE  Goal
  <2>1. lock' = Admin /\ lock = Free /\ boot = Running BY <1>11 DEF Switch, Decide, Mutate
  <2>2. snapshot.settings = Filled(settings) BY <1>2, <1>6, <2>1 DEF Agrees
  <2> QED BY <1>1, <1>2, <1>11, <2>1, <2>2, SwitchObeys DEF MemoryOK
<1>12. ASSUME NEW p \in People, NEW rate \in Rates, Add(p, rate)
      PROVE  Goal
  <2>1. lock' = Admin /\ UNCHANGED settings BY <1>12 DEF Add, Decide, Mutate
  <2> QED BY <1>5, <2>1
<1>13. ASSUME NEW p \in People, NEW rate \in Rates, NEW i \in Ids, Edit(i, p, rate)
      PROVE  Goal
  <2>1. lock' = Admin /\ UNCHANGED settings BY <1>13 DEF Edit, Decide, Mutate
  <2> QED BY <1>5, <2>1
<1>14. ASSUME NEW i \in Ids, Delete(i)
      PROVE  Goal
  <2>1. lock' = Admin /\ UNCHANGED settings BY <1>14 DEF Delete, Decide, Mutate
  <2> QED BY <1>5, <2>1
<1>15. ASSUME NEW i \in Ids, NEW target \in Targets, Ask(i, target)
      PROVE  Goal
  <2>1. Held' = Held BY <1>15 DEF Ask, Held
  <2> QED BY <1>4, <1>15, <2>1 DEF Ask
<1>16. ASSUME NEW i \in Ids, NEW message \in 1..MaxChanges, AskZero(i, message)
      PROVE  Goal
  <2>1. Held' = Held BY <1>16 DEF AskZero, Held
  <2> QED BY <1>4, <1>16, <2>1 DEF AskZero
<1>17. ASSUME NEW o \in Orders, NEW p \in People, Start(o, p)
      PROVE  Goal
  <2>1. lock # o BY <1>17, <1>27 DEF Start
  <2>2. \A q \in Orders : q # o => order'[q] = order[q] BY <1>1, <1>17 DEF Start, FieldsOK
  <2> QED BY <1>4, <1>17, <1>29, <2>1, <2>2 DEF Start
<1>18. ASSUME NEW o \in Orders, Create(o)
      PROVE  Goal
  <2>1. lock # o BY <1>18, <1>27 DEF Create
  <2>2. \A q \in Orders : q # o => order'[q] = order[q] BY <1>1, <1>18 DEF Create, FieldsOK
  <2> QED BY <1>4, <1>18, <1>29, <2>1, <2>2 DEF Create
<1>19. ASSUME NEW o \in Orders, Serve(o)
      PROVE  Goal
  BY <1>4, <1>19, <1>28 DEF Serve
<1>20. ASSUME NEW o \in Orders, Charge(o)
      PROVE  Goal
  <2>1. CASE Mutate(o)
    <3>1. lock' = o /\ lock = Free /\ boot = Running
          /\ UNCHANGED <<boot, snapshot, settings, order, behind>>
      BY <1>20, <2>1 DEF Charge, Mutate
    <3>2. Agrees(behind) BY <1>2, <1>6, <3>1 DEF Held, Agrees
    <3>3. Held' = {order[o].id} /\ order[o].id \in Ids
      BY <1>1, <1>6, <1>20, <3>1 DEF Held, BooksOK, Charge
    <3>4. UNCHANGED rows \/ rows' = [rows EXCEPT ![order[o].id] = [rows[order[o].id] EXCEPT !.debt = After(o)]]
      BY <1>0, <1>20, <2>1, <3>3 DEF Charge, Book
    <3>5. Agrees(behind \union {order[o].id})' BY <1>0, <3>1, <3>2, <3>3, <3>4, AgreesStill
    <3> QED BY <1>2, <3>1, <3>3, <3>5 DEF MemoryOK, Agrees
  <2>2. CASE ~Mutate(o) BY <1>4, <1>20, <1>28, <2>2 DEF Charge
  <2> QED BY <2>1, <2>2
<1>21. ASSUME NEW o \in Orders, Close(o)
      PROVE  Goal
  BY <1>4, <1>21, <1>28 DEF Close
<1>22. ASSUME NEW o \in Orders, Cancel(o)
      PROVE  Goal
  <2>1. lock # o BY <1>22, <1>27 DEF Cancel
  <2>2. \A q \in Orders : q # o => order'[q] = order[q] BY <1>1, <1>22 DEF Cancel, FieldsOK
  <2> QED BY <1>4, <1>22, <1>29, <2>1, <2>2 DEF Cancel
<1>23. CASE UNCHANGED vars
  BY <1>4, <1>23, <1>28 DEF vars
<1> QED
  BY <1>7, <1>8, <1>9, <1>10, <1>11, <1>12, <1>13, <1>14, <1>15, <1>16, <1>17, <1>18, <1>19, <1>20, <1>21, <1>22, <1>23, <1>30 DEF Next

\* Every step keeps the orders and their entries in agreement.
LEMMA BooksStep == ASSUME SettingsInv, [Next]_vars PROVE BooksOK'
<1> USE DEF database, memory, orders
<1>1. SettingsTypeOK /\ FieldsOK /\ BootOK /\ BooksOK BY DEF SettingsInv
<1>2. \A i \in Ids : Known(i) => rows'[i] # NoRow BY StaysKnown
<1>3. SettingsTypeOK' BY TypeStep
<1> SUFFICES ASSUME NEW q \in Orders
             PROVE  /\ stage'[q] \notin {"none", "asked"} =>
                           order'[q].id \in Ids /\ rows'[order'[q].id] # NoRow
                    /\ stage'[q] \in {"charge", "charged", "closed"} => q \in served'
                    /\ q \in served' => stage'[q] \notin {"none", "asked"}
                    /\ stage'[q] \in {"charged", "closed"} \/ lock' = q => Booked(q)'
                    /\ \A e \in entries' : e.op = <<"order", q>> =>
                           q \in served' /\ e.id = order'[q].id /\ e.delta = order'[q].charge
  BY <1>3 DEF BooksOK, Known, SettingsTypeOK
<1> DEFINE Goal == /\ stage'[q] \notin {"none", "asked"} =>
                           order'[q].id \in Ids /\ rows'[order'[q].id] # NoRow
                   /\ stage'[q] \in {"charge", "charged", "closed"} => q \in served'
                   /\ q \in served' => stage'[q] \notin {"none", "asked"}
                   /\ stage'[q] \in {"charged", "closed"} \/ lock' = q => Booked(q)'
                   /\ \A e \in entries' : e.op = <<"order", q>> =>
                           q \in served' /\ e.id = order'[q].id /\ e.delta = order'[q].charge
<1>4. /\ stage[q] \notin {"none", "asked"} => order[q].id \in Ids /\ rows'[order[q].id] # NoRow
      /\ stage[q] \in {"charge", "charged", "closed"} => q \in served
      /\ q \in served => stage[q] \notin {"none", "asked"}
      /\ stage[q] \in {"charged", "closed"} \/ lock = q => Booked(q)
      /\ \A e \in entries : e.op = <<"order", q>> =>
             q \in served /\ e.id = order[q].id /\ e.delta = order[q].charge
  BY <1>1, <1>2 DEF BooksOK
<1>5. q \notin {Free, Admin, Debt} BY SettingsAssumption DEF Free, Admin, Debt
<1>6. Booked(q) /\ entries \subseteq entries' => Booked(q)' BY DEF Booked
<1>7. ASSUME UNCHANGED <<stage, order, served, entries>>, lock' = q => lock = q PROVE Goal
  BY <1>4, <1>6, <1>7
<1>8. stage \in [Orders -> {"none", "asked", "open", "charge", "charged", "closed"}]
      /\ order \in [Orders -> [tg : People \union {"none"}, id : Ids \union {0}, charge : Rates]]
  BY <1>1 DEF SettingsTypeOK, FieldsOK
<1>10. CASE Migrate
  BY <1>7, <1>10 DEF Migrate
<1>11. CASE Confirm
  <2>0. UNCHANGED <<stage, order, served>> /\ lock' = Debt BY <1>11 DEF Confirm, Mutate
  <2>4. SUFFICES ASSUME ~UNCHANGED entries PROVE Goal
    BY <1>5, <1>7, <2>0
  <2>1. PICK x : /\ x.op = <<preview.kind, preview.message, preview.id>>
                 /\ entries' = entries \union {x}
    BY <1>11, <2>4 DEF Confirm, Entry
  <2>2. x.op # <<"order", q>>
    <3>1. preview.kind # "order" BY <1>1 DEF FieldsOK
    <3>2. x.op[1] = preview.kind BY <2>1
    <3>3. <<"order", q>>[1] = "order" OBVIOUS
    <3> QED BY <3>1, <3>2, <3>3
  <2> QED BY <1>4, <1>5, <1>6, <2>0, <2>1, <2>2
<1>12. CASE Publish
  <2>1. stage'[q] = IF lock = q THEN "charged" ELSE stage[q] BY <1>12 DEF Publish
  <2>2. UNCHANGED <<order, served, entries>> /\ lock' = Free BY <1>12 DEF Publish
  <2>3. Booked(q)' <=> Booked(q) BY <2>2 DEF Booked
  <2>4. lock = q => q \in served BY <1>4 DEF Booked
  <2> QED BY <1>4, <1>5, <2>1, <2>2, <2>3, <2>4
<1>27. CASE PublishFails
  <2>1. stage'[q] = IF lock = q THEN "open" ELSE stage[q] BY <1>27 DEF PublishFails
  <2>2. UNCHANGED <<order, served, entries>> /\ lock' = Free BY <1>27 DEF PublishFails
  <2>3. Booked(q)' <=> Booked(q) BY <2>2 DEF Booked
  <2>4. lock = q => order[q].id \in Ids /\ rows'[order[q].id] # NoRow
    BY <1>4 DEF Booked
  <2> QED BY <1>4, <1>5, <2>1, <2>2, <2>3, <2>4
<1>13. CASE Crash
  <2>1. /\ stage'[q] = CASE stage[q] = "asked" -> "none"
                           [] stage[q] \in {"charge", "charged"} -> "open"
                           [] OTHER -> stage[q]
        /\ order'[q] = IF stage'[q] = "none" THEN NoOrder ELSE order[q]
        /\ UNCHANGED <<served, entries>> /\ lock' = Free
    BY <1>13 DEF Crash
  <2>2. Booked(q)' <=> Booked(q) BY <2>1 DEF Booked
  <2> QED BY <1>4, <1>5, <1>8, <2>1, <2>2
<1>14. ASSUME NEW k \in Keys, NEW on \in BOOLEAN, Switch(k, on)
      PROVE  Goal
  <2>1. UNCHANGED <<stage, order, served, entries>> /\ lock' = Admin BY <1>14 DEF Switch, Decide, Mutate
  <2> QED BY <1>5, <1>7, <2>1
<1>15. ASSUME NEW p \in People, NEW rate \in Rates, Add(p, rate)
      PROVE  Goal
  <2>1. UNCHANGED <<stage, order, served, entries>> /\ lock' = Admin BY <1>15 DEF Add, Decide, Mutate
  <2> QED BY <1>5, <1>7, <2>1
<1>16. ASSUME NEW p \in People, NEW rate \in Rates, NEW i \in Ids, Edit(i, p, rate)
      PROVE  Goal
  <2>1. UNCHANGED <<stage, order, served, entries>> /\ lock' = Admin BY <1>16 DEF Edit, Decide, Mutate
  <2> QED BY <1>5, <1>7, <2>1
<1>17. ASSUME NEW i \in Ids, Delete(i)
      PROVE  Goal
  <2>1. UNCHANGED <<stage, order, served, entries>> /\ lock' = Admin BY <1>17 DEF Delete, Decide, Mutate
  <2> QED BY <1>5, <1>7, <2>1
<1>18. ASSUME NEW i \in Ids, NEW target \in Targets, Ask(i, target)
      PROVE  Goal
  BY <1>7, <1>18 DEF Ask
<1>19. ASSUME NEW i \in Ids, NEW message \in 1..MaxChanges, AskZero(i, message)
      PROVE  Goal
  BY <1>7, <1>19 DEF AskZero
<1>20. ASSUME NEW o \in Orders, NEW p \in People, Start(o, p)
      PROVE  Goal
  <2>1. Booked(q)' <=> Booked(q) BY <1>20 DEF Start, Booked
  <2>2. o \notin served BY <1>1, <1>20 DEF Start, BooksOK
  <2> QED BY <1>4, <1>8, <1>20, <2>1, <2>2 DEF Start
<1>21. ASSUME NEW o \in Orders, Create(o)
      PROVE  Goal
  <2>1. Booked(q)' <=> Booked(q) BY <1>21 DEF Create, Booked
  <2>2. o \notin served /\ stage[o] = "asked" BY <1>1, <1>21 DEF Create, BooksOK
  <2>3. CASE q # o
    <3>1. order'[q] = order[q] /\ stage'[q] = stage[q] BY <1>8, <1>21, <2>3 DEF Create
    <3> QED BY <1>4, <1>21, <2>1, <3>1 DEF Create
  <2>4. CASE q = o
    <3>1. stage'[q] \in {"none", "open"} BY <1>8, <1>21, <2>4 DEF Create
    <3>2. stage'[q] = "open" => order'[q].id \in Ids /\ Known(order'[q].id)
      <4>1. SUFFICES ASSUME stage'[q] = "open"
                     PROVE  order'[q].id \in Ids /\ Known(order'[q].id)
        OBVIOUS
      <4>2. PICK i \in Ids : /\ rows[i].active
                            /\ order' = [order EXCEPT ![o].id = i, ![o].charge = rows[i].rate]
        BY <1>8, <1>21, <2>4, <4>1 DEF Create
      <4>3. order'[q].id = i BY <1>8, <2>4, <4>2
      <4>4. Known(i) BY <4>2 DEF Known, NoRow
      <4> QED BY <4>3, <4>4
    <3>3. UNCHANGED <<served, entries, lock, rows>> BY <1>21 DEF Create
    <3>4. ~Booked(q) /\ lock # q BY <1>4, <2>2, <2>4 DEF Booked
    <3> QED BY <1>4, <2>1, <2>2, <2>4, <3>1, <3>2, <3>3, <3>4 DEF Known
  <2> QED BY <2>3, <2>4
<1>22. ASSUME NEW o \in Orders, Serve(o)
      PROVE  Goal
  <2>1. Booked(q)' <=> Booked(q) BY <1>22 DEF Serve, Booked
  <2> QED BY <1>4, <1>8, <1>22, <2>1 DEF Serve
<1>23. ASSUME NEW o \in Orders, Charge(o)
      PROVE  Goal
  <2>1. UNCHANGED <<order, served>> /\ stage[o] = "charge" BY <1>23 DEF Charge
  <2>2. CASE Booked(o) /\ UNCHANGED <<entries, stage>> /\ Mutate(o)
    <3>1. Booked(q)' <=> Booked(q) BY <2>2 DEF Booked
    <3>2. lock' = o BY <2>2 DEF Mutate
    <3> QED BY <1>4, <2>1, <2>2, <3>1, <3>2
  <2>3. CASE ~Booked(o) /\ Book(o) /\ UNCHANGED stage /\ Mutate(o)
    <3> DEFINE x == Entry(<<"order", o>>, order[o].id, order[o].charge)
    <3>1. entries' = entries \union {x} /\ lock' = o BY <2>3 DEF Book, Mutate
    <3>2. x.op = <<"order", o>> /\ x.id = order[o].id /\ x.delta = order[o].charge BY DEF Entry
    <3> HIDE DEF x
    <3>3. o = q => Booked(q)' BY <3>1, <3>2 DEF Booked
    <3>4. x.op = <<"order", q>> => o = q BY <3>2
    <3> QED BY <1>4, <1>6, <2>1, <2>3, <3>1, <3>2, <3>3, <3>4
  <2>4. CASE /\ ~Booked(o) /\ stage' = [stage EXCEPT ![o] = "open"]
             /\ UNCHANGED <<entries, rows, lock, carried>>
    <3>1. Booked(q)' <=> Booked(q) BY <2>4 DEF Booked
    <3>2. stage'[q] = IF q = o THEN "open" ELSE stage[q] BY <1>8, <2>4
    <3> QED BY <1>4, <2>1, <2>4, <3>1, <3>2
  <2> QED BY <1>23, <2>2, <2>3, <2>4 DEF Charge
<1>24. ASSUME NEW o \in Orders, Close(o)
      PROVE  Goal
  <2>1. Booked(q)' <=> Booked(q) BY <1>24 DEF Close, Booked
  <2>2. stage'[q] = IF q = o THEN "closed" ELSE stage[q] BY <1>8, <1>24 DEF Close
  <2> QED BY <1>4, <1>24, <2>1, <2>2 DEF Close
<1>25. ASSUME NEW o \in Orders, Cancel(o)
      PROVE  Goal
  <2>1. Booked(q)' <=> Booked(q) BY <1>25 DEF Cancel, Booked
  <2>2. ~Booked(o) /\ lock # o BY <1>1, <1>25 DEF Cancel, BooksOK, Booked
  <2> QED BY <1>4, <1>8, <1>25, <2>1, <2>2 DEF Cancel, Booked
<1>26. CASE UNCHANGED vars
  BY <1>7, <1>26 DEF vars
<1> QED
  BY <1>10, <1>11, <1>12, <1>13, <1>14, <1>15, <1>16, <1>17, <1>18, <1>19, <1>20, <1>21, <1>22, <1>23, <1>24, <1>25, <1>26, <1>27 DEF Next

\* Every step keeps the debts right.
LEMMA DebtStep == ASSUME SettingsInv, [Next]_vars PROVE DebtIsRight'
<1>1. BooksOK' BY BooksStep
<1>2. \A i \in Ids : rows'[i].debt = Owed(i)' BY OwedStep
<1>3. ASSUME NEW o \in Orders, stage'[o] = "closed"
      PROVE  \E e \in entries' : e.op = <<"order", o>> /\ e.id = order'[o].id
                                 /\ e.delta = order'[o].charge
  BY <1>1, <1>3 DEF BooksOK, Booked
<1> QED BY <1>2, <1>3 DEF DebtIsRight, Owed

-----------------------------------------------------------------------------
(* The theorems                                                            *)

\* An empty database obeys the rules by the defaults.
LEMMA SettingsInit == ASSUME Init PROVE SettingsInv
<1> USE SettingsAssumption DEF Init
<1>1. SettingsTypeOK
  <2>1. rows \in [Ids -> [active : BOOLEAN, tg : People \union {"none"},
                          rate : Rates, debt : 0..MaxDebt]]
    BY RowFields
  <2>2. settings \in [Keys -> {"on", "off", Unset}] OBVIOUS
  <2>3. boot \in 1..Running BY FourMigrations
  <2>4. /\ lock \in {Free, Admin, Debt} \union Orders
        /\ stage \in [Orders -> {"none", "asked", "open", "charge", "charged", "closed"}]
        /\ marked \subseteq 1..Len(Migrations) /\ served \subseteq Orders /\ behind \subseteq Ids
        /\ changes \in 0..MaxChanges /\ faults \in 0..MaxFaults
        /\ \A i \in Ids : ~Known(i)
    BY DEF Known
  <2> QED BY <2>1, <2>2, <2>3, <2>4 DEF SettingsTypeOK
<1>2. FieldsOK
  <2>1. order \in [Orders -> [tg : People \union {"none"}, id : Ids \union {0}, charge : Rates]]
    BY DEF NoOrder
  <2>2. IsFiniteSet(entries) /\ entries = {} BY FS_EmptySet
  <2>3. preview \in [kind : {"none", "set", "zero"}, message : Nat, id : Ids, target : 0..MaxDebt]
    OBVIOUS
  <2> QED BY <2>1, <2>2, <2>3 DEF FieldsOK
<1>3. BootOK BY FourMigrations DEF BootOK
<1>4. CarriedOK /\ ResellersOK BY DEF CarriedOK, ResellersOK, Known
<1>5. BooksOK BY DEF BooksOK, Free
<1>6. Rules(Filled(settings))
  <2>1. \A k \in Keys : Filled(settings)[k] = Default[k] BY DEF Filled
  <2> QED BY <2>1 DEF Rules, Default, Value, Keys, Services, Gateways
<1>7. boot # Running BY FourMigrations
<1>8. MemoryOK /\ ShopStaysOpen BY <1>6, <1>7 DEF MemoryOK, ShopStaysOpen, Rules
<1>9. DebtIsRight
  <2>1. \A i \in Ids : rows[i].debt = 0 BY DEF NoRow
  <2>2. \A i \in Ids : Owed(i) = 0 BY NothingOwed
  <2>3. \A o \in Orders : stage[o] # "closed" OBVIOUS
  <2> QED BY <2>1, <2>2, <2>3 DEF DebtIsRight, Owed
<1> QED BY <1>1, <1>2, <1>3, <1>4, <1>5, <1>8, <1>9 DEF SettingsInv

\* Every reachable state satisfies the inductive invariant.
THEOREM SettingsInvariant == Spec => []SettingsInv
<1>1. Init => SettingsInv BY SettingsInit
<1>2. SettingsInv /\ [Next]_vars => SettingsInv'
  BY TypeStep, FieldsStep, BootStep, CarriedStep, ResellersStep, BooksStep, OpenStep, DebtStep
  DEF SettingsInv
<1> QED BY <1>1, <1>2, PTL DEF Spec

\* Every setting and every row has its type, and no two rows are one person's.
THEOREM SettingsTypes == Spec => []SettingsTypeOK
<1>1. SettingsInv => SettingsTypeOK BY DEF SettingsInv
<1> QED BY <1>1, SettingsInvariant, PTL

\* At rest memory is what the database says, but for a debt whose second read
\* failed, and the shop can always sell (update_setting, _MUTATION_LOCK).
THEOREM OpenShop == Spec => []ShopStaysOpen
<1>1. SettingsInv => ShopStaysOpen BY DEF SettingsInv
<1> QED BY <1>1, SettingsInvariant, PTL

\* The debt of a reseller is the sum of its entries, and an order is closed
\* with its charge in them (record_reseller_debt_charge, set_reseller_debt).
THEOREM Debts == Spec => []DebtIsRight
<1>1. SettingsInv => DebtIsRight BY DEF SettingsInv
<1> QED BY <1>1, SettingsInvariant, PTL

\* Before the last migration nothing but a migration writes a setting.
LEMMA OnlyMigrations ==
  ASSUME [Next]_vars, boot < Running, boot # Running, ~Migrate PROVE UNCHANGED settings
<1> USE DEF database
<1>1. CASE Migrate
  BY <1>1
<1>2. CASE Confirm
  BY <1>2 DEF Confirm, Mutate
<1>3. CASE Publish
  BY <1>3 DEF Publish
<1>18. CASE PublishFails
  BY <1>18 DEF PublishFails
<1>4. CASE Crash
  BY <1>4 DEF Crash
<1>5. ASSUME NEW k \in Keys, NEW on \in BOOLEAN, Switch(k, on)
      PROVE  UNCHANGED settings
  BY <1>5 DEF Switch, Decide, Mutate
<1>6. ASSUME NEW p \in People, NEW rate \in Rates, Add(p, rate)
      PROVE  UNCHANGED settings
  BY <1>6 DEF Add, Decide, Mutate
<1>7. ASSUME NEW p \in People, NEW rate \in Rates, NEW i \in Ids, Edit(i, p, rate)
      PROVE  UNCHANGED settings
  BY <1>7 DEF Edit, Decide, Mutate
<1>8. ASSUME NEW i \in Ids, Delete(i)
      PROVE  UNCHANGED settings
  BY <1>8 DEF Delete, Decide, Mutate
<1>9. ASSUME NEW i \in Ids, NEW target \in Targets, Ask(i, target)
      PROVE  UNCHANGED settings
  BY <1>9 DEF Ask
<1>10. ASSUME NEW i \in Ids, NEW message \in 1..MaxChanges, AskZero(i, message)
      PROVE  UNCHANGED settings
  BY <1>10 DEF AskZero
<1>11. ASSUME NEW o \in Orders, NEW p \in People, Start(o, p)
      PROVE  UNCHANGED settings
  BY <1>11 DEF Start
<1>12. ASSUME NEW o \in Orders, Create(o)
      PROVE  UNCHANGED settings
  BY <1>12 DEF Create
<1>13. ASSUME NEW o \in Orders, Serve(o)
      PROVE  UNCHANGED settings
  BY <1>13 DEF Serve
<1>14. ASSUME NEW o \in Orders, Charge(o)
      PROVE  UNCHANGED settings
  BY <1>14 DEF Charge
<1>15. ASSUME NEW o \in Orders, Close(o)
      PROVE  UNCHANGED settings
  BY <1>15 DEF Close
<1>16. ASSUME NEW o \in Orders, Cancel(o)
      PROVE  UNCHANGED settings
  BY <1>16 DEF Cancel
<1>17. CASE UNCHANGED vars
  BY <1>17 DEF vars
<1> QED
  BY <1>1, <1>2, <1>3, <1>4, <1>5, <1>6, <1>7, <1>8, <1>9, <1>10, <1>11, <1>12, <1>13, <1>14, <1>15, <1>16, <1>17, <1>18 DEF Next

\* A start overwrites nothing the administrator has decided
\* (initialize_runtime_settings).
THEOREM StartKeepsChoices == Spec => StartupKeepsChoices
<1> DEFINE Kept == boot < Running =>
                       /\ \A k \in Keys : settings[k] # Unset => settings'[k] = settings[k]
                       /\ \A i \in Ids : Known(i) => rows'[i] = rows[i]
<1>1. SettingsInv /\ [Next]_vars => [Kept]_vars
  <2> SUFFICES ASSUME SettingsInv, Next, boot < Running PROVE Kept
    OBVIOUS
  <2> USE DEF database
  <2>1. boot # Running BY FourMigrations DEF SettingsInv, SettingsTypeOK
  <2>2. ASSUME NEW i \in Ids, Known(i) PROVE rows'[i] = rows[i]
    <3>1. UNCHANGED rows BY <2>1, <2>2, RowsChange DEF Known
    <3> QED BY <3>1
  <2>3. CASE Migrate BY <2>2, <2>3 DEF Migrate
  <2>4. CASE ~Migrate
    <3>1. UNCHANGED settings BY <2>1, <2>4, OnlyMigrations
    <3> QED BY <2>2, <3>1
  <2> QED BY <2>3, <2>4
<1> QED BY <1>1, SettingsInvariant, PTL DEF Spec, StartupKeepsChoices
=============================================================================
