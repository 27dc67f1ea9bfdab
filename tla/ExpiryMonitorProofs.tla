------------------------ MODULE ExpiryMonitorProofs ------------------------
(***************************************************************************)
(* Proofs about ExpiryMonitor, for every set of accounts, any order of     *)
(* them, and any number of renewals, scans, failures and restarts.         *)
(*                                                                         *)
(* A scan holds rows whose versions are not ahead of the database.  Scans  *)
(* of one service may overlap; but a new claim is for a later version than *)
(* the one before, so no two scans have claimed the same notice, and every *)
(* message is for a version already claimed, so the version of a new claim *)
(* has no message yet.                                                     *)
(***************************************************************************)
EXTENDS ExpiryMonitor, CollectionLemmas

-----------------------------------------------------------------------------
(* The inductive invariant *)

\* The rows a scan may hold.
Rows == {r \in [place : DOMAIN Order, account : Accounts, cycle : Versions] :
             r.cycle <= version[r.account]}

\* What the panel justifies now has been written down for the version there is.
DueInv ==
    \A a \in Accounts :
        Classify(a, panel[a]) # "healthy" => <<Classify(a, panel[a]), version[a]>> \in due[a]

\* A claim is never for a later version than the row's, nor older than a message.
ClaimInv ==
    \A a \in Accounts, k \in Kinds :
        /\ version[a] <= LastVersion[a]
        /\ claimed[a][k] <= version[a]
        /\ \A v \in Versions : sends[a][k][v] # 0 => v <= claimed[a][k]

\* An answer that is not out of date was justified in the version listed.
Justified(a, k, c) == k # "healthy" /\ version[a] = c => <<k, c>> \in due[a]

\* What a scan has claimed has no message before its own, and then has one.
Owned(a, k, c, stage) ==
    /\ k \in Kinds
    /\ c <= claimed[a][k]
    /\ stage = "claimed" => sends[a][k][c] = 0
    /\ stage = "sent" => c \in shown[a][k]

ScanOK(s) ==
    /\ scan[s] \subseteq Rows
    /\ at[s] \in {"read", "claimed", "sent"} => scan[s] # {}
    /\ at[s] = "read" => Justified(Row(s).account, found[s], Row(s).cycle)
    /\ at[s] \in {"claimed", "sent"} => Owned(Row(s).account, found[s], Row(s).cycle, at[s])

ScanInv == \A s \in Scans : ScanOK(s)

\* The notice a scan is about.
Notice(s) == <<Row(s).account, found[s], Row(s).cycle>>

\* No two scans are about to send the same notice.
AloneInv ==
    \A s, t \in Scans :
        s # t /\ at[s] = "claimed" /\ at[t] = "claimed" => Notice(s) # Notice(t)

EInv == ExpiryTypeOK /\ DueInv /\ ClaimInv /\ ScanInv /\ AloneInv /\ NoticesAddUp

-----------------------------------------------------------------------------
(* Versions, answers and rows *)

\* Every version a row may get is one of Versions.
LEMMA VersionBound ==
  ASSUME NEW a \in Accounts
  PROVE  /\ LastVersion[a] \in Nat \ {0}
         /\ \A v \in Nat \ {0} : v <= LastVersion[a] => v \in Versions
         /\ Versions \subseteq Nat \ {0}
<1> DEFINE L == {LastVersion[b] : b \in Accounts}
<1>1. LastVersion \in [Accounts -> Nat \ {0}] /\ IsFiniteSet(Accounts)
  BY ExpiryAssumption
<1>2. LastVersion \in Surjection(Accounts, L)
  BY <1>1 DEF Surjection
<1>3. IsFiniteSet(L)
  BY <1>1, <1>2, FS_Surjection
<1>4. L \in SUBSET Nat /\ LastVersion[a] \in L
  BY <1>1
<1>5. Max(L) \in L /\ \A n \in L : n <= Max(L)
  BY <1>3, <1>4, GreatestNumber
<1> DEFINE m == Max(L)
<1>6. Versions = 1..m
  BY DEF Versions
<1>7. m \in Nat /\ LastVersion[a] <= m /\ LastVersion[a] \in Nat \ {0}
  BY <1>1, <1>4, <1>5
<1> HIDE DEF m
<1> QED
  BY <1>6, <1>7

\* An answer amounts to a notice or to none.
LEMMA ClassifyKind ==
  ASSUME NEW a, NEW p
  PROVE  Classify(a, p) \in Kinds \union {"healthy"}
BY DEF Classify, ClassifyOpenvpn, ClassifyV2ray, Kinds

\* What becomes due is a notice of the version.
LEMMA NowDueFacts ==
  ASSUME NEW a \in Accounts, NEW p, NEW v \in Versions, due[a] \subseteq Kinds \X Versions
  PROVE  /\ NowDue(a, p, v) \subseteq Kinds \X Versions
         /\ due[a] \subseteq NowDue(a, p, v)
         /\ Classify(a, p) # "healthy" => <<Classify(a, p), v>> \in NowDue(a, p, v)
BY ClassifyKind DEF NowDue

\* The row a scan is at is one of its rows.
LEMMA RowIn ==
  ASSUME NEW s \in Scans, ScanOK(s), scan[s] # {}
  PROVE  /\ Row(s) \in scan[s]
         /\ Row(s).account \in Accounts /\ Row(s).cycle \in Versions
         /\ Row(s).cycle <= version[Row(s).account]
<1> DEFINE P == {r.place : r \in scan[s]}
<1>1. scan[s] \subseteq Rows
  BY DEF ScanOK
<1>2. DOMAIN Order \subseteq Nat
  BY ExpiryAssumption, LenProperties
<1>3. P \subseteq Nat /\ P # {}
  BY <1>1, <1>2 DEF Rows
<1>4. PICK n \in P : \A m \in P : n <= m
  BY <1>3, LeastNumber
<1>5. \E r \in scan[s] : \A q \in scan[s] : r.place <= q.place
  BY <1>4
<1>6. Row(s) \in scan[s]
  BY <1>5 DEF Row
<1> QED
  BY <1>1, <1>6 DEF Rows

\* The row a scan is at changes with its rows only.
LEMMA RowSame ==
  ASSUME NEW s \in Scans, scan'[s] = scan[s]
  PROVE  Row(s)' = Row(s)
BY DEF Row

\* The rows listed have the versions there are.
LEMMA ListedRows ==
  ASSUME ExpiryTypeOK, NEW service \in Services
  PROVE  Listed(service) \subseteq Rows
<1> SUFFICES ASSUME NEW i \in Monitored(service)
             PROVE  [place |-> i, account |-> Order[i], cycle |-> version[Order[i]]] \in Rows
  BY DEF Listed
<1>1. i \in DOMAIN Order /\ Order[i] \in Accounts
  BY ExpiryAssumption, LenProperties, ElementOfSeq DEF Monitored
<1>2. version[Order[i]] \in Versions /\ version[Order[i]] <= version[Order[i]]
  <2>1. version[Order[i]] \in Versions
    BY <1>1 DEF ExpiryTypeOK
  <2>2. version[Order[i]] \in Int
    BY <1>1, <2>1, VersionBound
  <2> QED
    BY <2>1, <2>2
<1> QED
  BY <1>1, <1>2 DEF Rows

\* The invariant holds initially.
LEMMA InitEInv == Init => EInv
<1> SUFFICES ASSUME Init PROVE EInv
  OBVIOUS
<1>1. \A a \in Accounts : 1 \in Versions /\ 1 <= LastVersion[a]
  BY VersionBound
<1>2. ExpiryTypeOK
  <2>1. due \in [Accounts -> SUBSET (Kinds \X Versions)]
    BY <1>1, ClassifyKind DEF Init
  <2>2. sends \in [Accounts -> [Kinds -> [Versions -> 0..2]]]
    BY DEF Init
  <2>3. version \in [Accounts -> Versions]
    BY <1>1 DEF Init
  <2>4. /\ panel \in [Accounts -> Panel] /\ claimed \in [Accounts -> [Kinds -> Versions \union {0}]]
        /\ marked \in [Accounts -> [Kinds -> BOOLEAN]]
        /\ shown \in [Accounts -> [Kinds -> SUBSET Versions]]
    BY ExpiryAssumption DEF Init
  <2>5. /\ scan \in [Scans -> SUBSET [place : DOMAIN Order, account : Accounts, cycle : Versions]]
        /\ at \in [Scans -> {"idle", "next", "read", "claimed", "sent"}]
        /\ found \in [Scans -> Kinds \union {"healthy"}]
    BY DEF Init
  <2>6. enabled \in BOOLEAN /\ paused \in BOOLEAN /\ loop \in Cycles \union {NoCycle}
    BY DEF Init
  <2>7. faults \in 0..MaxFaults /\ toggles \in 0..MaxToggles
    BY ExpiryAssumption DEF Init
  <2> QED
    BY <2>1, <2>2, <2>3, <2>4, <2>5, <2>6, <2>7 DEF ExpiryTypeOK
<1>3. DueInv
  BY DEF Init, DueInv
<1>4. ClaimInv
  BY <1>1 DEF Init, ClaimInv
<1>5. ScanInv /\ AloneInv
  BY DEF Init, ScanInv, ScanOK, AloneInv
<1>6. NoticesAddUp
  BY DEF Init, NoticesAddUp
<1> QED
  BY <1>2, <1>3, <1>4, <1>5, <1>6 DEF EInv

-----------------------------------------------------------------------------
(* The panel and the account rows *)

\* Usage, time, a login or a renewal moves the panel of one account, and what
\* that justifies becomes due.
PanelMove(a) == Consume(a) \/ FirstLogin(a) \/ RenewPanel(a)

\* What such a move does.
LEMMA PanelMoved ==
  ASSUME ExpiryTypeOK, NEW a \in Accounts, PanelMove(a)
  PROVE  /\ panel' \in [Accounts -> Panel]
         /\ \A b \in Accounts : b # a => panel'[b] = panel[b]
         /\ due' = [due EXCEPT ![a] = NowDue(a, panel'[a], version[a])]
         /\ UNCHANGED <<stored, enabled, paused, scanner, sends, shown, bounds>>
<1>1. panel[a] \in Panel /\ FirstPanel[a] \in Panel
  BY ExpiryAssumption DEF ExpiryTypeOK
<1>2. CASE Consume(a)
  <2>1. PICK field \in {"vol", "time"} : panel' = [panel EXCEPT ![a][field] = Lower(panel[a][field])]
    BY <1>2 DEF Consume
  <2>2. [panel[a] EXCEPT ![field] = Lower(panel[a][field])] \in Panel
    <3>1. Lower(panel[a][field]) \in Levels
      BY DEF Lower, Levels
    <3>2. CASE field = "vol"
      BY <1>1, <3>1, <3>2 DEF Panel
    <3>3. CASE field = "time"
      BY <1>1, <3>1, <3>3 DEF Panel
    <3> QED
      BY <2>1, <3>2, <3>3
  <2>3. panel' = [panel EXCEPT ![a] = [panel[a] EXCEPT ![field] = Lower(panel[a][field])]]
    BY <2>1
  <2> QED
    BY <1>2, <2>2, <2>3 DEF Consume, ExpiryTypeOK
<1>3. CASE FirstLogin(a)
  <2>1. panel' = [panel EXCEPT ![a] = [panel[a] EXCEPT !.state = "active"]]
    BY <1>3 DEF FirstLogin
  <2>2. [panel[a] EXCEPT !.state = "active"] \in Panel
    BY <1>1 DEF Panel
  <2> QED
    BY <1>3, <2>1, <2>2 DEF FirstLogin, ExpiryTypeOK
<1>4. CASE RenewPanel(a)
  BY <1>1, <1>4 DEF RenewPanel, ExpiryTypeOK
<1> QED
  BY <1>2, <1>3, <1>4 DEF PanelMove

\* Versions, notices due, claims and notices shown only ever grow.
Forward ==
    \A a \in Accounts :
        /\ version'[a] \in Nat /\ version[a] <= version'[a] /\ due[a] \subseteq due'[a]
        /\ \A k \in Kinds : /\ claimed'[a][k] \in Nat /\ claimed[a][k] <= claimed'[a][k]
                            /\ shown[a][k] \subseteq shown'[a][k]

\* A scan that a step does not touch stays right, if the step sends no
\* message that the scan has claimed.
LEMMA ScanKept ==
  ASSUME ExpiryTypeOK, Forward, NEW s \in Scans, ScanOK(s),
         scan'[s] = scan[s], at'[s] = at[s], found'[s] = found[s],
         \A a \in Accounts, k \in Kinds, v \in Versions :
             sends'[a][k][v] = sends[a][k][v] \/ (at[s] = "claimed" => <<a, k, v>> # Notice(s))
  PROVE  ScanOK(s)'
<1>1. Row(s)' = Row(s)
  BY RowSame
<1>2. \A a \in Accounts : version[a] \in Nat /\ \A k \in Kinds : claimed[a][k] \in Nat
  BY VersionBound DEF ExpiryTypeOK
<1>3. scan'[s] \subseteq Rows'
  <2> SUFFICES ASSUME NEW r \in scan[s] PROVE r \in Rows'
    OBVIOUS
  <2>1. /\ r \in [place : DOMAIN Order, account : Accounts, cycle : Versions]
        /\ r.cycle <= version[r.account]
    BY DEF ScanOK, Rows
  <2>2. r.account \in Accounts /\ r.cycle \in Nat
    BY <2>1, VersionBound
  <2>3. r.cycle <= version'[r.account]
    BY <1>2, <2>1, <2>2 DEF Forward
  <2> QED
    BY <2>1, <2>3 DEF Rows
<1>4. CASE at[s] \in {"read", "claimed", "sent"}
  <2>1. PICK a \in Accounts, c \in Versions : /\ a = Row(s).account /\ c = Row(s).cycle
                                             /\ c \in Nat /\ c <= version[a]
    BY <1>4, RowIn, VersionBound DEF ScanOK
  <2>2. at[s] = "read" => Justified(a, found[s], c)
    BY <2>1 DEF ScanOK
  <2>3. at[s] \in {"claimed", "sent"} => Owned(a, found[s], c, at[s])
    BY <2>1 DEF ScanOK
  <2>4. at[s] = "read" => Justified(a, found[s], c)'
    BY <1>2, <2>1, <2>2 DEF Justified, Forward
  <2>5. at[s] \in {"claimed", "sent"} => Owned(a, found[s], c, at[s])'
    <3> SUFFICES ASSUME at[s] \in {"claimed", "sent"} PROVE Owned(a, found[s], c, at[s])'
      OBVIOUS
    <3>1. PICK k \in Kinds : k = found[s]
      BY <2>3 DEF Owned
    <3>2. c <= claimed'[a][k]
      BY <1>2, <2>1, <2>3, <3>1 DEF Owned, Forward
    <3>3. at[s] = "claimed" => sends'[a][k][c] = 0
      BY <2>1, <2>3, <3>1 DEF Owned, Notice
    <3>4. at[s] = "sent" => c \in shown'[a][k]
      BY <2>3, <3>1 DEF Owned, Forward
    <3> QED
      BY <3>1, <3>2, <3>3, <3>4 DEF Owned
  <2> QED
    BY <1>1, <1>3, <1>4, <2>1, <2>4, <2>5 DEF ScanOK
<1>5. CASE at[s] \notin {"read", "claimed", "sent"}
  BY <1>3, <1>5 DEF ScanOK
<1> QED
  BY <1>4, <1>5

\* Scans stay alone with their notices as long as none claims another.
LEMMA AloneKept ==
  ASSUME AloneInv,
         \A s \in Scans : at'[s] = "claimed" =>
             at[s] = "claimed" /\ scan'[s] = scan[s] /\ found'[s] = found[s]
  PROVE  AloneInv'
<1>1. \A s \in Scans : at'[s] = "claimed" => at[s] = "claimed" /\ Notice(s)' = Notice(s)
  BY RowSame DEF Notice
<1> QED
  BY <1>1 DEF AloneInv

\* Versions and claims are numbers, and no number is before itself.
LEMMA Numbers ==
  ASSUME ExpiryTypeOK, NEW a \in Accounts
  PROVE  /\ version[a] \in Nat /\ version[a] <= version[a]
         /\ \A k \in Kinds : claimed[a][k] \in Nat /\ claimed[a][k] <= claimed[a][k]
<1>1. version[a] \in Nat /\ \A k \in Kinds : claimed[a][k] \in Nat
  BY VersionBound DEF ExpiryTypeOK
<1> QED
  BY <1>1

\* What goes forward when rows, claims and notices are left alone.
LEMMA ForwardSame ==
  ASSUME ExpiryTypeOK, UNCHANGED <<version, claimed, shown, due>>
  PROVE  Forward
BY Numbers DEF Forward

\* A panel that moves keeps the invariant.
LEMMA PanelStep ==
  ASSUME EInv, NEW a \in Accounts, PanelMove(a)
  PROVE  EInv'
<1> USE DEF EInv
<1>1. /\ panel' \in [Accounts -> Panel]
      /\ \A b \in Accounts : b # a => panel'[b] = panel[b]
      /\ due' = [due EXCEPT ![a] = NowDue(a, panel'[a], version[a])]
      /\ UNCHANGED <<version, claimed, marked, enabled, paused, loop, scan, at, found, sends, shown,
                     faults, toggles>>
  BY PanelMoved DEF stored, scanner, bounds
<1>2. /\ NowDue(a, panel'[a], version[a]) \subseteq Kinds \X Versions
      /\ due[a] \subseteq NowDue(a, panel'[a], version[a])
      /\ Classify(a, panel'[a]) # "healthy" =>
             <<Classify(a, panel'[a]), version[a]>> \in NowDue(a, panel'[a], version[a])
  BY NowDueFacts DEF ExpiryTypeOK
<1>3. \A b \in Accounts : due'[b] = IF b = a THEN NowDue(a, panel'[a], version[a]) ELSE due[b]
  BY <1>1 DEF ExpiryTypeOK
<1>4. due' \in [Accounts -> SUBSET (Kinds \X Versions)]
  BY <1>1, <1>2 DEF ExpiryTypeOK
<1>5. ExpiryTypeOK'
  BY <1>1, <1>4 DEF ExpiryTypeOK
<1>6. DueInv'
  BY <1>1, <1>2, <1>3 DEF DueInv
<1>7. ClaimInv' /\ NoticesAddUp'
  BY <1>1 DEF ClaimInv, NoticesAddUp
<1>8. ScanInv' /\ AloneInv'
  <2>1. Forward
    BY <1>1, <1>2, <1>3, Numbers DEF Forward
  <2>2. ASSUME NEW s \in Scans PROVE ScanOK(s)'
    BY <1>1, <2>1, ScanKept DEF ScanInv
  <2> QED
    BY <1>1, <2>2, AloneKept DEF ScanInv
<1> QED
  BY <1>5, <1>6, <1>7, <1>8

\* A write of an account row keeps the invariant.
LEMMA UpsertStep ==
  ASSUME EInv, NEW a \in Accounts, UpsertAccount(a)
  PROVE  EInv'
<1> USE DEF EInv
<1>0. \A b \in Accounts : version[b] \in Nat \ {0} /\ LastVersion[b] \in Nat
  BY VersionBound DEF ExpiryTypeOK
<1> DEFINE w == version[a] + 1
<1>1. /\ version[a] < LastVersion[a] /\ version' = [version EXCEPT ![a] = w]
      /\ due' = [due EXCEPT ![a] = NowDue(a, panel[a], version'[a])]
      /\ UNCHANGED <<panel, claimed, marked, enabled, paused, loop, scan, at, found, sends, shown,
                     faults, toggles>>
  BY DEF UpsertAccount, scanner, bounds
<1>2. w \in Versions /\ w <= LastVersion[a] /\ w \in Nat
  BY <1>0, <1>1, VersionBound
<1>3. \A b \in Accounts : version'[b] = IF b = a THEN w ELSE version[b]
  BY <1>1 DEF ExpiryTypeOK
<1>4. version' \in [Accounts -> Versions]
  BY <1>1, <1>2 DEF ExpiryTypeOK
<1>5. \A b \in Accounts : version'[b] \in Nat /\ version[b] <= version'[b] /\ version'[b] <= LastVersion[b]
  <2> TAKE b \in Accounts
  <2>1. version[b] <= LastVersion[b]
    BY DEF ClaimInv, Kinds
  <2> QED
    BY <1>0, <1>1, <1>2, <1>3, <2>1
<1> HIDE DEF w
<1>6. /\ NowDue(a, panel[a], w) \subseteq Kinds \X Versions
      /\ due[a] \subseteq NowDue(a, panel[a], w)
      /\ Classify(a, panel[a]) # "healthy" => <<Classify(a, panel[a]), w>> \in NowDue(a, panel[a], w)
  BY <1>2, NowDueFacts DEF ExpiryTypeOK
<1>7. /\ due' \in [Accounts -> SUBSET (Kinds \X Versions)]
      /\ \A b \in Accounts : due'[b] = IF b = a THEN NowDue(a, panel[a], w) ELSE due[b]
  BY <1>1, <1>3, <1>6 DEF ExpiryTypeOK
<1>8. ExpiryTypeOK'
  BY <1>1, <1>4, <1>7 DEF ExpiryTypeOK
<1>9. DueInv'
  BY <1>1, <1>3, <1>6, <1>7 DEF DueInv
<1>10. ClaimInv'
  <2> SUFFICES ASSUME NEW b \in Accounts, NEW k \in Kinds
               PROVE  /\ version'[b] <= LastVersion[b]
                      /\ claimed'[b][k] <= version'[b]
                      /\ \A v \in Versions : sends'[b][k][v] # 0 => v <= claimed'[b][k]
    BY DEF ClaimInv
  <2>1. claimed[b][k] \in Nat
    BY VersionBound DEF ExpiryTypeOK
  <2> QED
    BY <1>0, <1>1, <1>5, <2>1 DEF ClaimInv
<1>11. NoticesAddUp'
  BY <1>1 DEF NoticesAddUp
<1>12. ScanInv' /\ AloneInv'
  <2>1. Forward
    BY <1>1, <1>5, <1>6, <1>7, Numbers DEF Forward
  <2>2. ASSUME NEW s \in Scans PROVE ScanOK(s)'
    BY <1>1, <2>1, ScanKept DEF ScanInv
  <2> QED
    BY <1>1, <2>2, AloneKept DEF ScanInv
<1> QED
  BY <1>8, <1>9, <1>10, <1>11, <1>12

\* What stays right when rows, claims and messages are left alone.
LEMMA NoticesKept ==
  ASSUME EInv, UNCHANGED <<panel, version, claimed, marked, sends, shown, due>>
  PROVE  DueInv' /\ ClaimInv' /\ NoticesAddUp'
BY DEF EInv, DueInv, ClaimInv, NoticesAddUp

\* The switch, the gate of a restore, a stop of the process and the start of a
\* scan keep the invariant.
LEMMA LoopStep ==
  ASSUME EInv, Toggle \/ Pause \/ Crash \/ StartScan \/ UNCHANGED vars
  PROVE  EInv'
<1> USE DEF EInv
<1>0. UNCHANGED <<panel, version, claimed, marked, sends, shown, due>>
  BY DEF Toggle, Pause, Crash, StartScan, vars, stored, ghosts
<1>1. DueInv' /\ ClaimInv' /\ NoticesAddUp'
  BY <1>0, NoticesKept
<1>2. Forward
  BY <1>0, ForwardSame
<1>3. CASE UNCHANGED <<loop, scan, at, found>>
  <2>1. ScanInv'
    BY <1>0, <1>2, <1>3, ScanKept DEF ScanInv
  <2>2. AloneInv'
    BY <1>3, AloneKept
  <2>3. enabled' \in BOOLEAN /\ paused' \in BOOLEAN
    BY DEF ExpiryTypeOK, Toggle, Pause, Crash, StartScan, vars
  <2>4. faults' \in 0..MaxFaults /\ toggles' \in 0..MaxToggles
    BY ExpiryAssumption DEF ExpiryTypeOK, Toggle, Pause, Crash, StartScan, vars, bounds
  <2> QED
    BY <1>0, <1>1, <1>3, <2>1, <2>2, <2>3, <2>4 DEF ExpiryTypeOK
<1>4. CASE Crash
  <2>1. /\ scan' = [s \in Scans |-> {}] /\ at' = [s \in Scans |-> "idle"]
        /\ found' = [s \in Scans |-> "healthy"] /\ loop' = NoCycle
    BY <1>4 DEF Crash
  <2>2. ScanInv' /\ AloneInv'
    BY <2>1 DEF ScanInv, ScanOK, AloneInv
  <2>3. enabled' \in BOOLEAN /\ paused' \in BOOLEAN
    BY <1>4 DEF ExpiryTypeOK, Crash
  <2>4. faults' \in 0..MaxFaults /\ toggles' \in 0..MaxToggles
    BY <1>4, ExpiryAssumption DEF ExpiryTypeOK, Crash
  <2> QED
    BY <1>0, <1>1, <2>1, <2>2, <2>3, <2>4 DEF ExpiryTypeOK
<1>5. CASE StartScan
  <2>1. /\ scan' = [s \in Scans |-> IF s[1] = loop' THEN Listed(s[2]) ELSE scan[s]]
        /\ at' = [s \in Scans |-> IF s[1] = loop' THEN "next" ELSE at[s]]
        /\ loop' \in Cycles
        /\ UNCHANGED <<enabled, paused, found, faults, toggles>>
    BY <1>5 DEF StartScan, FreeCycle, bounds
  <2>2. ASSUME NEW s \in Scans, s[1] = loop'
        PROVE  scan'[s] \subseteq Rows /\ at'[s] = "next"
    <3>1. s[2] \in Services
      BY DEF Scans
    <3> QED
      BY <2>1, <2>2, <3>1, ListedRows
  <2>3. ASSUME NEW s \in Scans, s[1] # loop'
        PROVE  scan'[s] = scan[s] /\ at'[s] = at[s] /\ found'[s] = found[s]
    BY <2>1, <2>3
  <2>4. ASSUME NEW s \in Scans PROVE ScanOK(s)'
    <3>1. CASE s[1] = loop'
      <4>1. Rows' = Rows
        BY <1>0 DEF Rows
      <4> QED
        BY <2>2, <3>1, <4>1 DEF ScanOK
    <3>2. CASE s[1] # loop'
      BY <1>0, <1>2, <2>3, <3>2, ScanKept DEF ScanInv
    <3> QED
      BY <3>1, <3>2
  <2>5. AloneInv'
    BY <2>2, <2>3, AloneKept
  <2>6. scan' \in [Scans -> SUBSET [place : DOMAIN Order, account : Accounts, cycle : Versions]]
    <3> SUFFICES ASSUME NEW s \in Scans
                 PROVE  scan'[s] \in SUBSET [place : DOMAIN Order, account : Accounts, cycle : Versions]
      BY <2>1
    <3> QED
      BY <2>2, <2>3 DEF Rows, ExpiryTypeOK
  <2>7. at' \in [Scans -> {"idle", "next", "read", "claimed", "sent"}]
    BY <2>1 DEF ExpiryTypeOK
  <2> QED
    BY <1>0, <1>1, <2>1, <2>4, <2>5, <2>6, <2>7 DEF ExpiryTypeOK, ScanInv
<1> QED
  BY <1>3, <1>4, <1>5 DEF Toggle, Pause, vars, scanner

-----------------------------------------------------------------------------
(* The scan of a service *)

\* A step of one scan leaves the others right, as no other scan is about to
\* send the notice of its message.
LEMMA OtherScans ==
  ASSUME EInv, Forward, NEW s \in Scans,
         \A t \in Scans : t # s => scan'[t] = scan[t] /\ at'[t] = at[t] /\ found'[t] = found[t],
         \A a \in Accounts, k \in Kinds, v \in Versions :
             sends'[a][k][v] # sends[a][k][v] => at[s] = "claimed" /\ <<a, k, v>> = Notice(s)
  PROVE  \A t \in Scans : t # s => ScanOK(t)'
<1> SUFFICES ASSUME NEW t \in Scans, t # s PROVE ScanOK(t)'
  OBVIOUS
<1>1. at[s] = "claimed" /\ at[t] = "claimed" => Notice(s) # Notice(t)
  BY DEF EInv, AloneInv
<1> QED
  BY <1>1, ScanKept DEF EInv, ScanInv

\* A scan that is done with an account keeps rows it may hold.
LEMMA Skipped ==
  ASSUME EInv, NEW s \in Scans, UNCHANGED version,
         scan'[s] \subseteq scan[s], at'[s] \in {"idle", "next"}
  PROVE  ScanOK(s)'
<1>1. scan[s] \subseteq Rows /\ Rows' = Rows
  BY DEF EInv, ScanInv, ScanOK, Rows
<1> QED
  BY <1>1 DEF ScanOK

\* What a scan changes, when it goes on to at most its old rows.
LEMMA ScanTypes ==
  ASSUME EInv, NEW s \in Scans, NEW rows \in SUBSET scan[s],
         NEW stage \in {"idle", "next", "read", "sent"}, NEW k \in Kinds \union {"healthy"},
         scan' = [scan EXCEPT ![s] = rows], at' = [at EXCEPT ![s] = stage],
         found' = [found EXCEPT ![s] = k]
  PROVE  /\ scan' \in [Scans -> SUBSET [place : DOMAIN Order, account : Accounts, cycle : Versions]]
         /\ at' \in [Scans -> {"idle", "next", "read", "claimed", "sent"}]
         /\ found' \in [Scans -> Kinds \union {"healthy"}]
         /\ scan'[s] = rows /\ at'[s] = stage /\ found'[s] = k
         /\ \A t \in Scans : t # s => scan'[t] = scan[t] /\ at'[t] = at[t] /\ found'[t] = found[t]
         /\ AloneInv'
<1>1. /\ scan' \in [Scans -> SUBSET [place : DOMAIN Order, account : Accounts, cycle : Versions]]
      /\ at' \in [Scans -> {"idle", "next", "read", "claimed", "sent"}]
      /\ found' \in [Scans -> Kinds \union {"healthy"}]
      /\ scan'[s] = rows /\ at'[s] = stage /\ found'[s] = k
      /\ \A t \in Scans : t # s => scan'[t] = scan[t] /\ at'[t] = at[t] /\ found'[t] = found[t]
  BY DEF EInv, ExpiryTypeOK
<1>2. AloneInv'
  BY <1>1, AloneKept DEF EInv
<1> QED
  BY <1>1, <1>2

\* A scan that goes on with nothing written or sent keeps the invariant.
LEMMA GoneOn ==
  ASSUME EInv, NEW s \in Scans, NEW rows \in SUBSET scan[s], NEW stage \in {"idle", "next"},
         scan' = [scan EXCEPT ![s] = rows], at' = [at EXCEPT ![s] = stage],
         found' = found \/ found' = [found EXCEPT ![s] = "healthy"],
         loop' \in Cycles \union {NoCycle}, faults' \in 0..MaxFaults,
         UNCHANGED <<panel, version, claimed, marked, sends, shown, due, enabled, paused, toggles>>
  PROVE  EInv'
<1>1. DueInv' /\ ClaimInv' /\ NoticesAddUp'
  BY NoticesKept
<1>2. PICK k \in Kinds \union {"healthy"} : found' = [found EXCEPT ![s] = k]
  BY DEF EInv, ExpiryTypeOK
<1>3. /\ scan' \in [Scans -> SUBSET [place : DOMAIN Order, account : Accounts, cycle : Versions]]
      /\ at' \in [Scans -> {"idle", "next", "read", "claimed", "sent"}]
      /\ found' \in [Scans -> Kinds \union {"healthy"}]
      /\ scan'[s] = rows /\ at'[s] = stage
      /\ \A t \in Scans : t # s => scan'[t] = scan[t] /\ at'[t] = at[t] /\ found'[t] = found[t]
      /\ AloneInv'
  BY <1>2, ScanTypes
<1>4. ScanOK(s)'
  BY <1>3, Skipped
<1>5. \A t \in Scans : t # s => ScanOK(t)'
  BY <1>3, ForwardSame, OtherScans DEF EInv
<1>6. ExpiryTypeOK'
  BY <1>3 DEF EInv, ExpiryTypeOK
<1> QED
  BY <1>1, <1>3, <1>4, <1>5, <1>6 DEF EInv, ScanInv

\* The end of a scan, by itself or by a write that raises, a read, and an
\* answer that says nothing keep the invariant.
LEMMA QuietStep ==
  ASSUME EInv, NEW s \in Scans,
         EndScan(s) \/ WriteFails(s) \/ ReadStatus(s) \/ ReadFails(s) \/ Decline(s)
  PROVE  EInv'
<1>0. UNCHANGED <<panel, version, claimed, marked, sends, shown, due, enabled, paused, toggles>>
  BY DEF EndScan, WriteFails, ReadStatus, ReadFails, Decline, stored, ghosts, bounds
<1>1. DueInv' /\ ClaimInv' /\ NoticesAddUp'
  BY <1>0, NoticesKept
<1>2. faults' \in 0..MaxFaults
  BY ExpiryAssumption
     DEF EndScan, WriteFails, ReadStatus, ReadFails, Decline, bounds, EInv, ExpiryTypeOK
<1>9. loop' \in Cycles \union {NoCycle}
  BY DEF EndScan, WriteFails, ReadStatus, ReadFails, Decline, EInv, ExpiryTypeOK
<1>3. CASE EndScan(s) \/ WriteFails(s) \/ ReadFails(s) \/ Decline(s)
  <2>1. PICK rows \in SUBSET scan[s], stage \in {"idle", "next"} :
            scan' = [scan EXCEPT ![s] = rows] /\ at' = [at EXCEPT ![s] = stage]
    <3>1. CASE EndScan(s) \/ WriteFails(s)
      BY <3>1 DEF EndScan, WriteFails
    <3>2. CASE ReadFails(s) \/ Decline(s)
      <4>1. scan' = [scan EXCEPT ![s] = scan[s] \ {Row(s)}] /\ at' = [at EXCEPT ![s] = "next"]
        BY <3>2 DEF ReadFails, Decline, Skip
      <4> QED
        BY <4>1
    <3> QED
      BY <1>3, <3>1, <3>2
  <2>2. found' = found \/ found' = [found EXCEPT ![s] = "healthy"]
    BY <1>3 DEF EndScan, WriteFails, ReadFails, Decline, Skip
  <2> QED
    BY <1>0, <1>2, <1>9, <2>1, <2>2, GoneOn
<1>4. CASE ReadStatus(s)
  <2>1. PICK a \in Accounts, c \in Versions : a = Row(s).account /\ c = Row(s).cycle
    BY <1>4, RowIn DEF ReadStatus, EInv, ScanInv
  <2>0. PICK k \in Kinds \union {"healthy"} : k = Classify(a, panel[a])
    BY ClassifyKind
  <2>2. /\ found' = [found EXCEPT ![s] = k] /\ at' = [at EXCEPT ![s] = "read"] /\ scan' = scan
        /\ scan[s] # {}
    BY <1>4, <2>0, <2>1 DEF ReadStatus
  <2>4. k # "healthy" /\ version[a] = c => <<k, c>> \in due[a]
    BY <2>0 DEF EInv, DueInv
  <2>3. /\ at' \in [Scans -> {"idle", "next", "read", "claimed", "sent"}]
        /\ found' \in [Scans -> Kinds \union {"healthy"}]
        /\ at'[s] = "read" /\ found'[s] = k
        /\ \A t \in Scans : t # s => scan'[t] = scan[t] /\ at'[t] = at[t] /\ found'[t] = found[t]
        /\ AloneInv'
    <3>1. scan' = [scan EXCEPT ![s] = scan[s]]
      BY <2>2 DEF EInv, ExpiryTypeOK
    <3> QED
      BY <2>0, <2>2, <3>1, ScanTypes
  <2>5. found'[s] = k /\ at'[s] = "read" /\ Row(s)' = Row(s)
    BY <2>2, <2>3, RowSame
  <2>6. ScanOK(s)'
    <3>1. scan[s] \subseteq Rows /\ Rows' = Rows
      BY <1>0 DEF EInv, ScanInv, ScanOK, Rows
    <3>2. Justified(a, k, c)'
      BY <1>0, <2>4 DEF Justified
    <3> QED
      BY <2>1, <2>2, <2>5, <3>1, <3>2 DEF ScanOK, Justified
  <2>7. \A t \in Scans : t # s => ScanOK(t)'
    BY <1>0, <2>3, ForwardSame, OtherScans DEF EInv
  <2>8. ExpiryTypeOK'
    BY <1>0, <1>2, <1>9, <2>2, <2>3 DEF EInv, ExpiryTypeOK
  <2> QED
    BY <1>1, <2>3, <2>6, <2>7, <2>8 DEF EInv, ScanInv
<1> QED
  BY <1>3, <1>4

\* The row a scan is at, the notice its answer amounts to, and what is known of them.
LEMMA AtRow ==
  ASSUME EInv, NEW s \in Scans, at[s] \in {"read", "claimed", "sent"}
  PROVE  \E a \in Accounts, c \in Versions :
             /\ a = Row(s).account /\ c = Row(s).cycle /\ c \in Nat \ {0}
             /\ c <= version[a] /\ version[a] \in Nat
             /\ \A k \in Kinds : claimed[a][k] \in Nat /\ claimed[a][k] <= version[a]
             /\ at[s] = "read" => Justified(a, found[s], c)
             /\ at[s] \in {"claimed", "sent"} => Owned(a, found[s], c, at[s])
<1>1. PICK a \in Accounts, c \in Versions :
          /\ a = Row(s).account /\ c = Row(s).cycle /\ c <= version[a]
  BY RowIn DEF EInv, ScanInv, ScanOK
<1>2. c \in Nat \ {0} /\ version[a] \in Nat
  BY VersionBound DEF EInv, ExpiryTypeOK
<1>3. \A k \in Kinds : claimed[a][k] \in Nat /\ claimed[a][k] <= version[a]
  BY VersionBound DEF EInv, ExpiryTypeOK, ClaimInv
<1>4. /\ at[s] = "read" => Justified(a, found[s], c)
      /\ at[s] \in {"claimed", "sent"} => Owned(a, found[s], c, at[s])
  BY <1>1 DEF EInv, ScanInv, ScanOK
<1> QED
  BY <1>1, <1>2, <1>3, <1>4

\* The claim is refused: the scan goes on.
LeftAlone(s) ==
    /\ scan' = [scan EXCEPT ![s] = scan[s] \ {Row(s)}]
    /\ at' = [at EXCEPT ![s] = "next"]
    /\ found' = [found EXCEPT ![s] = "healthy"]
    /\ UNCHANGED <<claimed, marked>>

\* The claim is made.
Claimed(s, a, k, c) ==
    /\ version[a] = c /\ claimed[a][k] < c /\ <<k, c>> \in due[a]
    /\ sends[a][k][c] = 0
    /\ claimed' = [claimed EXCEPT ![a][k] = c]
    /\ marked' = [marked EXCEPT ![a][k] = FALSE]
    /\ at' = [at EXCEPT ![s] = "claimed"] /\ scan' = scan /\ found' = found

\* A claim that is refused leaves all but the scan alone.  One that is made is
\* for the version there is, which has neither this notice nor a message yet.
LEMMA Claims ==
  ASSUME EInv, NEW s \in Scans, Claim(s),
         NEW a \in Accounts, NEW c \in Versions, a = Row(s).account, c = Row(s).cycle,
         NEW k, k = found[s]
  PROVE  /\ k \in Kinds
         /\ UNCHANGED <<panel, version, due, sends, shown, loop, enabled, paused, faults, toggles>>
         /\ LeftAlone(s) \/ Claimed(s, a, k, c)
<1>1. k \in Kinds /\ at[s] = "read"
  BY DEF Claim, EInv, ExpiryTypeOK
<1>2. UNCHANGED <<panel, version, due, sends, shown, loop, enabled, paused, faults, toggles>>
  BY DEF Claim, stored, ghosts, bounds, Skip
<1>3. CASE Refused(a, k, c)
  BY <1>1, <1>2, <1>3 DEF Claim, Skip, stored, LeftAlone
<1>4. CASE ~Refused(a, k, c)
  <2>1. version[a] = c /\ claimed[a][k] # c
    BY <1>4 DEF Refused
  <2>2. <<k, c>> \in due[a]
    <3>1. Justified(a, k, c)
      BY <1>1, AtRow
    <3>2. k # "healthy"
      BY <1>1 DEF Kinds
    <3> QED
      BY <2>1, <3>1, <3>2 DEF Justified
  <2>3. sends[a][k][c] = 0 /\ claimed[a][k] < c
    <3>1. c \in Nat /\ claimed[a][k] \in Nat /\ claimed[a][k] <= c
      BY <1>1, <2>1, AtRow
    <3> QED
      BY <1>1, <2>1, <3>1 DEF EInv, ClaimInv
  <2> QED
    BY <1>1, <1>2, <1>4, <2>1, <2>2, <2>3 DEF Claim, Claimed
<1> QED
  BY <1>3, <1>4

\* The claim of a notice keeps the invariant.
LEMMA ClaimStep ==
  ASSUME EInv, NEW s \in Scans, Claim(s)
  PROVE  EInv'
<1>1. at[s] = "read" /\ scan[s] # {}
  BY DEF Claim, EInv, ScanInv, ScanOK
<1>2. PICK a \in Accounts, c \in Versions :
          /\ a = Row(s).account /\ c = Row(s).cycle /\ c \in Nat \ {0}
          /\ version[a] \in Nat /\ \A k \in Kinds : claimed[a][k] \in Nat /\ claimed[a][k] <= version[a]
  BY <1>1, AtRow
<1>3. PICK k \in Kinds : k = found[s]
  BY <1>2, Claims
<1>4. UNCHANGED <<panel, version, due, sends, shown, loop, enabled, paused, faults, toggles>>
  BY <1>2, Claims
<1>5. CASE LeftAlone(s)
  <2> DEFINE rows == scan[s] \ {Row(s)}
  <2>1. /\ scan' = [scan EXCEPT ![s] = rows] /\ at' = [at EXCEPT ![s] = "next"]
        /\ found' = [found EXCEPT ![s] = "healthy"] /\ UNCHANGED <<claimed, marked>>
        /\ rows \in SUBSET scan[s]
    BY <1>5 DEF LeftAlone
  <2>2. loop' \in Cycles \union {NoCycle} /\ faults' \in 0..MaxFaults
    BY <1>4 DEF EInv, ExpiryTypeOK
  <2> HIDE DEF rows
  <2> QED
    BY <1>4, <2>1, <2>2, GoneOn
<1>6. CASE Claimed(s, a, k, c)
  <2>0. /\ version[a] = c /\ claimed[a][k] < c /\ <<k, c>> \in due[a]
        /\ sends[a][k][c] = 0
        /\ claimed' = [claimed EXCEPT ![a][k] = c]
        /\ marked' = [marked EXCEPT ![a][k] = FALSE]
        /\ at' = [at EXCEPT ![s] = "claimed"] /\ scan' = scan /\ found' = found
    BY <1>6 DEF Claimed
  <2>1. \A b \in Accounts, j \in Kinds :
            /\ claimed'[b][j] = IF b = a /\ j = k THEN c ELSE claimed[b][j]
            /\ marked'[b][j] = IF b = a /\ j = k THEN FALSE ELSE marked[b][j]
    BY <1>3, <2>0 DEF EInv, ExpiryTypeOK
  <2>2. /\ claimed' \in [Accounts -> [Kinds -> Versions \union {0}]]
        /\ marked' \in [Accounts -> [Kinds -> BOOLEAN]]
    BY <1>3, <2>0 DEF EInv, ExpiryTypeOK
  <2>3. /\ at' \in [Scans -> {"idle", "next", "read", "claimed", "sent"}]
        /\ at'[s] = "claimed" /\ \A t \in Scans : t # s => at'[t] = at[t]
    BY <2>0 DEF EInv, ExpiryTypeOK
  <2>4. ExpiryTypeOK'
    BY <1>4, <2>0, <2>2, <2>3 DEF EInv, ExpiryTypeOK
  <2>5. DueInv'
    BY <1>4 DEF EInv, DueInv
  <2>6. Forward
    <3> SUFFICES ASSUME NEW b \in Accounts, NEW j \in Kinds
                 PROVE  /\ version[b] \in Nat /\ version[b] <= version[b]
                        /\ claimed'[b][j] \in Nat /\ claimed[b][j] <= claimed'[b][j]
      BY <1>4 DEF Forward, Kinds
    <3>1. /\ version[b] \in Nat /\ version[b] <= version[b]
          /\ claimed[b][j] \in Nat /\ claimed[b][j] <= claimed[b][j]
      BY Numbers DEF EInv
    <3> QED
      BY <1>2, <2>0, <2>1, <3>1
  <2>7. ClaimInv'
    <3> SUFFICES ASSUME NEW b \in Accounts, NEW j \in Kinds
                 PROVE  /\ version[b] <= LastVersion[b]
                        /\ claimed'[b][j] <= version[b]
                        /\ \A v \in Versions : sends[b][j][v] # 0 => v <= claimed'[b][j]
      BY <1>4 DEF ClaimInv
    <3>1. /\ version[b] <= LastVersion[b] /\ claimed[b][j] <= version[b]
          /\ \A v \in Versions : sends[b][j][v] # 0 => v <= claimed[b][j]
      BY DEF EInv, ClaimInv
    <3>2. CASE b = a /\ j = k
      <4>1. \A v \in Versions : v \in Nat
        BY VersionBound
      <4>2. claimed[a][k] \in Nat /\ claimed[a][k] <= c /\ c \in Nat
        BY <1>2, <1>3, <2>0
      <4> QED
        BY <2>0, <2>1, <3>1, <3>2, <4>1, <4>2
    <3>3. CASE ~(b = a /\ j = k)
      BY <2>1, <3>1, <3>3
    <3> QED
      BY <3>2, <3>3
  <2>8. NoticesAddUp'
    <3>1. \A b \in Accounts, j \in Kinds :
              marked'[b][j] => marked[b][j] /\ claimed'[b][j] = claimed[b][j]
      BY <2>1
    <3> QED
      BY <1>4, <3>1 DEF EInv, NoticesAddUp
  <2>9. ScanOK(s)'
    <3>1. scan[s] \subseteq Rows /\ Rows' = Rows
      BY <1>4 DEF EInv, ScanInv, ScanOK, Rows
    <3>2. Row(s)' = Row(s)
      BY <2>0, RowSame
    <3>3. c <= claimed'[a][k]
      <4>1. claimed'[a][k] = c
        BY <1>3, <2>1
      <4> QED
        BY <1>2, <4>1
    <3>4. found'[s] = k
      BY <1>3, <2>0
    <3>5. sends'[a][k][c] = 0
      BY <1>4, <2>0
    <3> QED
      BY <1>1, <1>2, <2>0, <2>3, <3>1, <3>2, <3>3, <3>4, <3>5 DEF ScanOK, Owned
  <2>10. \A t \in Scans : t # s => ScanOK(t)'
    BY <1>4, <2>0, <2>3, <2>6, OtherScans
  <2>11. AloneInv'
    <3>1. \A t \in Scans : Notice(t)' = Notice(t)
      BY <2>0, RowSame DEF Notice
    <3>2. ASSUME NEW t \in Scans, at[t] = "claimed" PROVE Notice(t) # <<a, k, c>>
      <4>1. PICK d \in Nat, b \in Accounts :
                b = Row(t).account /\ d = Row(t).cycle /\ Owned(b, found[t], d, "claimed")
        BY <3>2, AtRow
      <4>2. b = a /\ found[t] = k => d <= claimed[a][k]
        BY <4>1 DEF Owned
      <4> QED
        BY <1>2, <2>0, <4>1, <4>2 DEF Notice
    <3>3. Notice(s) = <<a, k, c>>
      BY <1>2, <1>3 DEF Notice
    <3> QED
      BY <2>3, <3>1, <3>2, <3>3 DEF EInv, AloneInv
  <2> QED
    BY <2>4, <2>5, <2>7, <2>8, <2>9, <2>10, <2>11 DEF EInv, ScanInv
<1> QED
  BY <1>2, <1>3, <1>5, <1>6, Claims

\* No message has been sent before this one.
FirstMessage(s, a, k, c) ==
    /\ Notice(s) = <<a, k, c>> /\ at[s] = "claimed" /\ scan[s] # {}
    /\ c <= claimed[a][k] /\ sends[a][k][c] = 0
    /\ sends' = [sends EXCEPT ![a][k][c] = 1]

\* What a message changes: it is the first of its kind for that version.
LEMMA Sends ==
  ASSUME EInv, NEW s \in Scans, Send(s, TRUE) \/ Send(s, FALSE),
         NEW a \in Accounts, NEW c \in Versions, a = Row(s).account, c = Row(s).cycle,
         NEW k \in Kinds, k = found[s]
  PROVE  /\ FirstMessage(s, a, k, c)
         /\ UNCHANGED <<panel, version, claimed, marked, due, loop, enabled, paused, toggles>>
         /\ faults' \in 0..MaxFaults
<1>1. at[s] = "claimed" /\ scan[s] # {}
  BY DEF Send, EInv, ScanInv, ScanOK
<1>2. c <= claimed[a][k] /\ sends[a][k][c] = 0
  BY <1>1, AtRow DEF Owned
<1>3. UNCHANGED <<panel, version, claimed, marked, due, loop, enabled, paused, toggles>>
  BY DEF Send, stored
<1>4. sends' = [sends EXCEPT ![a][k][c] = 1]
  <2>1. sends' = [sends EXCEPT ![a][k][c] = IF @ < 2 THEN @ + 1 ELSE @]
    BY DEF Send
  <2> QED
    BY <1>2, <2>1
<1>5. faults' \in 0..MaxFaults
  BY ExpiryAssumption DEF Send, EInv, ExpiryTypeOK
<1> QED
  BY <1>1, <1>2, <1>3, <1>4, <1>5 DEF FirstMessage, Notice

\* What a first message leaves right.
LEMMA SentOnce ==
  ASSUME EInv, NEW s \in Scans, NEW a \in Accounts, NEW k \in Kinds, NEW c \in Versions,
         FirstMessage(s, a, k, c), UNCHANGED <<panel, version, claimed, due>>
  PROVE  /\ sends' \in [Accounts -> [Kinds -> [Versions -> 0..2]]]
         /\ \A b \in Accounts, j \in Kinds, v \in Versions :
                /\ sends'[b][j][v] <= 1
                /\ sends'[b][j][v] # sends[b][j][v] => <<b, j, v>> = Notice(s)
         /\ DueInv' /\ ClaimInv'
<1>1. \A b \in Accounts, j \in Kinds, v \in Versions :
          sends'[b][j][v] = IF b = a /\ j = k /\ v = c THEN 1 ELSE sends[b][j][v]
  BY DEF EInv, ExpiryTypeOK, FirstMessage
<1>2. sends' \in [Accounts -> [Kinds -> [Versions -> 0..2]]]
  BY DEF EInv, ExpiryTypeOK, FirstMessage
<1>3. \A b \in Accounts, j \in Kinds, v \in Versions :
          /\ sends'[b][j][v] <= 1
          /\ sends'[b][j][v] # sends[b][j][v] => <<b, j, v>> = Notice(s)
  BY <1>1 DEF EInv, NoticesAddUp, FirstMessage
<1>4. ClaimInv'
  BY <1>1 DEF EInv, ClaimInv, FirstMessage
<1> QED
  BY <1>2, <1>3, <1>4 DEF EInv, DueInv

\* The message of a notice, shown or lost, keeps the invariant.
LEMMA SendStep ==
  ASSUME EInv, NEW s \in Scans, Send(s, TRUE) \/ Send(s, FALSE)
  PROVE  EInv'
<1>1. PICK a \in Accounts, c \in Versions : a = Row(s).account /\ c = Row(s).cycle
  BY AtRow DEF Send
<1>2. PICK k \in Kinds : k = found[s]
  BY AtRow DEF Send, Owned
<1>3. /\ FirstMessage(s, a, k, c) /\ faults' \in 0..MaxFaults
      /\ UNCHANGED <<panel, version, claimed, marked, due, loop, enabled, paused, toggles>>
  BY <1>1, <1>2, Sends
<1>4. /\ sends' \in [Accounts -> [Kinds -> [Versions -> 0..2]]]
      /\ \A b \in Accounts, j \in Kinds, v \in Versions :
             /\ sends'[b][j][v] <= 1
             /\ sends'[b][j][v] # sends[b][j][v] => at[s] = "claimed" /\ <<b, j, v>> = Notice(s)
      /\ DueInv' /\ ClaimInv'
  BY <1>3, SentOnce DEF FirstMessage
<1>5. CASE Send(s, TRUE)
  <2>1. /\ shown' = [shown EXCEPT ![a][k] = @ \union {c}]
        /\ at' = [at EXCEPT ![s] = "sent"] /\ scan' = scan /\ found' = found
    BY <1>1, <1>2, <1>5 DEF Send
  <2>2. /\ shown' \in [Accounts -> [Kinds -> SUBSET Versions]]
        /\ \A b \in Accounts, j \in Kinds : shown[b][j] \subseteq shown'[b][j]
        /\ c \in shown'[a][k]
    BY <1>1, <1>2, <1>3, <2>1 DEF EInv, ExpiryTypeOK
  <2>3. /\ at' \in [Scans -> {"idle", "next", "read", "claimed", "sent"}]
        /\ found' \in [Scans -> Kinds \union {"healthy"}]
        /\ at'[s] = "sent" /\ scan'[s] = scan[s] /\ found'[s] = k
        /\ \A t \in Scans : t # s => scan'[t] = scan[t] /\ at'[t] = at[t] /\ found'[t] = found[t]
        /\ AloneInv'
    <3>1. scan' = [scan EXCEPT ![s] = scan[s]] /\ found' = [found EXCEPT ![s] = k]
      BY <1>2, <2>1 DEF EInv, ExpiryTypeOK
    <3>2. k \in Kinds \union {"healthy"} /\ scan[s] \in SUBSET scan[s]
      OBVIOUS
    <3> QED
      BY <2>1, <3>1, <3>2, ScanTypes
  <2>4. ExpiryTypeOK'
    BY <1>3, <1>4, <2>1, <2>2, <2>3 DEF EInv, ExpiryTypeOK
  <2>5. NoticesAddUp'
    BY <1>3, <1>4, <2>2 DEF EInv, NoticesAddUp
  <2>6. ScanOK(s)'
    <3>1. scan[s] \subseteq Rows /\ Rows' = Rows /\ scan[s] # {}
      BY <1>3 DEF EInv, ScanInv, ScanOK, Rows, FirstMessage
    <3>2. Row(s)' = Row(s)
      BY <2>1, RowSame
    <3>3. c <= claimed'[a][k]
      BY <1>3 DEF FirstMessage
    <3> QED
      BY <1>1, <2>1, <2>2, <2>3, <3>1, <3>2, <3>3 DEF ScanOK, Owned
  <2>7. Forward
    BY <1>3, <2>2, Numbers DEF EInv, Forward
  <2>8. \A t \in Scans : t # s => ScanOK(t)'
    BY <1>4, <2>3, <2>7, OtherScans
  <2> QED
    BY <1>4, <2>3, <2>4, <2>5, <2>6, <2>8 DEF EInv, ScanInv
<1>6. CASE Send(s, FALSE)
  <2> DEFINE rows == scan[s] \ {Row(s)}
  <2>1. /\ shown' = shown /\ at' = [at EXCEPT ![s] = "next"]
        /\ found' = [found EXCEPT ![s] = "healthy"]
        /\ scan' = [scan EXCEPT ![s] = rows] /\ rows \in SUBSET scan[s]
    BY <1>6 DEF Send, Skip
  <2> HIDE DEF rows
  <2>2. /\ scan' \in [Scans -> SUBSET [place : DOMAIN Order, account : Accounts, cycle : Versions]]
        /\ at' \in [Scans -> {"idle", "next", "read", "claimed", "sent"}]
        /\ found' \in [Scans -> Kinds \union {"healthy"}]
        /\ scan'[s] = rows /\ at'[s] = "next"
        /\ \A t \in Scans : t # s => scan'[t] = scan[t] /\ at'[t] = at[t] /\ found'[t] = found[t]
        /\ AloneInv'
    BY <2>1, ScanTypes
  <2>3. ExpiryTypeOK'
    BY <1>3, <1>4, <2>1, <2>2 DEF EInv, ExpiryTypeOK
  <2>4. NoticesAddUp'
    BY <1>3, <1>4, <2>1 DEF EInv, NoticesAddUp
  <2>5. ScanOK(s)'
    BY <1>3, <2>1, <2>2, Skipped
  <2>6. Forward
    BY <1>3, <2>1, ForwardSame DEF EInv
  <2>7. \A t \in Scans : t # s => ScanOK(t)'
    BY <1>4, <2>2, <2>6, OtherScans
  <2> QED
    BY <1>4, <2>2, <2>3, <2>4, <2>5, <2>7 DEF EInv, ScanInv
<1> QED
  BY <1>5, <1>6

\* The mark of a notice keeps the invariant: if its claim is still the last
\* one, its message was shown.
LEMMA MarkStep ==
  ASSUME EInv, NEW s \in Scans, MarkSent(s)
  PROVE  EInv'
<1>1. PICK a \in Accounts, c \in Versions :
          a = Row(s).account /\ c = Row(s).cycle /\ Owned(a, found[s], c, "sent")
  BY AtRow DEF MarkSent
<1>2. PICK k \in Kinds : k = found[s] /\ c \in shown[a][k]
  BY <1>1 DEF Owned
<1>3. UNCHANGED <<panel, version, claimed, sends, shown, due, loop, enabled, paused, faults, toggles>>
  BY DEF MarkSent, ghosts, bounds
<1>4. marked' = [marked EXCEPT ![a][k] = @ \/ claimed[a][k] = c]
  BY <1>1, <1>2 DEF MarkSent
<1>5. marked' \in [Accounts -> [Kinds -> BOOLEAN]]
  BY <1>4 DEF EInv, ExpiryTypeOK
<1>6. ASSUME NEW b \in Accounts, NEW j \in Kinds, marked'[b][j], ~marked[b][j]
      PROVE  claimed[b][j] \in shown[b][j]
  <2>1. b = a /\ j = k
    BY <1>4, <1>6 DEF EInv, ExpiryTypeOK
  <2>2. marked'[a][k] = (marked[a][k] \/ claimed[a][k] = c)
    BY <1>4 DEF EInv, ExpiryTypeOK
  <2>3. claimed[a][k] = c
    BY <1>6, <2>1, <2>2
  <2> QED
    BY <1>2, <2>1, <2>3
<1> DEFINE rows == scan[s] \ {Row(s)}
<1>7. /\ at' = [at EXCEPT ![s] = "next"] /\ found' = [found EXCEPT ![s] = "healthy"]
      /\ scan' = [scan EXCEPT ![s] = rows] /\ rows \in SUBSET scan[s]
  BY DEF MarkSent, Skip
<1> HIDE DEF rows
<1>8. /\ scan' \in [Scans -> SUBSET [place : DOMAIN Order, account : Accounts, cycle : Versions]]
      /\ at' \in [Scans -> {"idle", "next", "read", "claimed", "sent"}]
      /\ found' \in [Scans -> Kinds \union {"healthy"}]
      /\ scan'[s] = rows /\ at'[s] = "next"
      /\ \A t \in Scans : t # s => scan'[t] = scan[t] /\ at'[t] = at[t] /\ found'[t] = found[t]
      /\ AloneInv'
  BY <1>7, ScanTypes
<1>9. ExpiryTypeOK'
  BY <1>3, <1>5, <1>8 DEF EInv, ExpiryTypeOK
<1>10. NoticesAddUp'
  BY <1>3, <1>6 DEF EInv, NoticesAddUp
<1>11. DueInv' /\ ClaimInv'
  BY <1>3 DEF EInv, DueInv, ClaimInv
<1>12. ScanOK(s)'
  BY <1>3, <1>7, <1>8, Skipped
<1>13. \A t \in Scans : t # s => ScanOK(t)'
  BY <1>3, <1>8, ForwardSame, OtherScans DEF EInv
<1> QED
  BY <1>8, <1>9, <1>10, <1>11, <1>12, <1>13 DEF EInv, ScanInv

-----------------------------------------------------------------------------
(* The theorems *)

\* No step leaves the invariant.
LEMMA StepEInv == EInv /\ [Next]_vars => EInv'
<1> SUFFICES ASSUME EInv, [Next]_vars PROVE EInv'
  OBVIOUS
<1>1. ASSUME NEW a \in Accounts, Consume(a) \/ FirstLogin(a) \/ RenewPanel(a) PROVE EInv'
  BY <1>1, PanelStep DEF PanelMove
<1>2. ASSUME NEW a \in Accounts, UpsertAccount(a) PROVE EInv'
  BY <1>2, UpsertStep
<1>3. ASSUME NEW s \in Scans, EndScan(s) \/ WriteFails(s) \/ ReadStatus(s) \/ ReadFails(s) \/ Decline(s)
      PROVE  EInv'
  BY <1>3, QuietStep
<1>4. ASSUME NEW s \in Scans, Claim(s) PROVE EInv'
  BY <1>4, ClaimStep
<1>5. ASSUME NEW s \in Scans, Send(s, TRUE) \/ Send(s, FALSE) PROVE EInv'
  BY <1>5, SendStep
<1>6. ASSUME NEW s \in Scans, MarkSent(s) PROVE EInv'
  BY <1>6, MarkStep
<1>7. CASE Toggle \/ Pause \/ Crash \/ StartScan \/ UNCHANGED vars
  BY <1>7, LoopStep
<1> QED
  BY <1>1, <1>2, <1>3, <1>4, <1>5, <1>6, <1>7 DEF Next, Scanner

\* Every state of the monitor satisfies the invariant: rows listed are not
\* ahead of the database, no two scans have claimed the same notice, no message
\* is later than the last claim.
THEOREM ExpiryInvariant == Spec => []EInv
<1> QED
  BY InitEInv, StepEInv, PTL DEF Spec

\* Every variable keeps its type (list_accounts_for_expiry_monitor,
\* claim_account_expiry_notification and the loop in between).
THEOREM ExpiryTypes == Spec => []ExpiryTypeOK
<1>1. EInv => ExpiryTypeOK
  BY DEF EInv
<1> QED
  BY <1>1, ExpiryInvariant, PTL

\* No owner gets the same kind of notice twice for one version of an account,
\* and a notice marked as sent was shown, through crashes, lost messages and
\* scans that repeat or overlap.
THEOREM Notices == Spec => []NoticesAddUp
<1>1. EInv => NoticesAddUp
  BY DEF EInv
<1> QED
  BY <1>1, ExpiryInvariant, PTL

\* A notice is claimed for the version the row has, and only if the panel
\* justified it in that version.
THEOREM ClaimsAreCurrent == Spec => NoticeFromItsVersion
<1> DEFINE A == \A a \in Accounts, k \in Kinds :
                    claimed'[a][k] # claimed[a][k] =>
                        /\ claimed'[a][k] = version[a]
                        /\ <<k, version[a]>> \in due[a]
<1>1. EInv /\ [Next]_vars => A
  <2> SUFFICES ASSUME EInv, [Next]_vars, NEW b \in Accounts, NEW j \in Kinds,
                      claimed'[b][j] # claimed[b][j]
               PROVE  claimed'[b][j] = version[b] /\ <<j, version[b]>> \in due[b]
    OBVIOUS
  <2>1. PICK s \in Scans : Claim(s)
    BY DEF Next, Scanner, Consume, FirstLogin, RenewPanel, UpsertAccount, StartScan, EndScan,
           WriteFails, ReadStatus, ReadFails, Decline, Send, MarkSent, Toggle, Pause, Crash, vars, stored
  <2>2. PICK a \in Accounts, c \in Versions : a = Row(s).account /\ c = Row(s).cycle
    <3>1. at[s] = "read"
      BY <2>1 DEF Claim
    <3> QED
      BY <3>1, AtRow
  <2>3. PICK k : k = found[s]
    OBVIOUS
  <2>4. k \in Kinds /\ (LeftAlone(s) \/ Claimed(s, a, k, c))
    BY <2>1, <2>2, <2>3, Claims
  <2>5. /\ version[a] = c /\ <<k, c>> \in due[a]
        /\ claimed' = [claimed EXCEPT ![a][k] = c]
    BY <2>4 DEF LeftAlone, Claimed
  <2>6. claimed'[b][j] = IF b = a /\ j = k THEN c ELSE claimed[b][j]
    BY <2>4, <2>5 DEF EInv, ExpiryTypeOK
  <2> QED
    BY <2>5, <2>6
<1>2. NoticeFromItsVersion <=> [][A]_vars
  BY DEF NoticeFromItsVersion
<1> QED
  BY <1>1, <1>2, ExpiryInvariant, PTL DEF Spec
=============================================================================
