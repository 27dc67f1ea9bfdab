--------------------------- MODULE ExpiryMonitor ---------------------------
(***************************************************************************)
(* The background scan that tells owners their accounts run out.           *)
(*                                                                         *)
(* A scan lists the accounts in one read, then asks the panel of each,     *)
(* one service beside the other.  A warning or an expiry is claimed in the *)
(* database, for the version of the account row that was listed, before    *)
(* the message leaves: at most one message of a kind for a version, which  *)
(* every write of the row advances.  Renewals, account views, usage and    *)
(* crashes go on meanwhile.  A scan that cannot write what it did ends the *)
(* cycle, but not the scan of the other service, which may still be at     *)
(* work when the next cycle lists the accounts again.                      *)
(***************************************************************************)
EXTENDS Integers, Sequences, FiniteSets, FiniteSetsExt

CONSTANTS Accounts, ServiceOf, IsTrial,
          Order,          (* the accounts as the query orders them         *)
          FirstPanel,     (* what the panel says of each at the start      *)
          Cycles,         (* the cycles there can be at a time             *)
          NoCycle,        (* none of them                                  *)
          LastVersion,    (* bound, for the row of each account            *)
          MaxFaults,      (* bound: failed reads and sends, crashes        *)
          MaxToggles      (* bound: changes of setting and restores        *)

Services == {"openvpn", "v2ray"}
\* A scan goes through the accounts of one service in one cycle.
Scans == Cycles \X Services
Kinds == {"warning", "expired"}
Levels == {"none", "low", "plenty", "unknown"}
\* What a panel says of an account.  Volume and time are levels against
\* WARNING_REMAINING_BYTES and WARNING_REMAINING_SECONDS; firstUse is a
\* profile that starts at the first login; ended is a used or stopped
\* profile of User Manager and a disabled client of 3x-ui.
Panel == [state : {"waiting", "active", "ended"}, firstUse : BOOLEAN,
          vol : Levels, time : Levels]
Versions == 1..Max({LastVersion[a] : a \in Accounts})

ASSUME ExpiryAssumption ==
    /\ IsFiniteSet(Accounts)
    /\ NoCycle \notin Cycles
    /\ ServiceOf \in [Accounts -> Services]
    /\ IsTrial \in [Accounts -> BOOLEAN]
    /\ Order \in Seq(Accounts)
    /\ FirstPanel \in [Accounts -> Panel]
    /\ LastVersion \in [Accounts -> Nat \ {0}]
    /\ MaxFaults \in Nat /\ MaxToggles \in Nat

VARIABLES
    panel,      \* what the panel would answer now
    version,    \* accounts.updated_at
    claimed,    \* the version for which a kind of notice is claimed; 0: none
    marked,     \* ..._sent_at is set for that claim
    enabled,    \* account_expiry_notifications_enabled
    paused,     \* _DATABASE_RESTORE_IN_PROGRESS
    loop,       \* the cycle whose scans the loop gathers; NoCycle: none
    scan,       \* the rows a scan has not done with
    at,         \* what a scan awaits
    found,      \* the kind a scan's last answer amounts to
    sends,      \* messages sent of a kind in a version (ghost)
    shown,      \* the messages that reached the owner (ghost)
    due,        \* the notices a panel has justified in a version (ghost)
    faults, toggles

stored == <<version, claimed, marked>>
scanner == <<loop, scan, at, found>>
ghosts == <<sends, shown, due>>
bounds == <<faults, toggles>>
vars == <<panel, stored, enabled, paused, scanner, ghosts, bounds>>

-----------------------------------------------------------------------------
(* account_notifications.py                                                *)

\* A profile that waits for its first login has no deadline yet, and its zero
\* counters are not low volume; one that waits with a fixed start may warn.
ClassifyOpenvpn(p) ==
    IF p.state = "waiting" /\ p.firstUse THEN "healthy"
    ELSE IF \/ p.state = "ended"
            \/ p.state # "waiting" /\ "none" \in {p.vol, p.time} THEN "expired"
    ELSE IF "low" \in {p.vol, p.time} THEN "warning" ELSE "healthy"

ClassifyV2ray(p) ==
    IF p.state = "waiting" THEN "healthy"
    ELSE IF p.state = "ended" \/ "none" \in {p.vol, p.time} THEN "expired"
    ELSE IF "low" \in {p.vol, p.time} THEN "warning" ELSE "healthy"

Classify(a, p) ==
    IF ServiceOf[a] = "openvpn" THEN ClassifyOpenvpn(p) ELSE ClassifyV2ray(p)

\* The ghost due gains what the panel, as it becomes p, justifies while the
\* row has version v.
NowDue(a, p, v) ==
    IF Classify(a, p) = "healthy" THEN due[a]
    ELSE due[a] \union {<<Classify(a, p), v>>}

-----------------------------------------------------------------------------
Init ==
    /\ panel = FirstPanel
    /\ version = [a \in Accounts |-> 1]
    /\ claimed = [a \in Accounts |-> [k \in Kinds |-> 0]]
    /\ marked = [a \in Accounts |-> [k \in Kinds |-> FALSE]]
    /\ enabled = TRUE
    /\ paused = FALSE
    /\ loop = NoCycle
    /\ scan = [s \in Scans |-> {}]
    /\ at = [s \in Scans |-> "idle"]
    /\ found = [s \in Scans |-> "healthy"]
    /\ sends = [a \in Accounts |-> [k \in Kinds |-> [v \in Versions |-> 0]]]
    /\ shown = [a \in Accounts |-> [k \in Kinds |-> {}]]
    /\ due = [a \in Accounts |->
                 IF Classify(a, FirstPanel[a]) = "healthy" THEN {}
                 ELSE {<<Classify(a, FirstPanel[a]), 1>>}]
    /\ faults = 0 /\ toggles = 0

\* Usage and time: the panel moves on by itself.
Lower(level) == IF level = "plenty" THEN "low" ELSE "none"

Consume(a) ==
    /\ panel[a].state = "active"
    /\ \E field \in {"vol", "time"} :
           /\ panel[a][field] \in {"plenty", "low"}
           /\ panel' = [panel EXCEPT ![a][field] = Lower(@)]
    /\ due' = [due EXCEPT ![a] = NowDue(a, panel'[a], version[a])]
    /\ UNCHANGED <<stored, enabled, paused, scanner, sends, shown, bounds>>

FirstLogin(a) ==
    /\ panel[a].state = "waiting"
    /\ panel' = [panel EXCEPT ![a].state = "active"]
    /\ due' = [due EXCEPT ![a] = NowDue(a, panel'[a], version[a])]
    /\ UNCHANGED <<stored, enabled, paused, scanner, sends, shown, bounds>>

\* A renewal has written the panel; its account row follows later.
RenewPanel(a) ==
    /\ ~IsTrial[a]
    /\ version[a] < LastVersion[a]
    /\ panel' = [panel EXCEPT ![a] = FirstPanel[a]]
    /\ due' = [due EXCEPT ![a] = NowDue(a, panel'[a], version[a])]
    /\ UNCHANGED <<stored, enabled, paused, scanner, sends, shown, bounds>>

\* upsert_account: a renewal, or the view of an account whose stored details
\* are incomplete, writes the row; updated_at always advances.
UpsertAccount(a) ==
    /\ version[a] < LastVersion[a]
    /\ version' = [version EXCEPT ![a] = @ + 1]
    /\ due' = [due EXCEPT ![a] = NowDue(a, panel[a], version'[a])]
    /\ UNCHANGED <<panel, claimed, marked, enabled, paused, scanner, sends, shown, bounds>>

-----------------------------------------------------------------------------

\* Who is listed, free trials left out.
Monitored(service) ==
    {i \in DOMAIN Order : ServiceOf[Order[i]] = service /\ ~IsTrial[Order[i]]}

\* Mutant: rows are listed without their version.
ListedUnversioned(service) ==
    {[place |-> i, account |-> Order[i], cycle |-> 0] : i \in Monitored(service)}

\* list_accounts_for_expiry_monitor: the accounts with their place in the
\* order and their version.
Listed(service) ==
    {[place |-> i, account |-> Order[i], cycle |-> version[Order[i]]] : i \in Monitored(service)}

\* No scan of the cycle is left.
Over(n) == \A service \in Services : at[<<n, service>>] = "idle"

FreeCycle == CHOOSE n \in Cycles : Over(n)

\* The loop's wait is over.  It has gathered both scans of the cycle before,
\* or one of them has raised and it let go of the other.
StartScan ==
    /\ enabled /\ ~paused
    /\ loop # NoCycle => Over(loop)
    /\ \E n \in Cycles : Over(n)
    /\ loop' = FreeCycle
    /\ scan' = [s \in Scans |-> IF s[1] = loop' THEN Listed(s[2]) ELSE scan[s]]
    /\ at' = [s \in Scans |-> IF s[1] = loop' THEN "next" ELSE at[s]]
    /\ UNCHANGED <<panel, stored, enabled, paused, found, ghosts, bounds>>

\* The row the scan is at.
Row(s) == CHOOSE r \in scan[s] : \A q \in scan[s] : r.place <= q.place

\* Leave the account and go on with the next one.
Skip(s) ==
    /\ scan' = [scan EXCEPT ![s] = @ \ {Row(s)}]
    /\ at' = [at EXCEPT ![s] = "next"]
    /\ found' = [found EXCEPT ![s] = "healthy"]

\* No account is left, or a restore or the switch stops the scan.
EndScan(s) ==
    /\ at[s] = "next"
    /\ scan[s] = {} \/ paused \/ ~enabled
    /\ scan' = [scan EXCEPT ![s] = {}]
    /\ at' = [at EXCEPT ![s] = "idle"]
    /\ UNCHANGED <<panel, stored, enabled, paused, loop, found, ghosts, bounds>>

\* The panel answers, and the answer is classified.
ReadStatus(s) ==
    /\ at[s] = "next" /\ scan[s] # {}
    /\ enabled /\ ~paused
    /\ found' = [found EXCEPT ![s] = Classify(Row(s).account, panel[Row(s).account])]
    /\ at' = [at EXCEPT ![s] = "read"]
    /\ UNCHANGED <<panel, stored, enabled, paused, loop, scan, ghosts, bounds>>

\* "status_error": the panel does not answer in time.
ReadFails(s) ==
    /\ at[s] = "next" /\ scan[s] # {}
    /\ enabled /\ ~paused
    /\ faults < MaxFaults
    /\ faults' = faults + 1
    /\ Skip(s)
    /\ UNCHANGED <<panel, stored, enabled, paused, loop, ghosts, toggles>>

\* Nothing to say, or the switch went off during the read.
Decline(s) ==
    /\ at[s] = "read"
    /\ found[s] = "healthy" \/ ~enabled
    /\ Skip(s)
    /\ UNCHANGED <<panel, stored, enabled, paused, loop, ghosts, bounds>>

\* Mutant: the version of the row is not compared.
RefusedRepeat(a, k, c) == claimed[a][k] = c
\* Mutant: a notice is claimed once for an account.
RefusedOnceEver(a, k, c) == version[a] # c \/ claimed[a][k] # 0
\* Mutant: a claim counts only once its notice was sent.
RefusedOnceSent(a, k, c) == version[a] # c \/ (claimed[a][k] = c /\ marked[a][k])

\* The row has changed since it was listed, or its version has the notice.
Refused(a, k, c) == version[a] # c \/ claimed[a][k] = c

\* claim_account_expiry_notification, in one transaction.
Claim(s) ==
    LET a == Row(s).account
        k == found[s]
        c == Row(s).cycle IN
    /\ at[s] = "read" /\ k # "healthy" /\ enabled
    /\ IF Refused(a, k, c)
         THEN Skip(s) /\ UNCHANGED stored
         ELSE /\ claimed' = [claimed EXCEPT ![a][k] = c]
              /\ marked' = [marked EXCEPT ![a][k] = FALSE]
              /\ at' = [at EXCEPT ![s] = "claimed"]
              /\ UNCHANGED <<version, scan, found>>
    /\ UNCHANGED <<panel, enabled, paused, loop, ghosts, bounds>>

\* The message: shown, or lost with an error (the claim stays).
Send(s, ok) ==
    LET a == Row(s).account
        k == found[s]
        c == Row(s).cycle IN
    /\ at[s] = "claimed"
    /\ sends' = [sends EXCEPT ![a][k][c] = IF @ < 2 THEN @ + 1 ELSE @]
    /\ IF ok
         THEN /\ shown' = [shown EXCEPT ![a][k] = @ \union {c}]
              /\ at' = [at EXCEPT ![s] = "sent"]
              /\ UNCHANGED <<scan, found, faults>>
         ELSE /\ faults < MaxFaults
              /\ faults' = faults + 1
              /\ Skip(s)
              /\ UNCHANGED shown
    /\ UNCHANGED <<panel, stored, enabled, paused, loop, due, toggles>>

\* mark_account_expiry_notification_sent: of the claim of that version only.
MarkSent(s) ==
    LET a == Row(s).account
        k == found[s] IN
    /\ at[s] = "sent"
    /\ marked' = [marked EXCEPT ![a][k] = @ \/ claimed[a][k] = Row(s).cycle]
    /\ Skip(s)
    /\ UNCHANGED <<panel, version, claimed, enabled, paused, loop, ghosts, bounds>>

\* The lane is full or the database refuses, at the claim or the mark.
\* Nothing catches it: the scan is over, and so is the cycle, while the
\* other scan goes on.
WriteFails(s) ==
    /\ \/ at[s] = "read" /\ found[s] # "healthy" /\ enabled
       \/ at[s] = "sent"
    /\ faults < MaxFaults
    /\ faults' = faults + 1
    /\ scan' = [scan EXCEPT ![s] = {}]
    /\ at' = [at EXCEPT ![s] = "idle"]
    /\ found' = [found EXCEPT ![s] = "healthy"]
    /\ loop' = IF loop = s[1] THEN NoCycle ELSE loop
    /\ UNCHANGED <<panel, stored, enabled, paused, ghosts, toggles>>

-----------------------------------------------------------------------------
\* The administrator's switch; it wakes the loop, which then waits again.
Toggle ==
    /\ toggles < MaxToggles
    /\ toggles' = toggles + 1
    /\ enabled' = ~enabled
    /\ UNCHANGED <<panel, stored, paused, scanner, ghosts, faults>>

\* The gate of a database restore closes and opens.
Pause ==
    /\ paused \/ toggles < MaxToggles
    /\ toggles' = IF paused THEN toggles ELSE toggles + 1
    /\ paused' = ~paused
    /\ UNCHANGED <<panel, stored, enabled, scanner, ghosts, faults>>

\* The process is restarted: what the scans knew is gone.
Crash ==
    /\ faults < MaxFaults
    /\ faults' = faults + 1
    /\ loop' = NoCycle
    /\ scan' = [s \in Scans |-> {}]
    /\ at' = [s \in Scans |-> "idle"]
    /\ found' = [s \in Scans |-> "healthy"]
    /\ paused' = FALSE
    /\ UNCHANGED <<panel, stored, enabled, ghosts, toggles>>

Scanner(s) ==
    \/ EndScan(s) \/ ReadStatus(s) \/ Decline(s) \/ Claim(s)
    \/ Send(s, TRUE) \/ MarkSent(s)

Next ==
    \/ \E a \in Accounts :
           Consume(a) \/ FirstLogin(a) \/ RenewPanel(a) \/ UpsertAccount(a)
    \/ StartScan
    \/ \E s \in Scans : Scanner(s) \/ ReadFails(s) \/ Send(s, FALSE) \/ WriteFails(s)
    \/ Toggle \/ Pause \/ Crash

Spec == Init /\ [][Next]_vars

\* The loop comes round again and its awaits end; nothing is assumed of
\* panels, owners and the administrator.
FairSpec == Spec /\ WF_vars(StartScan) /\ \A s \in Scans : WF_vars(Scanner(s))

-----------------------------------------------------------------------------
ExpiryTypeOK ==
    /\ panel \in [Accounts -> Panel]
    /\ version \in [Accounts -> Versions]
    /\ claimed \in [Accounts -> [Kinds -> Versions \union {0}]]
    /\ marked \in [Accounts -> [Kinds -> BOOLEAN]]
    /\ enabled \in BOOLEAN /\ paused \in BOOLEAN
    /\ loop \in Cycles \union {NoCycle}
    /\ scan \in [Scans -> SUBSET [place : DOMAIN Order, account : Accounts, cycle : Versions]]
    /\ at \in [Scans -> {"idle", "next", "read", "claimed", "sent"}]
    /\ found \in [Scans -> Kinds \union {"healthy"}]
    /\ sends \in [Accounts -> [Kinds -> [Versions -> 0..2]]]
    /\ shown \in [Accounts -> [Kinds -> SUBSET Versions]]
    /\ due \in [Accounts -> SUBSET (Kinds \X Versions)]
    /\ faults \in 0..MaxFaults /\ toggles \in 0..MaxToggles

(***************************************************************************)
(* Through crashes, lost messages and scans that overlap, no owner gets the *)
(* same kind of notice twice for one version of an account, and a notice   *)
(* marked as sent did reach its owner (claim_account_expiry_notification   *)
(* comes before the message, mark_account_expiry_notification_sent after). *)
(***************************************************************************)
NoticesAddUp ==
    \A a \in Accounts, k \in Kinds :
        /\ \A v \in Versions : sends[a][k][v] <= 1
        /\ marked[a][k] => claimed[a][k] \in shown[a][k]

(***************************************************************************)
(* A notice is claimed for the version an account row has at that moment,  *)
(* and only if the panel justified it at some time of that version: an     *)
(* answer from before a renewal does not become a notice after it.         *)
(***************************************************************************)
NoticeFromItsVersion ==
    [][\A a \in Accounts, k \in Kinds :
           claimed'[a][k] # claimed[a][k] =>
               /\ claimed'[a][k] = version[a]
               /\ <<k, version[a]>> \in due[a]]_vars

(***************************************************************************)
(* An account that stays exhausted while the monitor is on gets its        *)
(* expiry claimed for the version it then has, whatever notices earlier    *)
(* versions had and whatever reads failed or scans died before.            *)
(***************************************************************************)
ExhaustedGetsNoticed ==
    \A a \in {b \in Accounts : ~IsTrial[b]} :
        <>[](Classify(a, panel[a]) = "expired" /\ enabled /\ ~paused)
            => []<>(claimed[a]["expired"] = version[a])
=============================================================================
