------------------------------ MODULE MCExpiry ------------------------------
(***************************************************************************)
(* An OpenVPN account, a V2Ray account and a V2Ray trial.                  *)
(***************************************************************************)
EXTENDS ExpiryMonitor

MCAccounts == {"o", "v", "t"}
MCServiceOf == [a \in MCAccounts |-> IF a = "o" THEN "openvpn" ELSE "v2ray"]
MCIsTrial == [a \in MCAccounts |-> a = "t"]
MCLastVersion == [a \in MCAccounts |-> IF a = "o" THEN 2 ELSE 1]
MCOrder == <<"o", "t", "v">>
MCFirstPanel ==
    [a \in MCAccounts |->
        CASE a = "o" -> [state |-> "waiting", firstUse |-> TRUE,
                         vol |-> "unknown", time |-> "low"]
          [] a = "v" -> [state |-> "ended", firstUse |-> FALSE,
                         vol |-> "low", time |-> "unknown"]
          [] a = "t" -> [state |-> "ended", firstUse |-> FALSE,
                         vol |-> "none", time |-> "plenty"]]
=============================================================================
