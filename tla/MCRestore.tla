----------------------------- MODULE MCRestore ------------------------------
(***************************************************************************)
(* An instance of DatabaseRestore: an update, the two scans of the expiry  *)
(* monitor and a profile beside two restores, with two failures or crashes *)
(* and one copy kept.                                                      *)
(***************************************************************************)
EXTENDS DatabaseRestore

CONSTANTS update, openvpn, v2ray, profile

MCUpdates == {update}
MCLoops == {openvpn, v2ray}
MCSaves == {profile}
=============================================================================
