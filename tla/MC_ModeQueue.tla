---------------------------- MODULE MC_ModeQueue ----------------------------
(* A small channel for ModeQueue: two clients and a network service.        *)
EXTENDS ModeQueue
CONSTANTS alice, bob, service
Keyed == <<"k">>
=============================================================================
