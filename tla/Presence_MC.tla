---------------------------- MODULE Presence_MC ----------------------------
(* PresenceServer on two devices and two handler threads. *)
EXTENDS PresenceServer, TLC

DeviceSymmetry == Permutations(Devices)
ThreadSymmetry == Permutations(Handlers)
Symmetry == DeviceSymmetry \cup ThreadSymmetry
=============================================================================
