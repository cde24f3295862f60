------------------------------ MODULE Presence ------------------------------
(***************************************************************************)
(* What the server promises about device presence, apart from threads,     *)
(* locks and callbacks in progress: a heartbeat registers or refreshes a   *)
(* device, a silent device expires, and each registration and each expiry  *)
(* is owed one announcement, made once or lost when the process dies.      *)
(* PresenceServer is shown to implement it.                                *)
(***************************************************************************)
EXTENDS Integers, FiniteSets, DeviceTable

CONSTANTS Devices, DeviceTimeout

VARIABLES now, devices, owed, told,
          durable  \* a table on disk: it outlives the process, and a heartbeat
                   \* is stamped some time before it is stored

vars == <<durable, now, devices, owed, told>>

Announced == {"registered", "offline"}

Init ==
  /\ durable \in BOOLEAN
  /\ now = 0
  /\ devices = [d \in Devices |-> NoRow]
  /\ owed = {}
  /\ told = [d \in Devices |-> [k \in Announced |-> 0]]

Tick == now' = now + 1 /\ UNCHANGED <<durable, devices, owed, told>>

\* A heartbeat is stored under its stamp.
Heartbeat(d) ==
  /\ \E t \in 0..now : /\ ~durable => t = now
                       /\ devices' = [devices EXCEPT ![d] = Upserted(@, t)]
  /\ owed' = IF devices[d].status = "absent"
             THEN owed \cup {<<"registered", d>>} ELSE owed
  /\ UNCHANGED <<durable, now, told>>

\* Some devices silent for longer than DeviceTimeout go offline together, all
\* those among them that the previous round has been announced for.
Expire(S) ==
  /\ S # {}
  /\ \A d \in S : /\ devices[d].status = "online"
                  /\ now - devices[d].last_heartbeat > DeviceTimeout
                  /\ <<"offline", d>> \notin owed
  /\ devices' = [d \in Devices |-> IF d \in S
                   THEN [devices[d] EXCEPT !.status = "offline"] ELSE devices[d]]
  /\ owed' = owed \cup {<<"offline", d>> : d \in S}
  /\ UNCHANGED <<durable, now, told>>

Announce(k, d) ==
  /\ <<k, d>> \in owed
  /\ owed' = owed \ {<<k, d>>}
  /\ told' = [told EXCEPT ![d][k] = @ + 1]
  /\ UNCHANGED <<durable, now, devices>>

\* A restart keeps the table and forgets what was still to be announced.
Restart == durable /\ owed' = {} /\ UNCHANGED <<durable, now, devices, told>>

Next ==
  \/ Tick
  \/ \E d \in Devices : Heartbeat(d)
  \/ \E S \in SUBSET Devices : Expire(S)
  \/ \E k \in Announced, d \in Devices : Announce(k, d)
  \/ Restart

Spec == Init /\ [][Next]_vars
=============================================================================
