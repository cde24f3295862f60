---------------------------- MODULE DeviceTable ----------------------------
(***************************************************************************)
(* The `devices` table of the storage backends, reduced to the columns the *)
(* server's presence logic depends on.  Each operator is one critical      *)
(* section of InMemoryStorage (the body of a `with self._lock`) and one    *)
(* transaction of SQLiteStorage: the two agree on these columns.           *)
(* A row whose status is "absent" stands for no row.                       *)
(***************************************************************************)
LOCAL INSTANCE Integers

Row == [status : {"absent", "online", "offline"},
        first_seen : Nat,
        last_heartbeat : Nat]

NoRow == [status |-> "absent", first_seen |-> 0, last_heartbeat |-> 0]

\* The row upsert_device writes for a heartbeat stamped t.
Upserted(row, t) ==
  [status |-> "online",
   first_seen |-> IF row.status = "absent" THEN t ELSE row.first_seen,
   last_heartbeat |-> t]

\* Mutants: the comparison off by one; the test of the status forgotten.
StaleAtCutoff(devices, before) ==
  {d \in DOMAIN devices : /\ devices[d].status = "online"
                          /\ devices[d].last_heartbeat <= before}
StaleWhateverStatus(devices, before) ==
  {d \in DOMAIN devices : /\ devices[d].status # "absent"
                          /\ devices[d].last_heartbeat < before}

\* The devices mark_offline(before) transitions and returns.
Stale(devices, before) ==
  {d \in DOMAIN devices : /\ devices[d].status = "online"
                          /\ devices[d].last_heartbeat < before}

MarkedOffline(devices, before) ==
  [d \in DOMAIN devices |->
     IF d \in Stale(devices, before)
     THEN [devices[d] EXCEPT !.status = "offline"]
     ELSE devices[d]]
=============================================================================
