----------------------------- MODULE HostRegistry -----------------------------
(***************************************************************************)
(* What the server promises about the machines it knows, whatever          *)
(* connections, transactions and failures lie behind it: a machine is      *)
(* absent, online or offline, and has a history of samples.  A report      *)
(* puts it online and adds one sample; silence or a lost connection puts   *)
(* it offline and touches nothing else; a removal takes the machine and    *)
(* its whole history away in one step.                                     *)
(***************************************************************************)
CONSTANTS Hosts, Samples

VARIABLES status, history

rvars == <<status, history>>

RegistryTypeOK ==
  /\ status \in [Hosts -> {"absent", "online", "offline"}]
  /\ history \in [Hosts -> SUBSET Samples]

RegistryInit ==
  /\ status = [h \in Hosts |-> "absent"]
  /\ history = [h \in Hosts |-> {}]

Report(h, s) ==
  /\ status' = [status EXCEPT ![h] = "online"]
  /\ history' = [history EXCEPT ![h] = @ \cup {s}]

GoOffline(h) ==
  /\ status[h] = "online"
  /\ status' = [status EXCEPT ![h] = "offline"]
  /\ UNCHANGED history

Remove(h) ==
  /\ status[h] # "absent"
  /\ status' = [status EXCEPT ![h] = "absent"]
  /\ history' = [history EXCEPT ![h] = {}]

RegistryNext ==
  \E h \in Hosts : (\E s \in Samples : Report(h, s)) \/ GoOffline(h) \/ Remove(h)

RegistrySpec == RegistryInit /\ [][RegistryNext]_rvars
=============================================================================
