---------------------------- MODULE UpdateCycle ----------------------------
(***************************************************************************)
(* What the agent promises of an update to a reader of the Hypervisor      *)
(* object: the status moves through the life cycle of an update, and every *)
(* step is taken from the object it replaces, for the request that object  *)
(* holds.  There are no caches, no resource versions, no units and no      *)
(* crashes here; SysUpdate implements this specification.                  *)
(***************************************************************************)
EXTENDS Integers

CONSTANTS Versions, None, RetryLimit

VARIABLE object  \* the fields of the Hypervisor that SysUpdate has

\* The object asks for an update.
Due(o) == o.version # None /\ o.version # o.os /\ o.version # o.installed

\* A pass may record the version the host runs, while there is none.
Learned(o) ==
  {o} \cup {[o EXCEPT !.os = v] : v \in {w \in Versions : o.os = None}}

Started(o) == [o EXCEPT !.inProgress = TRUE, !.cond = "Running"]

Finished(o) ==
  [o EXCEPT !.inProgress = FALSE, !.cond = "Completed", !.installed = o.version]

Failed(o) ==
  [o EXCEPT !.inProgress = FALSE, !.cond = "Stopped", !.retry = @ - 1]

AttemptsRenewed(o) == [o EXCEPT !.retry = RetryLimit]

\* What one pass of Reconcile may make of an object.
Outcome(o, p) ==
  \E k \in Learned(o) :
    \/ p = k
    \/ Due(k) /\ k.retry # 0 /\ ~k.inProgress /\ p = Started(k)
    \/ Due(k) /\ k.retry # 0 /\ k.inProgress /\ p = Finished(k)
    \/ Due(k) /\ k.retry # 0 /\ p = Failed(k)
    \/ Due(k) /\ k.retry = 0 /\ p = AttemptsRenewed(k)

Reconciled == Outcome(object, object')

Requested ==
  \E v \in Versions \cup {None}, r \in BOOLEAN :
    object' = [object EXCEPT !.version = v, !.reboot = r]

WrittenByOthers == object' = [object EXCEPT !.others = @ + 1]

Init ==
  \E r \in {0, RetryLimit} :
    object = [rv |-> 0, version |-> None, reboot |-> FALSE, os |-> None, retry |-> r,
              inProgress |-> FALSE, installed |-> None, cond |-> "None", others |-> 0]

Next == Reconciled \/ Requested \/ WrittenByOthers

Spec == Init /\ [][Next]_object

=============================================================================
