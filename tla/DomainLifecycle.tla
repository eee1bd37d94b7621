-------------------------- MODULE DomainLifecycle --------------------------
(***************************************************************************)
(* What a user is promised of a Domain, without the machinery: the state   *)
(* its status shows, whether it is being deleted, and whether Mailgun      *)
(* holds a domain for it.  A domain is registered only for an object that  *)
(* is there and not yet created, given up only when the object is deleted, *)
(* and the object goes away only when nothing is held for it any more.     *)
(***************************************************************************)
CONSTANT Keys

VARIABLES
  phase,       \* phase[k]: "absent", or status.state with "pending" for none
  terminating, \* terminating[k]: the object is marked for deletion
  held         \* held[k]: Mailgun has a domain registered for it

lifecycleVars == <<phase, terminating, held>>

Init ==
  /\ phase = [k \in Keys |-> "absent"]
  /\ terminating = [k \in Keys |-> FALSE]
  /\ held = [k \in Keys |-> FALSE]

Appear(k) ==
  /\ phase[k] = "absent"
  /\ phase' = [phase EXCEPT ![k] = "pending"]
  /\ UNCHANGED <<terminating, held>>

\* The failure a status shows may be about an earlier attempt: a reconcile of an
\* older copy still registers the domain.
Register(k) ==
  /\ phase[k] \in {"pending", "failed"}
  /\ held' = [held EXCEPT ![k] = TRUE]
  /\ UNCHANGED <<phase, terminating>>

\* Only a domain that Mailgun holds is ever reported created or activated.
Advance(k) ==
  /\ \/ phase[k] = "pending" /\ phase' = [phase EXCEPT ![k] = "failed"]
     \/ /\ phase[k] \in {"pending", "created"}
        /\ held[k]
        /\ \E p \in {"created", "activated", "failed"} : phase' = [phase EXCEPT ![k] = p]
  /\ UNCHANGED <<terminating, held>>

Terminate(k) ==
  /\ phase[k] # "absent"
  /\ terminating' = [terminating EXCEPT ![k] = TRUE]
  /\ UNCHANGED <<phase, held>>

Release(k) ==
  /\ terminating[k]
  /\ held[k]
  /\ held' = [held EXCEPT ![k] = FALSE]
  /\ UNCHANGED <<phase, terminating>>

\* The clean-up did not work this time.
ReportFailure(k) ==
  /\ terminating[k]
  /\ phase' = [phase EXCEPT ![k] = "failed"]
  /\ UNCHANGED <<terminating, held>>

Vanish(k) ==
  /\ phase[k] # "absent"
  /\ ~held[k]
  /\ phase' = [phase EXCEPT ![k] = "absent"]
  /\ terminating' = [terminating EXCEPT ![k] = FALSE]
  /\ UNCHANGED held

Next == \E k \in Keys :
  \/ Appear(k) \/ Register(k) \/ Advance(k) \/ Terminate(k)
  \/ Release(k) \/ ReportFailure(k) \/ Vanish(k)

Spec == Init /\ [][Next]_lifecycleVars

\* An object marked for deletion goes away.
Ends == \A k \in Keys : terminating[k] ~> ~terminating[k]

Promise == Spec /\ Ends
=============================================================================
