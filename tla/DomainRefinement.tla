-------------------------- MODULE DomainRefinement --------------------------
(* The Domain controller implements the lifecycle a user is promised. *)
EXTENDS DomainController

Phase(d) == IF d = Nil THEN "absent"
            ELSE IF d.status.state = "" THEN "pending" ELSE d.status.state

\* A domain the operator registered under a name that only specs of k give.
HeldFor(k) == \E s \in SpecsOf[k] : Registered(s.name) /\ mailgun[s.name].owner # 0

Lifecycle == INSTANCE DomainLifecycle WITH
  phase <- [k \in Keys |-> Phase(domains[k])],
  terminating <- [k \in Keys |-> domains[k] # Nil /\ domains[k].deleting],
  held <- [k \in Keys |-> HeldFor(k)]

\* Every step of the controller, of its environment, of a failed call or of a
\* restart is a step of the lifecycle, or none; and under the fairness of the
\* process what is deleted goes away.
ImplementsLifecycle == Lifecycle!Promise
=============================================================================
