---------------------------- MODULE MCMockServer ----------------------------
(* A small instance of MockServer for TLC. *)
EXTENDS MockServer

CONSTANTS n1, n2, x, y

Domain(op, n) == [op |-> op, token |-> TRUE, name |-> n, id |-> 0, form |-> Nil]
Route(op, i, form) == [op |-> op, token |-> TRUE, name |-> Nil, id |-> i, form |-> form]

Form(d, e, a, p) == [description |-> d, expression |-> e, actions |-> a, priority |-> p]

\* A form for each refusal, and two updates that leave fields out.
Created == {Form(x, x, x, Empty), Form(Fail, x, x, 1), Form(x, x, x, Broken)}
Updated == {Form(y, Empty, Empty, 1), Form(Empty, y, y, Empty), Form(y, y, y, Broken)}

\* One name comes and goes, the other is looked at.
AllCalls ==
  {Domain(op, n1) : op \in {"createDomain", "deleteDomain", "AddDomain", "DeleteDomain",
                            "FailedDomain", "ActivateMXDomain"}}
  \cup {Domain(op, n2) : op \in {"createDomain", "getDomain", "verifyDomain", "ActivateDomain"}}
  \cup {Domain("getDomains", Nil), [Domain("getDomain", n1) EXCEPT !.token = FALSE]}
  \cup {Route("createRoute", 0, f) : f \in Created}
  \cup {Route("updateRoute", 1, f) : f \in Updated}
  \cup {Route(op, 1, Nil) : op \in {"getRoute", "deleteRoute", "FailGet", "FailDelete"}}
  \cup {Route(op, 0, Nil) : op \in {"getRoute", "deleteRoute"}}
=============================================================================
