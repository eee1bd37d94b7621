----------------------------- MODULE MockServer -----------------------------
(***************************************************************************)
(* The Mailgun mock server (internal/utils/mailgun_mock_server.go), which  *)
(* the controllers of a test and the test itself use at the same time.     *)
(* Every handler but getDomains holds the mutex, looks for what it is      *)
(* asked about, and then changes it; the deferred Unlock ends it.          *)
(***************************************************************************)
EXTENDS MockData

VARIABLES
  server, \* the fields of MailgunMockServer but the mutex
  mutex,  \* the thread that holds it, or Nil
  pc,     \* pc[t]: what thread t does next
  call,   \* call[t]: what it has asked for, or Nil
  at,     \* at[t]: index in domainList it has found
  copy,   \* copy[t]: its copy of a route, or Nil
  answer, \* answer[t]: what it will be told, or Nil
  calls   \* requests and calls so far

vars == <<server, mutex, pc, call, at, copy, answer, calls>>

PCs == {"idle", "auth", "lock", "handle", "apply", "records", "unlock", "reply"}

Goto(t, step) == pc' = [pc EXCEPT ![t] = step]

Op(t) == call[t].op

\* The handler returns with this answer.
Tell(t, a) ==
  /\ answer' = [answer EXCEPT ![t] = a]
  /\ Goto(t, "unlock")
  /\ UNCHANGED <<mutex, call, at, copy, calls>>

Refuse(t, code) ==
  /\ Tell(t, Status(code))
  /\ UNCHANGED server

Handling(t, ops) ==
  /\ pc[t] = "handle"
  /\ Op(t) \in ops

-----------------------------------------------------------------------------
(* Around a handler. *)

\* The identifier of a route is one the server has given out, or (0) made up.
Ask(t) ==
  /\ pc[t] = "idle"
  /\ calls < MaxCalls
  /\ calls' = calls + 1
  /\ \E r \in Calls :
       /\ r.id \in {0} \cup DOMAIN server.routes
       /\ call' = [call EXCEPT ![t] = r]
       /\ Goto(t, IF r.op \in HTTPRequests THEN "auth" ELSE "lock")
  /\ UNCHANGED <<server, mutex, at, copy, answer>>

\* getDomains reads the list without the mutex.
authHandler(t) ==
  /\ pc[t] = "auth"
  /\ \/ /\ ~call[t].token
        /\ answer' = [answer EXCEPT ![t] = Status(401)]
        /\ Goto(t, "reply")
     \/ /\ call[t].token
        /\ Op(t) = "getDomains"
        /\ answer' = [answer EXCEPT ![t] = Status(200)]
        /\ Goto(t, "reply")
     \/ /\ call[t].token
        /\ Op(t) # "getDomains"
        /\ Goto(t, "lock")
        /\ UNCHANGED answer
  /\ UNCHANGED <<server, mutex, call, at, copy, calls>>

\* Mutant: requests about routes do not take the mutex.
LockDomains(t) ==
  /\ pc[t] = "lock"
  /\ \/ mutex = Nil /\ mutex' = t
     \/ call[t].form # Nil /\ UNCHANGED mutex
  /\ Goto(t, "handle")
  /\ UNCHANGED <<server, call, at, copy, answer, calls>>

Lock(t) ==
  /\ pc[t] = "lock"
  /\ mutex = Nil
  /\ mutex' = t
  /\ Goto(t, "handle")
  /\ UNCHANGED <<server, call, at, copy, answer, calls>>

\* Mutant: a refused request keeps the mutex.
UnlockGranted(t) ==
  /\ pc[t] = "unlock"
  /\ mutex' = IF answer[t].status = 500 THEN mutex ELSE Nil
  /\ Goto(t, "reply")
  /\ UNCHANGED <<server, call, at, copy, answer, calls>>

Unlock(t) ==
  /\ pc[t] = "unlock"
  /\ mutex' = Nil
  /\ Goto(t, "reply")
  /\ UNCHANGED <<server, call, at, copy, answer, calls>>

Return(t) ==
  /\ pc[t] = "reply"
  /\ Goto(t, "idle")
  /\ call' = [call EXCEPT ![t] = Nil]
  /\ at' = [at EXCEPT ![t] = 0]
  /\ copy' = [copy EXCEPT ![t] = Nil]
  /\ answer' = [answer EXCEPT ![t] = Nil]
  /\ UNCHANGED <<server, mutex, calls>>

-----------------------------------------------------------------------------
(* Domains. *)

AddContainer(n) == server' = [server EXCEPT !.domainList = Append(@, NewContainer(server, n))]

createDomain(t) ==
  /\ Handling(t, {"createDomain"})
  /\ \/ /\ call[t].name \in server.failedDomains
        /\ Refuse(t, 500)
     \/ /\ call[t].name \notin server.failedDomains
        /\ AddContainer(call[t].name)
        /\ Tell(t, ShowsDomain(NewContainer(server, call[t].name)))

\* The loop over domainList that getDomain, verifyDomain, deleteDomain and
\* DeleteDomain share; the one test call among them returns nothing.
FindDomain(t) ==
  /\ Handling(t, {"getDomain", "verifyDomain", "deleteDomain", "DeleteDomain"})
  /\ LET i == IndexOf(server, call[t].name)
         failed == Op(t) = "deleteDomain" /\ call[t].name \in server.failedDomains
     IN  \/ failed /\ Refuse(t, 500)
         \/ /\ ~failed
            /\ i = 0
            /\ Refuse(t, IF Op(t) = "DeleteDomain" THEN 200 ELSE 404)
         \/ /\ ~failed
            /\ i # 0
            /\ at' = [at EXCEPT ![t] = i]
            /\ Goto(t, "apply")
            /\ UNCHANGED <<server, mutex, call, copy, answer, calls>>

Applying(t, ops) ==
  /\ pc[t] = "apply"
  /\ Op(t) \in ops

\* The receiving records are made anew, the sending ones stay.
getDomain(t) ==
  /\ Applying(t, {"getDomain"})
  /\ server' = [server EXCEPT !.domainList[at[t]].receiving =
                  Valid(call[t].name \in server.activeMXDomains)]
  /\ Tell(t, ShowsDomain(server'.domainList[at[t]]))

\* First the state, of an activated domain; then all its records.
verifyState(t) ==
  /\ Applying(t, {"verifyDomain"})
  /\ server' = IF call[t].name \in server.activeDomains
               THEN [server EXCEPT !.domainList[at[t]].state = "active"]
               ELSE server
  /\ Goto(t, "records")
  /\ UNCHANGED <<mutex, call, at, copy, answer, calls>>

Verified(s, i) == [s EXCEPT !.domainList[i].receiving = "valid",
                            !.domainList[i].sending = "valid"]

verifyRecords(t) ==
  /\ pc[t] = "records"
  /\ server' = Verified(server, at[t])
  /\ Tell(t, ShowsDomain(server'.domainList[at[t]]))

deleteDomain(t) ==
  /\ Applying(t, {"deleteDomain", "DeleteDomain"})
  /\ server' = [server EXCEPT !.domainList = RemoveAt(@, at[t])]
  /\ Tell(t, Status(200))

-----------------------------------------------------------------------------
(* Routes. *)

createRoute(t) ==
  /\ Handling(t, {"createRoute"})
  /\ LET form == call[t].form
     IN  \/ form.description = Fail /\ Refuse(t, 500)
         \/ /\ form.description # Fail
            /\ form.priority = Broken
            /\ Refuse(t, 400)
         \/ /\ form.description # Fail
            /\ form.priority # Broken
            /\ server' = [server EXCEPT !.routes = Append(@, NewRoute(form))]
            /\ Tell(t, ShowsRoute(Len(server'.routes), NewRoute(form)))

getRoute(t) ==
  /\ Handling(t, {"getRoute"})
  /\ LET i == call[t].id
     IN  \/ i \in server.failGet /\ Refuse(t, 500)
         \/ i \notin server.failGet /\ ~Found(server, i) /\ Refuse(t, 404)
         \/ /\ i \notin server.failGet
            /\ Found(server, i)
            /\ Tell(t, ShowsRoute(i, server.routes[i]))
            /\ UNCHANGED server

\* A route nobody knows is deleted as well.
deleteRoute(t) ==
  /\ Handling(t, {"deleteRoute"})
  /\ LET i == call[t].id
     IN  \/ i \in server.failDelete /\ Refuse(t, 500)
         \/ /\ i \notin server.failDelete
            /\ server' = IF Found(server, i) THEN [server EXCEPT !.routes[i] = Nil] ELSE server
            /\ Tell(t, [Status(200) EXCEPT !.id = i])

\* The update works on a copy of the route.
FindRoute(t) ==
  /\ Handling(t, {"updateRoute"})
  /\ \/ ~Found(server, call[t].id) /\ Refuse(t, 404)
     \/ /\ Found(server, call[t].id)
        /\ copy' = [copy EXCEPT ![t] = server.routes[call[t].id]]
        /\ Goto(t, "apply")
        /\ UNCHANGED <<server, mutex, call, at, answer, calls>>

\* Mutant: does not look whether the priority is a number.
updateUnchecked(t) ==
  /\ Applying(t, {"updateRoute"})
  /\ server' = [server EXCEPT !.routes[call[t].id] = Merged(copy[t], call[t].form)]
  /\ Tell(t, ShowsRoute(call[t].id, server'.routes[call[t].id]))

updateRoute(t) ==
  /\ Applying(t, {"updateRoute"})
  /\ LET form == call[t].form
         new == Merged(copy[t], form)
     IN  \/ form.priority = Broken /\ Refuse(t, 400)
         \/ /\ form.priority # Broken
            /\ server' = [server EXCEPT !.routes[call[t].id] = new]
            /\ Tell(t, ShowsRoute(call[t].id, new))

-----------------------------------------------------------------------------
(* What only tests call. *)

AddDomain(t) ==
  /\ Handling(t, {"AddDomain"})
  /\ AddContainer(call[t].name)
  /\ Tell(t, Status(200))

\* ActivateDomain, ActivateMXDomain, FailedDomain and FailRoutes.
Arrange(t) ==
  /\ Handling(t, {"ActivateDomain", "ActivateMXDomain", "FailedDomain", "FailGet", "FailDelete"})
  /\ LET n == call[t].name
         i == call[t].id
     IN  server' =
           CASE Op(t) = "ActivateDomain" -> [server EXCEPT !.activeDomains = @ \cup {n}]
             [] Op(t) = "ActivateMXDomain" -> [server EXCEPT !.activeMXDomains = @ \cup {n}]
             [] Op(t) = "FailedDomain" -> [server EXCEPT !.failedDomains = @ \cup {n}]
             [] Op(t) = "FailGet" -> [server EXCEPT !.failGet = @ \cup {i}]
             [] Op(t) = "FailDelete" -> [server EXCEPT !.failDelete = @ \cup {i}]
  /\ Tell(t, Status(200))

-----------------------------------------------------------------------------
Handle(t) ==
  \/ createDomain(t) \/ FindDomain(t) \/ getDomain(t) \/ verifyState(t) \/ verifyRecords(t)
  \/ deleteDomain(t)
  \/ createRoute(t) \/ getRoute(t) \/ deleteRoute(t) \/ FindRoute(t) \/ updateRoute(t)
  \/ AddDomain(t) \/ Arrange(t)

Serve(t) == authHandler(t) \/ Handle(t) \/ Unlock(t) \/ Return(t)

Init ==
  /\ server = NewServer
  /\ mutex = Nil
  /\ pc = [t \in Threads |-> "idle"]
  /\ call = [t \in Threads |-> Nil]
  /\ at = [t \in Threads |-> 0]
  /\ copy = [t \in Threads |-> Nil]
  /\ answer = [t \in Threads |-> Nil]
  /\ calls = 0

Next == \E t \in Threads : Ask(t) \/ Lock(t) \/ Serve(t)

Spec == Init /\ [][Next]_vars

\* Every thread goes on, and the mutex does not starve who waits for it.
Fairness == \A t \in Threads : WF_vars(Serve(t)) /\ SF_vars(Lock(t))

FairSpec == Spec /\ Fairness

-----------------------------------------------------------------------------
TypeOK ==
  /\ server \in Servers
  /\ mutex \in Threads \cup {Nil}
  /\ pc \in [Threads -> PCs]
  /\ call \in [Threads -> Calls \cup {Nil}]
  /\ at \in [Threads -> Nat]
  /\ copy \in [Threads -> StoredRoutes \cup {Nil}]
  /\ answer \in [Threads -> Answers \cup {Nil}]
  /\ calls \in Nat

\* Between its two writes a verification counts as done: the mutex lets nobody
\* look at it half way.
Halfway(t) == pc[t] = "records"
Seen == IF \E t \in Threads : Halfway(t)
        THEN Verified(server, at[CHOOSE t \in Threads : Halfway(t)])
        ELSE server

API == INSTANCE MockAPI WITH
  server <- Seen,
  answer <- [t \in Threads |-> IF Halfway(t) THEN ShowsDomain(Seen.domainList[at[t]])
                               ELSE answer[t]]

\* Requests of the controllers and calls of a test that run at the same time
\* answer and change the mock as if each ran alone: an index found is still that
\* domain's when it is used, and no update of a route is lost or half done.
OneAtATime == API!Spec

\* Every request is answered, refused ones too: no handler keeps the mutex.
EveryCallReturns == \A t \in Threads : call[t] # Nil ~> call[t] = Nil
=============================================================================
