------------------------------- MODULE MockAPI -------------------------------
(***************************************************************************)
(* What the tests rely on: every request to the mock server, and every     *)
(* call of a test, happens at one moment between its start and its answer, *)
(* as if it were alone.  The list of all domains is read without the lock: *)
(* of that answer nothing is promised.                                     *)
(***************************************************************************)
EXTENDS MockData

VARIABLES
  server, \* the state of the mock server
  call,   \* call[t]: what thread t has asked for, or Nil
  answer  \* answer[t]: what it will be told, or Nil

apiVars == <<server, call, answer>>

\* The status of an answer.
StatusOf(s, r) ==
  LET known == IndexOf(s, r.name) # 0
      found == Found(s, r.id)
      failed == r.name \in s.failedDomains
      badPriority == r.form # Nil /\ r.form.priority = Broken
  IN  IF \/ r.op \in {"createDomain", "deleteDomain"} /\ failed
         \/ r.op = "createRoute" /\ r.form.description = Fail
         \/ r.op = "getRoute" /\ r.id \in s.failGet
         \/ r.op = "deleteRoute" /\ r.id \in s.failDelete
      THEN 500
      ELSE IF \/ r.op \in {"getDomain", "verifyDomain", "deleteDomain"} /\ ~known
              \/ r.op \in {"getRoute", "updateRoute"} /\ ~found
      THEN 404
      ELSE IF r.op \in {"createRoute", "updateRoute"} /\ badPriority THEN 400 ELSE 200

\* The server after a request that is granted.
After(s, r) ==
  LET i == IndexOf(s, r.name)
      new == NewContainer(s, r.name)
  IN  CASE r.op \in {"createDomain", "AddDomain"} -> [s EXCEPT !.domainList = Append(@, new)]
        [] r.op = "getDomain" -> [s EXCEPT !.domainList[i].receiving = new.receiving]
        [] r.op = "verifyDomain" ->
             [s EXCEPT !.domainList[i].state = IF r.name \in s.activeDomains THEN "active" ELSE @,
                       !.domainList[i].receiving = "valid",
                       !.domainList[i].sending = "valid"]
        [] r.op \in {"deleteDomain", "DeleteDomain"} ->
             [s EXCEPT !.domainList = IF i = 0 THEN @ ELSE RemoveAt(@, i)]
        [] r.op = "createRoute" -> [s EXCEPT !.routes = Append(@, NewRoute(r.form))]
        [] r.op = "updateRoute" -> [s EXCEPT !.routes[r.id] = Merged(@, r.form)]
        [] r.op = "deleteRoute" /\ Found(s, r.id) -> [s EXCEPT !.routes[r.id] = Nil]
        [] r.op = "ActivateDomain" -> [s EXCEPT !.activeDomains = @ \cup {r.name}]
        [] r.op = "ActivateMXDomain" -> [s EXCEPT !.activeMXDomains = @ \cup {r.name}]
        [] r.op = "FailedDomain" -> [s EXCEPT !.failedDomains = @ \cup {r.name}]
        [] r.op = "FailGet" -> [s EXCEPT !.failGet = @ \cup {r.id}]
        [] r.op = "FailDelete" -> [s EXCEPT !.failDelete = @ \cup {r.id}]
        [] OTHER -> s

\* What a granted request is told, from the server after it.
Says(s, r) ==
  IF r.op = "createDomain" THEN ShowsDomain(NewContainer(s, r.name))
  ELSE IF r.op \in {"getDomain", "verifyDomain"}
       THEN ShowsDomain(s.domainList[IndexOf(s, r.name)])
  ELSE IF r.op = "createRoute" THEN ShowsRoute(Len(s.routes), s.routes[Len(s.routes)])
  ELSE IF r.op \in {"getRoute", "updateRoute"} THEN ShowsRoute(r.id, s.routes[r.id])
  ELSE IF r.op = "deleteRoute" THEN [Status(200) EXCEPT !.id = r.id]
  ELSE Status(200)

-----------------------------------------------------------------------------
Ask(t) ==
  /\ call[t] = Nil
  /\ \E r \in Calls : call' = [call EXCEPT ![t] = r]
  /\ UNCHANGED <<server, answer>>

Tell(t, a) == answer' = [answer EXCEPT ![t] = a]

Execute(t) ==
  /\ call[t] # Nil
  /\ answer[t] = Nil
  /\ LET r == call[t]
         code == StatusOf(server, r)
     IN  \/ ~r.token /\ Tell(t, Status(401)) /\ UNCHANGED server
         \/ r.token /\ code # 200 /\ Tell(t, Status(code)) /\ UNCHANGED server
         \/ /\ r.token
            /\ code = 200
            /\ server' = After(server, r)
            /\ Tell(t, Says(After(server, r), r))
  /\ UNCHANGED call

Return(t) ==
  /\ answer[t] # Nil
  /\ call' = [call EXCEPT ![t] = Nil]
  /\ answer' = [answer EXCEPT ![t] = Nil]
  /\ UNCHANGED server

Init ==
  /\ server = NewServer
  /\ call = [t \in Threads |-> Nil]
  /\ answer = [t \in Threads |-> Nil]

Next == \E t \in Threads : Ask(t) \/ Execute(t) \/ Return(t)

Spec == Init /\ [][Next]_apiVars
=============================================================================
