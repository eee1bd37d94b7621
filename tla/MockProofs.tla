----------------------------- MODULE MockProofs -----------------------------
(***************************************************************************)
(* The mock server, for any number of clients and tests: its types, that   *)
(* the mutex keeps its handlers apart, and that what they do together is   *)
(* what MockAPI promises, each request as if it were alone.                *)
(***************************************************************************)
EXTENDS MockServer, SequenceTheorems, WellFoundedInduction, TLAPS

-----------------------------------------------------------------------------
(* What the handlers compute. *)

\* The search for a name ends at the first container of that name, or at 0.
LEMMA IndexIsFirst ==
  ASSUME NEW s \in Servers, NEW n
  PROVE  LET i == IndexOf(s, n)
         IN  \/ i = 0 /\ \A j \in 1..Len(s.domainList) : s.domainList[j].name # n
             \/ i \in 1..Len(s.domainList) /\ s.domainList[i].name = n
<1> DEFINE I == {i \in 1..Len(s.domainList) : s.domainList[i].name = n}
<1>1. IndexOf(s, n) = IF I # {} THEN Min(I) ELSE 0
  BY DEF IndexOf, SelectInSeq
<1>2. CASE I = {}
  BY <1>1, <1>2
<1>3. CASE I # {}
  <2>1. I \subseteq Nat
    BY DEF Servers
  <2> DEFINE R == OpToRel(<, Nat)
  <2>2. \A j, k \in Nat : j < k => <<j, k>> \in R
    BY DEF OpToRel
  <2>3. IsWellFoundedOn(R, Nat)
    BY NatLessThanWellFounded
  <2> HIDE DEF R
  <2>4. PICK m \in I : \A j \in I : ~(<<j, m>> \in R)
    BY <1>3, <2>1, <2>3, WFMin
  <2> HIDE DEF I
  <2>5. ASSUME NEW j \in I PROVE m =< j
    <3>1. m \in Nat /\ j \in Nat
      BY <2>1
    <3>2. ~(j < m)
      BY <2>2, <2>4, <3>1, Zenon
    <3> QED
      BY <3>1, <3>2
  <2>6. Min(I) \in I
    BY <2>4, <2>5 DEF Min
  <2> QED
    BY <1>1, <1>3, <2>6 DEF I
<1> QED
  BY <1>2, <1>3

\* The search looks at the names alone.
LEMMA IndexOfNames ==
  ASSUME NEW s, NEW u, NEW n,
         Len(s.domainList) = Len(u.domainList),
         \A i \in 1..Len(s.domainList) : s.domainList[i].name = u.domainList[i].name
  PROVE  IndexOf(s, n) = IndexOf(u, n)
<1>1. {i \in 1..Len(s.domainList) : s.domainList[i].name = n}
        = {i \in 1..Len(u.domainList) : u.domainList[i].name = n}
  OBVIOUS
<1> QED
  BY <1>1 DEF IndexOf, SelectInSeq

\* A new container has its fields.
LEMMA NewContainerTyped ==
  ASSUME NEW s, NEW n \in Names
  PROVE  NewContainer(s, n) \in Containers
BY DEF NewContainer, Containers, Valid, DNS

\* A container taken out of the list leaves a list of containers.
LEMMA RemoveTyped ==
  ASSUME NEW l \in Seq(Containers), NEW i \in 1..Len(l)
  PROVE  RemoveAt(l, i) \in Seq(Containers)
<1>1. SubSeq(l, 1, i - 1) \in Seq(Containers) /\ SubSeq(l, i + 1, Len(l)) \in Seq(Containers)
  BY SubSeqProperties, ElementOfSeq, LenProperties
<1> QED
  BY <1>1, ConcatProperties DEF RemoveAt

\* A form that is accepted makes a route.
LEMMA NewRouteTyped ==
  ASSUME NEW form \in Forms, form.priority # Broken
  PROVE  NewRoute(form) \in StoredRoutes
BY DEF NewRoute, Forms, StoredRoutes

\* An update keeps a route a route.
LEMMA MergedTyped ==
  ASSUME NEW form \in Forms, form.priority # Broken, NEW route \in StoredRoutes
  PROVE  Merged(route, form) \in StoredRoutes
<1>1. DOMAIN route = {"description", "expression", "actions", "priority"}
  BY DEF StoredRoutes
<1>2. Merged(route, form) =
        [description |-> Merged(route, form).description,
         expression |-> Merged(route, form).expression,
         actions |-> Merged(route, form).actions,
         priority |-> Merged(route, form).priority]
  BY <1>1 DEF Merged
<1>3. /\ Merged(route, form).description \in Fields
      /\ Merged(route, form).expression \in Fields
      /\ Merged(route, form).actions \in Fields
      /\ Merged(route, form).priority \in Nat
  BY <1>1 DEF Merged, Forms, StoredRoutes
<1> QED
  BY <1>2, <1>3 DEF StoredRoutes

-----------------------------------------------------------------------------
(* Who is where.                                                           *)

\* The steps between Lock and Unlock.
Inside == {"handle", "apply", "records", "unlock"}

\* The steps before the answer is known.
Asking == {"auth", "lock", "handle", "apply", "records"}

\* The thread that holds the mutex is the one inside a handler.
Exclusion == \A t \in Threads : pc[t] \in Inside <=> mutex = t

\* A thread is idle when it has asked nothing, has an answer when its handler
\* is through, and is past authHandler only with a token.
Conversation == \A t \in Threads :
  /\ pc[t] = "idle" <=> call[t] = Nil
  /\ pc[t] \in {"unlock", "reply"} <=> answer[t] # Nil
  /\ pc[t] \in Asking \ {"auth"} => call[t].token

\* What a handler has found is still so when it goes on.
FoundBy(t) ==
  /\ pc[t] = "records" => Op(t) = "verifyDomain"
  /\ pc[t] = "apply" => Op(t) \in {"getDomain", "verifyDomain", "deleteDomain", "DeleteDomain",
                                   "updateRoute"}
  /\ (pc[t] \in {"apply", "records"} /\ Op(t) # "updateRoute") =>
       /\ at[t] = IndexOf(server, call[t].name)
       /\ at[t] # 0
       /\ Op(t) = "deleteDomain" => call[t].name \notin server.failedDomains
  /\ (pc[t] = "apply" /\ Op(t) = "updateRoute") =>
       /\ Found(server, call[t].id)
       /\ copy[t] = server.routes[call[t].id]
Findings == \A t \in Threads : FoundBy(t)

MockInv ==
  /\ TypeOK
  /\ Exclusion
  /\ Conversation
  /\ Findings

\* A thread that is not idle has asked for something.
LEMMA Asked ==
  ASSUME MockInv, NEW t \in Threads, pc[t] # "idle"
  PROVE  call[t] \in Calls /\ call[t] \in Requests /\ WellFormed(call[t])
BY MockAssumption DEF MockInv, TypeOK, Conversation

\* The mutex keeps the others out.
LEMMA OthersOut ==
  ASSUME MockInv, NEW t \in Threads, pc[t] \in Inside, NEW u \in Threads, u # t
  PROVE  pc[u] \notin Inside
BY DEF MockInv, Exclusion

\* An answer about a status, a domain or a route is an answer.
LEMMA AnswersTyped ==
  /\ \A code \in {200, 400, 401, 404, 500} : Status(code) \in Answers
  /\ \A d \in Containers : ShowsDomain(d) \in Answers
  /\ \A i \in Nat, r \in StoredRoutes : ShowsRoute(i, r) \in Answers
  /\ \A i \in Nat : [Status(200) EXCEPT !.id = i] \in Answers
<1>1. \A code \in {200, 400, 401, 404, 500} : Status(code) \in Answers
  BY DEF Status, Answers
<1>2. ASSUME NEW d \in Containers PROVE ShowsDomain(d) \in Answers
  <2>1. ShowsDomain(d) = [status |-> 200, domain |-> d, id |-> 0, route |-> Nil]
    BY DEF ShowsDomain, Status
  <2> QED
    BY <2>1 DEF Answers
<1>3. ASSUME NEW i \in Nat, NEW r \in StoredRoutes PROVE ShowsRoute(i, r) \in Answers
  <2>1. ShowsRoute(i, r) = [status |-> 200, domain |-> Nil, id |-> i, route |-> r]
    <3>1. [Status(200) EXCEPT !.id = i]
            = [status |-> 200, domain |-> Nil, id |-> i, route |-> Nil]
      BY DEF Status
    <3>2. ShowsRoute(i, r) = [[Status(200) EXCEPT !.id = i] EXCEPT !.route = r]
      BY DEF ShowsRoute
    <3> QED
      BY <3>1, <3>2
  <2> QED
    BY <2>1 DEF Answers
<1>4. ASSUME NEW i \in Nat PROVE [Status(200) EXCEPT !.id = i] \in Answers
  <2>1. [Status(200) EXCEPT !.id = i] = [status |-> 200, domain |-> Nil, id |-> i, route |-> Nil]
    BY DEF Status
  <2> QED
    BY <2>1 DEF Answers
<1> QED
  BY <1>1, <1>2, <1>3, <1>4

\* A handler that ends with an answer leaves everything in order.
LEMMA TellKeeps ==
  ASSUME MockInv, NEW t \in Threads, pc[t] \in {"handle", "apply", "records"},
         NEW a \in Answers, Tell(t, a), server' \in Servers
  PROVE  MockInv'
<1>1. \A u \in Threads \ {t} : pc[u] \notin Inside
  BY OthersOut DEF Inside
<1>2. a # Nil
  BY MockAssumption
<1>3. TypeOK'
  BY DEF Tell, Goto, PCs, MockInv, TypeOK
<1>4. pc' = [pc EXCEPT ![t] = "unlock"] /\ answer' = [answer EXCEPT ![t] = a]
      /\ UNCHANGED <<mutex, call, at, copy>>
  BY DEF Tell, Goto
<1>5. Exclusion'
  BY <1>4 DEF MockInv, TypeOK, Exclusion, Inside
<1>6. Conversation'
  BY <1>2, <1>4 DEF MockInv, TypeOK, Conversation, Asking
<1>7. Findings'
  <2> SUFFICES ASSUME NEW u \in Threads PROVE pc'[u] \notin {"apply", "records"}
    BY DEF Findings, FoundBy
  <2> QED
    BY <1>1, <1>4 DEF MockInv, TypeOK, Inside
<1> QED
  BY <1>3, <1>5, <1>6, <1>7 DEF MockInv

\* A handler that refuses leaves everything in order.
LEMMA RefuseKeeps ==
  ASSUME MockInv, NEW t \in Threads, pc[t] \in {"handle", "apply", "records"},
         NEW code \in {200, 400, 401, 404, 500}, Refuse(t, code)
  PROVE  MockInv'
BY TellKeeps, AnswersTyped DEF Refuse, MockInv, TypeOK

\* The list of domains may be replaced by another.
LEMMA DomainListTyped ==
  ASSUME NEW s \in Servers, NEW l \in Seq(Containers)
  PROVE  [s EXCEPT !.domainList = l] \in Servers
BY DEF Servers

\* A container added for a name of the constants.
LEMMA AddContainerTyped ==
  ASSUME server \in Servers, NEW n \in Names, AddContainer(n)
  PROVE  server' \in Servers
<1>1. Append(server.domainList, NewContainer(server, n)) \in Seq(Containers)
  BY NewContainerTyped, AppendProperties DEF Servers
<1> QED
  BY <1>1, DomainListTyped DEF AddContainer

\* A container changed in place is a container of the list.
LEMMA ContainerChanged ==
  ASSUME NEW s \in Servers, NEW i \in 1..Len(s.domainList), NEW c \in Containers
  PROVE  /\ [s EXCEPT !.domainList[i] = c] \in Servers
         /\ [s EXCEPT !.domainList[i] = c].domainList[i] = c
<1>1. s.domainList \in Seq(Containers)
  BY DEF Servers
<1>2. /\ [s.domainList EXCEPT ![i] = c] \in Seq(Containers)
      /\ [s.domainList EXCEPT ![i] = c][i] = c
  BY <1>1, ExceptSeq
<1>3. [s EXCEPT !.domainList[i] = c]
        = [s EXCEPT !.domainList = [s.domainList EXCEPT ![i] = c]]
  BY DEF Servers
<1> QED
  BY <1>2, <1>3, DomainListTyped DEF Servers

\* A route changed in place, or deleted.
LEMMA RouteChanged ==
  ASSUME NEW s \in Servers, NEW i \in DOMAIN s.routes, NEW r \in StoredRoutes \cup {Nil}
  PROVE  [s EXCEPT !.routes[i] = r] \in Servers
<1>1. s.routes \in Seq(StoredRoutes \cup {Nil}) /\ i \in 1..Len(s.routes)
  BY LenProperties DEF Servers
<1>2. [s.routes EXCEPT ![i] = r] \in Seq(StoredRoutes \cup {Nil})
  BY <1>1, ExceptSeq
<1> QED
  BY <1>2 DEF Servers

\* The containers a handler finds are containers.
LEMMA FoundContainer ==
  ASSUME MockInv, NEW t \in Threads,
         pc[t] \in {"apply", "records"}, Op(t) # "updateRoute"
  PROVE  /\ at[t] \in 1..Len(server.domainList)
         /\ server.domainList[at[t]] \in Containers
<1>1. server.domainList \in Seq(Containers)
  BY DEF MockInv, TypeOK, Servers
<1>2. at[t] \in 1..Len(server.domainList)
  BY IndexIsFirst DEF MockInv, TypeOK, Findings, FoundBy
<1> QED
  BY <1>1, <1>2, ElementOfSeq

-----------------------------------------------------------------------------
(* One step at a time. *)

\* The handlers that change one container put a container in its place.
LEMMA ChangesOneContainer ==
  ASSUME NEW s \in Servers, NEW i \in 1..Len(s.domainList), NEW v
  PROVE  /\ [s EXCEPT !.domainList[i].receiving = v]
              = [s EXCEPT !.domainList[i] = [s.domainList[i] EXCEPT !.receiving = v]]
         /\ [s EXCEPT !.domainList[i].state = v]
              = [s EXCEPT !.domainList[i] = [s.domainList[i] EXCEPT !.state = v]]
         /\ Verified(s, i)
              = [s EXCEPT !.domainList[i] = [s.domainList[i] EXCEPT
                                                    !.receiving = "valid", !.sending = "valid"]]
<1>1. DOMAIN s.domainList = 1..Len(s.domainList) /\ s.domainList \in Seq(Containers)
  BY LenProperties DEF Servers
<1> DEFINE l == s.domainList
<1>2. [l EXCEPT ![i].receiving = "valid", ![i].sending = "valid"]
        = [l EXCEPT ![i] = [l[i] EXCEPT !.receiving = "valid", !.sending = "valid"]]
  BY <1>1
<1> QED
  BY <1>1, <1>2 DEF Servers, Verified

\* Fields of a container keep their kind.
LEMMA ContainersTyped ==
  ASSUME NEW c \in Containers, NEW v \in DNS
  PROVE  /\ [c EXCEPT !.receiving = v] \in Containers
         /\ [c EXCEPT !.state = "active"] \in Containers
         /\ [c EXCEPT !.receiving = "valid", !.sending = "valid"] \in Containers
         /\ [c EXCEPT !.receiving = v].name = c.name
         /\ [c EXCEPT !.state = "active"].name = c.name
         /\ [c EXCEPT !.receiving = "valid", !.sending = "valid"].name = c.name
BY DEF Containers, DNS

\* Looking at a domain, and the end of a verification, change one container.
LEMMA ShowKeeps ==
  ASSUME MockInv, NEW t \in Threads, getDomain(t) \/ verifyRecords(t)
  PROVE  MockInv'
<1>1. pc[t] \in {"apply", "records"} /\ Op(t) # "updateRoute"
  BY DEF getDomain, verifyRecords, Applying, MockInv, Findings, FoundBy
<1>2. server \in Servers /\ at[t] \in 1..Len(server.domainList)
      /\ server.domainList[at[t]] \in Containers
  BY <1>1, FoundContainer DEF MockInv, TypeOK
<1>3. PICK c \in Containers : server' = [server EXCEPT !.domainList[at[t]] = c]
  <2>1. Valid(call[t].name \in server.activeMXDomains) \in DNS /\ "valid" \in DNS
    BY DEF Valid, DNS
  <2>2. CASE getDomain(t)
    <3> DEFINE v == Valid(call[t].name \in server.activeMXDomains)
    <3>1. [server EXCEPT !.domainList[at[t]].receiving = v] =
            [server EXCEPT !.domainList[at[t]] = [server.domainList[at[t]] EXCEPT !.receiving = v]]
      BY <1>2, ChangesOneContainer
    <3> QED
      BY <1>2, <2>1, <2>2, <3>1, ContainersTyped DEF getDomain
  <2>3. CASE verifyRecords(t)
    <3>1. Verified(server, at[t]) = [server EXCEPT !.domainList[at[t]] =
            [server.domainList[at[t]] EXCEPT !.receiving = "valid", !.sending = "valid"]]
      BY <1>2, ChangesOneContainer
    <3> QED
      BY <1>2, <2>1, <2>3, <3>1, ContainersTyped DEF verifyRecords
  <2> QED
    BY <2>2, <2>3
<1>4. server' \in Servers /\ server'.domainList[at[t]] \in Containers
  BY <1>2, <1>3, ContainerChanged
<1>5. ShowsDomain(server'.domainList[at[t]]) \in Answers
  BY <1>4, AnswersTyped
<1>6. Tell(t, ShowsDomain(server'.domainList[at[t]]))
  BY DEF getDomain, verifyRecords
<1> QED
  BY <1>1, <1>4, <1>5, <1>6, TellKeeps

\* A deleted domain leaves the others in the list.
LEMMA DeleteKeeps ==
  ASSUME MockInv, NEW t \in Threads, deleteDomain(t)
  PROVE  MockInv'
<1>1. pc[t] = "apply" /\ Op(t) # "updateRoute"
  BY DEF deleteDomain, Applying
<1>2. server.domainList \in Seq(Containers) /\ at[t] \in 1..Len(server.domainList)
  BY <1>1, FoundContainer DEF MockInv, TypeOK, Servers
<1>3. server' \in Servers
  BY <1>2, RemoveTyped, DomainListTyped DEF deleteDomain, MockInv, TypeOK
<1>4. Tell(t, Status(200)) /\ Status(200) \in Answers
  BY AnswersTyped DEF deleteDomain
<1> QED
  BY <1>1, <1>3, <1>4, TellKeeps

\* A domain that is made, by a request or by a test.
LEMMA CreateKeeps ==
  ASSUME MockInv, NEW t \in Threads, createDomain(t) \/ AddDomain(t)
  PROVE  MockInv'
<1>1. pc[t] = "handle" /\ Op(t) \in {"createDomain", "AddDomain"}
  BY DEF createDomain, AddDomain, Handling
<1>2. call[t].name \in Names
  BY <1>1, Asked DEF WellFormed, Op
<1>3. CASE Refuse(t, 500)
  BY <1>1, <1>3, RefuseKeeps
<1>4. CASE AddContainer(call[t].name)
  <2>1. server' \in Servers
    BY <1>2, <1>4, AddContainerTyped DEF MockInv, TypeOK
  <2>2. Status(200) \in Answers /\ ShowsDomain(NewContainer(server, call[t].name)) \in Answers
    BY <1>2, AnswersTyped, NewContainerTyped
  <2>3. CASE Tell(t, Status(200))
    BY <1>1, <2>1, <2>2, <2>3, TellKeeps
  <2>4. CASE Tell(t, ShowsDomain(NewContainer(server, call[t].name)))
    BY <1>1, <2>1, <2>2, <2>4, TellKeeps
  <2>5. CASE Refuse(t, 500)
    BY <1>1, <2>5, RefuseKeeps
  <2> QED
    BY <2>3, <2>4, <2>5 DEF createDomain, AddDomain
<1> QED
  BY <1>3, <1>4 DEF createDomain, AddDomain

\* A handler that goes on with what it has found.
LEMMA GoOnKeeps ==
  ASSUME MockInv, NEW t \in Threads, pc[t] \in {"handle", "apply"},
         NEW step \in {"apply", "records"}, Goto(t, step), FoundBy(t)',
         server' \in Servers, at' \in [Threads -> Nat],
         copy' \in [Threads -> StoredRoutes \cup {Nil}],
         UNCHANGED <<mutex, call, answer, calls>>
  PROVE  MockInv'
<1>1. \A u \in Threads \ {t} : pc[u] \notin Inside
  BY OthersOut DEF Inside
<1>2. TypeOK' /\ Exclusion' /\ Conversation'
  BY DEF Goto, PCs, MockInv, TypeOK, Exclusion, Conversation, Inside, Asking
<1>3. Findings'
  <2> SUFFICES ASSUME NEW u \in Threads, u # t PROVE FoundBy(u)'
    BY DEF Findings
  <2>1. pc'[u] \notin {"apply", "records"}
    BY <1>1 DEF Goto, MockInv, TypeOK, Inside
  <2> QED
    BY <2>1 DEF FoundBy
<1> QED
  BY <1>2, <1>3 DEF MockInv

\* The first part of a handler finds what the second works on.
LEMMA FindKeeps ==
  ASSUME MockInv, NEW t \in Threads, FindDomain(t) \/ FindRoute(t)
  PROVE  MockInv'
<1>1. pc[t] = "handle"
  BY DEF FindDomain, FindRoute, Handling
<1>2. CASE \E code \in {200, 404, 500} : Refuse(t, code)
  BY <1>1, <1>2, RefuseKeeps
<1>3. CASE /\ FindDomain(t)
           /\ IndexOf(server, call[t].name) # 0
           /\ ~(Op(t) = "deleteDomain" /\ call[t].name \in server.failedDomains)
           /\ at' = [at EXCEPT ![t] = IndexOf(server, call[t].name)]
           /\ Goto(t, "apply")
           /\ UNCHANGED <<server, mutex, call, copy, answer, calls>>
  <2>1. IndexOf(server, call[t].name) \in Nat
    BY <1>3, IndexIsFirst DEF MockInv, TypeOK
  <2>2. at' \in [Threads -> Nat]
    BY <1>3, <2>1 DEF MockInv, TypeOK
  <2>3. Op(t) \in {"getDomain", "verifyDomain", "deleteDomain", "DeleteDomain"}
    BY <1>3 DEF FindDomain, Handling
  <2>4. pc'[t] = "apply" /\ at'[t] = IndexOf(server, call[t].name)
    BY <1>3 DEF Goto, MockInv, TypeOK
  <2>5. FoundBy(t)'
    BY <1>3, <2>3, <2>4 DEF FoundBy, Op
  <2> QED
    BY <1>1, <1>3, <2>2, <2>5, GoOnKeeps DEF MockInv, TypeOK
<1>4. CASE /\ FindRoute(t)
           /\ Found(server, call[t].id)
           /\ copy' = [copy EXCEPT ![t] = server.routes[call[t].id]]
           /\ Goto(t, "apply")
           /\ UNCHANGED <<server, mutex, call, at, answer, calls>>
  <2>1. server.routes[call[t].id] \in StoredRoutes
    BY <1>4, ElementOfSeq, LenProperties DEF Found, MockInv, TypeOK, Servers
  <2>2. copy' \in [Threads -> StoredRoutes \cup {Nil}]
    BY <1>4, <2>1 DEF MockInv, TypeOK
  <2>3. Op(t) = "updateRoute"
    BY <1>4 DEF FindRoute, Handling
  <2>4. pc'[t] = "apply" /\ copy'[t] = server.routes[call[t].id]
    BY <1>4 DEF Goto, MockInv, TypeOK
  <2>5. FoundBy(t)'
    BY <1>4, <2>3, <2>4 DEF FoundBy, Op, Found
  <2> QED
    BY <1>1, <1>4, <2>2, <2>5, GoOnKeeps DEF MockInv, TypeOK
<1> QED
  BY <1>2, <1>3, <1>4 DEF FindDomain, FindRoute

\* The search finds the same index after a change that keeps the names.
LEMMA IndexKept ==
  ASSUME NEW s \in Servers, NEW i \in 1..Len(s.domainList), NEW c \in Containers,
         c.name = s.domainList[i].name, NEW n
  PROVE  IndexOf([s EXCEPT !.domainList[i] = c], n) = IndexOf(s, n)
<1>1. s.domainList \in Seq(Containers)
  BY DEF Servers
<1> DEFINE l == [s.domainList EXCEPT ![i] = c]
           u == [s EXCEPT !.domainList[i] = c]
<1>2. u.domainList = l
  BY DEF Servers
<1>3. Len(l) = Len(s.domainList)
      /\ \A j \in 1..Len(s.domainList) : l[j] = IF j = i THEN c ELSE s.domainList[j]
  BY <1>1, ExceptSeq
<1> HIDE DEF u, l
<1>4. IndexOf(u, n) = IndexOf(s, n)
  BY <1>2, <1>3, IndexOfNames
<1> QED
  BY <1>4 DEF u

\* The first half of a verification leaves the index right for the second.
LEMMA VerifyStateKeeps ==
  ASSUME MockInv, NEW t \in Threads, verifyState(t)
  PROVE  MockInv'
<1>1. /\ pc[t] = "apply"
      /\ Op(t) = "verifyDomain"
      /\ Goto(t, "records")
      /\ UNCHANGED <<mutex, call, at, copy, answer, calls>>
  BY DEF verifyState, Applying
<1>2. server \in Servers /\ at[t] \in 1..Len(server.domainList)
      /\ server.domainList[at[t]] \in Containers
  BY <1>1, FoundContainer DEF MockInv, TypeOK
<1>3. at[t] = IndexOf(server, call[t].name) /\ at[t] # 0
  BY <1>1 DEF MockInv, Findings, FoundBy
<1>4. server' \in Servers /\ IndexOf(server', call[t].name) = IndexOf(server, call[t].name)
  <2>1. CASE server' = server
    BY <1>2, <2>1
  <2>2. CASE server' = [server EXCEPT !.domainList[at[t]].state = "active"]
    <3> DEFINE c == [server.domainList[at[t]] EXCEPT !.state = "active"]
    <3>1. c \in Containers /\ c.name = server.domainList[at[t]].name
      BY <1>2, ContainersTyped DEF DNS
    <3>2. server' = [server EXCEPT !.domainList[at[t]] = c]
      BY <1>2, <2>2, ChangesOneContainer
    <3> HIDE DEF c
    <3>3. [server EXCEPT !.domainList[at[t]] = c] \in Servers
      BY <1>2, <3>1, ContainerChanged
    <3>4. IndexOf([server EXCEPT !.domainList[at[t]] = c], call[t].name)
            = IndexOf(server, call[t].name)
      BY <1>2, <3>1, IndexKept
    <3> QED
      BY <3>2, <3>3, <3>4
  <2> QED
    BY <2>1, <2>2 DEF verifyState
<1>5. FoundBy(t)'
  BY <1>1, <1>3, <1>4 DEF FoundBy, Op, Goto, MockInv, TypeOK
<1> QED
  BY <1>1, <1>4, <1>5, GoOnKeeps DEF MockInv, TypeOK

\* The handlers of routes keep the table of routes one.
LEMMA RoutesKeep ==
  ASSUME MockInv, NEW t \in Threads,
         createRoute(t) \/ getRoute(t) \/ deleteRoute(t) \/ updateRoute(t)
  PROVE  MockInv'
<1> DEFINE form == call[t].form
           i == call[t].id
<1>1. /\ pc[t] \in {"handle", "apply"}
      /\ Op(t) \in {"createRoute", "getRoute", "deleteRoute", "updateRoute"}
  BY DEF createRoute, getRoute, deleteRoute, updateRoute, Handling, Applying
<1>2. i \in Nat /\ (Op(t) \in {"createRoute", "updateRoute"} => form \in Forms)
  BY <1>1, Asked DEF WellFormed, Op, Requests
<1>3. server \in Servers /\ server.routes \in Seq(StoredRoutes \cup {Nil})
  BY DEF MockInv, TypeOK, Servers
<1>4. \A j : Found(server, j) => server.routes[j] \in StoredRoutes
  BY <1>3, ElementOfSeq, LenProperties DEF Found
<1>5. CASE \E code \in {200, 400, 401, 404, 500} : Refuse(t, code)
  BY <1>1, <1>5, RefuseKeeps
<1>6. CASE createRoute(t) /\ form.description # Fail /\ form.priority # Broken
  <2>1. /\ server' = [server EXCEPT !.routes = Append(server.routes, NewRoute(form))]
        /\ Tell(t, ShowsRoute(Len(server'.routes), NewRoute(form)))
    BY <1>6 DEF createRoute, Refuse
  <2>2. NewRoute(form) \in StoredRoutes
    BY <1>2, <1>6, NewRouteTyped DEF createRoute, Handling
  <2>3. Append(server.routes, NewRoute(form)) \in Seq(StoredRoutes \cup {Nil})
    BY <1>3, <2>2, AppendProperties
  <2>4. server' \in Servers
    BY <1>3, <2>1, <2>3 DEF Servers
  <2>5. Len(server'.routes) \in Nat
    BY <2>4, LenProperties DEF Servers
  <2> QED
    BY <1>1, <2>1, <2>2, <2>4, <2>5, TellKeeps, AnswersTyped
<1>7. CASE getRoute(t) /\ Tell(t, ShowsRoute(i, server.routes[i])) /\ Found(server, i)
           /\ UNCHANGED server
  BY <1>1, <1>2, <1>3, <1>4, <1>7, TellKeeps, AnswersTyped
<1>8. CASE /\ deleteRoute(t)
           /\ server' = IF Found(server, i) THEN [server EXCEPT !.routes[i] = Nil] ELSE server
           /\ Tell(t, [Status(200) EXCEPT !.id = i])
  <2>1. server' \in Servers
    BY <1>3, <1>8, RouteChanged DEF Found
  <2> QED
    BY <1>1, <1>2, <1>8, <2>1, TellKeeps, AnswersTyped
<1>9. CASE updateRoute(t) /\ form.priority # Broken
  <2> DEFINE new == Merged(copy[t], form)
  <2>1. server' = [server EXCEPT !.routes[i] = new] /\ Tell(t, ShowsRoute(i, new))
    BY <1>9 DEF updateRoute
  <2>2. Found(server, i) /\ copy[t] = server.routes[i] /\ form \in Forms
    BY <1>2, <1>9 DEF updateRoute, Applying, MockInv, Findings, FoundBy
  <2>3. new \in StoredRoutes
    BY <1>4, <1>9, <2>2, MergedTyped
  <2> HIDE DEF new
  <2>4. server' \in Servers
    BY <1>3, <2>1, <2>2, <2>3, RouteChanged DEF Found
  <2> QED
    BY <1>1, <1>2, <2>1, <2>3, <2>4, TellKeeps, AnswersTyped
<1> QED
  BY <1>5, <1>6, <1>7, <1>8, <1>9 DEF createRoute, getRoute, deleteRoute, updateRoute

\* What a test arranges.
LEMMA ArrangeKeeps ==
  ASSUME MockInv, NEW t \in Threads, Arrange(t)
  PROVE  MockInv'
<1>1. pc[t] = "handle" /\ Tell(t, Status(200)) /\ Status(200) \in Answers
      /\ Op(t) \in {"ActivateDomain", "ActivateMXDomain", "FailedDomain", "FailGet", "FailDelete"}
  BY AnswersTyped DEF Arrange, Handling
<1>2. call[t].id \in Nat
      /\ (Op(t) \in {"ActivateDomain", "ActivateMXDomain", "FailedDomain"} => call[t].name \in Names)
  BY <1>1, Asked DEF WellFormed, Requests, Op
<1>3. server' \in Servers
  <2>1. server \in Servers
    BY DEF MockInv, TypeOK
  <2>2. \/ /\ call[t].name \in Names
           /\ \/ server' = [server EXCEPT !.activeDomains = @ \cup {call[t].name}]
              \/ server' = [server EXCEPT !.activeMXDomains = @ \cup {call[t].name}]
              \/ server' = [server EXCEPT !.failedDomains = @ \cup {call[t].name}]
        \/ server' = [server EXCEPT !.failGet = @ \cup {call[t].id}]
        \/ server' = [server EXCEPT !.failDelete = @ \cup {call[t].id}]
    BY <1>1, <1>2 DEF Arrange
  <2> QED
    BY <1>2, <2>1, <2>2 DEF Servers
<1> QED
  BY <1>1, <1>3, TellKeeps

\* Before and after its handler a thread leaves the server alone.
LEMMA AroundKeeps ==
  ASSUME MockInv, NEW t \in Threads,
         Ask(t) \/ authHandler(t) \/ Lock(t) \/ Unlock(t) \/ Return(t)
  PROVE  MockInv'
<1>1. UNCHANGED server
  BY DEF Ask, authHandler, Lock, Unlock, Return
<1>2. Status(401) \in Answers /\ Status(200) \in Answers /\ Nil \notin Answers
  BY MockAssumption, AnswersTyped
<1>3. CASE Ask(t)
  <2>1. PICK r \in Calls : /\ call' = [call EXCEPT ![t] = r]
                           /\ Goto(t, IF r.op \in HTTPRequests THEN "auth" ELSE "lock")
    BY <1>3 DEF Ask
  <2>2. r # Nil /\ (r.op \notin HTTPRequests => r.token)
    BY MockAssumption DEF WellFormed, Requests
  <2>3. TypeOK' /\ Exclusion' /\ Conversation' /\ Findings'
    BY <1>3, <2>1, <2>2 DEF Ask, Goto, PCs, MockInv, TypeOK, Exclusion, Conversation, Findings,
         FoundBy, Inside, Asking, Op
  <2> QED
    BY <2>3 DEF MockInv
<1>4. CASE authHandler(t)
  <2>1. TypeOK' /\ Exclusion' /\ Conversation' /\ Findings'
    BY <1>2, <1>4 DEF authHandler, Goto, PCs, MockInv, TypeOK, Exclusion, Conversation, Findings,
         FoundBy, Inside, Asking, Op
  <2> QED
    BY <2>1 DEF MockInv
<1>5. CASE Lock(t)
  <2>1. TypeOK' /\ Exclusion' /\ Conversation' /\ Findings'
    BY <1>5, MockAssumption DEF Lock, Goto, PCs, MockInv, TypeOK, Exclusion, Conversation,
         Findings, FoundBy, Inside, Asking, Op
  <2> QED
    BY <2>1 DEF MockInv
<1>6. CASE Unlock(t)
  <2>1. TypeOK' /\ Exclusion' /\ Conversation' /\ Findings'
    BY <1>6, MockAssumption DEF Unlock, Goto, PCs, MockInv, TypeOK, Exclusion, Conversation,
         Findings, FoundBy, Inside, Asking, Op
  <2> QED
    BY <2>1 DEF MockInv
<1>7. CASE Return(t)
  <2>1. TypeOK' /\ Exclusion' /\ Conversation' /\ Findings'
    BY <1>7 DEF Return, Goto, PCs, MockInv, TypeOK, Exclusion, Conversation,
         Findings, FoundBy, Inside, Asking, Op
  <2> QED
    BY <2>1 DEF MockInv
<1> QED
  BY <1>3, <1>4, <1>5, <1>6, <1>7

\* Every step keeps the invariant.
LEMMA NextMockInv == MockInv /\ [Next]_vars => MockInv'
<1> SUFFICES ASSUME MockInv, [Next]_vars PROVE MockInv'
  OBVIOUS
<1>1. CASE UNCHANGED vars
  BY <1>1 DEF vars, MockInv, TypeOK, Exclusion, Conversation, Findings, FoundBy, Found, Op
<1>2. ASSUME NEW t \in Threads, Handle(t) PROVE MockInv'
  BY <1>2, CreateKeeps, FindKeeps, ShowKeeps, VerifyStateKeeps, DeleteKeeps, RoutesKeep,
     ArrangeKeeps DEF Handle
<1> QED
  BY <1>1, <1>2, AroundKeeps DEF Next, Serve

\* The server starts with nothing.
LEMMA InitMockInv == Init => MockInv
<1> SUFFICES ASSUME Init PROVE MockInv
  OBVIOUS
<1>1. server \in Servers
  BY EmptySeq DEF Init, NewServer, Servers
<1>2. TypeOK
  BY <1>1, MockAssumption DEF Init, TypeOK, PCs
<1>3. Exclusion
  BY MockAssumption DEF Init, Exclusion, Inside
<1> QED
  BY <1>2, <1>3 DEF Init, MockInv, Conversation, Findings, FoundBy, Asking

\* The invariant holds, for any number of threads and any calls.
THEOREM Invariant == Spec => []MockInv
BY InitMockInv, NextMockInv, PTL DEF Spec

\* The mock keeps lists of containers and of routes, whatever is asked of it:
\* no index is out of range, no priority is anything but a number.
THEOREM TypeCorrect == Spec => []TypeOK
<1>1. MockInv => TypeOK
  BY DEF MockInv
<1> QED
  BY <1>1, Invariant, PTL

\* Two handlers never work on the server's fields at the same time, and what
\* the one that does has found is still there when it uses it.
THEOREM HandlersExclude ==
  Spec => [](/\ \A t, u \in Threads : pc[t] \in Inside /\ pc[u] \in Inside => t = u
             /\ Findings)
<1>1. MockInv => /\ \A t, u \in Threads : pc[t] \in Inside /\ pc[u] \in Inside => t = u
                 /\ Findings
  BY DEF MockInv, Exclusion
<1> QED
  BY <1>1, Invariant, PTL

-----------------------------------------------------------------------------
(* What the clients see: the handlers implement MockAPI. *)

\* What a thread has been told, or is about to be at the end of a verification.
Told == [t \in Threads |-> IF Halfway(t) THEN ShowsDomain(Seen.domainList[at[t]]) ELSE answer[t]]

\* What the mutex lets the clients see.
View ==
  /\ \A t \in Threads : Halfway(t) => Seen = Verified(server, at[t])
  /\ (\A t \in Threads : ~Halfway(t)) => Seen = server /\ Told = answer

\* At most one verification is half way, and it shows as done.
LEMMA ViewIs == MockInv => View
<1> SUFFICES ASSUME MockInv PROVE View
  OBVIOUS
<1>1. ASSUME NEW t \in Threads, Halfway(t) PROVE Seen = Verified(server, at[t])
  <2>1. ASSUME NEW u \in Threads, Halfway(u) PROVE u = t
    BY <1>1, <2>1 DEF MockInv, Exclusion, Inside, Halfway
  <2>2. (CHOOSE u \in Threads : Halfway(u)) = t
    BY <1>1, <2>1
  <2> QED
    BY <1>1, <2>2 DEF Seen
<1>2. ASSUME \A t \in Threads : ~Halfway(t) PROVE Seen = server /\ Told = answer
  BY <1>2 DEF Seen, Told, MockInv, TypeOK
<1> QED
  BY <1>1, <1>2 DEF View

\* So after every step.
LEMMA NextViewIs == MockInv' => View'
BY ViewIs, PTL

\* While one thread handles its request nobody is half way, but perhaps itself.
LEMMA Alone ==
  ASSUME MockInv, NEW t \in Threads, pc[t] \in Inside
  PROVE  \A u \in Threads \ {t} : ~Halfway(u)
BY OthersOut DEF Halfway, Inside

\* A step of a handler that tells what the interface would, and does it.
LEMMA Executes ==
  ASSUME MockInv, MockInv', NEW t \in Threads, pc[t] \in {"handle", "apply"},
         NEW a \in Answers, Tell(t, a),
         \/ /\ API!StatusOf(server, call[t]) # 200
            /\ a = Status(API!StatusOf(server, call[t]))
            /\ UNCHANGED server
         \/ /\ API!StatusOf(server, call[t]) = 200
            /\ server' = API!After(server, call[t])
            /\ a = API!Says(API!After(server, call[t]), call[t])
  PROVE  API!Execute(t)
<1>1. /\ pc' = [pc EXCEPT ![t] = "unlock"]
      /\ answer' = [answer EXCEPT ![t] = a]
      /\ UNCHANGED call
  BY DEF Tell, Goto
<1>2. \A u \in Threads : ~Halfway(u) /\ ~Halfway(u)'
  BY <1>1, Alone DEF Halfway, Inside, MockInv, TypeOK
<1>3. Seen = server /\ Told = answer /\ Seen' = server' /\ Told' = answer'
  BY <1>2, ViewIs, NextViewIs DEF View
<1>4. call[t] # Nil /\ call[t].token /\ answer[t] = Nil
  BY DEF MockInv, Conversation, Asking
<1>5. \A code : API!Status(code) = Status(code)
  BY DEF API!Status, Status
<1>6. /\ Told[t] = Nil
      /\ Told' = [Told EXCEPT ![t] = a]
      /\ \/ /\ API!StatusOf(Seen, call[t]) # 200
            /\ a = Status(API!StatusOf(Seen, call[t]))
            /\ Seen' = Seen
         \/ /\ API!StatusOf(Seen, call[t]) = 200
            /\ Seen' = API!After(Seen, call[t])
            /\ a = API!Says(API!After(Seen, call[t]), call[t])
  BY <1>1, <1>3, <1>4
<1> QED
  BY <1>1, <1>4, <1>5, <1>6 DEF API!Execute, API!Tell, Told

\* The interface computes with the same data.
LEMMA SameData ==
  /\ \A code : API!Status(code) = Status(code)
  /\ \A d : API!ShowsDomain(d) = ShowsDomain(d)
  /\ \A i, r : API!ShowsRoute(i, r) = ShowsRoute(i, r)
  /\ \A s, n : API!NewContainer(s, n) = NewContainer(s, n) /\ API!IndexOf(s, n) = IndexOf(s, n)
  /\ \A s, i : API!Found(s, i) <=> Found(s, i)
  /\ \A form : API!NewRoute(form) = NewRoute(form)
  /\ \A route, form : API!Merged(route, form) = Merged(route, form)
<1>1. ASSUME NEW s, NEW n PROVE API!IndexOf(s, n) = IndexOf(s, n)
  BY DEF API!IndexOf, API!SelectInSeq, API!Min, IndexOf, SelectInSeq, Min
<1>2. ASSUME NEW s, NEW n PROVE API!NewContainer(s, n) = NewContainer(s, n)
  BY DEF API!NewContainer, NewContainer, API!Valid, Valid
<1>3. /\ \A code : API!Status(code) = Status(code)
      /\ \A d : API!ShowsDomain(d) = ShowsDomain(d)
      /\ \A i, r : API!ShowsRoute(i, r) = ShowsRoute(i, r)
  BY DEF API!Status, Status, API!ShowsDomain, ShowsDomain, API!ShowsRoute, ShowsRoute
<1>4. /\ \A s, i : API!Found(s, i) <=> Found(s, i)
      /\ \A form : API!NewRoute(form) = NewRoute(form)
      /\ \A route, form : API!Merged(route, form) = Merged(route, form)
  BY DEF API!Found, Found, API!NewRoute, NewRoute, API!Merged, Merged
<1> QED
  BY <1>1, <1>2, <1>3, <1>4

\* The domain that is made is the one that is shown.
LEMMA CreateExecutes ==
  ASSUME MockInv, MockInv', NEW t \in Threads, createDomain(t) \/ AddDomain(t)
  PROVE  API!Execute(t)
<1> DEFINE r == call[t]
           new == NewContainer(server, r.name)
<1>1. pc[t] = "handle" /\ r.op \in {"createDomain", "AddDomain"}
  BY DEF createDomain, AddDomain, Handling, Op
<1>2. r.name \in Names
  BY <1>1, Asked DEF WellFormed
<1>3. API!StatusOf(server, r) =
        IF r.op = "createDomain" /\ r.name \in server.failedDomains THEN 500 ELSE 200
  BY <1>1 DEF API!StatusOf
<1>4. Status(500) \in Answers /\ Status(200) \in Answers /\ ShowsDomain(new) \in Answers
  BY <1>2, AnswersTyped, NewContainerTyped
<1>5. API!After(server, r) = [server EXCEPT !.domainList = Append(@, new)]
  BY <1>1, SameData DEF API!After
<1>6. API!Says(API!After(server, r), r) =
        IF r.op = "createDomain" THEN ShowsDomain(new) ELSE Status(200)
  <2>1. NewContainer(API!After(server, r), r.name) = new
    BY <1>5 DEF NewContainer, MockInv, TypeOK, Servers
  <2> QED
    BY <1>1, <2>1, SameData DEF API!Says
<1> HIDE DEF r
<1>7. CASE createDomain(t) /\ r.name \in server.failedDomains
  <2>1. Tell(t, Status(500)) /\ UNCHANGED server /\ r.op = "createDomain"
    BY <1>7 DEF createDomain, Refuse, Handling, Op, r
  <2> QED
    BY <1>1, <1>3, <1>4, <1>7, <2>1, Executes DEF r
<1>8. CASE /\ server' = [server EXCEPT !.domainList = Append(@, new)]
           /\ ~(r.op = "createDomain" /\ r.name \in server.failedDomains)
           /\ Tell(t, IF r.op = "createDomain" THEN ShowsDomain(new) ELSE Status(200))
  BY <1>1, <1>3, <1>4, <1>5, <1>6, <1>8, Executes DEF r
<1> QED
  BY <1>7, <1>8 DEF createDomain, AddDomain, AddContainer, Handling, Op, r

\* What the interface shows of a container that keeps its name.
LEMMA ShowsKept ==
  ASSUME NEW s \in Servers, NEW r, r.op \in {"getDomain", "verifyDomain"},
         NEW i \in 1..Len(s.domainList), i = IndexOf(s, r.name),
         NEW c \in Containers, c.name = s.domainList[i].name
  PROVE  API!Says([s EXCEPT !.domainList[i] = c], r) = ShowsDomain(c)
<1> DEFINE u == [s EXCEPT !.domainList[i] = c]
<1>1. IndexOf(u, r.name) = i /\ u.domainList[i] = c
  BY IndexKept, ContainerChanged
<1> HIDE DEF u
<1>2. API!Says(u, r) = ShowsDomain(c)
  BY <1>1, SameData DEF API!Says
<1> QED
  BY <1>2 DEF u

\* Looking at a domain shows the container with the records made anew.
LEMMA GetDomainExecutes ==
  ASSUME MockInv, MockInv', NEW t \in Threads, getDomain(t)
  PROVE  API!Execute(t)
<1> DEFINE r == call[t]
           i == IndexOf(server, r.name)
           v == Valid(r.name \in server.activeMXDomains)
           c == [server.domainList[i] EXCEPT !.receiving = v]
<1>1. pc[t] = "apply" /\ r.op = "getDomain"
  BY DEF getDomain, Applying, Op
<1>2. server \in Servers /\ at[t] = i /\ i \in 1..Len(server.domainList)
      /\ server.domainList[i] \in Containers
  BY <1>1, FoundContainer DEF Op, MockInv, TypeOK, Findings, FoundBy
<1>3. c \in Containers /\ c.name = server.domainList[i].name
  BY <1>2, ContainersTyped DEF Valid, DNS
<1>4. [server EXCEPT !.domainList[i].receiving = v] = [server EXCEPT !.domainList[i] = c]
  BY <1>2, ChangesOneContainer
<1>5. API!StatusOf(server, r) = 200
  BY <1>1, <1>2, SameData DEF API!StatusOf
<1>6. API!After(server, r) = [server EXCEPT !.domainList[i].receiving = v]
  <2>1. NewContainer(server, r.name).receiving = v
    BY DEF NewContainer
  <2> QED
    BY <1>1, <2>1, SameData DEF API!After
<1>7. server' = [server EXCEPT !.domainList[i].receiving = v]
      /\ Tell(t, ShowsDomain(server'.domainList[i]))
  BY <1>2 DEF getDomain
<1> HIDE DEF c, v, i
<1>8. server'.domainList[i] = c
  <2>1. [server EXCEPT !.domainList[i] = c].domainList[i] = c
    BY <1>2, <1>3, ContainerChanged
  <2> QED
    BY <1>4, <1>7, <2>1
<1>9. API!Says(API!After(server, r), r) = ShowsDomain(c)
  BY <1>1, <1>2, <1>3, <1>4, <1>6, ShowsKept DEF i
<1>10. ShowsDomain(c) \in Answers
  BY <1>3, AnswersTyped
<1> QED
  BY <1>1, <1>5, <1>6, <1>7, <1>8, <1>9, <1>10, Executes

\* A container written twice holds what was written last.
LEMMA WrittenTwice ==
  ASSUME NEW s \in Servers, NEW i \in 1..Len(s.domainList),
         NEW b \in Containers, NEW c \in Containers
  PROVE  [[s EXCEPT !.domainList[i] = b] EXCEPT !.domainList[i] = c]
           = [s EXCEPT !.domainList[i] = c]
<1>1. DOMAIN s.domainList = 1..Len(s.domainList)
      /\ s.domainList \in [1..Len(s.domainList) -> Containers]
  BY LenProperties DEF Servers
<1> DEFINE l == s.domainList
<1>2. [[l EXCEPT ![i] = b] EXCEPT ![i] = c] = [l EXCEPT ![i] = c]
  BY <1>1
<1> QED
  BY <1>1, <1>2 DEF Servers

\* A verification half way shows the container as it will be.
LEMMA VerifiedIs ==
  ASSUME MockInv, NEW t \in Threads, verifyState(t)
  PROVE  /\ Verified(server', at[t]) = API!After(server, call[t])
         /\ \E c \in Containers :
              /\ c.name = server.domainList[at[t]].name
              /\ API!After(server, call[t]) = [server EXCEPT !.domainList[at[t]] = c]
<1> DEFINE i == at[t]
           old == server.domainList[i]
           active == call[t].name \in server.activeDomains
           half == [old EXCEPT !.state = "active"]
           c == [old EXCEPT !.state = IF active THEN "active" ELSE @,
                            !.receiving = "valid", !.sending = "valid"]
<1>1. pc[t] = "apply" /\ Op(t) = "verifyDomain"
  BY DEF verifyState, Applying
<1>2. server \in Servers /\ i \in 1..Len(server.domainList) /\ old \in Containers
  BY <1>1, FoundContainer DEF MockInv, TypeOK
<1>3. i = IndexOf(server, call[t].name)
  BY <1>1 DEF MockInv, Findings, FoundBy
<1>4. API!After(server, call[t]) = [server EXCEPT !.domainList[i] = c]
  <2> DEFINE l == server.domainList
             v == IF active THEN "active" ELSE old.state
             W(k) == [server EXCEPT !.domainList[k].state = IF active THEN "active" ELSE @,
                                    !.domainList[k].receiving = "valid",
                                    !.domainList[k].sending = "valid"]
  <2>1. API!After(server, call[t]) = W(API!IndexOf(server, call[t].name))
    BY <1>1 DEF API!After, Op
  <2>2. API!IndexOf(server, call[t].name) = i
    BY <1>3, SameData
  <2>3. DOMAIN l = 1..Len(l) /\ l \in Seq(Containers)
    BY <1>2, LenProperties DEF Servers
  <2>4. [l EXCEPT ![i].state = v, ![i].receiving = "valid", ![i].sending = "valid"]
          = [l EXCEPT ![i] = c]
    BY <1>2, <2>3
  <2>5. W(i) = [server EXCEPT !.domainList[i] = c]
    BY <1>2, <2>3, <2>4 DEF Servers
  <2> HIDE DEF W, c, i
  <2> QED
    BY <2>1, <2>2, <2>5
<1>5. ASSUME ~active PROVE Verified(server', i) = API!After(server, call[t])
  <2>1. server' = server
    BY <1>5 DEF verifyState
  <2>2. c = [old EXCEPT !.receiving = "valid", !.sending = "valid"]
    BY <1>2, <1>5 DEF Containers
  <2>3. Verified(server, i) = [server EXCEPT !.domainList[i] =
                                 [old EXCEPT !.receiving = "valid", !.sending = "valid"]]
    BY <1>2, ChangesOneContainer
  <2> QED
    BY <1>4, <2>1, <2>2, <2>3
<1>6. ASSUME active PROVE Verified(server', i) = API!After(server, call[t])
  <2>1. server' = [server EXCEPT !.domainList[i] = half]
    BY <1>2, <1>6, ChangesOneContainer DEF verifyState
  <2>2. half \in Containers /\ c \in Containers
        /\ [half EXCEPT !.receiving = "valid", !.sending = "valid"] = c
    BY <1>2, <1>6 DEF Containers, DNS
  <2> HIDE DEF half, c
  <2>3. server' \in Servers /\ server'.domainList[i] = half
    BY <1>2, <2>1, <2>2, ContainerChanged
  <2>4. Len(server'.domainList) = Len(server.domainList)
    <3>1. server.domainList \in Seq(Containers)
      BY <1>2 DEF Servers
    <3>2. Len([server.domainList EXCEPT ![i] = half]) = Len(server.domainList)
      BY <1>2, <2>2, <3>1, ExceptSeq
    <3> QED
      BY <1>2, <2>1, <3>2 DEF Servers
  <2>5. [server' EXCEPT !.domainList[i] = c] = [server EXCEPT !.domainList[i] = c]
    BY <1>2, <2>1, <2>2, WrittenTwice
  <2>6. Verified(server', i) = [server' EXCEPT !.domainList[i] =
                                  [half EXCEPT !.receiving = "valid", !.sending = "valid"]]
    BY <1>2, <2>3, <2>4, ChangesOneContainer
  <2> QED
    BY <1>4, <2>2, <2>5, <2>6
<1>7. c \in Containers /\ c.name = old.name
  BY <1>2 DEF Containers, DNS
<1> QED
  BY <1>4, <1>5, <1>6, <1>7

\* The first half of a verification is where it happens for the clients.
LEMMA VerifyExecutes ==
  ASSUME MockInv, MockInv', NEW t \in Threads, verifyState(t)
  PROVE  API!Execute(t)
<1> DEFINE r == call[t]
           i == at[t]
           s == API!After(server, r)
<1>1. /\ pc[t] = "apply"
      /\ r.op = "verifyDomain"
      /\ pc' = [pc EXCEPT ![t] = "records"]
      /\ UNCHANGED <<call, at, answer>>
  BY DEF verifyState, Applying, Op, Goto
<1>2. server \in Servers /\ server' \in Servers /\ i \in 1..Len(server.domainList)
  BY <1>1, FoundContainer DEF Op, MockInv, TypeOK
<1>3. \A u \in Threads : ~Halfway(u) /\ (Halfway(u)' <=> u = t)
  BY <1>1, Alone DEF Halfway, Inside, MockInv, TypeOK
<1>4. Seen = server /\ Told = answer
  BY <1>3, ViewIs DEF View
<1>5. Seen' = s
  <2>1. Seen' = Verified(server', at'[t])
    BY <1>3, NextViewIs DEF View
  <2> QED
    BY <1>1, <2>1, VerifiedIs
<1>6. PICK c \in Containers : /\ c.name = server.domainList[i].name
                            /\ s = [server EXCEPT !.domainList[i] = c]
  BY VerifiedIs
<1>7. i = IndexOf(server, r.name)
  BY <1>1 DEF Op, MockInv, Findings, FoundBy
<1>8. API!StatusOf(server, r) = 200
  BY <1>1, <1>2, <1>7, SameData DEF API!StatusOf
<1> HIDE DEF i, s
<1>9. API!Says(s, r) = ShowsDomain(c) /\ s.domainList[i] = c
  BY <1>1, <1>2, <1>6, <1>7, ShowsKept, ContainerChanged
<1>10. Told' = [Told EXCEPT ![t] = ShowsDomain(c)]
  <2>1. \A u \in Threads : Told'[u] = IF u = t THEN ShowsDomain(c) ELSE Told[u]
    BY <1>1, <1>3, <1>4, <1>5, <1>9 DEF Told, i
  <2>2. DOMAIN Told = Threads /\ DOMAIN Told' = Threads
    BY DEF Told
  <2>3. Told' = [u \in Threads |-> Told'[u]] /\ Told = [u \in Threads |-> Told[u]]
    BY DEF Told
  <2> HIDE DEF i
  <2> QED
    BY <2>1, <2>2, <2>3
<1>11. call[t] # Nil /\ r.token /\ answer[t] = Nil
  BY <1>1 DEF MockInv, Conversation, Asking
<1>12. /\ Told[t] = Nil
       /\ API!StatusOf(Seen, r) = 200
       /\ Seen' = API!After(Seen, r)
       /\ Told' = [Told EXCEPT ![t] = API!Says(API!After(Seen, r), r)]
       /\ UNCHANGED call
  BY <1>1, <1>4, <1>5, <1>8, <1>9, <1>10, <1>11 DEF s
<1> QED
  BY <1>11, <1>12 DEF API!Execute, API!Tell, Told

\* A deletion removes the container that the search finds.
LEMMA DeleteExecutes ==
  ASSUME MockInv, MockInv', NEW t \in Threads, deleteDomain(t)
  PROVE  API!Execute(t)
<1> DEFINE r == call[t]
           i == IndexOf(server, r.name)
<1>1. pc[t] = "apply" /\ r.op \in {"deleteDomain", "DeleteDomain"}
  BY DEF deleteDomain, Applying, Op
<1>2. at[t] = i /\ i # 0 /\ ~(r.op = "deleteDomain" /\ r.name \in server.failedDomains)
  BY <1>1 DEF Op, MockInv, Findings, FoundBy
<1>3. API!StatusOf(server, r) = 200
  BY <1>1, <1>2, SameData DEF API!StatusOf
<1>4. API!After(server, r) = [server EXCEPT !.domainList = RemoveAt(@, i)]
  BY <1>1, <1>2, SameData DEF API!After, API!RemoveAt, RemoveAt
<1>5. API!Says(API!After(server, r), r) = Status(200)
  BY <1>1, SameData DEF API!Says
<1>6. server' = [server EXCEPT !.domainList = RemoveAt(@, i)] /\ Tell(t, Status(200))
  BY <1>2 DEF deleteDomain
<1> QED
  BY <1>1, <1>3, <1>4, <1>5, <1>6, AnswersTyped, Executes

\* A step that moves no verification to its second half or out of it, and
\* leaves the server alone, shows the clients the same server.
LEMMA SameView ==
  ASSUME MockInv, MockInv', UNCHANGED server,
         \A u \in Threads : /\ Halfway(u)' <=> Halfway(u)
                            /\ Halfway(u) => at'[u] = at[u]
  PROVE  /\ Seen' = Seen
         /\ DOMAIN Told = Threads /\ DOMAIN Told' = Threads
         /\ \A u \in Threads : Told'[u] = IF Halfway(u) THEN Told[u] ELSE answer'[u]
         /\ \A u \in Threads : ~Halfway(u) => Told[u] = answer[u]
<1>1. Seen' = Seen
  <2>1. CASE \E t \in Threads : Halfway(t)
    <3>1. PICK t \in Threads : Halfway(t)
      BY <2>1
    <3>2. Seen = Verified(server, at[t])
      BY <3>1, ViewIs DEF View
    <3>3. Seen' = Verified(server', at'[t])
      BY <3>1, NextViewIs DEF View
    <3> QED
      BY <3>1, <3>2, <3>3
  <2>2. CASE ~\E t \in Threads : Halfway(t)
    BY <2>2, ViewIs, NextViewIs DEF View
  <2> QED
    BY <2>1, <2>2
<1>2. \A u \in Threads : Told'[u] = IF Halfway(u) THEN Told[u] ELSE answer'[u]
  BY <1>1 DEF Told
<1> QED
  BY <1>1, <1>2 DEF Told

\* The clients see nothing of a step to or from the mutex, or of a search that succeeds.
LEMMA Stutters ==
  ASSUME MockInv, MockInv', NEW t \in Threads, UNCHANGED <<server, call, answer>>,
         NEW step \in PCs \ {"records"}, pc[t] # "records", Goto(t, step),
         \A u \in Threads \ {t} : at'[u] = at[u]
  PROVE  UNCHANGED <<Seen, call, Told>>
<1>1. \A u \in Threads : /\ Halfway(u)' <=> Halfway(u)
                         /\ Halfway(u) => at'[u] = at[u]
  BY DEF Halfway, Goto, MockInv, TypeOK
<1>2. \A u \in Threads : Told'[u] = Told[u]
  BY <1>1, SameView
<1>3. Told' = [u \in Threads |-> Told'[u]] /\ Told = [u \in Threads |-> Told[u]]
  BY DEF Told
<1> QED
  BY <1>1, <1>2, <1>3, SameView

\* The second half of a verification only makes the answer known that is shown.
LEMMA RecordsStutters ==
  ASSUME MockInv, MockInv', NEW t \in Threads, verifyRecords(t)
  PROVE  UNCHANGED <<Seen, call, Told>>
<1>1. /\ pc[t] = "records"
      /\ server' = Verified(server, at[t])
      /\ pc' = [pc EXCEPT ![t] = "unlock"]
      /\ answer' = [answer EXCEPT ![t] = ShowsDomain(server'.domainList[at[t]])]
      /\ UNCHANGED <<call, at>>
  BY DEF verifyRecords, Tell, Goto
<1>2. \A u \in Threads : (Halfway(u) <=> u = t) /\ ~Halfway(u)'
  BY <1>1, Alone DEF Halfway, Inside, MockInv, TypeOK
<1>3. Seen = Verified(server, at[t]) /\ Seen' = server' /\ Told' = answer'
  BY <1>2, ViewIs, NextViewIs DEF View
<1>4. \A u \in Threads : Told'[u] = Told[u]
  BY <1>1, <1>2, <1>3 DEF Told, MockInv, TypeOK
<1>5. Told' = [u \in Threads |-> Told'[u]] /\ Told = [u \in Threads |-> Told[u]]
  BY DEF Told
<1> QED
  BY <1>1, <1>3, <1>4, <1>5

\* A search that fails is told as the interface would.
LEMMA FindExecutes ==
  ASSUME MockInv, MockInv', NEW t \in Threads, FindDomain(t) \/ FindRoute(t)
  PROVE  API!Execute(t) \/ UNCHANGED <<Seen, call, Told>>
<1> DEFINE r == call[t]
           i == IndexOf(server, r.name)
           failed == r.op = "deleteDomain" /\ r.name \in server.failedDomains
<1>1. pc[t] = "handle"
  BY DEF FindDomain, FindRoute, Handling
<1>2. CASE FindDomain(t) /\ (failed \/ i = 0)
  <2>1. r.op \in {"getDomain", "verifyDomain", "deleteDomain", "DeleteDomain"}
    BY <1>2 DEF FindDomain, Handling, Op
  <2> DEFINE code == IF failed THEN 500 ELSE IF r.op = "DeleteDomain" THEN 200 ELSE 404
  <2>2. Tell(t, Status(code)) /\ UNCHANGED server
    BY <1>2 DEF FindDomain, Refuse, Op
  <2>3. API!StatusOf(server, r) = code
    BY <1>2, <2>1, SameData DEF API!StatusOf
  <2>4. code = 200 => API!After(server, r) = server /\ API!Says(server, r) = Status(200)
    <3> SUFFICES ASSUME code = 200
                 PROVE  API!After(server, r) = server /\ API!Says(server, r) = Status(200)
      OBVIOUS
    <3>1. r.op = "DeleteDomain" /\ i = 0
      BY <1>2
    <3>2. API!After(server, r) = [server EXCEPT !.domainList = server.domainList]
      BY <3>1, SameData DEF API!After
    <3>3. [server EXCEPT !.domainList = server.domainList] = server
      BY DEF MockInv, TypeOK, Servers
    <3> QED
      BY <3>1, <3>2, <3>3, SameData DEF API!Says
  <2>5. Status(code) \in Answers
    BY AnswersTyped
  <2> HIDE DEF code
  <2> QED
    BY <1>1, <2>2, <2>3, <2>4, <2>5, Executes
<1>3. CASE FindDomain(t) /\ ~failed /\ i # 0
  <2>1. at' = [at EXCEPT ![t] = i] /\ Goto(t, "apply") /\ UNCHANGED <<server, call, answer>>
    BY <1>3 DEF FindDomain, Refuse, Op
  <2>2. \A u \in Threads \ {t} : at'[u] = at[u]
    BY <2>1 DEF MockInv, TypeOK
  <2> QED
    BY <1>1, <2>1, <2>2, Stutters DEF PCs
<1>4. CASE FindRoute(t) /\ ~Found(server, r.id)
  <2>1. r.op = "updateRoute" /\ Tell(t, Status(404)) /\ UNCHANGED server
    BY <1>4 DEF FindRoute, Refuse, Handling, Op
  <2>2. API!StatusOf(server, r) = 404
    BY <1>4, <2>1, SameData DEF API!StatusOf
  <2> QED
    BY <1>1, <2>1, <2>2, AnswersTyped, Executes
<1>5. CASE FindRoute(t) /\ Found(server, r.id)
  <2>1. Goto(t, "apply") /\ UNCHANGED <<server, call, at, answer>>
    BY <1>5 DEF FindRoute, Refuse
  <2> QED
    BY <1>1, <2>1, Stutters DEF PCs
<1> QED
  BY <1>2, <1>3, <1>4, <1>5

\* A route that is made is shown under its new identifier.
LEMMA CreateRouteExecutes ==
  ASSUME MockInv, MockInv', NEW t \in Threads, createRoute(t)
  PROVE  API!Execute(t)
<1> DEFINE r == call[t]
           form == call[t].form
           new == NewRoute(form)
           s == [server EXCEPT !.routes = Append(@, new)]
<1>1. pc[t] = "handle" /\ r.op = "createRoute" /\ form \in Forms /\ form # Nil
  BY Asked DEF createRoute, Handling, Op, WellFormed, Requests
<1>2. API!StatusOf(server, r) = IF form.description = Fail THEN 500
                                ELSE IF form.priority = Broken THEN 400 ELSE 200
  BY <1>1 DEF API!StatusOf
<1>3. CASE form.description = Fail \/ form.priority = Broken
  <2> DEFINE code == IF form.description = Fail THEN 500 ELSE 400
  <2>1. Tell(t, Status(code)) /\ UNCHANGED server
    BY <1>3 DEF createRoute, Refuse
  <2>2. API!StatusOf(server, r) = code /\ code # 200 /\ Status(code) \in Answers
    BY <1>2, <1>3, AnswersTyped
  <2> QED
    BY <1>1, <2>1, <2>2, Executes
<1>4. CASE form.description # Fail /\ form.priority # Broken
  <2>1. server' = s /\ Tell(t, ShowsRoute(Len(s.routes), new))
    BY <1>4 DEF createRoute, Refuse
  <2>2. API!After(server, r) = s
    BY <1>1, SameData DEF API!After
  <2>3. new \in StoredRoutes /\ server.routes \in Seq(StoredRoutes \cup {Nil})
    BY <1>1, <1>4, NewRouteTyped DEF MockInv, TypeOK, Servers
  <2> HIDE DEF new
  <2>4. /\ s.routes = Append(server.routes, new)
        /\ s.routes \in Seq(StoredRoutes \cup {Nil})
    BY <2>3, AppendProperties DEF MockInv, TypeOK, Servers
  <2> HIDE DEF s
  <2>5. s.routes[Len(s.routes)] = new /\ Len(s.routes) \in Nat
    BY <2>3, <2>4, AppendProperties
  <2>6. API!Says(s, r) = ShowsRoute(Len(s.routes), new)
    BY <1>1, <2>5, SameData DEF API!Says
  <2>7. ShowsRoute(Len(s.routes), new) \in Answers
    BY <2>3, <2>5, AnswersTyped
  <2> QED
    BY <1>1, <1>2, <1>4, <2>1, <2>2, <2>6, <2>7, Executes
<1> QED
  BY <1>3, <1>4

\* A route is looked at and deleted as the interface says, failures first.
LEMMA RouteExecutes ==
  ASSUME MockInv, MockInv', NEW t \in Threads, getRoute(t) \/ deleteRoute(t)
  PROVE  API!Execute(t)
<1> DEFINE r == call[t]
           i == call[t].id
<1>1. pc[t] = "handle" /\ r.op \in {"getRoute", "deleteRoute"}
  BY DEF getRoute, deleteRoute, Handling, Op
<1>2. i \in Nat
  BY <1>1, Asked DEF Requests
<1>3. CASE getRoute(t)
  <2>1. r.op = "getRoute"
    BY <1>3 DEF getRoute, Handling, Op
  <2>2. API!StatusOf(server, r) = IF i \in server.failGet THEN 500
                                  ELSE IF ~Found(server, i) THEN 404 ELSE 200
    BY <2>1, SameData DEF API!StatusOf
  <2>3. CASE i \in server.failGet \/ ~Found(server, i)
    <3> DEFINE code == IF i \in server.failGet THEN 500 ELSE 404
    <3>1. Tell(t, Status(code)) /\ UNCHANGED server
      BY <1>3, <2>3 DEF getRoute, Refuse
    <3>2. API!StatusOf(server, r) = code /\ code # 200 /\ Status(code) \in Answers
      BY <2>2, <2>3, AnswersTyped
    <3> QED
      BY <1>1, <3>1, <3>2, Executes
  <2>4. CASE i \notin server.failGet /\ Found(server, i)
    <3>1. Tell(t, ShowsRoute(i, server.routes[i])) /\ UNCHANGED server
      BY <1>3, <2>4 DEF getRoute
    <3>2. API!After(server, r) = server
      BY <2>1 DEF API!After
    <3>3. API!Says(server, r) = ShowsRoute(i, server.routes[i])
      BY <2>1, SameData DEF API!Says
    <3>4. server.routes[i] \in StoredRoutes
      BY <2>4, ElementOfSeq, LenProperties DEF Found, MockInv, TypeOK, Servers
    <3>5. ShowsRoute(i, server.routes[i]) \in Answers
      BY <1>2, <3>4, AnswersTyped
    <3> QED
      BY <1>1, <2>2, <2>4, <3>1, <3>2, <3>3, <3>5, Executes
  <2> QED
    BY <2>3, <2>4
<1>4. CASE deleteRoute(t)
  <2>1. r.op = "deleteRoute"
    BY <1>4 DEF deleteRoute, Handling, Op
  <2>2. API!StatusOf(server, r) = IF i \in server.failDelete THEN 500 ELSE 200
    BY <2>1 DEF API!StatusOf
  <2>3. CASE i \in server.failDelete
    <3>1. Tell(t, Status(500)) /\ UNCHANGED server
      BY <1>4, <2>3 DEF deleteRoute, Refuse
    <3> QED
      BY <1>1, <2>2, <2>3, <3>1, AnswersTyped, Executes
  <2>4. CASE i \notin server.failDelete
    <3> DEFINE a == [Status(200) EXCEPT !.id = i]
    <3>1. /\ server' = IF Found(server, i) THEN [server EXCEPT !.routes[i] = Nil] ELSE server
          /\ Tell(t, a)
      BY <1>4, <2>4 DEF deleteRoute, Refuse
    <3>2. API!After(server, r) =
            IF Found(server, i) THEN [server EXCEPT !.routes[i] = Nil] ELSE server
      BY <2>1, SameData DEF API!After
    <3>3. API!Says(API!After(server, r), r) = a
      BY <2>1, SameData DEF API!Says
    <3>4. a \in Answers
      BY <1>2, AnswersTyped
    <3> HIDE DEF a
    <3> QED
      BY <1>1, <2>2, <2>4, <3>1, <3>2, <3>3, <3>4, Executes
  <2> QED
    BY <2>3, <2>4
<1> QED
  BY <1>3, <1>4

\* The copy that an update works on is still the route when it is written back.
LEMMA UpdateRouteExecutes ==
  ASSUME MockInv, MockInv', NEW t \in Threads, updateRoute(t)
  PROVE  API!Execute(t)
<1> DEFINE r == call[t]
           i == call[t].id
           form == call[t].form
           new == Merged(copy[t], form)
           s == [server EXCEPT !.routes[i] = new]
<1>1. pc[t] = "apply" /\ r.op = "updateRoute"
  BY DEF updateRoute, Applying, Op
<1>2. i \in Nat /\ form \in Forms /\ form # Nil
  BY <1>1, Asked DEF WellFormed, Requests
<1>3. Found(server, i) /\ copy[t] = server.routes[i]
  BY <1>1 DEF Op, MockInv, Findings, FoundBy
<1>4. server.routes \in Seq(StoredRoutes \cup {Nil}) /\ i \in 1..Len(server.routes)
      /\ server.routes[i] \in StoredRoutes
  BY <1>3, ElementOfSeq, LenProperties DEF Found, MockInv, TypeOK, Servers
<1>5. API!StatusOf(server, r) = IF form.priority = Broken THEN 400 ELSE 200
  BY <1>1, <1>2, <1>3, SameData DEF API!StatusOf
<1>6. CASE form.priority = Broken
  <2>1. Tell(t, Status(400)) /\ UNCHANGED server
    BY <1>6 DEF updateRoute, Refuse
  <2> QED
    BY <1>1, <1>5, <1>6, <2>1, AnswersTyped, Executes
<1>7. CASE form.priority # Broken
  <2>1. server' = s /\ Tell(t, ShowsRoute(i, new))
    BY <1>7 DEF updateRoute
  <2>2. new \in StoredRoutes
    BY <1>2, <1>3, <1>4, <1>7, MergedTyped
  <2>3. API!After(server, r) = s
    BY <1>1, <1>3, SameData DEF API!After
  <2> HIDE DEF new
  <2>4. s.routes[i] = new
    <3>1. [server.routes EXCEPT ![i] = new][i] = new
      BY <1>4, <2>2, ExceptSeq
    <3> QED
      BY <3>1 DEF MockInv, TypeOK, Servers
  <2> HIDE DEF s
  <2>5. API!Says(s, r) = ShowsRoute(i, new)
    BY <1>1, <2>4, SameData DEF API!Says
  <2>6. ShowsRoute(i, new) \in Answers
    BY <1>2, <2>2, AnswersTyped
  <2> QED
    BY <1>1, <1>5, <1>7, <2>1, <2>3, <2>5, <2>6, Executes
<1> QED
  BY <1>6, <1>7

\* What a test arranges happens at one moment.
LEMMA ArrangeExecutes ==
  ASSUME MockInv, MockInv', NEW t \in Threads, Arrange(t)
  PROVE  API!Execute(t)
<1> DEFINE r == call[t]
<1>1. pc[t] = "handle" /\ Tell(t, Status(200))
      /\ r.op \in {"ActivateDomain", "ActivateMXDomain", "FailedDomain", "FailGet", "FailDelete"}
  BY DEF Arrange, Handling, Op
<1>2. API!StatusOf(server, r) = 200
  BY <1>1 DEF API!StatusOf
<1>3. server' = API!After(server, r)
  BY <1>1 DEF Arrange, API!After, Op
<1>4. \A s : API!Says(s, r) = Status(200)
  BY <1>1, SameData DEF API!Says
<1> QED
  BY <1>1, <1>2, <1>3, <1>4, AnswersTyped, Executes

\* An answer that comes or goes while the server stays as it is.
LEMMA AnswerShows ==
  ASSUME MockInv, MockInv', NEW t \in Threads, UNCHANGED server, NEW a,
         NEW step \in PCs \ {"records"}, pc[t] # "records", Goto(t, step),
         answer' = [answer EXCEPT ![t] = a],
         \A u \in Threads \ {t} : at'[u] = at[u]
  PROVE  Seen' = Seen /\ Told[t] = answer[t] /\ Told' = [Told EXCEPT ![t] = a]
<1>1. \A u \in Threads : /\ Halfway(u)' <=> Halfway(u)
                         /\ Halfway(u) => at'[u] = at[u]
  BY DEF Halfway, Goto, MockInv, TypeOK
<1>2. ~Halfway(t)
  BY DEF Halfway
<1>3. \A u \in Threads : Told'[u] = IF u = t THEN a ELSE Told[u]
  <2> TAKE u \in Threads
  <2>1. CASE u = t
    BY <1>1, <1>2, <2>1, SameView DEF MockInv, TypeOK
  <2>2. CASE u # t
    BY <1>1, <2>2, SameView DEF MockInv, TypeOK
  <2> QED
    BY <2>1, <2>2
<1>4. Told' = [u \in Threads |-> Told'[u]] /\ Told = [u \in Threads |-> Told[u]]
  BY DEF Told
<1>5. Told' = [Told EXCEPT ![t] = a]
  BY <1>3, <1>4
<1> QED
  BY <1>1, <1>2, <1>5, SameView

\* What goes on around the handlers: requests, refusals without a token, the
\* list of domains, and answers sent.
LEMMA AroundShows ==
  ASSUME MockInv, MockInv', NEW t \in Threads,
         Ask(t) \/ authHandler(t) \/ Lock(t) \/ Unlock(t) \/ Return(t)
  PROVE  API!Ask(t) \/ API!Execute(t) \/ API!Return(t) \/ UNCHANGED <<Seen, call, Told>>
<1>1. CASE Ask(t)
  <2>1. PICK r \in Calls : /\ call' = [call EXCEPT ![t] = r]
                           /\ Goto(t, IF r.op \in HTTPRequests THEN "auth" ELSE "lock")
    BY <1>1 DEF Ask
  <2>2. pc[t] = "idle" /\ UNCHANGED <<server, at, answer>> /\ call[t] = Nil
    BY <1>1 DEF Ask, MockInv, Conversation
  <2>3. \A u \in Threads : Halfway(u)' <=> Halfway(u)
    BY <2>1, <2>2 DEF Halfway, Goto, MockInv, TypeOK
  <2>4. \A u \in Threads : Told'[u] = Told[u]
    BY <2>2, <2>3, SameView
  <2>5. Told' = [u \in Threads |-> Told'[u]] /\ Told = [u \in Threads |-> Told[u]]
    BY DEF Told
  <2>6. Seen' = Seen /\ Told' = Told
    BY <2>2, <2>3, <2>4, <2>5, SameView
  <2> QED
    BY <2>1, <2>2, <2>6 DEF API!Ask, Told
<1>2. CASE authHandler(t)
  <2> DEFINE r == call[t]
  <2>1. pc[t] = "auth" /\ UNCHANGED <<server, call, at>> /\ r # Nil /\ answer[t] = Nil
    BY <1>2 DEF authHandler, MockInv, Conversation
  <2>2. CASE ~r.token
    <3>1. answer' = [answer EXCEPT ![t] = Status(401)] /\ Goto(t, "reply")
      BY <1>2, <2>2 DEF authHandler
    <3>2. Seen' = Seen /\ Told[t] = Nil /\ Told' = [Told EXCEPT ![t] = Status(401)]
      BY <2>1, <3>1, AnswerShows DEF PCs
    <3> QED
      BY <2>1, <2>2, <3>2, SameData DEF API!Execute, API!Tell, Told
  <2>3. CASE r.token /\ r.op = "getDomains"
    <3>1. answer' = [answer EXCEPT ![t] = Status(200)] /\ Goto(t, "reply")
      BY <1>2, <2>3 DEF authHandler, Op
    <3>2. Seen' = Seen /\ Told[t] = Nil /\ Told' = [Told EXCEPT ![t] = Status(200)]
      BY <2>1, <3>1, AnswerShows DEF PCs
    <3>3. \A s : API!StatusOf(s, r) = 200 /\ API!After(s, r) = s /\ API!Says(s, r) = Status(200)
      BY <2>3, SameData DEF API!StatusOf, API!After, API!Says
    <3>4. /\ API!StatusOf(Seen, r) = 200
          /\ Seen' = API!After(Seen, r)
          /\ Told' = [Told EXCEPT ![t] = API!Says(API!After(Seen, r), r)]
      BY <3>2, <3>3
    <3> QED
      BY <2>1, <2>3, <3>2, <3>4 DEF API!Execute, API!Tell, Told
  <2>4. CASE r.token /\ r.op # "getDomains"
    <3>1. Goto(t, "lock") /\ UNCHANGED answer
      BY <1>2, <2>4 DEF authHandler, Op
    <3> QED
      BY <2>1, <3>1, Stutters DEF PCs
  <2> QED
    BY <2>2, <2>3, <2>4
<1>3. CASE Lock(t) \/ Unlock(t)
  <2>1. PICK step \in {"handle", "reply"} : Goto(t, step)
    BY <1>3 DEF Lock, Unlock
  <2>2. pc[t] # "records" /\ UNCHANGED <<server, call, at, answer>>
    BY <1>3 DEF Lock, Unlock
  <2> QED
    BY <2>1, <2>2, Stutters DEF PCs
<1>4. CASE Return(t)
  <2>1. /\ pc[t] = "reply"
        /\ Goto(t, "idle")
        /\ call' = [call EXCEPT ![t] = Nil]
        /\ answer' = [answer EXCEPT ![t] = Nil]
        /\ UNCHANGED server
        /\ \A u \in Threads \ {t} : at'[u] = at[u]
    BY <1>4 DEF Return, MockInv, TypeOK
  <2>2. answer[t] # Nil
    BY <2>1 DEF MockInv, Conversation
  <2>3. Seen' = Seen /\ Told[t] # Nil /\ Told' = [Told EXCEPT ![t] = Nil]
    BY <2>1, <2>2, AnswerShows DEF PCs
  <2> QED
    BY <2>1, <2>3 DEF API!Return, Told
<1> QED
  BY <1>1, <1>2, <1>3, <1>4

\* Every step of the mock server is one the interface allows, or is not seen.
LEMMA StepShows ==
  ASSUME MockInv, MockInv', [Next]_vars
  PROVE  [API!Next]_<<Seen, call, Told>>
<1>1. CASE UNCHANGED vars
  <2>1. UNCHANGED <<Seen, call, Told>>
    BY <1>1 DEF vars, Seen, Told, Halfway, Verified
  <2> QED
    BY <2>1
<1>2. ASSUME NEW t \in Threads, Handle(t)
      PROVE  API!Execute(t) \/ UNCHANGED <<Seen, call, Told>>
  BY <1>2, CreateExecutes, FindExecutes, GetDomainExecutes, VerifyExecutes, RecordsStutters,
     DeleteExecutes, CreateRouteExecutes, RouteExecutes, UpdateRouteExecutes, ArrangeExecutes
  DEF Handle
<1> QED
  BY <1>1, <1>2, AroundShows DEF Next, Serve, API!Next

\* Requests of the controllers and calls of a test, any number of them at the
\* same time, answer and change the mock as if each ran alone, at one moment
\* between its start and its answer.
THEOREM ActsOneAtATime == Spec => OneAtATime
<1>1. Init => API!Init
  <2> SUFFICES ASSUME Init PROVE API!Init
    OBVIOUS
  <2>1. \A u \in Threads : ~Halfway(u)
    BY DEF Init, Halfway
  <2>2. Seen = server /\ Told = [t \in Threads |-> Nil]
    BY <2>1 DEF Init, Seen, Told
  <2>3. API!NewServer = NewServer
    BY DEF API!NewServer, NewServer
  <2> QED
    BY <2>2, <2>3 DEF Init, API!Init, Told
<1>2. MockInv /\ MockInv' /\ [Next]_vars => [API!Next]_(API!apiVars)
  BY StepShows DEF API!apiVars, Told
<1> QED
  BY <1>1, <1>2, Invariant, PTL DEF Spec, OneAtATime, API!Spec
=============================================================================
