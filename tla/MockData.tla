------------------------------ MODULE MockData ------------------------------
(***************************************************************************)
(* What the Mailgun mock server keeps (internal/utils/                     *)
(* mailgun_mock_server.go), the requests its clients send and the calls    *)
(* tests make, and what they compute.  Text is abstracted to what is       *)
(* compared: a form field has a value, is Empty, or is Broken where a      *)
(* number is wanted.  The identifier of a route, ten random characters, is *)
(* a number never used before.                                             *)
(***************************************************************************)
EXTENDS Integers, SequencesExt

CONSTANTS
  Names,    \* domain names
  Texts,    \* descriptions, expressions and lists of actions
  Fail,     \* the description "fail"
  Empty,    \* a form field without a value
  Broken,   \* a priority that is no number
  Nil,      \* no route, no request, no answer
  Threads,  \* the clients and the tests
  Calls,    \* the requests and calls they make
  MaxCalls  \* bound: how many they make in all

HTTPRequests ==
  {"createDomain", "getDomains", "getDomain", "verifyDomain", "deleteDomain",
   "createRoute", "getRoute", "updateRoute", "deleteRoute"}

TestCalls ==
  {"AddDomain", "ActivateDomain", "ActivateMXDomain", "FailedDomain", "DeleteDomain",
   "FailGet", "FailDelete"}

Fields == Texts \cup {Fail, Empty}

Forms == [description : Fields, expression : Fields, actions : Fields,
          priority : Nat \cup {Empty, Broken}]

Requests == [op : HTTPRequests \cup TestCalls, token : BOOLEAN,
             name : Names \cup {Nil}, id : Nat, form : Forms \cup {Nil}]

\* The path or the argument names a domain, or the route's form is posted;
\* no token is looked at in the calls of a test.
WellFormed(r) ==
  /\ r.op \in TestCalls => r.token
  /\ r.op \notin {"getDomains", "createRoute", "getRoute", "updateRoute", "deleteRoute",
                  "FailGet", "FailDelete"} => r.name \in Names
  /\ r.op \in {"createRoute", "updateRoute"} => r.form # Nil

DNS == {"unknown", "valid"}
Containers == [name : Names, state : {"unverified", "active"}, receiving : DNS, sending : DNS]
StoredRoutes == [description : Fields, expression : Fields, actions : Fields, priority : Nat]

\* The fields of MailgunMockServer; routes[i] is Nil when route i is deleted.
Servers == [domainList : Seq(Containers), activeDomains : SUBSET Names,
            activeMXDomains : SUBSET Names, failedDomains : SUBSET Names,
            routes : Seq(StoredRoutes \cup {Nil}),
            failGet : SUBSET Nat, failDelete : SUBSET Nat]

NewServer == [domainList |-> <<>>, activeDomains |-> {}, activeMXDomains |-> {},
              failedDomains |-> {}, routes |-> <<>>, failGet |-> {}, failDelete |-> {}]

\* An answer has a status, and the domain or the route it shows.
Answers == [status : {200, 400, 401, 404, 500}, domain : Containers \cup {Nil},
            id : Nat, route : StoredRoutes \cup {Nil}]

ASSUME MockAssumption ==
  /\ Nil \notin Names \cup Threads \cup Forms \cup Requests \cup Answers
  /\ Calls \subseteq Requests
  /\ \A r \in Calls : WellFormed(r)
  /\ MaxCalls \in Nat

Status(code) == [status |-> code, domain |-> Nil, id |-> 0, route |-> Nil]
ShowsDomain(d) == [Status(200) EXCEPT !.domain = d]
ShowsRoute(i, r) == [Status(200) EXCEPT !.id = i, !.route = r]

-----------------------------------------------------------------------------
Valid(condition) == IF condition THEN "valid" ELSE "unknown"

NewContainer(s, n) ==
  [name |-> n,
   state |-> IF n \in s.activeDomains THEN "active" ELSE "unverified",
   receiving |-> Valid(n \in s.activeMXDomains),
   sending |-> Valid(n \in s.activeDomains)]

\* The first container of a name, or 0.
IndexOf(s, n) == SelectInSeq(s.domainList, LAMBDA d : d.name = n)

Found(s, i) == i \in DOMAIN s.routes /\ s.routes[i] # Nil

NewRoute(form) ==
  [form EXCEPT !.priority = IF @ = Empty THEN 0 ELSE @]

\* A field without a value leaves what the route has.
Merged(route, form) ==
  [f \in DOMAIN route |-> IF form[f] = Empty THEN route[f] ELSE form[f]]
=============================================================================
