---------------------------- MODULE DomainObjects ----------------------------
(***************************************************************************)
(* The Domain custom resource: the part of its spec and status the         *)
(* controllers branch on, its finalizers, and what the API server makes of *)
(* an object when it is created, released or deleted.                      *)
(***************************************************************************)
EXTENDS Integers

CONSTANTS
  Keys,   \* namespaced names of Domain objects
  Names,  \* Mailgun domain names (spec.domain)
  Nil     \* no object

\* spec.export: credentials are not exported, exported to a named Secret, or
\* asked for without a Secret name.
Specs == [name : Names, externalDNS : BOOLEAN, forceMX : BOOLEAN,
          export : {"off", "named", "unnamed"}]

States == {"", "created", "activated", "failed"}

Statuses == [state : States, notManaged : BOOLEAN, dnsCreated : BOOLEAN]

Finalizers == {"domain", "foreground"}

Objects == [uid : Nat, spec : Specs, deleting : BOOLEAN,
            finalizers : SUBSET Finalizers, status : Statuses]

Registrations == [owner : Nat, password : Nat]

ASSUME ObjectsAssumption ==
  /\ Nil \notin Keys
  /\ Nil \notin Objects
  /\ Nil \notin Registrations

-----------------------------------------------------------------------------
NewObject(uid, spec) ==
  [uid |-> uid, spec |-> spec, deleting |-> FALSE, finalizers |-> {},
   status |-> [state |-> "", notManaged |-> FALSE, dnsCreated |-> FALSE]]

WithState(o, s) == [o EXCEPT !.status.state = s]

WithFinalizer(o, f) == [o EXCEPT !.finalizers = @ \cup {f}]

\* The last finalizer of an object marked for deletion takes it away.
WithoutFinalizer(o, f) ==
  IF o.deleting /\ o.finalizers \subseteq {f}
  THEN Nil
  ELSE [o EXCEPT !.finalizers = @ \ {f}]

\* What a deletion makes of an object: finalizers hold it back.
Deleted(o, mode) ==
  LET kept == IF mode = "foreground" THEN WithFinalizer(o, "foreground") ELSE o
  IN  IF kept.finalizers = {} THEN Nil ELSE [kept EXCEPT !.deleting = TRUE]

=============================================================================
