-------------------------- MODULE DomainProperties --------------------------
(***************************************************************************)
(* What the Domain controller promises, stated over DomainController.      *)
(***************************************************************************)
EXTENDS DomainController

Live(k) == domains[k] # Nil /\ ~domains[k].deleting

SameDomain(k) == /\ domains[k] # Nil
                 /\ domains'[k] # Nil
                 /\ domains'[k].uid = domains[k].uid

-----------------------------------------------------------------------------
(* Safety. *)

\* A Domain the controller still has to do something for: take its finalizer
\* off, put it on, or bring its state to an end.
NeedsWork(k) ==
  \/ /\ domains[k] # Nil
     /\ domains[k].deleting
     /\ "domain" \in domains[k].finalizers
  \/ /\ Live(k)
     /\ "domain" \notin domains[k].finalizers \/ domains[k].status.state \in {"", "created"}

\* A version on its way to the informer will queue the key.
EventComing(k) ==
  \E i \in 1..Len(pending[k]) :
    PassesPredicate(IF i = 1 THEN cache[k] ELSE pending[k][i - 1], pending[k][i])

\* Reconcile is level triggered, but the predicate hides the status changes it
\* makes itself: whatever conflicts, errors, restarts and stale reads happen, a
\* Domain with work left is queued, waits for a timer, is being reconciled, or
\* has an event coming that queues it.
NoLostWakeup ==
  \A k \in Keys : NeedsWork(k) =>
    k \in queue \cup delayed \/ key = k \/ EventComing(k)

\* The finalizer is there so that no domain stays at Mailgun behind a Domain
\* object that is gone: every domain the operator registered belongs to a
\* stored object that still holds it.
NoOrphanedDomain ==
  \A n \in Names : Registered(n) /\ mailgun[n].owner # 0 =>
    \E k \in Keys : /\ domains[k] # Nil
                    /\ domains[k].uid = mailgun[n].owner
                    /\ "domain" \in domains[k].finalizers

\* deleteDomain works on a copy that may be old, of a key that may have been
\* created again: it never takes away the domain of an object nobody deletes.
LiveDomainNeverDeleted ==
  [][\A n \in Names : Registered(n) /\ ~Registered(n)' =>
       outside' # outside \/ ~\E k \in Keys : Live(k) /\ domains[k].spec.name = n]_vars

\* Status.State only moves forward, whatever copies the worker writes from:
\* a failed Domain stays failed, and an activated one fails only on deletion.
StatusMachine ==
  [][\A k \in Keys : SameDomain(k) =>
       LET from == domains[k].status.state
           to == domains'[k].status.state
       IN  \/ from = to
           \/ from = ""
           \/ from = "created" /\ to \in {"activated", "failed"}
           \/ from = "activated" /\ to = "failed" /\ domains[k].deleting]_vars

\* The worker writes whole objects from its copy: it never takes back an edit
\* of the spec, nor a deletion, that happened since it read the copy.
UserIntentKept ==
  [][\A k \in Keys : SameDomain(k) =>
       /\ domains'[k].spec # domains[k].spec => edits' # edits
       /\ domains[k].deleting => domains'[k].deleting]_vars

\* A Domain is marked activated only when Mailgun has verified it, and its
\* receiving records too if the spec asks for that at this moment.
ActivationIsEarned ==
  [][\A k \in Keys :
       SameDomain(k) /\ domains[k].status.state # "activated"
                     /\ domains'[k].status.state = "activated" =>
         LET spec == domains'[k].spec
         IN  spec.name \in dnsReady /\ (spec.forceMX => spec.name \in mxReady)]_vars

\* A Domain that reached created or activated has its domain at Mailgun, however
\* often it was registered on the way, and can log in there: the export Secret it
\* asks for holds the password this domain was created with.
UsableCredentials ==
  \A k \in Keys :
    Live(k) /\ domains[k].status.state \in {"created", "activated"} =>
      LET spec == domains[k].spec
      IN  /\ Registered(spec.name)
          /\ spec.export = "named" => secrets[k] = mailgun[spec.name].password

\* Status.DnsEntrypointCreated is never set on a Domain whose DNSEndpoint does
\* not exist: the controller would not create it again.
DnsFlagHonest ==
  \A k \in Keys : Live(k) /\ domains[k].status.dnsCreated => endpoints[k] # 0

-----------------------------------------------------------------------------
(* Liveness, under Fairness. *)

\* The records its verification looks for are there.
Published(k) ==
  /\ Live(k)
  /\ domains[k].spec.name \in dnsReady
  /\ domains[k].spec.forceMX => domains[k].spec.name \in mxReady

\* A Domain whose records are published is activated, fails, is deleted or asks
\* for more records: the controller does not retry it for ever.
VerificationEnds ==
  \A k \in Keys :
    Published(k) ~> ~Published(k) \/ domains[k].status.state \in {"activated", "failed"}

Undisturbed == faults = 0 /\ restarts = 0 /\ edits = 0

\* It is activated, unless a call fails, the manager dies or a user changes the
\* spec on the way.
PublishedGetsActivated ==
  \A k \in Keys : Published(k) ~>
    ~Published(k) \/ domains[k].status.state = "activated" \/ ~Undisturbed

-----------------------------------------------------------------------------
(* What the repository says of the controller, and its code does not do. *)

\* domain_controller_test.go: "should not remove finalizer if unable to remove
\* domain from mailgun".
FinalizerOutlivesDomain ==
  [][\A k \in Keys :
       /\ domains[k] # Nil
       /\ "domain" \in domains[k].finalizers
       /\ Registered(domains[k].spec.name)
       /\ mailgun[domains[k].spec.name].owner = domains[k].uid
       => /\ domains'[k] # Nil
          /\ "domain" \in domains'[k].finalizers]_vars
=============================================================================
