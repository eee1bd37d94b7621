------------------------------ MODULE Startup ------------------------------
(***************************************************************************)
(* How a manager process comes up (cmd/main.go and                         *)
(* internal/configuration/configuration.go): it reads the ConfigMap and    *)
(* the Secret it is given, lays the one over the other, parses the result, *)
(* and only then waits until it is the leader.  Every error and the panic  *)
(* of the parser end the process; the kubelet starts it again.             *)
(***************************************************************************)
EXTENDS Integers

CONSTANTS
  Pods,       \* the pods a Deployment of the operator has at a time
  Keys,       \* json names of the fields of configuration.Data
  NumberKeys, \* those that are numbers
  Texts,      \* values of the others
  Broken,     \* the value of a number field that is no number
  Nil,        \* no object, no value, no leader
  Defaults,   \* NewConfiguration
  Sources,    \* what users may write into the ConfigMap or the Secret
  MaxEdits,   \* bound: how often they do
  MaxDeaths   \* bound: how often a process ends for another reason than its configuration

Configurations == [Keys -> Texts \cup Int]

\* The keys and values of a ConfigMap or a Secret, as far as they are fields: a
\* number or something that is none, or any text.
FieldsOf(map) ==
  /\ DOMAIN map \subseteq Keys
  /\ \A k \in DOMAIN map : map[k] \in IF k \in NumberKeys THEN Int \cup {Broken} ELSE Texts

ASSUME StartupAssumption ==
  /\ NumberKeys \subseteq Keys
  /\ Defaults \in Configurations
  /\ \A s \in Sources : s # Nil => FieldsOf(s)
  /\ MaxEdits \in Nat
  /\ MaxDeaths \in Nat

VARIABLES
  configMap, \* the ConfigMap: its keys and values, or Nil
  secret,    \* the Secret, or Nil
  pc,        \* pc[p]: what the process of pod p does next
  data,      \* data[p]: configData, the keys and values read so far
  config,    \* config[p]: the configuration it will run with
  leader,    \* the pod that holds the lease, or Nil
  offered,   \* offered[p]: what the two reads of its process may give, <<ConfigMap, Secret>>
  edits,     \* edits so far
  deaths     \* such ends so far

sources == <<configMap, secret>>
vars == <<sources, pc, data, config, leader, offered, edits, deaths>>

Goto(p, step) == pc' = [pc EXCEPT ![p] = step]

\* os.Exit(1), a panic, or the end of the pod: the lease runs out.
Exit(p) ==
  /\ Goto(p, "down")
  /\ data' = [data EXCEPT ![p] = <<>>]
  /\ config' = [config EXCEPT ![p] = Defaults]
  /\ leader' = IF leader = p THEN Nil ELSE leader
  /\ offered' = [offered EXCEPT ![p] = {}]
  /\ UNCHANGED <<sources, edits>>

\* A call to the API server that fails, a lease that is lost, a pod that goes.
Dies(p) ==
  /\ pc[p] # "down"
  /\ deaths < MaxDeaths
  /\ deaths' = deaths + 1
  /\ Exit(p)

-----------------------------------------------------------------------------
(* main *)

Start(p) ==
  /\ pc[p] = "down"
  /\ Goto(p, "readConfigMap")
  /\ offered' = [offered EXCEPT ![p] = {<<configMap, secret>>}]
  /\ UNCHANGED <<sources, data, config, leader, edits, deaths>>

\* A ConfigMap or a Secret that is not found is an empty one.
Content(source) == IF source = Nil THEN <<>> ELSE source

\* The keys of a map, laid over those of another.
Overlay(old, new) ==
  [k \in DOMAIN old \cup DOMAIN new |-> IF k \in DOMAIN new THEN new[k] ELSE old[k]]

readConfigMap(p) ==
  /\ pc[p] = "readConfigMap"
  /\ data' = [data EXCEPT ![p] = Overlay(@, Content(configMap))]
  /\ Goto(p, "readSecret")
  /\ UNCHANGED <<sources, config, leader, offered, edits, deaths>>

\* Mutant: the ConfigMap has the last word.
readSecretUnder(p) ==
  /\ pc[p] = "readSecret"
  /\ data' = [data EXCEPT ![p] = Overlay(Content(secret), @)]
  /\ Goto(p, "hashToConfig")
  /\ UNCHANGED <<sources, config, leader, offered, edits, deaths>>

\* Mutant: there has to be a Secret.
readSecretStrict(p) ==
  /\ pc[p] = "readSecret"
  /\ secret # Nil
  /\ data' = [data EXCEPT ![p] = Overlay(@, Content(secret))]
  /\ Goto(p, "hashToConfig")
  /\ UNCHANGED <<sources, config, leader, offered, edits, deaths>>

readSecret(p) ==
  /\ pc[p] = "readSecret"
  /\ data' = [data EXCEPT ![p] = Overlay(@, Content(secret))]
  /\ Goto(p, "hashToConfig")
  /\ UNCHANGED <<sources, config, leader, offered, edits, deaths>>

\* Mutant: a number that does not parse is stored as it is.
hashUnparsed(p) ==
  /\ pc[p] = "hashToConfig"
  /\ config' = [config EXCEPT ![p] = Overlay(@, data[p])]
  /\ Goto(p, "lead")
  /\ UNCHANGED <<sources, data, leader, offered, edits, deaths>>

\* A number that does not parse is a panic that nothing recovers.
hashToConfig(p) ==
  /\ pc[p] = "hashToConfig"
  /\ LET broken == \E k \in NumberKeys \cap DOMAIN data[p] : data[p][k] = Broken
     IN  \/ broken /\ Exit(p)
         \/ /\ ~broken
            /\ config' = [config EXCEPT ![p] = Overlay(@, data[p])]
            /\ Goto(p, "lead")
            /\ UNCHANGED <<sources, data, leader, offered, edits>>
  /\ UNCHANGED deaths

\* mgr.Start runs the controllers once the process is the leader.
Lead(p) ==
  /\ pc[p] = "lead"
  /\ leader = Nil
  /\ leader' = p
  /\ Goto(p, "running")
  /\ UNCHANGED <<sources, data, config, offered, edits, deaths>>

\* After an edit a process may read what it might have before, or any ConfigMap
\* there has been since it started with the Secret that is there now: it reads
\* the ConfigMap first.
Offer(pairs) == pairs \cup (({pair[1] : pair \in pairs} \cup {configMap'}) \X {secret'})

Reading(p) == pc[p] \in {"readConfigMap", "readSecret"}

\* Users write or delete the ConfigMap or the Secret.
Edit ==
  /\ edits < MaxEdits
  /\ edits' = edits + 1
  /\ \E s \in Sources :
       \/ configMap' = s /\ UNCHANGED secret
       \/ secret' = s /\ UNCHANGED configMap
  /\ offered' = [p \in Pods |-> IF Reading(p) THEN Offer(offered[p]) ELSE offered[p]]
  /\ UNCHANGED <<pc, data, config, leader, deaths>>

Init ==
  /\ configMap \in Sources
  /\ secret \in Sources
  /\ pc = [p \in Pods |-> "down"]
  /\ data = [p \in Pods |-> <<>>]
  /\ config = [p \in Pods |-> Defaults]
  /\ leader = Nil
  /\ offered = [p \in Pods |-> {}]
  /\ edits = 0
  /\ deaths = 0

Proceed(p) == Start(p) \/ readConfigMap(p) \/ readSecret(p) \/ hashToConfig(p)

Next ==
  \/ \E p \in Pods : Proceed(p) \/ Lead(p) \/ Dies(p)
  \/ Edit

Spec == Init /\ [][Next]_vars

\* A process goes on, and the kubelet starts one that has ended.
Fairness == \A p \in Pods : WF_vars(Proceed(p)) /\ WF_vars(Lead(p))

FairSpec == Spec /\ Fairness

-----------------------------------------------------------------------------
TypeOK ==
  /\ pc \in [Pods -> {"down", "readConfigMap", "readSecret", "hashToConfig", "lead", "running"}]
  /\ \A p \in Pods : DOMAIN data[p] \subseteq Keys
  /\ config \in [Pods -> Configurations]
  /\ leader \in Pods \cup {Nil}
  /\ offered \in [Pods -> SUBSET (Sources \X Sources)]
  /\ edits \in Nat
  /\ deaths \in Nat

Has(source, k) == source # Nil /\ k \in DOMAIN source

\* What a ConfigMap and a Secret say of a field: the Secret before the ConfigMap,
\* the ConfigMap before the default.
Meant(map, hidden, k) ==
  IF Has(hidden, k) THEN hidden[k]
  ELSE IF Has(map, k) THEN map[k]
  ELSE Defaults[k]

\* The ConfigMap and the Secret are two reads, and users may write before, between
\* and after them.  Still what a process runs with is, in every field, what one
\* ConfigMap and one Secret say that were both there while it read, the Secret
\* not before the ConfigMap: no field is of an older process, or of a third version.
RunsAsConfigured ==
  \A p \in Pods : pc[p] \in {"lead", "running"} =>
    \E pair \in offered[p] : \A k \in Keys : config[p][k] = Meant(pair[1], pair[2], k)

Readable == \A k \in NumberKeys : Meant(configMap, secret, k) # Broken

\* Once the sources say something that can be parsed, an operator runs in the
\* end, whatever they said before, whatever died, and even without a Secret.
EventuallyRuns ==
  <>[]Readable => <>[](\E p \in Pods : pc[p] = "running")
=============================================================================
