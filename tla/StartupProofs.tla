--------------------------- MODULE StartupProofs ---------------------------
(***************************************************************************)
(* A process runs with what one ConfigMap and one Secret say that it could *)
(* read, for any number of pods, any fields, any contents and any edits.   *)
(***************************************************************************)
EXTENDS Startup, TLAPS

Steps == {"down", "readConfigMap", "readSecret", "hashToConfig", "lead", "running"}

\* What has been read after the one source, and after both.
First(map) == Overlay(<<>>, Content(map))
Both(map, hidden) == Overlay(First(map), Content(hidden))

\* How far the process of pod p has come, and with which of the pairs it was offered.
Progress(p) ==
  /\ pc[p] \in {"down", "readConfigMap"} => data[p] = <<>>
  /\ pc[p] \in {"down", "readConfigMap", "readSecret", "hashToConfig"} => config[p] = Defaults
  /\ pc[p] = "readConfigMap" => <<configMap, secret>> \in offered[p]
  /\ pc[p] = "readSecret" => \E c \in Sources : /\ <<c, secret>> \in offered[p]
                                               /\ data[p] = First(c)
  /\ pc[p] = "hashToConfig" => \E c, s \in Sources : /\ <<c, s>> \in offered[p]
                                                      /\ data[p] = Both(c, s)
  /\ pc[p] \in {"lead", "running"} =>
       \E c, s \in Sources : /\ <<c, s>> \in offered[p]
                             /\ config[p] = Overlay(Defaults, Both(c, s))

Shape ==
  /\ configMap \in Sources /\ secret \in Sources
  /\ pc \in [Pods -> Steps]
  /\ DOMAIN data = Pods
  /\ data = [p \in Pods |-> data[p]]
  /\ config = [p \in Pods |-> config[p]]
  /\ offered \in [Pods -> SUBSET (Sources \X Sources)]

StartInv == Shape /\ \A p \in Pods : Progress(p)

-----------------------------------------------------------------------------
(* Types. *)

\* What has been read of the sources are fields, and what was parsed has no
\* number left that is none.
TypeInv ==
  /\ TypeOK
  /\ configMap \in Sources /\ secret \in Sources
  /\ data = [p \in Pods |-> data[p]]
  /\ \A p \in Pods : FieldsOf(data[p])

\* A source, found or not, has fields, and an overlay of fields has fields.
LEMMA OverlayTyped ==
  /\ \A s \in Sources : FieldsOf(Content(s))
  /\ \A old, new : FieldsOf(old) /\ FieldsOf(new) => FieldsOf(Overlay(old, new))
<1>1. DOMAIN <<>> = {}
  OBVIOUS
<1>2. ASSUME NEW s \in Sources PROVE FieldsOf(Content(s))
  BY <1>1, StartupAssumption DEF FieldsOf, Content
<1>3. ASSUME NEW old, NEW new, FieldsOf(old), FieldsOf(new)
      PROVE  FieldsOf(Overlay(old, new))
  BY <1>3 DEF FieldsOf, Overlay
<1> QED
  BY <1>2, <1>3

\* Parsed fields over a configuration are one.
LEMMA ParsedTyped ==
  ASSUME NEW c \in Configurations, NEW map, FieldsOf(map),
         \A k \in NumberKeys \cap DOMAIN map : map[k] # Broken
  PROVE  Overlay(c, map) \in Configurations
<1>1. DOMAIN c \cup DOMAIN map = Keys
  BY DEF Configurations, FieldsOf
<1>2. ASSUME NEW k \in DOMAIN map PROVE map[k] \in Texts \cup Int
  BY <1>2 DEF FieldsOf
<1> QED
  BY <1>1, <1>2 DEF Configurations, Overlay

\* The end of a process forgets what it read.
LEMMA ExitTyped ==
  ASSUME TypeInv, NEW p \in Pods, Exit(p), deaths' \in Nat
  PROVE  TypeInv'
<1>1. FieldsOf(<<>>)
  BY DEF FieldsOf
<1>2. UNCHANGED sources /\ data' = [data EXCEPT ![p] = <<>>]
  BY DEF Exit
<1>3. data' = [q \in Pods |-> data'[q]] /\ \A q \in Pods : FieldsOf(data'[q])
  BY <1>1, <1>2 DEF TypeInv
<1>4. TypeOK'
  BY <1>3, StartupAssumption DEF Exit, Goto, TypeInv, TypeOK, FieldsOf
<1> QED
  BY <1>2, <1>3, <1>4 DEF TypeInv, sources

\* Reading lays one more source over what was read.
LEMMA ReadTyped ==
  ASSUME TypeInv, NEW p \in Pods, readConfigMap(p) \/ readSecret(p)
  PROVE  TypeInv'
<1>1. /\ UNCHANGED <<sources, config, leader, offered, edits, deaths>>
      /\ \E s \in Sources : data' = [data EXCEPT ![p] = Overlay(data[p], Content(s))]
  BY DEF readConfigMap, readSecret, TypeInv
<1>2. data' = [q \in Pods |-> data'[q]] /\ \A q \in Pods : FieldsOf(data'[q])
  BY <1>1, OverlayTyped DEF TypeInv
<1>3. TypeOK'
  BY <1>1, <1>2 DEF readConfigMap, readSecret, Goto, TypeInv, TypeOK, FieldsOf
<1> QED
  BY <1>1, <1>2, <1>3 DEF TypeInv, sources

\* What was offered before an edit still is; and a process that still reads is
\* offered the Secret that is there now, with what it has read of the ConfigMap.
LEMMA OfferKeeps ==
  ASSUME NEW pairs \in SUBSET (Sources \X Sources), configMap' \in Sources, secret' \in Sources
  PROVE  /\ Offer(pairs) \in SUBSET (Sources \X Sources)
         /\ pairs \subseteq Offer(pairs)
         /\ <<configMap', secret'>> \in Offer(pairs)
         /\ \A c, s \in Sources : <<c, s>> \in pairs => <<c, secret'>> \in Offer(pairs)
BY DEF Offer

\* Every step keeps the types.
LEMMA NextTyped == TypeInv /\ [Next]_vars => TypeInv'
<1> SUFFICES ASSUME TypeInv, [Next]_vars PROVE TypeInv'
  OBVIOUS
<1> USE StartupAssumption
<1>1. CASE UNCHANGED vars
  BY <1>1 DEF vars, sources, TypeInv, TypeOK
<1>2. ASSUME NEW p \in Pods, Start(p) \/ Lead(p) PROVE TypeInv'
  BY <1>2 DEF Start, Lead, Goto, sources, TypeInv, TypeOK
<1>3. ASSUME NEW p \in Pods, readConfigMap(p) \/ readSecret(p) PROVE TypeInv'
  BY <1>3, ReadTyped
<1>4. ASSUME NEW p \in Pods, hashToConfig(p) PROVE TypeInv'
  <2>1. CASE Exit(p)
    BY <1>4, <2>1, ExitTyped DEF hashToConfig, TypeInv, TypeOK
  <2>2. CASE ~Exit(p)
    <3>1. /\ config' = [config EXCEPT ![p] = Overlay(config[p], data[p])]
          /\ \A k \in NumberKeys \cap DOMAIN data[p] : data[p][k] # Broken
          /\ Goto(p, "lead")
          /\ UNCHANGED <<sources, data, leader, offered, edits, deaths>>
      BY <1>4, <2>2 DEF hashToConfig
    <3>2. Overlay(config[p], data[p]) \in Configurations
      BY <3>1, ParsedTyped DEF TypeInv, TypeOK
    <3> QED
      BY <3>1, <3>2 DEF Goto, sources, TypeInv, TypeOK
  <2> QED
    BY <2>1, <2>2
<1>5. ASSUME NEW p \in Pods, Dies(p) PROVE TypeInv'
  BY <1>5, ExitTyped DEF Dies, TypeInv, TypeOK
<1>6. CASE Edit
  <2>1. /\ configMap' \in Sources /\ secret' \in Sources
        /\ \A p \in Pods : offered[p] \in SUBSET (Sources \X Sources)
    BY <1>6 DEF Edit, TypeInv, TypeOK
  <2>2. \A p \in Pods : Offer(offered[p]) \in SUBSET (Sources \X Sources)
    BY <2>1, OfferKeeps
  <2>3. offered' \in [Pods -> SUBSET (Sources \X Sources)]
    BY <1>6, <2>1, <2>2 DEF Edit
  <2> QED
    BY <1>6, <2>1, <2>3 DEF Edit, TypeInv, TypeOK
<1> QED
  BY <1>1, <1>2, <1>3, <1>4, <1>5, <1>6 DEF Next, Proceed

\* A process that gets past hashToConfig has a value of its kind in every
\* field: the parser never lets a number through that is none.
THEOREM TypeCorrect == Spec => []TypeOK
<1>1. Init => TypeInv
  <2>1. FieldsOf(<<>>)
    BY DEF FieldsOf
  <2> QED
    BY <2>1, StartupAssumption DEF Init, TypeInv, TypeOK, FieldsOf
<1>2. TypeInv => TypeOK
  BY DEF TypeInv
<1> QED
  BY <1>1, <1>2, NextTyped, PTL DEF Spec

-----------------------------------------------------------------------------
(* Progress. *)

\* Field by field, the defaults under both sources are what the sources mean.
LEMMA OverlayMeans ==
  ASSUME NEW map, NEW hidden, NEW k \in Keys
  PROVE  Overlay(Defaults, Both(map, hidden))[k] = Meant(map, hidden, k)
<1>1. k \in DOMAIN Defaults
  BY StartupAssumption DEF Configurations
<1>2. DOMAIN First(map) = DOMAIN <<>> \cup DOMAIN Content(map)
  BY DEF First, Overlay
<1>3. DOMAIN Both(map, hidden) = DOMAIN First(map) \cup DOMAIN Content(hidden)
  BY DEF Both, Overlay
<1>4. DOMAIN <<>> = {}
  OBVIOUS
<1>5. ASSUME NEW source PROVE k \in DOMAIN Content(source) <=> Has(source, k)
  BY <1>4 DEF Content, Has
<1>6. ASSUME NEW source, Has(source, k) PROVE Content(source)[k] = source[k]
  BY <1>6 DEF Content, Has
<1>7. CASE Has(hidden, k)
  <2>1. Both(map, hidden)[k] = hidden[k]
    BY <1>3, <1>5, <1>6, <1>7 DEF Both, Overlay
  <2> QED
    BY <2>1, <1>1, <1>3, <1>5, <1>7 DEF Overlay, Meant
<1>8. CASE ~Has(hidden, k) /\ Has(map, k)
  <2>1. First(map)[k] = map[k]
    BY <1>2, <1>5, <1>6, <1>8 DEF First, Overlay
  <2>2. k \in DOMAIN Both(map, hidden) /\ Both(map, hidden)[k] = First(map)[k]
    BY <1>2, <1>3, <1>5, <1>8 DEF Both, Overlay
  <2> QED
    BY <2>1, <2>2, <1>1, <1>8 DEF Overlay, Meant
<1>9. CASE ~Has(hidden, k) /\ ~Has(map, k)
  <2>1. k \notin DOMAIN Both(map, hidden)
    BY <1>2, <1>3, <1>4, <1>5, <1>9
  <2> QED
    BY <2>1, <1>1, <1>9 DEF Overlay, Meant
<1> QED
  BY <1>7, <1>8, <1>9

\* Initially nothing has been read.
LEMMA StartInit == Init => StartInv
BY DEF Init, StartInv, Shape, Progress, Steps

\* The invariant gives the property.
LEMMA StartInvMeans == StartInv => RunsAsConfigured
<1> SUFFICES ASSUME StartInv, NEW p \in Pods, pc[p] \in {"lead", "running"}
             PROVE  \E pair \in offered[p] :
                      \A k \in Keys : config[p][k] = Meant(pair[1], pair[2], k)
  BY DEF RunsAsConfigured
<1>1. PICK c \in Sources, s \in Sources : /\ <<c, s>> \in offered[p]
                                         /\ config[p] = Overlay(Defaults, Both(c, s))
  BY DEF StartInv, Progress
<1>2. \A k \in Keys : config[p][k] = Meant(c, s, k)
  BY <1>1, OverlayMeans
<1> QED
  BY <1>1, <1>2

-----------------------------------------------------------------------------
\* A step of one process leaves the others where they are.
LEMMA OneProcess ==
  ASSUME StartInv, NEW p \in Pods, Shape', UNCHANGED sources, Progress(p)',
         \A q \in Pods \ {p} : /\ pc'[q] = pc[q]
                               /\ data'[q] = data[q]
                               /\ config'[q] = config[q]
                               /\ offered'[q] = offered[q]
  PROVE  StartInv'
<1>1. ASSUME NEW q \in Pods \ {p} PROVE Progress(q)'
  <2>1. /\ pc'[q] = pc[q] /\ data'[q] = data[q] /\ config'[q] = config[q]
        /\ offered'[q] = offered[q] /\ configMap' = configMap /\ secret' = secret
    BY <1>1 DEF sources
  <2>2. Progress(q)
    BY <1>1 DEF StartInv
  <2> QED
    BY <2>1, <2>2 DEF Progress
<1> QED
  BY <1>1 DEF StartInv

\* A process that ends forgets what it read.
LEMMA ExitKeeps ==
  ASSUME StartInv, NEW p \in Pods, Exit(p)
  PROVE  StartInv'
<1>1. Shape'
  BY DEF StartInv, Shape, Exit, Goto, Steps, sources
<1>2. Progress(p)'
  BY DEF StartInv, Shape, Exit, Goto, Progress
<1> QED
  BY <1>1, <1>2, OneProcess DEF StartInv, Shape, Exit, Goto, sources

\* A process that goes on reads what it is offered.
LEMMA ProceedKeeps ==
  ASSUME StartInv, NEW p \in Pods, Proceed(p) \/ Lead(p)
  PROVE  StartInv'
<1> USE DEF StartInv, Shape, Goto, Steps, sources
<1>1. CASE Start(p)
  <2>1. Shape'
    BY <1>1 DEF Start
  <2>2. Progress(p)'
    BY <1>1 DEF Start, Progress
  <2> QED
    BY <1>1, <2>1, <2>2, OneProcess DEF Start
<1>2. CASE readConfigMap(p)
  <2>1. Shape'
    BY <1>2 DEF readConfigMap
  <2>2. data'[p] = First(configMap) /\ <<configMap, secret>> \in offered'[p]
    BY <1>2 DEF Progress, readConfigMap, First
  <2>3. Progress(p)'
    BY <1>2, <2>2 DEF readConfigMap, Progress
  <2> QED
    BY <1>2, <2>1, <2>3, OneProcess DEF readConfigMap
<1>3. CASE readSecret(p)
  <2>1. Shape'
    BY <1>3 DEF readSecret
  <2>2. PICK c \in Sources : <<c, secret>> \in offered'[p] /\ data'[p] = Both(c, secret)
    BY <1>3 DEF Progress, readSecret, Both
  <2>3. Progress(p)'
    BY <1>3, <2>2 DEF readSecret, Progress
  <2> QED
    BY <1>3, <2>1, <2>3, OneProcess DEF readSecret
<1>4. CASE hashToConfig(p) /\ ~Exit(p)
  <2>1. Shape'
    BY <1>4 DEF hashToConfig
  <2>2. PICK c \in Sources, s \in Sources : /\ <<c, s>> \in offered'[p]
                                           /\ config'[p] = Overlay(Defaults, Both(c, s))
    <3>1. PICK c \in Sources, s \in Sources : <<c, s>> \in offered[p] /\ data[p] = Both(c, s)
      BY <1>4 DEF Progress, hashToConfig
    <3>2. config[p] = Defaults /\ offered' = offered
          /\ config' = [config EXCEPT ![p] = Overlay(config[p], data[p])]
      BY <1>4 DEF Progress, hashToConfig
    <3>3. config'[p] = Overlay(Defaults, data[p])
      BY <3>2
    <3> QED
      BY <3>1, <3>2, <3>3
  <2>3. Progress(p)'
    BY <1>4, <2>2 DEF hashToConfig, Progress
  <2> QED
    BY <1>4, <2>1, <2>3, OneProcess DEF hashToConfig
<1>5. CASE Exit(p)
  BY <1>5, ExitKeeps
<1>6. CASE Lead(p)
  <2>1. Shape'
    BY <1>6 DEF Lead
  <2>2. Progress(p)'
    BY <1>6 DEF Lead, Progress
  <2> QED
    BY <1>6, <2>1, <2>2, OneProcess DEF Lead
<1> QED
  BY <1>1, <1>2, <1>3, <1>4, <1>5, <1>6 DEF Proceed

\* An edit offers more to a process that reads, and nothing to the others.
LEMMA EditKeeps ==
  ASSUME StartInv, Edit
  PROVE  StartInv'
<1>1. /\ configMap' \in Sources /\ secret' \in Sources
      /\ UNCHANGED <<pc, data, config>>
      /\ offered' = [p \in Pods |-> IF Reading(p) THEN Offer(offered[p]) ELSE offered[p]]
  BY DEF StartInv, Shape, Edit
<1>2. \A p \in Pods : offered[p] \in SUBSET (Sources \X Sources)
  BY DEF StartInv, Shape
<1>3. Shape'
  BY <1>1, <1>2, OfferKeeps DEF StartInv, Shape
<1>4. ASSUME NEW p \in Pods PROVE Progress(p)'
  <2>1. CASE Reading(p)
    <3>1. offered'[p] = Offer(offered[p])
      BY <1>1, <2>1
    <3>2. <<configMap', secret'>> \in offered'[p]
      BY <1>1, <1>2, <3>1, OfferKeeps
    <3>3. \A c \in Sources : <<c, secret>> \in offered[p] => <<c, secret'>> \in offered'[p]
      <4>1. \A c, s \in Sources : <<c, s>> \in offered[p] => <<c, secret'>> \in Offer(offered[p])
        BY <1>1, <1>2, OfferKeeps
      <4>2. secret \in Sources
        BY DEF StartInv, Shape
      <4> QED
        BY <3>1, <4>1, <4>2
    <3> QED
      BY <1>1, <2>1, <3>2, <3>3 DEF StartInv, Progress, Reading
  <2>2. CASE ~Reading(p)
    BY <1>1, <2>2 DEF StartInv, Progress, Reading
  <2> QED
    BY <2>1, <2>2
<1> QED
  BY <1>3, <1>4 DEF StartInv

\* RunsAsConfigured is not inductive: it says nothing of a process that is still
\* reading.  StartInv says what each has read so far.
THEOREM RunsAsMeant == Spec => []RunsAsConfigured
<1>1. Init => StartInv
  BY StartInit
<1>2. StartInv /\ [Next]_vars => StartInv'
  <2> SUFFICES ASSUME StartInv, [Next]_vars PROVE StartInv'
    OBVIOUS
  <2>1. CASE UNCHANGED vars
    BY <2>1 DEF vars, sources, StartInv, Shape, Progress
  <2>2. ASSUME NEW p \in Pods, Proceed(p) \/ Lead(p) PROVE StartInv'
    BY <2>2, ProceedKeeps
  <2>3. ASSUME NEW p \in Pods, Dies(p) PROVE StartInv'
    BY <2>3, ExitKeeps DEF Dies
  <2>4. CASE Edit
    BY <2>4, EditKeeps
  <2> QED
    BY <2>1, <2>2, <2>3, <2>4 DEF Next
<1>3. StartInv => RunsAsConfigured
  BY StartInvMeans
<1> QED
  BY <1>1, <1>2, <1>3, PTL DEF Spec
=============================================================================
