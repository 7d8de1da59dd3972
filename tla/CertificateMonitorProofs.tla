----------------------- MODULE CertificateMonitorProofs -----------------------
(***************************************************************************)
(* Theorems about CertificateMonitor for any set of certificates, any      *)
(* length of a day and any number of failures.                             *)
(***************************************************************************)
EXTENDS CertificateMonitor, TLAPS

USE DEF clusterVars, crVars, passVars, ghosts, Stages, Ages, Cooldown

LEMMA NoResourceType == NoResource \in Resource /\ NoResource.last = Cooldown
<1>1. (CHOOSE s \in Specs : TRUE) \in Specs
  BY MonitorAssumption
<1>2. Decoded(Computed({})) \in Slices
  BY DEF Decoded, Computed, Slices
<1>3. QED
  BY <1>1, <1>2, MonitorAssumption DEF NoResource, BlankStatus, Resource

\* A record gets older, never past the cooldown, and order is kept.
LEMMA OlderFacts ==
  ASSUME NEW a \in Ages, NEW b \in Ages
  PROVE  /\ Older(a) \in Ages
         /\ a >= b => Older(a) >= Older(b)
BY MonitorAssumption DEF Older

LEMMA InfoType ==
  ASSUME NEW c \in Certs, NEW t, NEW threshold
  PROVE  Info(c, t, threshold) \in Infos
<1>1. StatusOf(t, threshold) \in {"fine", "near", "expired"}
  <2>1. CASE t < 0
    BY <2>1 DEF StatusOf
  <2>2. CASE ~(t < 0) /\ t >= 0 /\ t \div Day <= threshold
    BY <2>2 DEF StatusOf
  <2>3. CASE ~(t < 0) /\ ~(t >= 0 /\ t \div Day <= threshold)
    BY <2>3 DEF StatusOf
  <2>4. QED
    BY <2>1, <2>2, <2>3
<1>2. QED
  BY <1>1 DEF Info, Infos

LEMMA DecodedType ==
  ASSUME NEW infos \in SUBSET Infos
  PROVE  Decoded(Computed(infos)) \in Slices
<1>1. {[i EXCEPT !.zone = "Local"] : i \in infos} \subseteq Infos
  BY DEF Infos
<1>2. QED
  BY <1>1 DEF Decoded, Computed, Slices

LEMMA Aged ==
  ASSUME NEW r \in Resource
  PROVE  /\ [r EXCEPT !.last = Older(@)] \in Resource
         /\ [r EXCEPT !.last = Older(@)].last = Older(r.last)
BY OlderFacts DEF Resource

LEMMA EndPassType ==
  ASSUME EndPass
  PROVE  /\ pc' = "idle" /\ original' \in Resource /\ original'.last = Cooldown
         /\ toRead' \subseteq Certs /\ found' \subseteq Infos
         /\ sent' = FALSE /\ nowAge' \in 0..MaxPass
BY NoResourceType, MonitorAssumption DEF EndPass

-----------------------------------------------------------------------------
(* Types. *)

LEMMA NewLivesType == NewLives \subseteq Lives
BY MonitorAssumption DEF Lives, Oldest

LEMMA InitType == Init => TypeOK
<1> SUFFICES ASSUME Init PROVE TypeOK
  OBVIOUS
<1>1. store \in Resource
  <2>1. Decoded(Computed({})) \in Slices
    BY DEF Decoded, Computed, Slices
  <2>2. QED
    BY <2>1, MonitorAssumption DEF Init, BlankStatus, Resource
<1>2. left \in [Certs -> Lives]
  BY NewLivesType DEF Init
<1>3. /\ 0 \in 0..MaxPass /\ 0 \in 0..Interval /\ 0 \in 0..MaxEdits
      /\ 0 \in 0..MaxFaults /\ Cooldown \in Ages
  BY MonitorAssumption
<1>4. QED
  BY <1>1, <1>2, <1>3, NoResourceType DEF Init, TypeOK

LEMMA WorkerType ==
  ASSUME TypeOK, Worker
  PROVE  TypeOK'
<1> USE DEF TypeOK
<1>1. CASE Reconcile
  BY <1>1 DEF Reconcile
<1>2. CASE ListFails \/ BadSelectors
  <2>1. faults' \in 0..MaxFaults
    BY <1>2, MonitorAssumption DEF ListFails, BadSelectors
  <2>2. QED
    BY <1>2, <2>1, EndPassType DEF ListFails, BadSelectors, ReturnError
<1>3. CASE ListSecrets
  BY <1>3, MonitorAssumption DEF ListSecrets
<1>4. ASSUME NEW c \in Certs, ReadSecret(c)
      PROVE  TypeOK'
  <2>1. faults' \in 0..MaxFaults
    BY <1>4, MonitorAssumption DEF ReadSecret
  <2>2. found' \subseteq Infos
    BY <1>4, InfoType DEF ReadSecret
  <2>3. QED
    BY <1>4, <2>1, <2>2 DEF ReadSecret
<1>5. CASE AllRead
  BY <1>5 DEF AllRead
<1>6. CASE KeepSilent
  BY <1>6 DEF KeepSilent
<1>7. CASE Notify
  <2>1. PICK up \in SUBSET Channels :
          /\ up # Channels => faults < MaxFaults
          /\ faults' = IF up = Channels THEN faults ELSE faults + 1
          /\ delivered' =
               UNION {Addressed(ch, {i.cert : i \in ToNotify}) : ch \in up}
    BY <1>7 DEF Notify
  <2>2. {i.cert : i \in ToNotify} \subseteq Certs
    BY DEF ToNotify, Infos
  <2>3. ASSUME NEW ch, NEW certs \in SUBSET Certs
        PROVE  Addressed(ch, certs) \subseteq Certs
    <3>1. CASE ch = "email"
      BY <3>1 DEF Addressed
    <3>2. CASE ch # "email" /\ original.spec.scope = "some"
      BY <3>2 DEF Addressed
    <3>3. CASE ch # "email" /\ original.spec.scope # "some"
      BY <3>3 DEF Addressed
    <3>4. QED
      BY <3>1, <3>2, <3>3
  <2>4. delivered' \subseteq Certs
    <3> DEFINE to(ch) == Addressed(ch, {i.cert : i \in ToNotify})
    <3>1. \A ch \in up : to(ch) \subseteq Certs
      BY <2>2, <2>3
    <3>2. delivered' = UNION {to(ch) : ch \in up}
      BY <2>1
    <3> HIDE DEF to
    <3>3. QED
      BY <3>1, <3>2
  <2>5. faults' \in 0..MaxFaults
    BY <2>1, MonitorAssumption
  <2>6. nowAge \in Ages
    BY MonitorAssumption
  <2>7. QED
    BY <1>7, <2>4, <2>5, <2>6 DEF Notify
<1>8. CASE UpdateStatus
  <2>1. DesiredLast \in Ages
    BY MonitorAssumption DEF DesiredLast, Resource
  <2>2. store' \in Resource
    BY <1>8, <2>1, DecodedType DEF UpdateStatus, Resource
  <2>3. QED
    BY <1>8, <2>2, EndPassType, MonitorAssumption
    DEF UpdateStatus, RequeueAfterInterval
<1>9. CASE UpdateFails
  BY <1>9, EndPassType, MonitorAssumption DEF UpdateFails, ReturnError
<1>10. QED
  BY <1>1, <1>2, <1>3, <1>4, <1>5, <1>6, <1>7, <1>8, <1>9 DEF Worker

LEMMA WorldType ==
  ASSUME TypeOK, CacheSync \/ TimePasses \/ Environment
  PROVE  TypeOK'
<1> USE DEF TypeOK
<1>1. CASE CacheSync
  BY <1>1 DEF CacheSync
<1>2. CASE TimePasses
  <2>1. left' \in [Certs -> Lives]
    BY <1>2, MonitorAssumption DEF TimePasses, Lives, Oldest
  <2>2. store' \in Resource /\ cached' \in Resource /\ original' \in Resource
    BY <1>2, Aged DEF TimePasses
  <2>3. roundAge' \in Ages
    BY <1>2, OlderFacts DEF TimePasses
  <2>4. nowAge' \in 0..MaxPass /\ wait' \in 0..Interval
    BY <1>2, MonitorAssumption DEF TimePasses
  <2>5. queued' \in BOOLEAN
    BY <1>2 DEF TimePasses
  <2>6. QED
    BY <1>2, <2>1, <2>2, <2>3, <2>4, <2>5 DEF TimePasses
<1>3. CASE Restart
  <2>1. faults' \in 0..MaxFaults
    BY <1>3, MonitorAssumption DEF Restart
  <2>2. disturbed' \in BOOLEAN
    BY <1>3 DEF Restart
  <2>3. /\ EndPass /\ queued' = TRUE /\ cached' = store /\ fresh' = TRUE
        /\ wait' \in 0..Interval
    BY <1>3, MonitorAssumption DEF Restart, ReturnError
  <2>4. UNCHANGED <<clusterVars, store, edits, roundAge, delivered>>
    BY <1>3 DEF Restart
  <2>5. QED
    BY <2>1, <2>2, <2>3, <2>4, EndPassType
<1>4. ASSUME NEW s \in Specs, EditSpec(s)
      PROVE  TypeOK'
  <2>1. edits' \in 0..MaxEdits
    BY <1>4, MonitorAssumption DEF EditSpec
  <2>2. store' \in Resource
    BY <1>4 DEF EditSpec, Resource
  <2>3. QED
    BY <1>4, <2>1, <2>2 DEF EditSpec
<1>5. ASSUME NEW c \in Certs, SecretGoes(c)
      PROVE  TypeOK'
  BY <1>5 DEF SecretGoes
<1>6. ASSUME NEW c \in Certs, NEW t \in NewLives, SecretAppears(c, t)
      PROVE  TypeOK'
  BY <1>6, NewLivesType DEF SecretAppears
<1>7. QED
  BY <1>1, <1>2, <1>3, <1>4, <1>5, <1>6 DEF Environment

\* Every variable of the certificate monitor keeps its type.
THEOREM TypeCorrect == Spec => []TypeOK
<1>1. TypeOK /\ [Next]_vars => TypeOK'
  <2>1. ASSUME TypeOK, Next PROVE TypeOK'
    BY <2>1, WorkerType, WorldType DEF Next
  <2>2. ASSUME TypeOK, UNCHANGED vars PROVE TypeOK'
    BY <2>2 DEF vars, TypeOK
  <2>3. QED
    BY <2>1, <2>2
<1>2. QED
  BY InitType, <1>1, PTL DEF Spec
-----------------------------------------------------------------------------
(***************************************************************************)
(* The cooldown.  Every record of LastNotificationTime, wherever a copy of *)
(* it is, is at least as old as the last round; and as long as nothing     *)
(* disturbed it, it is exactly as old.                                     *)
(***************************************************************************)

\* No copy of the record is younger than the last round.
Honest ==
  /\ store.last >= roundAge /\ cached.last >= roundAge
  /\ original.last >= roundAge
  /\ nowAge =< roundAge
  /\ sent => pc = "write" /\ nowAge = roundAge

\* Undisturbed, the API server has the last round on record, or the pass that
\* sent it is about to put it there; and a pass works with that record.
Recorded ==
  ~disturbed =>
    /\ ~sent => store.last = roundAge
    /\ ~sent /\ pc # "idle" => original.last = roundAge

CooldownInv == TypeOK /\ Honest /\ Recorded

LEMMA InitCooldown == Init => Honest /\ Recorded
BY NoResourceType, MonitorAssumption
   DEF Init, Honest, Recorded, NoResource, BlankStatus

LEMMA EndPassHonest ==
  ASSUME TypeOK, EndPass, UNCHANGED roundAge,
         store'.last >= roundAge, cached'.last >= roundAge
  PROVE  Honest'
<1>1. pc' = "idle" /\ original'.last = Cooldown /\ sent' = FALSE /\ nowAge' = 0
  BY EndPassType DEF EndPass
<1>2. roundAge' \in Ages
  BY DEF TypeOK
<1>3. QED
  BY <1>1, <1>2, MonitorAssumption DEF Honest

LEMMA WorkerHonest ==
  ASSUME TypeOK, Honest, Worker
  PROVE  Honest'
<1> USE DEF Honest
<1>1. CASE Reconcile
  BY <1>1 DEF Reconcile
<1>2. CASE ListFails \/ BadSelectors
  BY <1>2, EndPassHonest DEF ListFails, BadSelectors, ReturnError
<1>3. CASE ListSecrets
  BY <1>3 DEF ListSecrets, TypeOK
<1>4. ASSUME NEW c \in Certs, ReadSecret(c)
      PROVE  Honest'
  BY <1>4 DEF ReadSecret
<1>5. CASE AllRead
  BY <1>5 DEF AllRead
<1>6. CASE KeepSilent
  BY <1>6 DEF KeepSilent
<1>7. CASE Notify
  BY <1>7, MonitorAssumption DEF Notify, TypeOK, Resource
<1>8. CASE UpdateStatus
  <2>1. store'.last >= roundAge
    BY <1>8 DEF UpdateStatus, DesiredLast, TypeOK, Resource
  <2>2. QED
    BY <1>8, <2>1, EndPassHonest DEF UpdateStatus, RequeueAfterInterval
<1>9. CASE UpdateFails
  BY <1>9, EndPassHonest DEF UpdateFails, ReturnError
<1>10. QED
  BY <1>1, <1>2, <1>3, <1>4, <1>5, <1>6, <1>7, <1>8, <1>9 DEF Worker

LEMMA WorldHonest ==
  ASSUME TypeOK, Honest, CacheSync \/ TimePasses \/ Environment
  PROVE  Honest'
<1> USE DEF Honest
<1>1. CASE CacheSync
  BY <1>1 DEF CacheSync
<1>2. CASE TimePasses
  <2>1. /\ store.last \in Ages /\ cached.last \in Ages
        /\ original.last \in Ages /\ roundAge \in Ages
    BY DEF TypeOK, Resource
  <2>2. /\ store'.last = Older(store.last) /\ cached'.last = Older(cached.last)
        /\ original'.last = Older(original.last)
        /\ roundAge' = Older(roundAge)
    BY <1>2, Aged DEF TimePasses, TypeOK
  <2>3. nowAge' =< roundAge' /\ (sent => nowAge' = roundAge')
    BY <1>2, <2>1, MonitorAssumption DEF TimePasses, TypeOK, Older
  <2>4. pc' = pc /\ sent' = sent
    BY <1>2 DEF TimePasses
  <2>5. QED
    BY <2>1, <2>2, <2>3, <2>4, OlderFacts
<1>3. CASE Restart
  BY <1>3, EndPassHonest DEF Restart, ReturnError
<1>4. ASSUME NEW s \in Specs, EditSpec(s)
      PROVE  Honest'
  BY <1>4 DEF EditSpec, TypeOK, Resource
<1>5. ASSUME NEW c \in Certs, SecretGoes(c) \/ \E t \in NewLives : SecretAppears(c, t)
      PROVE  Honest'
  BY <1>5 DEF SecretGoes, SecretAppears
<1>6. QED
  BY <1>1, <1>2, <1>3, <1>4, <1>5 DEF Environment

LEMMA WorkerRecorded ==
  ASSUME TypeOK, Honest, Recorded, Worker
  PROVE  Recorded'
<1> USE DEF Recorded
<1>1. CASE Reconcile
  BY <1>1 DEF Reconcile, Honest
<1>2. CASE ListFails \/ BadSelectors
  BY <1>2 DEF ListFails, BadSelectors, ReturnError, EndPass, Honest
<1>3. CASE ListSecrets
  BY <1>3 DEF ListSecrets
<1>4. ASSUME NEW c \in Certs, ReadSecret(c)
      PROVE  Recorded'
  BY <1>4 DEF ReadSecret
<1>5. CASE AllRead
  BY <1>5 DEF AllRead
<1>6. CASE KeepSilent
  BY <1>6 DEF KeepSilent, Honest
<1>7. CASE Notify
  BY <1>7 DEF Notify
<1>8. CASE UpdateStatus
  <2>1. ~disturbed => store'.last = roundAge
    BY <1>8 DEF UpdateStatus, DesiredLast, MeaningfulChange, Honest, TypeOK, Resource
  <2>2. QED
    BY <1>8, <2>1 DEF UpdateStatus, RequeueAfterInterval, EndPass
<1>9. CASE UpdateFails
  BY <1>9 DEF UpdateFails, ReturnError, EndPass
<1>10. QED
  BY <1>1, <1>2, <1>3, <1>4, <1>5, <1>6, <1>7, <1>8, <1>9 DEF Worker

LEMMA WorldRecorded ==
  ASSUME TypeOK, Honest, Recorded, CacheSync \/ TimePasses \/ Environment
  PROVE  Recorded'
<1> USE DEF Recorded
<1>1. CASE CacheSync
  BY <1>1 DEF CacheSync
<1>2. CASE TimePasses
  BY <1>2, Aged DEF TimePasses, TypeOK
<1>3. CASE Restart
  BY <1>3 DEF Restart, ReturnError, EndPass, Honest
<1>4. ASSUME NEW s \in Specs, EditSpec(s)
      PROVE  Recorded'
  BY <1>4 DEF EditSpec, TypeOK, Resource
<1>5. ASSUME NEW c \in Certs, SecretGoes(c) \/ \E t \in NewLives : SecretAppears(c, t)
      PROVE  Recorded'
  BY <1>5 DEF SecretGoes, SecretAppears
<1>6. QED
  BY <1>1, <1>2, <1>3, <1>4, <1>5 DEF Environment

\* In every state each copy of LastNotificationTime is at least as old as the
\* last round, and exactly as old while nothing has disturbed it.
THEOREM CooldownInvariant == Spec => []CooldownInv
<1>1. Init => CooldownInv
  BY InitType, InitCooldown DEF CooldownInv
<1>2. CooldownInv /\ [Next]_vars => CooldownInv'
  <2>1. ASSUME CooldownInv, Next PROVE CooldownInv'
    BY <2>1, WorkerType, WorldType, WorkerHonest, WorldHonest,
       WorkerRecorded, WorldRecorded
    DEF CooldownInv, Next
  <2>2. ASSUME CooldownInv, UNCHANGED vars PROVE CooldownInv'
    BY <2>2 DEF vars, CooldownInv, TypeOK, Honest, Recorded
  <2>3. QED
    BY <2>1, <2>2
<1>3. QED
  BY <1>1, <1>2, PTL DEF Spec

\* A pass keeps silent about certificates that are due only if a round was sent
\* in the last 24 hours.
THEOREM SilenceJustified == Spec => SilenceIsJustified
<1>1. CooldownInv /\ [Next]_vars =>
        [KeepSilent /\ ToNotify # {} => roundAge < Cooldown]_vars
  <2> SUFFICES ASSUME CooldownInv, KeepSilent, ToNotify # {}
               PROVE  roundAge < Cooldown
    OBVIOUS
  <2>1. original.last < Cooldown
    BY DEF KeepSilent, InCooldown
  <2>2. QED
    BY <2>1, MonitorAssumption DEF CooldownInv, TypeOK, Honest, Resource
<1>2. QED
  BY CooldownInvariant, <1>1, PTL DEF Spec, SilenceIsJustified

\* Two rounds within 24 hours have a lost record or a stale copy between them.
THEOREM RepeatsExplained == Spec => RepeatsAreExplained
<1>1. CooldownInv /\ [Next]_vars =>
        [Notify /\ roundAge < Cooldown => disturbed]_vars
  <2> SUFFICES ASSUME CooldownInv, Notify, roundAge < Cooldown, ~disturbed
               PROVE  FALSE
    BY DEF CooldownInv, TypeOK
  <2>1. original.last = roundAge
    BY DEF CooldownInv, Recorded, Honest, Notify
  <2>2. QED
    BY <2>1 DEF Notify, InCooldown
<1>2. QED
  BY CooldownInvariant, <1>1, PTL DEF Spec, RepeatsAreExplained
=============================================================================
