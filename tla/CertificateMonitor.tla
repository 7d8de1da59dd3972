-------------------------- MODULE CertificateMonitor --------------------------
(***************************************************************************)
(* The reconcile loop of the certificate monitor for one custom resource.  *)
(* A pass reads the resource from the informer's cache, reads the secrets  *)
(* one at a time, notifies about the certificates that are due unless the  *)
(* cooldown holds, and writes the status.  Secrets, the specification and  *)
(* the clock move while the pass runs; calls fail; the process restarts.   *)
(*                                                                         *)
(* Time is counted in ticks and kept as ages, so that it never ends: an    *)
(* age is cut off at the cooldown, which makes "24 hours ago", "a year     *)
(* ago" and "never" (a nil LastNotificationTime) the same.                 *)
(***************************************************************************)
EXTENDS Integers, FiniteSets

CONSTANTS
  Certs,        \* the certificates, each in a secret of its own
  Scoped,       \* those whose namespace NotificationNamespaceSelector matches
  Channels,     \* channels the resource configures
  Specs,        \* specifications an administrator may write
  Day,          \* ticks in 24 hours
  Interval,     \* ticks between two passes (1 hour in the code)
  Horizon,      \* bound on the ticks a certificate is valid
  NewLives,     \* ticks left to a certificate when its secret appears
  MaxPass,      \* bound on the ticks one pass takes
  MaxEdits,     \* bound on edits of the specification
  MaxFaults     \* bound on failed calls, channel outages and restarts

\* threshold: RenewalThresholdDays; valid: the two selectors that choose the
\* secrets parse; scope: NotificationNamespaceSelector.
Specifications ==
  [threshold : Nat \ {0}, valid : BOOLEAN,
   scope : {"unset", "invalid", "some"}]

ASSUME MonitorAssumption ==
  /\ Scoped \subseteq Certs
  /\ Channels \subseteq {"webhook", "email", "opsgenie"}
  /\ Specs \subseteq Specifications /\ Specs # {}
  /\ Day \in Nat \ {0} /\ Interval \in Nat \ {0} /\ Horizon \in Nat
  /\ NewLives \subseteq 0..Horizon /\ NewLives # {}
  /\ MaxPass \in 1..(Day - 1) /\ MaxEdits \in Nat /\ MaxFaults \in Nat

Cooldown == Day
Ages == 0..Cooldown
Oldest == -MaxPass - 1    \* a certificate expired that long stays as it is
Lives == Oldest..Horizon

\* MonitoredCertificateInfo, IsExpired and IsNearExpiration as one field.  An
\* expiry date parsed from a certificate is in UTC, one decoded from the API
\* server's JSON is in the local zone, and reflect.DeepEqual tells them apart.
Infos == [cert : Certs, status : {"fine", "near", "expired"},
          zone : {"UTC", "Local"}]
\* DaysUntilExpiration drops the fraction of a day.
StatusOf(t, threshold) ==
  CASE t < 0 -> "expired"
    [] t >= 0 /\ t \div Day <= threshold -> "near"
    [] OTHER -> "fine"
Info(c, t, threshold) ==
  [cert |-> c, status |-> StatusOf(t, threshold), zone |-> "UTC"]

\* A slice: nil is not deeply equal to an empty one.
Slices == [nil : BOOLEAN, items : SUBSET Infos]
Computed(infos) == [nil |-> FALSE, items |-> infos]
\* What comes back from the API server: empty lists are omitted from the JSON.
Decoded(slice) ==
  [nil |-> slice.items = {},
   items |-> {[i EXCEPT !.zone = "Local"] : i \in slice.items}]

Resource == [spec : Specs, list : Slices, last : Ages]
BlankStatus(s) == [spec |-> s, list |-> Decoded(Computed({})), last |-> Cooldown]
NoResource == BlankStatus(CHOOSE s \in Specs : TRUE)

VARIABLES
  present,    \* secrets that exist, match the selectors and hold a certificate
  left,       \* ticks until each certificate expires
  store,      \* the resource on the API server (last: LastNotificationTime)
  cached,     \* the informer's copy
  fresh,      \* whether that copy has the current resourceVersion
  pc, original, toRead, found, sent,   \* the worker and its pass
  nowAge,     \* ticks since the pass took time.Now()
  wait,       \* ticks until the queue's timer fires, 0 when it is not set
  queued,     \* the work queue holds the resource
  edits, faults,
  \* What happened outside the operator's memory, for the properties:
  roundAge,   \* age of the last round of notifications
  delivered,  \* certificates some channel accepted in this pass
  disturbed   \* since that round a pass started on a copy whose
              \* LastNotificationTime was old, or a round went unrecorded

clusterVars == <<present, left>>
crVars == <<store, cached, fresh>>
passVars == <<original, toRead, found, sent, nowAge>>
ghosts == <<roundAge, delivered, disturbed>>
vars == <<clusterVars, crVars, pc, passVars, wait, queued, edits, faults, ghosts>>

Stages == {"idle", "list", "read", "notify", "write"}

Init ==
  /\ present \in SUBSET Certs /\ left \in [Certs -> NewLives]
  /\ store \in {BlankStatus(s) : s \in Specs}
  /\ cached = store /\ fresh = TRUE
  /\ pc = "idle" /\ original = NoResource
  /\ toRead = {} /\ found = {} /\ sent = FALSE /\ nowAge = 0
  /\ wait = 0 /\ queued = TRUE
  /\ edits = 0 /\ faults = 0
  /\ roundAge = Cooldown /\ delivered = {} /\ disturbed = FALSE

-----------------------------------------------------------------------------
(***************************************************************************)
(* The pass.                                                               *)
(***************************************************************************)

Reconcile ==
  /\ pc = "idle" /\ queued
  /\ pc' = "list" /\ original' = cached /\ queued' = FALSE
  /\ delivered' = {}
  /\ disturbed' = (disturbed \/ cached.last # store.last)
  /\ UNCHANGED <<clusterVars, crVars, toRead, found, sent, nowAge, wait,
                 edits, faults, roundAge>>

\* A pass is over: its variables go out of scope.
EndPass ==
  /\ pc' = "idle" /\ original' = NoResource
  /\ toRead' = {} /\ found' = {} /\ sent' = FALSE /\ nowAge' = 0

\* The error returns: the queue takes the resource back.
ReturnError == EndPass /\ queued' = TRUE

\* The list of the secrets, which comes first, fails.
ListFails ==
  /\ pc = "list" /\ faults < MaxFaults /\ faults' = faults + 1
  /\ ReturnError
  /\ UNCHANGED <<clusterVars, crVars, wait, edits, ghosts>>

\* prepareSelectors fails on a selector that does not parse.
BadSelectors ==
  /\ pc = "list" /\ ~original.spec.valid
  /\ ReturnError
  /\ UNCHANGED <<clusterVars, crVars, wait, edits, faults, ghosts>>

ListSecrets ==
  /\ pc = "list" /\ original.spec.valid
  /\ pc' = "read"
  /\ toRead' = present /\ found' = {} /\ nowAge' = 0
  /\ UNCHANGED <<clusterVars, crVars, original, sent, wait, queued, edits,
                 faults, ghosts>>

\* One secret of the list, in any order.  Its days are counted from time.Now()
\* at the start.  If it is gone by now, or the read of it or of its namespace
\* fails, this pass goes on without it.
ReadSecret(c) ==
  /\ pc = "read" /\ c \in toRead
  /\ toRead' = toRead \ {c}
  /\ \/ /\ c \in present /\ UNCHANGED faults
        /\ found' = found \cup {Info(c, left[c] + nowAge, original.spec.threshold)}
     \/ c \notin present /\ UNCHANGED <<found, faults>>
     \/ faults < MaxFaults /\ faults' = faults + 1 /\ UNCHANGED found
  /\ UNCHANGED <<clusterVars, crVars, pc, original, sent, nowAge, wait, queued,
                 edits, ghosts>>

AllRead ==
  /\ pc = "read" /\ toRead = {}
  /\ pc' = "notify"
  /\ UNCHANGED <<clusterVars, crVars, passVars, wait, queued, edits, faults,
                 ghosts>>

ToNotify == {i \in found : i.status # "fine"}
InCooldown == original.last < Cooldown

\* Nothing is due, or the last round was less than 24 hours ago.
KeepSilent ==
  /\ pc = "notify" /\ (ToNotify = {} \/ InCooldown)
  /\ pc' = "write" /\ sent' = FALSE
  /\ UNCHANGED <<clusterVars, crVars, original, toRead, found, nowAge, wait,
                 queued, edits, faults, ghosts>>

\* Webhook and Opsgenie get the certificates in scope, and nothing without a
\* selector that parses; email gets them all.
Addressed(channel, certs) ==
  CASE channel = "email" -> certs
    [] original.spec.scope = "some" -> certs \cap Scoped
    [] OTHER -> {}

\* sendAggregatedNotifications logs errors and returns nothing: the round
\* counts as sent whichever channels accepted it.
Notify ==
  /\ pc = "notify" /\ ToNotify # {} /\ ~InCooldown
  /\ pc' = "write" /\ sent' = TRUE
  /\ \E up \in SUBSET Channels :
       /\ up # Channels => faults < MaxFaults
       /\ faults' = IF up = Channels THEN faults ELSE faults + 1
       /\ delivered' =
            UNION {Addressed(ch, {i.cert : i \in ToNotify}) : ch \in up}
  /\ roundAge' = nowAge /\ disturbed' = FALSE
  /\ UNCHANGED <<clusterVars, crVars, original, toRead, found, nowAge, wait,
                 queued, edits>>

\* Mutants: the time of every pass is recorded; that of a round is not.
DesiredLastAnyPass == nowAge
DesiredLastUnstamped == original.last
\* desiredStatus, built from the status read at the start of the pass.
DesiredLast == IF sent THEN nowAge ELSE original.last
\* Mutant: an empty list is taken for "nothing computed".
MeaningfulUnlessEmpty == (original.list # Computed(found) /\ found # {}) \/ sent
MeaningfulChange == original.list # Computed(found) \/ sent

\* Mutant: the cooldown is taken for the interval between passes.
RequeueAfterCooldown ==
  EndPass /\ wait' = IF wait = 0 THEN Cooldown ELSE wait
\* The last step of a pass that ends well; a timer that is set stays as it is.
RequeueAfterInterval ==
  EndPass /\ wait' = IF wait = 0 THEN Interval ELSE wait

\* RetryOnConflict reads the resource again from the cache, puts the desired
\* status on it and updates; only a copy with the current resourceVersion
\* is accepted.  Without a meaningful change there is no update.
UpdateStatus ==
  /\ pc = "write" /\ (MeaningfulChange => fresh)
  /\ store' = IF MeaningfulChange
              THEN [cached EXCEPT !.list = Decoded(Computed(found)),
                                  !.last = DesiredLast]
              ELSE store
  /\ fresh' = (fresh /\ ~MeaningfulChange)
  /\ RequeueAfterInterval
  /\ UNCHANGED <<clusterVars, cached, queued, edits, faults, ghosts>>

\* Five conflicts in some 50 milliseconds, or any other error.
UpdateFails ==
  /\ pc = "write" /\ MeaningfulChange
  /\ IF fresh THEN faults < MaxFaults /\ faults' = faults + 1
              ELSE UNCHANGED faults
  /\ ReturnError
  /\ disturbed' = (disturbed \/ sent)
  /\ UNCHANGED <<clusterVars, crVars, wait, edits, roundAge, delivered>>

Worker ==
  \/ Reconcile \/ ListFails \/ BadSelectors \/ ListSecrets \/ AllRead
  \/ \E c \in Certs : ReadSecret(c)
  \/ KeepSilent \/ Notify \/ UpdateStatus \/ UpdateFails

-----------------------------------------------------------------------------
(***************************************************************************)
(* The world around it.                                                    *)
(***************************************************************************)

\* A restart reads everything anew and queues every resource.
Restart ==
  /\ faults < MaxFaults /\ faults' = faults + 1
  /\ ReturnError
  /\ cached' = store /\ fresh' = TRUE /\ wait' = 0
  /\ disturbed' = (disturbed \/ sent)
  /\ UNCHANGED <<clusterVars, store, edits, roundAge, delivered>>

\* The watch event reaches the informer; GenerationChangedPredicate lets only
\* a change of the specification into the queue.
CacheSync ==
  /\ ~fresh /\ fresh' = TRUE
  /\ cached' = store
  /\ queued' = (queued \/ cached.spec # store.spec)
  /\ UNCHANGED <<clusterVars, store, pc, passVars, wait, edits, faults, ghosts>>

EditSpec(s) ==
  /\ edits < MaxEdits /\ edits' = edits + 1
  /\ s # store.spec /\ store' = [store EXCEPT !.spec = s]
  /\ fresh' = FALSE
  /\ UNCHANGED <<clusterVars, cached, pc, passVars, wait, queued, faults, ghosts>>

\* A secret is created, renewed or starts to match; it may hold any certificate.
SecretAppears(c, t) ==
  /\ present' = present \cup {c} /\ left' = [left EXCEPT ![c] = t]
  /\ UNCHANGED <<crVars, pc, passVars, wait, queued, edits, faults, ghosts>>

\* It is deleted, stops to match or to hold a certificate.
SecretGoes(c) ==
  /\ c \in present /\ present' = present \ {c}
  /\ UNCHANGED <<left, crVars, pc, passVars, wait, queued, edits, faults, ghosts>>

Older(age) == IF age < Cooldown THEN age + 1 ELSE age

TimePasses ==
  /\ nowAge < MaxPass
  /\ left' = [c \in Certs |-> IF left[c] > Oldest THEN left[c] - 1 ELSE Oldest]
  /\ store' = [store EXCEPT !.last = Older(@)]
  /\ cached' = [cached EXCEPT !.last = Older(@)]
  /\ original' = [original EXCEPT !.last = Older(@)]
  /\ roundAge' = Older(roundAge)
  /\ nowAge' = IF pc \in {"idle", "list"} THEN 0 ELSE nowAge + 1
  /\ wait' = IF wait > 0 THEN wait - 1 ELSE 0
  /\ queued' = (queued \/ wait = 1)
  /\ UNCHANGED <<present, fresh, pc, toRead, found, sent, edits, faults,
                 delivered, disturbed>>

Environment ==
  \/ Restart
  \/ \E s \in Specs : EditSpec(s)
  \/ \E c \in Certs : SecretGoes(c) \/ \E t \in NewLives : SecretAppears(c, t)

Next == Worker \/ CacheSync \/ TimePasses \/ Environment

Spec == Init /\ [][Next]_vars

\* The work queue hands the resource to a worker, watches deliver, time passes.
FairSpec ==
  Spec /\ WF_vars(Worker) /\ WF_vars(CacheSync) /\ WF_vars(TimePasses)

-----------------------------------------------------------------------------
(***************************************************************************)
(* Properties.                                                             *)
(***************************************************************************)

\* Every variable keeps its type.
TypeOK ==
  /\ present \subseteq Certs /\ left \in [Certs -> Lives]
  /\ store \in Resource /\ cached \in Resource /\ fresh \in BOOLEAN
  /\ pc \in Stages /\ original \in Resource
  /\ toRead \subseteq Certs /\ found \subseteq Infos /\ sent \in BOOLEAN
  /\ nowAge \in 0..MaxPass /\ wait \in 0..Interval /\ queued \in BOOLEAN
  /\ edits \in 0..MaxEdits /\ faults \in 0..MaxFaults
  /\ roundAge \in Ages /\ delivered \subseteq Certs /\ disturbed \in BOOLEAN

\* The cooldown silences a pass that found certificates to report only if a
\* round really was sent in the last 24 hours: whatever stale copies, lost
\* writes and restarts do to LastNotificationTime, they never put it later
\* than the last round (sendNotification, L149-157).
SilenceIsJustified ==
  [][KeepSilent /\ ToNotify # {} => roundAge < Cooldown]_vars

\* Two rounds less than 24 hours apart have one of two reasons: the record of
\* the first was lost (the status update failed, or the process stopped before
\* it), or since then some pass started on a copy of the resource that did not
\* show it, which may also write the old time back (L192-208).
RepeatsAreExplained ==
  [][Notify /\ roundAge < Cooldown => disturbed]_vars

\* Some channel can carry c now.
Reachable(c) ==
  \/ "email" \in Channels
  \/ c \in Scoped /\ store.spec.scope = "some" /\ Channels # {}

\* Certificate c is there, watched, and expired.
ExpiredAndWatched(c) ==
  c \in present /\ left[c] < 0 /\ store.spec.valid /\ Reachable(c)

\* A certificate that stays expired is reported again and again, once the
\* failures are over: rounds lost by a channel are only delayed (L146-163).
ExpiredIsReported ==
  \A c \in Certs : <>[]ExpiredAndWatched(c) => []<>(c \in delivered)

\* The status of a resource that can be processed follows the secrets: one that
\* is gone for good leaves MonitoredCertificates for good (L169-215).
StatusForgets ==
  \A c \in Certs :
    <>[](c \notin present /\ store.spec.valid) =>
      <>[](\A i \in store.list.items : i.cert # c)
=============================================================================
