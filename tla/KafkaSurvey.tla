------------------------------ MODULE KafkaSurvey ------------------------------
(***************************************************************************)
(* What the status of a KafkaAccessQuery promises its reader: it is the    *)
(* result of one survey, as a whole.  A survey takes the pods that run     *)
(* when it begins, looks at each of them once, and is published when it    *)
(* has looked at all; a survey that is given up leaves no trace.           *)
(***************************************************************************)
CONSTANTS Pods, Problems, None

VARIABLES
  running,     \* pods that run
  trouble,     \* the problems each of them shows
  surveying, todo, notes,
  published    \* the notes of the survey in the status

vars == <<running, trouble, surveying, todo, notes, published>>

\* A pod with access to Kafka, and the one problem that is kept of it.
Note(p, m) == [pod |-> p, problem |-> m]

Init ==
  /\ running \in SUBSET Pods /\ trouble \in [Pods -> SUBSET Problems]
  /\ surveying = FALSE /\ todo = {} /\ notes = {} /\ published = {}

WorldMoves ==
  /\ running' \in SUBSET Pods /\ trouble' \in [Pods -> SUBSET Problems]
  /\ UNCHANGED <<surveying, todo, notes, published>>

Begin ==
  /\ surveying' = TRUE /\ todo' = running /\ notes' = {}
  /\ UNCHANGED <<running, trouble, published>>

\* A pod without access to Kafka leaves no note.
Look(p) ==
  /\ surveying /\ p \in todo /\ todo' = todo \ {p}
  /\ \E m \in trouble[p] \cup {None} : notes' \in {notes, notes \cup {Note(p, m)}}
  /\ UNCHANGED <<running, trouble, surveying, published>>

Publish ==
  /\ surveying /\ todo = {} /\ published' = notes
  /\ surveying' = FALSE /\ notes' = {}
  /\ UNCHANGED <<running, trouble, todo>>

GiveUp ==
  /\ surveying' = FALSE /\ todo' = {} /\ notes' = {}
  /\ UNCHANGED <<running, trouble, published>>

Next == WorldMoves \/ Begin \/ (\E p \in Pods : Look(p)) \/ Publish \/ GiveUp

Spec == Init /\ [][Next]_vars
=============================================================================
