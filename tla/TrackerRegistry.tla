--------------------------- MODULE TrackerRegistry ---------------------------
(***************************************************************************)
(* What the server's tracking promises its clients: the requests of one    *)
(* connection are answered in order, each takes effect at one moment       *)
(* between its call and its answer, and names, once there, stay.  A name   *)
(* is there before its first window is.  A worker that panics answers      *)
(* everybody who is waiting for it, and all later requests, with an error. *)
(***************************************************************************)
EXTENDS TrackerWorker

VARIABLES
  calls, answers, \* per connection, in order
  effect,         \* per connection, the answer of a request that has taken effect
  known,          \* the names that are there
  trackers,       \* per worker, its trackers by window
  dead            \* the workers that have panicked

vars == <<calls, answers, effect, known, trackers, dead>>

Waiting(c) == Len(answers[c]) < Len(calls[c]) /\ effect[c] = None
Current(c) == calls[c][Len(answers[c]) + 1]
WaitsFor(c, n) == Waiting(c) /\ Current(c).kind # "query" /\ Current(c).name = n

Init ==
  /\ calls = [c \in Connection |-> <<>>] /\ answers = [c \in Connection |-> <<>>]
  /\ effect = [c \in Connection |-> None]
  /\ known = {Main}
  /\ trackers = [n \in Worker |-> <<>>]
  /\ dead = {}

Call(c, r) ==
  /\ calls' = [calls EXCEPT ![c] = Append(@, r)]
  /\ UNCHANGED <<answers, effect, known, trackers, dead>>

Register(c, n) ==
  /\ WaitsFor(c, n) /\ Current(c).kind = "add"
  /\ known' = known \cup {n}
  /\ UNCHANGED <<calls, answers, effect, trackers, dead>>

Answer(c) ==
  /\ Waiting(c) /\ Current(c).kind = "query"
  /\ effect' = [effect EXCEPT ![c] = QueryAnswer(Current(c))]
  /\ UNCHANGED <<calls, answers, known, trackers, dead>>

Refuse(c, n) ==
  /\ WaitsFor(c, n)
  /\ \/ n \notin known /\ Current(c).kind # "add" /\ effect' = [effect EXCEPT ![c] = Unknown]
     \/ n \in dead /\ effect' = [effect EXCEPT ![c] = Error]
  /\ UNCHANGED <<calls, answers, known, trackers, dead>>

Serve(c, n) ==
  /\ WaitsFor(c, n) /\ n \in known \ dead
  /\ ~Kills(trackers[n], Current(c))
  /\ trackers' = [trackers EXCEPT ![n] = AfterRequest(@, Current(c))]
  /\ effect' = [effect EXCEPT ![c] = AnswerTo(trackers[n], Current(c))]
  /\ UNCHANGED <<calls, answers, known, dead>>

Die(n) ==
  /\ n \in known \ dead
  /\ \E S \in SUBSET {c \in Connection : WaitsFor(c, n)} :
       /\ \E c \in S : Kills(trackers[n], Current(c))
       /\ effect' = [c \in Connection |-> IF c \in S THEN Error ELSE effect[c]]
  /\ dead' = dead \cup {n}
  /\ trackers' = [trackers EXCEPT ![n] = <<>>]
  /\ UNCHANGED <<calls, answers, known>>

Respond(c) ==
  /\ effect[c] # None
  /\ answers' = [answers EXCEPT ![c] = Append(@, effect[c])]
  /\ effect' = [effect EXCEPT ![c] = None]
  /\ UNCHANGED <<calls, known, trackers, dead>>

Next ==
  \/ \E c \in Connection : Answer(c) \/ Respond(c) \/ \E r \in Request : Call(c, r)
  \/ \E c \in Connection, n \in Worker : Register(c, n) \/ Refuse(c, n) \/ Serve(c, n)
  \/ \E n \in Worker : Die(n)

Spec == Init /\ [][Next]_vars
=============================================================================
