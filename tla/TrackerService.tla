--------------------------- MODULE TrackerService ---------------------------
(***************************************************************************)
(* The server's tracking (serve_goko/src): a task per connection takes the *)
(* requests it has read one after the other (http/service.rs) and hands    *)
(* a tracking request to the worker of its name, another task behind a     *)
(* channel (core/internal_service.rs), found in a map under a tokio RwLock *)
(* (api/mod.rs).  The read lock is kept until the worker has replied.      *)
(***************************************************************************)
EXTENDS TrackerWorker

CONSTANT MaxCalls  \* requests per connection

ASSUME MaxCallsAssumption == MaxCalls \in Nat

VARIABLES
  calls, answers, \* per connection, what was asked and what was responded
  requests,       \* the channel of each connection
  task,           \* where the task of the connection is
  reply,          \* the one-shot its task waits for, or None
  readers,        \* the lock: who reads ...
  waiters,        \* ... and who waits for it, first come first served
  known, trackers, dead, \* the map's names; each worker's trackers; the workers that panicked
  mailbox         \* the channel of each worker

clientVars == <<calls, answers, requests>>
lockVars   == <<readers, waiters>>
workerVars == <<known, trackers, dead, mailbox>>
vars == <<clientVars, task, reply, lockVars, workerVars>>

Init ==
  /\ calls = [c \in Connection |-> <<>>] /\ answers = [c \in Connection |-> <<>>]
  /\ requests = [c \in Connection |-> <<>>]
  /\ task = [c \in Connection |-> "recv"]
  /\ reply = [c \in Connection |-> None]
  /\ readers = {} /\ waiters = <<>>
  /\ known = {Main}
  /\ trackers = [n \in Worker |-> <<>>]
  /\ dead = {}
  /\ mailbox = [n \in Worker |-> <<>>]

(* The request the task of a connection is at work on. *)
Current(c) == calls[c][Len(answers[c]) + 1]

-----------------------------------------------------------------------------
(* Clients. *)

Call(c, r) ==
  /\ task[c] # "ended" /\ Len(calls[c]) < MaxCalls
  /\ calls' = [calls EXCEPT ![c] = Append(@, r)]
  /\ requests' = [requests EXCEPT ![c] = Append(@, r)]
  /\ UNCHANGED <<answers, task, reply, lockVars, workerVars>>

-----------------------------------------------------------------------------
(* The task of a connection. *)

(* message: a worker that has panicked has dropped its receiver.           *)
Send(n, c, r) ==
  IF n \in dead THEN reply' = [reply EXCEPT ![c] = Error] /\ UNCHANGED mailbox
  ELSE mailbox' = [mailbox EXCEPT ![n] = Append(@, [from |-> c, request |-> r])] /\ UNCHANGED reply

Received(c) ==
  /\ task[c] = "recv" /\ requests[c] # <<>>
  /\ requests' = [requests EXCEPT ![c] = Tail(@)]
  /\ UNCHANGED <<calls, answers>>

Query(c) ==
  /\ Received(c)
  /\ Head(requests[c]).kind = "query"
  /\ reply' = [reply EXCEPT ![c] = QueryAnswer(Head(requests[c]))]
  /\ task' = [task EXCEPT ![c] = "await"]
  /\ UNCHANGED <<lockVars, workerVars>>

AskMain(c) ==
  /\ Received(c)
  /\ LET r == Head(requests[c])
     IN r.kind # "query" /\ r.name = Main /\ Send(Main, c, r)
  /\ task' = [task EXCEPT ![c] = "await"]
  /\ UNCHANGED <<lockVars, known, trackers, dead>>

AskLock(c) ==
  /\ Received(c)
  /\ LET r == Head(requests[c])
     IN /\ r.kind # "query" /\ r.name # Main
        /\ task' = [task EXCEPT ![c] = IF r.kind = "add" THEN "write" ELSE "read"]
  /\ waiters' = Append(waiters, c)
  /\ UNCHANGED <<reply, readers, workerVars>>

(* Mutants: an entry that is there is replaced; the write guard lives on   *)
(* while the task asks for the read lock.                                  *)
ReplaceEntry(c) ==
  /\ task[c] = "write" /\ waiters # <<>> /\ Head(waiters) = c /\ readers = {}
  /\ known' = known \cup {Current(c).name}
  /\ trackers' = [trackers EXCEPT ![Current(c).name] = <<>>]
  /\ waiters' = Append(Tail(waiters), c)
  /\ task' = [task EXCEPT ![c] = "read"]
  /\ UNCHANGED <<clientVars, reply, readers, dead, mailbox>>

WriteGuardKept(c) ==
  /\ task[c] = "write" /\ waiters # <<>> /\ Head(waiters) = c /\ readers = {}
  /\ known' = known \cup {Current(c).name}
  /\ waiters' = Append(waiters, c)
  /\ task' = [task EXCEPT ![c] = "read"]
  /\ UNCHANGED <<clientVars, reply, readers, trackers, dead, mailbox>>

(* The write lock is held for the insertion only; then the task queues for *)
(* the read lock.                                                          *)
InsertEntry(c) ==
  /\ task[c] = "write" /\ waiters # <<>> /\ Head(waiters) = c /\ readers = {}
  /\ known' = known \cup {Current(c).name}
  /\ waiters' = Append(Tail(waiters), c)
  /\ task' = [task EXCEPT ![c] = "read"]
  /\ UNCHANGED <<clientVars, reply, readers, trackers, dead, mailbox>>

LookUp(c) ==
  /\ task[c] = "read" /\ waiters # <<>> /\ Head(waiters) = c
  /\ waiters' = Tail(waiters)
  /\ task' = [task EXCEPT ![c] = "await"]
  /\ LET n == Current(c).name
     IN IF n \in known
        THEN readers' = readers \cup {c} /\ Send(n, c, Current(c))
        ELSE reply' = [reply EXCEPT ![c] = Unknown] /\ UNCHANGED <<readers, mailbox>>
  /\ UNCHANGED <<clientVars, known, trackers, dead>>

(* Mutant: the read guard is not released. *)
RespondKeepsGuard(c) ==
  /\ task[c] = "await" /\ reply[c] # None
  /\ answers' = [answers EXCEPT ![c] = Append(@, reply[c])]
  /\ reply' = [reply EXCEPT ![c] = None]
  /\ task' = [task EXCEPT ![c] = "recv"]
  /\ UNCHANGED <<calls, requests, lockVars, workerVars>>

(* The reply is there: the guard goes, and the client is answered, if it   *)
(* is still listening.                                                     *)
Respond(c) ==
  /\ task[c] = "await" /\ reply[c] # None
  /\ readers' = readers \ {c}
  /\ answers' = [answers EXCEPT ![c] = Append(@, reply[c])]
  /\ reply' = [reply EXCEPT ![c] = None]
  /\ task' = [task EXCEPT ![c] = "recv"]
  /\ UNCHANGED <<calls, requests, waiters, workerVars>>

(* The client has dropped the service of the connection, and with it the   *)
(* sender: the task ends when it finds the channel empty.  The client is   *)
(* free to call until then, so the drop itself is no step.                 *)
HangUp(c) ==
  /\ task[c] = "recv" /\ requests[c] = <<>>
  /\ task' = [task EXCEPT ![c] = "ended"]
  /\ UNCHANGED <<clientVars, reply, lockVars, workerVars>>

-----------------------------------------------------------------------------
(* The task of a worker. *)

Process(n) ==
  /\ n \notin dead /\ mailbox[n] # <<>>
  /\ LET m == Head(mailbox[n])
     IN /\ ~Kills(trackers[n], m.request)
        /\ trackers' = [trackers EXCEPT ![n] = AfterRequest(@, m.request)]
        /\ reply' = [reply EXCEPT ![m.from] = AnswerTo(trackers[n], m.request)]
  /\ mailbox' = [mailbox EXCEPT ![n] = Tail(@)]
  /\ UNCHANGED <<clientVars, task, lockVars, known, dead>>

(* A panic ends the task; its channel is dropped, and the one-shots of all *)
(* the messages in it.                                                     *)
Panic(n) ==
  /\ n \notin dead /\ mailbox[n] # <<>>
  /\ Kills(trackers[n], Head(mailbox[n]).request)
  /\ dead' = dead \cup {n}
  /\ trackers' = [trackers EXCEPT ![n] = <<>>]
  /\ reply' = [c \in Connection |->
                 IF \E k \in DOMAIN mailbox[n] : mailbox[n][k].from = c THEN Error ELSE reply[c]]
  /\ mailbox' = [mailbox EXCEPT ![n] = <<>>]
  /\ UNCHANGED <<clientVars, task, lockVars, known>>

-----------------------------------------------------------------------------
(* Nothing is left to do, and the clients may be gone. *)
Quiet ==
  /\ \A c \in Connection : Len(answers[c]) = Len(calls[c])
  /\ UNCHANGED vars

TaskStep(c) == Query(c) \/ AskMain(c) \/ AskLock(c) \/ InsertEntry(c) \/ LookUp(c)

WorkerNext(n) == Process(n) \/ Panic(n)

-----------------------------------------------------------------------------
(* The state keeps its type; and the lock is held exactly by the tasks     *)
(* that wait for the reply of a named worker.                              *)
TypeOK ==
  /\ \A c \in Connection : calls[c] \in Seq(Request) /\ requests[c] \in Seq(Request)
  /\ \A c \in Connection : answers[c] \in Seq(Response) /\ reply[c] \in Response \cup {None}
  /\ task \in [Connection -> {"recv", "write", "read", "await", "ended"}]
  /\ \A n \in Worker : \A w \in DOMAIN trackers[n] : trackers[n][w] \in BayesCovertree
  /\ Main \in known /\ known \subseteq Worker /\ dead \subseteq known
  /\ \A c \in readers : /\ task[c] = "await"
                       /\ Current(c).kind # "query" /\ Current(c).name \in known \ {Main}

(* Clients see an atomic registry of trackers, whatever the tasks, the     *)
(* channels and the lock do.                                               *)
Registry == INSTANCE TrackerRegistry WITH effect <- reply
AtomicTrackers == Registry!Spec

(* The trackers of one worker have seen the same paths: of two windows the *)
(* shorter queue is the end of the longer, as far as both go back.         *)
WindowsAgree ==
  \A n \in Worker : \A v, w \in DOMAIN trackers[n] \ {0} :
    LET p == trackers[n][v].queue
        q == trackers[n][w].queue
    IN \A k \in 1..Len(p) : k <= Len(q) => p[Len(p) + 1 - k] = q[Len(q) + 1 - k]
=============================================================================
