------------------------ MODULE TrackerServiceProofs ------------------------
(***************************************************************************)
(* Proofs about the server, for any connections, names, trees and          *)
(* requests: its type with the discipline of the lock, that no reply is    *)
(* lost, that the windows of a worker agree, that clients see the atomic   *)
(* registry of TrackerRegistry, and that the conversation over HTTP is in  *)
(* order.                                                                  *)
(***************************************************************************)
EXTENDS HttpService, DataLemmas, FiniteSetTheorems, TLAPS

(* What the server does below HTTP, which only adds to when a task calls   *)
(* and ends.                                                               *)
ServiceNext ==
  \/ \E c \in Connection : Respond(c) \/ HangUp(c) \/ TaskStep(c) \/ \E r \in Request : Call(c, r)
  \/ \E n \in Worker : WorkerNext(n)

Message == [from: Connection, request: Request]

StateTyped ==
  /\ calls \in [Connection -> Seq(Request)] /\ requests \in [Connection -> Seq(Request)]
  /\ answers \in [Connection -> Seq(Response)]
  /\ task \in [Connection -> {"recv", "write", "read", "await", "ended"}]
  /\ reply \in [Connection -> Response \cup {None}]
  /\ readers \subseteq Connection
  /\ Main \in known /\ known \subseteq Worker /\ dead \subseteq known
  /\ DOMAIN trackers = Worker
  /\ mailbox \in [Worker -> Seq(Message)]

(* A worker keeps a tracker of its own window for every size. *)
TrackersTyped ==
  \A n \in Worker : \A w \in DOMAIN trackers[n] :
    w \in Nat /\ trackers[n][w] \in BayesCovertree /\ trackers[n][w].window = w

(* Every call is answered, at work, or in the channel, in this order.      *)
Idle(c) == task[c] \in {"recv", "ended"}

InOrder(c) ==
  /\ Idle(c)  => Len(calls[c]) = Len(answers[c]) + Len(requests[c])
  /\ ~Idle(c) => Len(calls[c]) = Len(answers[c]) + 1 + Len(requests[c])
  /\ \A j \in 1..Len(requests[c]) :
       requests[c][j] = calls[c][Len(calls[c]) - Len(requests[c]) + j]

(* Where the task is says what it may be at work on. *)
AtWork(c) ==
  /\ task[c] # "await" => reply[c] = None
  /\ task[c] \in {"write", "read"} => Current(c).kind # "query" /\ Current(c).name \in Name
  /\ task[c] = "write" => Current(c).kind = "add"
  /\ task[c] = "read" /\ Current(c).kind = "add" => Current(c).name \in known
  /\ c \in readers => /\ task[c] = "await"
                      /\ Current(c).kind # "query" /\ Current(c).name \in known \ {Main}

(* A message is the request its task waits with, and there is one of it,   *)
(* in the channel of a worker that is there and alive.                     *)
Delivered(n) ==
  \A j \in 1..Len(mailbox[n]) :
    LET m == mailbox[n][j]
    IN /\ n \in known \ dead
       /\ task[m.from] = "await" /\ reply[m.from] = None
       /\ m.request = Current(m.from) /\ m.request.kind # "query" /\ m.request.name = n
       /\ \A i \in 1..Len(mailbox[n]) : mailbox[n][i].from = m.from => i = j

(* A task that waits has its reply, or a message in the channel of the     *)
(* worker it asked, which is alive.                                        *)
NoReplyLost ==
  \A c \in Connection : task[c] = "await" /\ reply[c] = None =>
    /\ Current(c).kind # "query" /\ Current(c).name \in Worker
    /\ \E j \in 1..Len(mailbox[Current(c).name]) : mailbox[Current(c).name][j].from = c

IInv ==
  /\ StateTyped /\ TrackersTyped
  /\ \A c \in Connection : InOrder(c) /\ AtWork(c)
  /\ \A n \in Worker : Delivered(n)
  /\ NoReplyLost

-----------------------------------------------------------------------------
(* What a worker answers is an answer, and its trackers keep their windows. *)

LEMMA RequestFields ==
  ASSUME NEW r \in Request
  PROVE  /\ r.kind \in {"track_point", "track_path", "add", "stats", "query"}
         /\ r.kind # "query" => r.name \in Worker
         /\ r.kind = "track_point" => r.path \in Paths \cup {NoPath}
         /\ r.kind = "track_path" => r.path \in Paths
         /\ r.kind \in {"add", "stats"} => r.window \in Nat
         /\ r.kind = "query" => r \in Querying
<1>1. r \in Tracking \/ r \in Querying
  BY RequestAssumption
<1>2. CASE r \in Tracking
  BY <1>2 DEF Tracking, Worker
<1>3. CASE r \in Querying
  BY <1>3 DEF Querying
<1> QED
  BY <1>1, <1>2, <1>3

LEMMA QueryAnswerType ==
  ASSUME NEW r \in Request, r.kind = "query"
  PROVE  QueryAnswer(r) \in Response
<1>1. r \in Querying
  BY RequestFields
<1>2. CASE r.what = "parameters"
  BY <1>2 DEF QueryAnswer, ParametersAnswer, Response
<1>3. CASE r.what \in {"knn", "routing_knn"}
  <2>1. r.path \in Paths \cup {NoPath} /\ r.k \in Nat
    BY <1>1, <1>3 DEF Querying
  <2> QED
    BY <1>3, <2>1 DEF QueryAnswer, KnnAnswer, Response
<1>4. CASE r.what = "path"
  <2>1. r.path \in Paths \cup {NoPath}
    BY <1>1, <1>4 DEF Querying
  <2> QED
    BY <1>4, <2>1 DEF QueryAnswer, PathAnswer, Response
<1>5. CASE r.what = "unknown"
  BY <1>5 DEF QueryAnswer, Response
<1> QED
  BY <1>1, <1>2, <1>3, <1>4, <1>5 DEF Querying

(* The trackers of one worker. *)
GoodTrackers(ts) ==
  \A w \in DOMAIN ts : w \in Nat /\ ts[w] \in BayesCovertree /\ ts[w].window = w

LEMMA AnswerType ==
  ASSUME NEW r \in Request, r.kind # "query", NEW ts, GoodTrackers(ts)
  PROVE  AnswerTo(ts, r) \in Response
<1>1. CASE Counted(r)
  <2>1. r.kind \in {"track_point", "track_path"}
    BY <1>1 DEF Counted
  <2>2. AnswerTo(ts, r) = Done("track", r.kind = "track_path" \/ DOMAIN ts # {})
    BY <1>1, <2>1 DEF AnswerTo
  <2> QED
    BY <2>2 DEF Done, Response
<1>2. CASE ~Counted(r) /\ r.kind = "track_point"
  BY <1>2 DEF AnswerTo, Counted, Response
<1>3. CASE r.kind = "add"
  BY <1>3 DEF AnswerTo, Counted, Done, Response
<1>4. CASE r.kind = "stats" /\ r.window \in DOMAIN ts
  <2> DEFINE t == ts[r.window]
  <2>1. t \in BayesCovertree
    BY <1>4 DEF GoodTrackers
  <2>2. SequenceLen(t) \in Nat /\ t.overall \in [TreeNode -> Nat]
    BY <2>1 DEF SequenceLen, BayesCovertree
  <2>3. AnswerTo(ts, r) = [type |-> "stats", length |-> SequenceLen(t), overall |-> t.overall]
    BY <1>4 DEF AnswerTo, Counted
  <2> HIDE DEF t
  <2> QED
    BY <2>2, <2>3 DEF Response
<1>5. CASE ~Counted(r) /\ r.kind # "track_point" /\ r.kind # "add"
           /\ ~(r.kind = "stats" /\ r.window \in DOMAIN ts)
  BY <1>5 DEF AnswerTo, Response
<1> QED
  BY <1>1, <1>2, <1>3, <1>4, <1>5

LEMMA NewTrackerType ==
  ASSUME NEW w \in Nat
  PROVE  /\ NewTracker(w) \in BayesCovertree /\ NewTracker(w).window = w
         /\ NewTracker(w).queue = <<>>
<1>1. <<>> \in Seq(Paths)
  OBVIOUS
<1>2. [b \in Bucket |-> 0] \in [Bucket -> Nat] /\ [n \in TreeNode |-> 0] \in [TreeNode -> Nat]
      /\ [n \in TreeNode |-> 0] \in [TreeNode -> Int]
  OBVIOUS
<1> QED
  BY <1>1, <1>2 DEF NewTracker, BayesCovertree

-----------------------------------------------------------------------------
(* A tracker that counts a path remains one, with its window.              *)

LEMMA TraceKeepsTracker ==
  ASSUME NEW t \in BayesCovertree, NEW p \in Paths, NEW change \in Int
  PROVE  /\ Trace(t, p, change) \in BayesCovertree
         /\ Trace(t, p, change).queue = t.queue /\ Trace(t, p, change).window = t.window
<1> DEFINE obs == [b \in Bucket |-> IF b \in StepsOf(p) THEN Inc(t.observations[b], change)
                                                        ELSE t.observations[b]]
           tot == [n \in TreeNode |-> IF \E j \in 1..Len(p) : p[j] = n THEN t.total[n] + change
                                                                       ELSE t.total[n]]
           over == [n \in TreeNode |-> IF n = p[Len(p)] THEN Inc(t.overall[n], change)
                                                        ELSE t.overall[n]]
<1>1. \A n \in Nat : Inc(n, change) \in Nat
  BY DEF Inc
<1>2. obs \in [Bucket -> Nat] /\ tot \in [TreeNode -> Int] /\ over \in [TreeNode -> Nat]
  <2>1. /\ t.observations \in [Bucket -> Nat] /\ t.total \in [TreeNode -> Int]
        /\ t.overall \in [TreeNode -> Nat]
    BY DEF BayesCovertree
  <2>2. obs \in [Bucket -> Nat]
    BY <1>1, <2>1
  <2>3. tot \in [TreeNode -> Int]
    BY <2>1
  <2>4. over \in [TreeNode -> Nat]
    BY <1>1, <2>1
  <2> QED
    BY <2>2, <2>3, <2>4
<1>3. Trace(t, p, change) =
        [t EXCEPT !.observations = obs, !.total = tot, !.overall = over,
                  !.overallTotal = t.overallTotal + change]
  BY DEF Trace
<1> HIDE DEF obs, tot, over
<1>4. Trace(t, p, change) =
        [observations |-> obs, total |-> tot, overall |-> over,
         overallTotal |-> t.overallTotal + change,
         queue |-> t.queue, count |-> t.count, window |-> t.window]
  BY <1>3 DEF BayesCovertree
<1> QED
  BY <1>2, <1>4 DEF BayesCovertree

LEMMA AddPathKeepsTracker ==
  ASSUME NEW t \in BayesCovertree, NEW p \in Paths
  PROVE  /\ AddPath(t, p) \in BayesCovertree /\ AddPath(t, p).window = t.window
         /\ t.window # 0 => \/ AddPath(t, p).queue = Append(t.queue, p)
                            \/ /\ Len(t.queue) + 1 > t.window
                               /\ AddPath(t, p).queue = Tail(Append(t.queue, p))
<1> DEFINE counted == Trace(t, p, 1)
           stepped == [counted EXCEPT !.count = @ + 1]
           queue == Append(t.queue, p)
<1>1. counted \in BayesCovertree /\ counted.window = t.window /\ counted.queue = t.queue
  BY TraceKeepsTracker
<1>2. AddPath(t, p) = IF t.window = 0 THEN stepped
                      ELSE IF Len(queue) > t.window
                      THEN Trace([stepped EXCEPT !.queue = Tail(queue)], Head(queue), -1)
                      ELSE [stepped EXCEPT !.queue = queue]
  BY <1>1 DEF AddPath
<1>3. /\ queue \in Seq(Paths) /\ Len(queue) = Len(t.queue) + 1
      /\ Head(queue) \in Paths /\ Tail(queue) \in Seq(Paths)
  <2>1. queue \in Seq(Paths) /\ Len(queue) = Len(t.queue) + 1 /\ Len(t.queue) \in Nat
    BY DEF BayesCovertree
  <2> HIDE DEF queue
  <2> QED
    BY <2>1
<1> HIDE DEF counted, queue
<1>4. stepped \in BayesCovertree /\ stepped.window = t.window
  <2> DEFINE c == counted.count + 1
  <2>1. c \in Nat
    BY <1>1 DEF BayesCovertree
  <2>2. stepped = [counted EXCEPT !.count = c]
    OBVIOUS
  <2> HIDE DEF c, stepped
  <2> QED
    BY <2>1, <2>2, <1>1 DEF BayesCovertree
<1> HIDE DEF stepped
<1>5. \A q \in Seq(Paths) : /\ [stepped EXCEPT !.queue = q] \in BayesCovertree
                            /\ [stepped EXCEPT !.queue = q].window = t.window
                            /\ [stepped EXCEPT !.queue = q].queue = q
  BY <1>4 DEF BayesCovertree
<1> DEFINE shorter == [stepped EXCEPT !.queue = Tail(queue)]
<1>6. shorter \in BayesCovertree /\ shorter.window = t.window /\ shorter.queue = Tail(queue)
  BY <1>3, <1>5
<1> HIDE DEF shorter
<1> DEFINE x == Head(queue)
<1>7. LET u == Trace(shorter, x, -1)
      IN u \in BayesCovertree /\ u.window = t.window /\ u.queue = Tail(queue)
  <2>1. x \in Paths /\ -1 \in Int
    BY <1>3
  <2> HIDE DEF x
  <2>2. /\ Trace(shorter, x, -1) \in BayesCovertree
        /\ Trace(shorter, x, -1).queue = shorter.queue /\ Trace(shorter, x, -1).window = shorter.window
    BY <2>1, <1>6, TraceKeepsTracker
  <2> QED
    BY <2>2, <1>6
<1>8. CASE t.window = 0
  BY <1>2, <1>4, <1>8
<1>9. CASE t.window # 0 /\ Len(queue) > t.window
  BY <1>2, <1>3, <1>7, <1>9 DEF shorter, queue
<1>10. CASE t.window # 0 /\ ~(Len(queue) > t.window)
  BY <1>2, <1>3, <1>5, <1>10 DEF queue
<1> QED
  BY <1>8, <1>9, <1>10

LEMMA CountedPath ==
  ASSUME NEW r \in Request, Counted(r)
  PROVE  r.path \in Paths
BY RequestFields DEF Counted

LEMMA AfterRequestType ==
  ASSUME NEW r \in Request, NEW ts, GoodTrackers(ts)
  PROVE  GoodTrackers(AfterRequest(ts, r))
<1>1. CASE Counted(r)
  <2>1. AfterRequest(ts, r) = [w \in DOMAIN ts |-> AddPath(ts[w], r.path)]
    <3>1. r.kind # "add"
      BY <1>1 DEF Counted
    <3> QED
      BY <1>1, <3>1 DEF AfterRequest, Track
  <2>2. \A w \in DOMAIN ts : /\ AddPath(ts[w], r.path) \in BayesCovertree
                             /\ AddPath(ts[w], r.path).window = ts[w].window
    BY <1>1, CountedPath, AddPathKeepsTracker DEF GoodTrackers
  <2> QED
    BY <2>1, <2>2 DEF GoodTrackers
<1>2. CASE ~Counted(r) /\ r.kind = "add" /\ r.window \notin DOMAIN ts
  <2>1. AfterRequest(ts, r) =
          [v \in DOMAIN ts \cup {r.window} |-> IF v = r.window THEN NewTracker(r.window) ELSE ts[v]]
    BY <1>2 DEF AfterRequest, WithTracker
  <2>2. r.window \in Nat
    BY <1>2, RequestFields
  <2> QED
    BY <2>1, <2>2, NewTrackerType DEF GoodTrackers
<1>3. CASE ~Counted(r) /\ ~(r.kind = "add" /\ r.window \notin DOMAIN ts)
  BY <1>3 DEF AfterRequest
<1> QED
  BY <1>1, <1>2, <1>3


-----------------------------------------------------------------------------
(* What the task of a connection is at work on. *)

LEMMA Lengths ==
  ASSUME IInv, NEW c \in Connection
  PROVE  /\ calls[c] \in Seq(Request) /\ requests[c] \in Seq(Request) /\ answers[c] \in Seq(Response)
         /\ Len(calls[c]) \in Nat /\ Len(requests[c]) \in Nat /\ Len(answers[c]) \in Nat
         /\ requests[c] # <<>> => Len(requests[c]) >= 1
<1>1. calls[c] \in Seq(Request) /\ requests[c] \in Seq(Request) /\ answers[c] \in Seq(Response)
  BY DEF IInv, StateTyped
<1>2. \A S : \A s \in Seq(S) : Len(s) \in Nat /\ (s # <<>> => Len(s) >= 1)
  OBVIOUS
<1> QED
  BY <1>1, <1>2, Zenon

LEMMA CurrentIsCalled ==
  ASSUME IInv, NEW c \in Connection, ~Idle(c) \/ requests[c] # <<>>
  PROVE  Len(answers[c]) + 1 \in 1..Len(calls[c]) /\ Current(c) \in Request
<1>1. /\ Idle(c)  => Len(calls[c]) = Len(answers[c]) + Len(requests[c])
      /\ ~Idle(c) => Len(calls[c]) = Len(answers[c]) + 1 + Len(requests[c])
  BY DEF IInv, InOrder
<1>2. Len(answers[c]) + 1 \in 1..Len(calls[c])
  <2> DEFINE n == Len(calls[c])
             q == Len(requests[c])
             a == Len(answers[c])
  <2>1. n \in Nat /\ q \in Nat /\ a \in Nat /\ (requests[c] # <<>> => q >= 1)
    BY Lengths
  <2>2. /\ Idle(c) => n = a + q
        /\ ~Idle(c) => n = a + 1 + q
    BY <1>1
  <2> HIDE DEF n, q, a
  <2> QED
    <3>1. a + 1 \in 1..n
      BY <2>1, <2>2
    <3> QED
      BY <3>1 DEF a, n
<1>3. \A s \in Seq(Request) : \A k \in 1..Len(s) : s[k] \in Request
  OBVIOUS
<1> QED
  BY <1>2, <1>3, Lengths DEF Current

(* The next request in the channel is the one the task gets to work on.    *)
LEMMA NextIsCurrent ==
  ASSUME IInv, NEW c \in Connection, Received(c)
  PROVE  /\ Head(requests[c]) = Current(c) /\ Current(c) \in Request
         /\ Len(answers[c]) + 1 \in 1..Len(calls[c]) /\ Current(c)' = Current(c)
         /\ requests' \in [Connection -> Seq(Request)]
         /\ ~Idle(c)' => InOrder(c)'
<1> DEFINE n == Len(calls[c])
           q == Len(requests[c])
           a == Len(answers[c])
           s == requests[c]
           r == calls[c]
<1>1. n \in Nat /\ q \in Nat /\ a \in Nat /\ q >= 1 /\ s \in Seq(Request) /\ r \in Seq(Request)
  BY Lengths DEF Received
<1>2. n = a + q /\ \A j \in 1..q : s[j] = r[n - q + j]
  BY DEF IInv, InOrder, Idle, Received
<1>3. /\ requests' = [requests EXCEPT ![c] = Tail(@)] /\ requests \in [Connection -> Seq(Request)]
      /\ calls' = calls /\ answers' = answers
  BY DEF Received, IInv, StateTyped
<1>4. requests'[c] = Tail(s) /\ requests' \in [Connection -> Seq(Request)]
  <2>1. Tail(s) \in Seq(Request)
    BY <1>1, s # <<>> DEF Received
  <2> QED
    BY <2>1, <1>3
<1>5. /\ Head(s) = s[1] /\ Len(Tail(s)) = q - 1
      /\ \A j \in 1..(q - 1) : Tail(s)[j] = s[j + 1]
  <2>1. s # <<>> /\ q = Len(s)
    BY DEF Received
  <2> HIDE DEF s, q
  <2> QED
    BY <1>1, <2>1
<1> HIDE DEF n, q, a, s, r
<1>6. Head(s) = r[a + 1]
  <2>1. n - q + 1 = a + 1 /\ 1 \in 1..q
    BY <1>1, <1>2
  <2>2. s[1] = r[n - q + 1]
    BY <2>1, <1>2
  <2> QED
    BY <2>1, <2>2, <1>5
<1>7. a + 1 \in 1..n
  BY <1>1, <1>2
<1>8. Current(c)' = Current(c)
  BY <1>3 DEF Current
<1>9. ASSUME ~Idle(c)' PROVE InOrder(c)'
  <2>1. n = a + 1 + (q - 1)
    BY <1>1, <1>2
  <2>2. \A j \in 1..(q - 1) : Tail(s)[j] = r[n - (q - 1) + j]
    <3> SUFFICES ASSUME NEW j \in 1..(q - 1) PROVE Tail(s)[j] = r[n - (q - 1) + j]
      OBVIOUS
    <3>1. j + 1 \in 1..q /\ n - q + (j + 1) = n - (q - 1) + j
      BY <1>1
    <3> QED
      BY <3>1, <1>2, <1>5
  <2>3. /\ requests'[c] = Tail(s) /\ Len(requests'[c]) = q - 1
        /\ calls'[c] = r /\ Len(calls'[c]) = n /\ Len(answers'[c]) = a
    BY <1>3, <1>4, <1>5 DEF r, n, a
  <2>4. Len(calls'[c]) = Len(answers'[c]) + 1 + Len(requests'[c])
    BY <2>1, <2>3
  <2>5. \A j \in 1..Len(requests'[c]) :
          requests'[c][j] = calls'[c][Len(calls'[c]) - Len(requests'[c]) + j]
    BY <2>2, <2>3
  <2> QED
    BY <2>4, <2>5, <1>9 DEF InOrder
<1>10. \A x \in Seq(Request) : \A k \in 1..Len(x) : x[k] \in Request
  OBVIOUS
<1>11. Current(c) \in Request
  BY <1>1, <1>7, <1>10 DEF Current, a, n, r
<1> QED
  BY <1>4, <1>6, <1>7, <1>8, <1>9, <1>11 DEF Current, s, a, n, r

(* A task at work keeps its request while its client goes on calling.      *)
LEMMA CurrentStays ==
  ASSUME IInv, NEW c \in Connection, ~Idle(c), answers'[c] = answers[c],
         calls'[c] = calls[c] \/ \E r \in Request : calls'[c] = Append(calls[c], r)
  PROVE  Current(c)' = Current(c)
<1>1. calls[c] \in Seq(Request) /\ Len(answers[c]) + 1 \in 1..Len(calls[c])
  BY CurrentIsCalled DEF IInv, StateTyped
<1> QED
  BY <1>1 DEF Current

LEMMA SendersWait ==
  ASSUME IInv, NEW n \in Worker, NEW j \in 1..Len(mailbox[n])
  PROVE  /\ mailbox[n][j].from \in Connection /\ mailbox[n][j].request \in Request
         /\ task[mailbox[n][j].from] = "await" /\ reply[mailbox[n][j].from] = None
         /\ mailbox[n][j].request = Current(mailbox[n][j].from)
         /\ mailbox[n][j].request.kind # "query" /\ mailbox[n][j].request.name = n
         /\ n \in known \ dead
<1>1. mailbox[n] \in Seq(Message)
  BY DEF IInv, StateTyped
<1>2. mailbox[n][j] \in Message
  BY <1>1
<1> QED
  BY <1>2 DEF IInv, Delivered, Message

(* What has been delivered to a worker stays so, as long as the senders    *)
(* stay as they are.                                                       *)
LEMMA DeliveredStays ==
  ASSUME IInv, NEW n \in Worker, mailbox'[n] = mailbox[n], known \subseteq known', dead' = dead,
         \A d \in Connection :
           /\ task[d] = "await" /\ reply[d] = None
           /\ \E j \in 1..Len(mailbox[n]) : mailbox[n][j].from = d
           => task'[d] = "await" /\ reply'[d] = None /\ Current(d)' = Current(d)
  PROVE  Delivered(n)'
<1> DEFINE box == mailbox[n]
<1>1. /\ \A j \in 1..Len(box) : /\ box[j].from \in Connection
                                /\ task[box[j].from] = "await" /\ reply[box[j].from] = None
                                /\ box[j].request = Current(box[j].from)
                                /\ box[j].request.kind # "query" /\ box[j].request.name = n
                                /\ n \in known \ dead
  BY SendersWait
<1>2. \A j \in 1..Len(box) : \A i \in 1..Len(box) : box[i].from = box[j].from => i = j
  BY DEF IInv, Delivered
<1>3. ASSUME NEW j \in 1..Len(box), NEW d, d = box[j].from
      PROVE  task'[d] = "await" /\ reply'[d] = None /\ box[j].request = Current(d)'
  <2>1. d \in Connection /\ task[d] = "await" /\ reply[d] = None /\ box[j].request = Current(d)
    BY <1>1, <1>3
  <2> QED
    BY <2>1, <1>3
<1>4. \A j \in 1..Len(mailbox'[n]) :
        /\ n \in known' \ dead'
        /\ task'[mailbox'[n][j].from] = "await" /\ reply'[mailbox'[n][j].from] = None
        /\ mailbox'[n][j].request.kind # "query" /\ mailbox'[n][j].request.name = n
        /\ \A i \in 1..Len(mailbox'[n]) : mailbox'[n][i].from = mailbox'[n][j].from => i = j
  BY <1>1, <1>2, <1>3
<1>5. \A j \in 1..Len(mailbox'[n]) : mailbox'[n][j].request =
         calls'[mailbox'[n][j].from][Len(answers'[mailbox'[n][j].from]) + 1]
  <2> SUFFICES ASSUME NEW j \in 1..Len(box)
               PROVE  box[j].request = calls'[box[j].from][Len(answers'[box[j].from]) + 1]
    OBVIOUS
  <2>1. PICK d : d = box[j].from
    OBVIOUS
  <2>2. box[j].request = Current(d)'
    BY <1>3, <2>1
  <2>3. box[j].request = calls'[d][Len(answers'[d]) + 1]
    BY <2>2 DEF Current
  <2> QED
    BY <2>1, <2>3
<1> QED
  BY <1>4, <1>5 DEF Delivered, Current

-----------------------------------------------------------------------------
(* Every step keeps the invariant. *)

LEMMA CallIInv ==
  ASSUME IInv, NEW c \in Connection, NEW r \in Request, Call(c, r)
  PROVE  IInv'
<1>1. /\ calls' = [calls EXCEPT ![c] = Append(@, r)] /\ requests' = [requests EXCEPT ![c] = Append(@, r)]
      /\ answers' = answers /\ task' = task /\ reply' = reply /\ readers' = readers
      /\ known' = known /\ trackers' = trackers /\ dead' = dead /\ mailbox' = mailbox
  BY DEF Call, lockVars, workerVars
<1>2. /\ calls \in [Connection -> Seq(Request)] /\ requests \in [Connection -> Seq(Request)]
      /\ answers \in [Connection -> Seq(Response)]
  BY DEF IInv, StateTyped
<1>3. calls' \in [Connection -> Seq(Request)] /\ requests' \in [Connection -> Seq(Request)]
  BY <1>1, <1>2
<1>4. StateTyped' /\ TrackersTyped'
  BY <1>1, <1>3 DEF IInv, StateTyped, TrackersTyped
<1>5. \A d \in Connection : ~Idle(d) => Current(d)' = Current(d)
  <2> SUFFICES ASSUME NEW d \in Connection, ~Idle(d) PROVE Current(d)' = Current(d)
    OBVIOUS
  <2>1. calls'[d] = calls[d] \/ calls'[d] = Append(calls[d], r)
    BY <1>1, <1>2
  <2> QED
    BY <2>1, <1>1, CurrentStays
<1>6. \A d \in Connection : InOrder(d)'
  <2> SUFFICES ASSUME NEW d \in Connection PROVE InOrder(d)'
    OBVIOUS
  <2>1. InOrder(d)
    BY DEF IInv
  <2>2. CASE d # c
    BY <2>1, <2>2, <1>1, <1>2 DEF InOrder, Idle
  <2>3. CASE d = c
    <3> DEFINE n == Len(calls[c])
               q == Len(requests[c])
               a == Len(answers[c])
               s == requests[c]
               t == calls[c]
    <3>1. n \in Nat /\ q \in Nat /\ a \in Nat /\ s \in Seq(Request) /\ t \in Seq(Request)
      BY Lengths
    <3>2. /\ calls'[c] = Append(t, r) /\ requests'[c] = Append(s, r)
          /\ answers'[c] = answers[c] /\ Idle(c)' = Idle(c)
      BY <1>1, <1>2 DEF Idle
    <3>3. /\ Idle(c) => n = a + q
          /\ ~Idle(c) => n = a + 1 + q
          /\ \A j \in 1..q : s[j] = t[n - q + j]
      BY <2>1, <2>3 DEF InOrder
    <3>a. n = Len(t) /\ q = Len(s)
      OBVIOUS
    <3> HIDE DEF n, q, a, s, t
    <3>4. /\ Len(Append(t, r)) = n + 1 /\ Len(Append(s, r)) = q + 1
          /\ Append(t, r)[n + 1] = r /\ Append(s, r)[q + 1] = r
          /\ \A j \in 1..n : Append(t, r)[j] = t[j]
          /\ \A j \in 1..q : Append(s, r)[j] = s[j]
      BY <3>1, <3>a
    <3>5. /\ Idle(c) => n + 1 = a + (q + 1)
          /\ ~Idle(c) => n + 1 = a + 1 + (q + 1)
      BY <3>1, <3>3
    <3>6. ASSUME NEW j \in 1..(q + 1)
          PROVE  Append(s, r)[j] = Append(t, r)[(n + 1) - (q + 1) + j]
      <4>1. (n + 1) - (q + 1) + j = n - q + j /\ n - q + (q + 1) = n + 1
        BY <3>1
      <4>2. CASE j = q + 1
        BY <4>1, <4>2, <3>4
      <4>3. CASE j \in 1..q
        <5>1. n - q + j \in 1..n
          BY <4>3, <3>1, <3>3
        <5> QED
          BY <5>1, <4>1, <4>3, <3>3, <3>4
      <4>4. j = q + 1 \/ j \in 1..q
        BY <3>1
      <4> QED
        BY <4>2, <4>3, <4>4
    <3>7. /\ calls'[c] = Append(t, r) /\ Len(calls'[c]) = n + 1
          /\ requests'[c] = Append(s, r) /\ Len(requests'[c]) = q + 1
          /\ Len(answers'[c]) = a
      BY <3>2, <3>4 DEF a
    <3>8. \A j \in 1..Len(requests'[c]) :
            requests'[c][j] = calls'[c][Len(calls'[c]) - Len(requests'[c]) + j]
      BY <3>6, <3>7
    <3>9. /\ Idle(c)'  => Len(calls'[c]) = Len(answers'[c]) + Len(requests'[c])
          /\ ~Idle(c)' => Len(calls'[c]) = Len(answers'[c]) + 1 + Len(requests'[c])
      BY <3>2, <3>5, <3>7
    <3> QED
      BY <3>8, <3>9, <2>3 DEF InOrder
  <2> QED
    BY <2>2, <2>3
<1>7. \A d \in Connection : AtWork(d)'
  BY <1>1, <1>5 DEF IInv, AtWork, Idle
<1>8. \A n \in Worker : Delivered(n)'
  BY <1>1, <1>5, DeliveredStays DEF Idle
<1>9. NoReplyLost'
  BY <1>1, <1>5 DEF IInv, NoReplyLost, Idle
<1> QED
  BY <1>4, <1>6, <1>7, <1>8, <1>9 DEF IInv

(* A request that is received, or waits for the lock, changes the order of *)
(* no connection.                                                          *)
LEMMA OrderStays ==
  ASSUME IInv, NEW d \in Connection, Idle(d)' = Idle(d),
         calls'[d] = calls[d], answers'[d] = answers[d], requests'[d] = requests[d]
  PROVE  InOrder(d)' /\ Current(d)' = Current(d)
<1>1. InOrder(d)
  BY DEF IInv
<1> QED
  BY <1>1 DEF InOrder, Current

LEMMA ReceivedOrder ==
  ASSUME IInv, NEW c \in Connection, Received(c), NEW s \in {"write", "read", "await"},
         task' = [task EXCEPT ![c] = s]
  PROVE  /\ \A d \in Connection : InOrder(d)' /\ Current(d)' = Current(d)
         /\ task' \in [Connection -> {"recv", "write", "read", "await", "ended"}]
         /\ task'[c] = s /\ \A d \in Connection \ {c} : task'[d] = task[d]
<1>1. /\ task \in [Connection -> {"recv", "write", "read", "await", "ended"}]
      /\ requests \in [Connection -> Seq(Request)]
  BY DEF IInv, StateTyped
<1>2. /\ task' \in [Connection -> {"recv", "write", "read", "await", "ended"}]
      /\ task'[c] = s /\ \A d \in Connection \ {c} : task'[d] = task[d]
  BY <1>1
<1>3. InOrder(c)' /\ Current(c)' = Current(c)
  <2>1. ~Idle(c)'
    BY <1>2 DEF Idle
  <2> QED
    BY <2>1, NextIsCurrent
<1>4. ASSUME NEW d \in Connection, d # c PROVE InOrder(d)' /\ Current(d)' = Current(d)
  <2>1. Idle(d)' = Idle(d)
    BY <1>2, <1>4 DEF Idle
  <2>2. calls'[d] = calls[d] /\ answers'[d] = answers[d] /\ requests'[d] = requests[d]
    BY <1>1, <1>4 DEF Received
  <2> QED
    BY <2>1, <2>2, OrderStays
<1> QED
  BY <1>2, <1>3, <1>4

(* A message is sent to a worker that is there: it is in its channel, or,  *)
(* if the worker has panicked, the task has its error.                     *)
LEMMA SendDelivers ==
  ASSUME IInv, NEW c \in Connection, NEW n \in known, NEW r \in Request,
         task[c] # "await", task'[c] = "await", \A d \in Connection \ {c} : task'[d] = task[d],
         r = Current(c), r.kind # "query", r.name = n, Send(n, c, r),
         known' = known, dead' = dead, \A d \in Connection : Current(d)' = Current(d)
  PROVE  /\ reply' \in [Connection -> Response \cup {None}]
         /\ \A d \in Connection \ {c} : reply'[d] = reply[d]
         /\ mailbox' \in [Worker -> Seq(Message)]
         /\ \A m \in Worker : Delivered(m)'
         /\ NoReplyLost'
<1> DEFINE box == mailbox[n]
           letter == [from |-> c, request |-> r]
<1>1. /\ reply \in [Connection -> Response \cup {None}] /\ mailbox \in [Worker -> Seq(Message)]
      /\ n \in Worker /\ reply[c] = None
  BY DEF IInv, StateTyped, AtWork
<1>2. CASE n \in dead
  <2>1. reply' = [reply EXCEPT ![c] = Error] /\ mailbox' = mailbox
    BY <1>2 DEF Send
  <2>2. Error \in Response /\ Error # None
    BY NoneAssumption DEF Response
  <2>3. /\ reply' \in [Connection -> Response \cup {None}] /\ reply'[c] # None
        /\ \A d \in Connection \ {c} : reply'[d] = reply[d]
    BY <1>1, <2>1, <2>2
  <2>4. \A m \in Worker : Delivered(m)'
    <3>1. \A d \in Connection : task[d] = "await" /\ reply[d] = None =>
             task'[d] = "await" /\ reply'[d] = None
      BY <2>3
    <3> QED
      BY <3>1, <2>1, DeliveredStays
  <2>5. NoReplyLost'
    BY <2>1, <2>3 DEF IInv, NoReplyLost
  <2> QED
    BY <1>1, <2>1, <2>3, <2>4, <2>5
<1>3. CASE n \notin dead
  <2>1. mailbox' = [mailbox EXCEPT ![n] = Append(box, letter)] /\ reply' = reply
    BY <1>3 DEF Send
  <2>2. box \in Seq(Message) /\ letter \in Message
    BY <1>1 DEF Message
  <2>3. /\ mailbox'[n] = Append(box, letter) /\ mailbox' \in [Worker -> Seq(Message)]
        /\ \A m \in Worker \ {n} : mailbox'[m] = mailbox[m]
    <3>1. Append(box, letter) \in Seq(Message)
      BY <2>2
    <3> QED
      BY <3>1, <2>1, <1>1
  <2>4. /\ Len(mailbox'[n]) = Len(box) + 1 /\ Len(box) \in Nat
        /\ mailbox'[n][Len(box) + 1] = letter
        /\ \A j \in 1..Len(box) : mailbox'[n][j] = box[j]
    <3> HIDE DEF box, letter
    <3> QED
      BY <2>2, <2>3
  <2>5. /\ \A j \in 1..Len(box) : /\ box[j].from \in Connection \ {c}
                                  /\ task[box[j].from] = "await" /\ reply[box[j].from] = None
                                  /\ box[j].request = Current(box[j].from)
                                  /\ box[j].request.kind # "query" /\ box[j].request.name = n
        /\ \A j \in 1..Len(box) : \A i \in 1..Len(box) : box[i].from = box[j].from => i = j
    <3>1. Delivered(n)
      BY <1>1 DEF IInv
    <3>2. \A j \in 1..Len(box) : /\ box[j].from \in Connection
                                  /\ task[box[j].from] = "await" /\ reply[box[j].from] = None
                                  /\ box[j].request = Current(box[j].from)
                                  /\ box[j].request.kind # "query" /\ box[j].request.name = n
      BY <1>1, SendersWait
    <3>3. \A j \in 1..Len(box) : box[j].from # c
      BY <3>2
    <3>4. \A j \in 1..Len(box) : \A i \in 1..Len(box) : box[i].from = box[j].from => i = j
      BY <3>1 DEF Delivered
    <3> HIDE DEF box
    <3> QED
      BY <3>2, <3>3, <3>4
  <2>6. letter.from = c /\ letter.request = r
    OBVIOUS
  <2> HIDE DEF box, letter
  <2>7. ASSUME NEW j \in 1..(Len(box) + 1) PROVE j \in 1..Len(box) \/ j = Len(box) + 1
    BY <2>4
  <2>8. Delivered(n)'
    <3> DEFINE q == mailbox'[n]
    <3>1. ASSUME NEW j \in 1..Len(q), NEW d, d = q[j].from
          PROVE  /\ task'[d] = "await" /\ reply'[d] = None /\ q[j].request = Current(d)'
                 /\ q[j].request.kind # "query" /\ q[j].request.name = n
      <4>1. CASE j \in 1..Len(box)
        BY <4>1, <3>1, <2>1, <2>4, <2>5
      <4>2. CASE j = Len(box) + 1
        BY <4>2, <3>1, <2>1, <2>4, <2>6, <1>1
      <4> QED
        BY <4>1, <4>2, <2>4, <2>7
    <3>2. ASSUME NEW j \in 1..Len(q), NEW i \in 1..Len(q), q[i].from = q[j].from
          PROVE  i = j
      <4>1. j \in 1..Len(box) \/ j = Len(box) + 1
        BY <2>4, <2>7
      <4>2. i \in 1..Len(box) \/ i = Len(box) + 1
        BY <2>4, <2>7
      <4> QED
        BY <4>1, <4>2, <3>2, <2>4, <2>5, <2>6
    <3>3. ASSUME NEW j \in 1..Len(q)
          PROVE  q[j].request = calls'[q[j].from][Len(answers'[q[j].from]) + 1]
      <4>1. PICK d : d = q[j].from
        OBVIOUS
      <4>2. q[j].request = Current(d)'
        BY <3>1, <4>1
      <4> QED
        BY <4>1, <4>2 DEF Current
    <3>4. n \in known' \ dead'
      BY <1>3
    <3> QED
      BY <3>1, <3>2, <3>3, <3>4 DEF Delivered, Current
  <2>9. \A m \in Worker \ {n} : Delivered(m)'
    <3>1. \A d \in Connection : task[d] = "await" /\ reply[d] = None =>
             task'[d] = "await" /\ reply'[d] = None
      BY <2>1
    <3> QED
      BY <3>1, <2>3, DeliveredStays
  <2>10. NoReplyLost'
    <3> SUFFICES ASSUME NEW d \in Connection, task'[d] = "await", reply'[d] = None
                 PROVE  /\ Current(d).kind # "query" /\ Current(d).name \in Worker
                        /\ \E j \in 1..Len(mailbox'[Current(d).name]) :
                              mailbox'[Current(d).name][j].from = d
      BY DEF NoReplyLost
    <3>1. CASE d = c
      <4>1. Len(box) + 1 \in 1..Len(mailbox'[n])
        BY <2>4
      <4> QED
        BY <4>1, <3>1, <2>4, <2>6, <1>1
    <3>2. CASE d # c
      <4> DEFINE m == Current(d).name
      <4>1. /\ Current(d).kind # "query" /\ m \in Worker
            /\ \E j \in 1..Len(mailbox[m]) : mailbox[m][j].from = d
        BY <3>2, <2>1 DEF IInv, NoReplyLost
      <4>2. PICK j \in 1..Len(mailbox[m]) : mailbox[m][j].from = d
        BY <4>1
      <4> HIDE DEF m
      <4>3. j \in 1..Len(mailbox'[m]) /\ mailbox'[m][j].from = d
        <5>1. CASE m = n
          BY <5>1, <4>2, <2>4 DEF box
        <5>2. CASE m # n
          BY <5>2, <4>1, <4>2, <2>3
        <5> QED
          BY <5>1, <5>2
      <4> QED
        BY <4>1, <4>3 DEF m
    <3> QED
      BY <3>1, <3>2
  <2> QED
    BY <1>1, <2>1, <2>3, <2>8, <2>9, <2>10
<1> QED
  BY <1>2, <1>3

LEMMA QueryIInv ==
  ASSUME IInv, NEW c \in Connection, Query(c)
  PROVE  IInv'
<1>1. /\ Received(c) /\ task' = [task EXCEPT ![c] = "await"] /\ Head(requests[c]).kind = "query"
      /\ reply' = [reply EXCEPT ![c] = QueryAnswer(Head(requests[c]))]
      /\ calls' = calls /\ answers' = answers /\ readers' = readers
      /\ known' = known /\ trackers' = trackers /\ dead' = dead /\ mailbox' = mailbox
  BY DEF Query, Received, lockVars, workerVars
<1>2. /\ \A d \in Connection : InOrder(d)' /\ Current(d)' = Current(d)
      /\ task' \in [Connection -> {"recv", "write", "read", "await", "ended"}]
      /\ task'[c] = "await" /\ \A d \in Connection \ {c} : task'[d] = task[d]
  BY <1>1, ReceivedOrder
<1>3. /\ requests' \in [Connection -> Seq(Request)]
      /\ QueryAnswer(Head(requests[c])) \in Response
  BY <1>1, NextIsCurrent, QueryAnswerType
<1>4. /\ reply' \in [Connection -> Response \cup {None}] /\ reply'[c] # None
      /\ \A d \in Connection \ {c} : reply'[d] = reply[d]
  BY <1>1, <1>3, NoneAssumption DEF IInv, StateTyped
<1>5. StateTyped' /\ TrackersTyped'
  BY <1>1, <1>2, <1>3, <1>4 DEF IInv, StateTyped, TrackersTyped
<1>6. task[c] = "recv"
  BY <1>1 DEF Received
<1>7. \A d \in Connection : AtWork(d)'
  BY <1>1, <1>2, <1>4, <1>6 DEF IInv, AtWork
<1>8. \A n \in Worker : Delivered(n)'
  <2>1. \A d \in Connection : task[d] = "await" => task'[d] = "await" /\ reply'[d] = reply[d]
    BY <1>2, <1>4, <1>6
  <2> QED
    BY <2>1, <1>1, <1>2, DeliveredStays
<1>9. NoReplyLost'
  BY <1>1, <1>2, <1>4 DEF IInv, NoReplyLost
<1> QED
  BY <1>2, <1>5, <1>7, <1>8, <1>9 DEF IInv

LEMMA AskMainIInv ==
  ASSUME IInv, NEW c \in Connection, AskMain(c)
  PROVE  IInv'
<1> DEFINE r == Head(requests[c])
<1>1. /\ Received(c) /\ task' = [task EXCEPT ![c] = "await"] /\ r.kind # "query" /\ r.name = Main
      /\ Send(Main, c, r)
      /\ calls' = calls /\ answers' = answers /\ readers' = readers
      /\ known' = known /\ trackers' = trackers /\ dead' = dead
  BY DEF AskMain, Received, lockVars
<1>2. /\ \A d \in Connection : InOrder(d)' /\ Current(d)' = Current(d)
      /\ task' \in [Connection -> {"recv", "write", "read", "await", "ended"}]
      /\ task'[c] = "await" /\ \A d \in Connection \ {c} : task'[d] = task[d]
  BY <1>1, ReceivedOrder
<1>3. requests' \in [Connection -> Seq(Request)] /\ r = Current(c) /\ r \in Request
  BY <1>1, NextIsCurrent
<1>4. task[c] = "recv" /\ Main \in known
  BY <1>1 DEF Received, IInv, StateTyped
<1> HIDE DEF r
<1>5. /\ reply' \in [Connection -> Response \cup {None}]
      /\ \A d \in Connection \ {c} : reply'[d] = reply[d]
      /\ mailbox' \in [Worker -> Seq(Message)]
      /\ \A m \in Worker : Delivered(m)'
      /\ NoReplyLost'
  BY <1>1, <1>2, <1>3, <1>4, SendDelivers
<1>6. StateTyped' /\ TrackersTyped'
  BY <1>1, <1>2, <1>3, <1>5 DEF IInv, StateTyped, TrackersTyped
<1>7. \A d \in Connection : AtWork(d)'
  BY <1>1, <1>2, <1>4, <1>5 DEF IInv, AtWork
<1> QED
  BY <1>2, <1>5, <1>6, <1>7 DEF IInv

LEMMA AskLockIInv ==
  ASSUME IInv, NEW c \in Connection, AskLock(c)
  PROVE  IInv'
<1> DEFINE r == Head(requests[c])
           s == IF r.kind = "add" THEN "write" ELSE "read"
<1>1. /\ Received(c) /\ task' = [task EXCEPT ![c] = s] /\ r.kind # "query" /\ r.name # Main
      /\ calls' = calls /\ answers' = answers /\ readers' = readers /\ reply' = reply
      /\ known' = known /\ trackers' = trackers /\ dead' = dead /\ mailbox' = mailbox
  BY DEF AskLock, Received, workerVars
<1>a. s \in {"write", "read"} /\ (s = "write" => r.kind = "add") /\ (s = "read" => r.kind # "add")
  OBVIOUS
<1>3. requests' \in [Connection -> Seq(Request)] /\ r = Current(c) /\ r \in Request
  BY <1>1, NextIsCurrent
<1>4. task[c] = "recv" /\ r.name \in Name
  <2>1. r.name \in Worker
    BY <1>1, <1>3, RequestFields
  <2> QED
    BY <2>1, <1>1 DEF Received, Worker
<1> HIDE DEF r, s
<1>2. /\ \A d \in Connection : InOrder(d)' /\ Current(d)' = Current(d)
      /\ task' \in [Connection -> {"recv", "write", "read", "await", "ended"}]
      /\ task'[c] = s /\ \A d \in Connection \ {c} : task'[d] = task[d]
  <2>1. s \in {"write", "read", "await"}
    BY <1>a
  <2> QED
    BY <2>1, <1>1, ReceivedOrder
<1>6. StateTyped' /\ TrackersTyped'
  BY <1>1, <1>2, <1>3 DEF IInv, StateTyped, TrackersTyped
<1>7. \A d \in Connection : AtWork(d)'
  <2>1. ASSUME NEW d \in Connection, d # c PROVE AtWork(d)'
    BY <2>1, <1>1, <1>2 DEF IInv, AtWork
  <2>2. AtWork(c)'
    BY <1>1, <1>2, <1>3, <1>4, <1>a DEF IInv, AtWork
  <2> QED
    BY <2>1, <2>2
<1>8. \A n \in Worker : Delivered(n)'
  <2>1. \A d \in Connection : task[d] = "await" => task'[d] = "await" /\ reply'[d] = reply[d]
    BY <1>1, <1>2, <1>4
  <2> QED
    BY <2>1, <1>1, <1>2, DeliveredStays
<1>9. NoReplyLost'
  BY <1>1, <1>2, <1>a DEF IInv, NoReplyLost
<1> QED
  BY <1>2, <1>6, <1>7, <1>8, <1>9 DEF IInv

(* A task that had to wait for the lock goes on. *)
LEMMA WorkOrder ==
  ASSUME IInv, NEW c \in Connection, ~Idle(c), UNCHANGED clientVars,
         NEW s \in {"write", "read", "await"}, task' = [task EXCEPT ![c] = s]
  PROVE  /\ \A d \in Connection : InOrder(d)' /\ Current(d)' = Current(d)
         /\ task' \in [Connection -> {"recv", "write", "read", "await", "ended"}]
         /\ task'[c] = s /\ \A d \in Connection \ {c} : task'[d] = task[d]
         /\ calls' = calls /\ answers' = answers /\ requests' = requests
<1>1. /\ task' \in [Connection -> {"recv", "write", "read", "await", "ended"}]
      /\ task'[c] = s /\ \A d \in Connection \ {c} : task'[d] = task[d]
  BY DEF IInv, StateTyped
<1>2. \A d \in Connection : Idle(d)' = Idle(d)
  <2>1. Idle(c)' = Idle(c)
    BY <1>1 DEF Idle
  <2>2. \A d \in Connection \ {c} : Idle(d)' = Idle(d)
    BY <1>1 DEF Idle
  <2> QED
    BY <2>1, <2>2
<1> QED
  BY <1>1, <1>2, OrderStays DEF clientVars

LEMMA InsertIInv ==
  ASSUME IInv, NEW c \in Connection, InsertEntry(c)
  PROVE  IInv'
<1>1. /\ task[c] = "write" /\ task' = [task EXCEPT ![c] = "read"]
      /\ known' = known \cup {Current(c).name}
      /\ UNCHANGED clientVars /\ reply' = reply /\ readers' = readers
      /\ trackers' = trackers /\ dead' = dead /\ mailbox' = mailbox
  BY DEF InsertEntry
<1>2. /\ \A d \in Connection : InOrder(d)' /\ Current(d)' = Current(d)
      /\ task' \in [Connection -> {"recv", "write", "read", "await", "ended"}]
      /\ task'[c] = "read" /\ \A d \in Connection \ {c} : task'[d] = task[d]
      /\ calls' = calls /\ answers' = answers /\ requests' = requests
  <2>1. ~Idle(c)
    BY <1>1 DEF Idle
  <2> QED
    BY <2>1, <1>1, WorkOrder
<1>3. Current(c).kind = "add" /\ Current(c).name \in Name
  BY <1>1 DEF IInv, AtWork
<1>4. known' \subseteq Worker /\ known \subseteq known'
  BY <1>1, <1>3 DEF IInv, StateTyped, Worker
<1>6. StateTyped' /\ TrackersTyped'
  BY <1>1, <1>2, <1>4 DEF IInv, StateTyped, TrackersTyped
<1>7. \A d \in Connection : AtWork(d)'
  <2>1. ASSUME NEW d \in Connection, d # c PROVE AtWork(d)'
    BY <2>1, <1>1, <1>2, <1>4 DEF IInv, AtWork
  <2>2. AtWork(c)'
    BY <1>1, <1>2, <1>3 DEF IInv, AtWork
  <2> QED
    BY <2>1, <2>2
<1>8. \A n \in Worker : Delivered(n)'
  <2>1. \A d \in Connection : task[d] = "await" => task'[d] = "await" /\ reply'[d] = reply[d]
    BY <1>1, <1>2
  <2> QED
    BY <2>1, <1>1, <1>2, <1>4, DeliveredStays
<1>9. NoReplyLost'
  BY <1>1, <1>2 DEF IInv, NoReplyLost
<1> QED
  BY <1>2, <1>6, <1>7, <1>8, <1>9 DEF IInv

LEMMA LookUpIInv ==
  ASSUME IInv, NEW c \in Connection, LookUp(c)
  PROVE  IInv'
<1> DEFINE n == Current(c).name
<1>1. /\ task[c] = "read" /\ task' = [task EXCEPT ![c] = "await"]
      /\ UNCHANGED clientVars /\ known' = known /\ trackers' = trackers /\ dead' = dead
      /\ IF n \in known THEN readers' = readers \cup {c} /\ Send(n, c, Current(c))
                        ELSE /\ reply' = [reply EXCEPT ![c] = Unknown]
                             /\ readers' = readers /\ mailbox' = mailbox
  BY DEF LookUp
<1>2. /\ \A d \in Connection : InOrder(d)' /\ Current(d)' = Current(d)
      /\ task' \in [Connection -> {"recv", "write", "read", "await", "ended"}]
      /\ task'[c] = "await" /\ \A d \in Connection \ {c} : task'[d] = task[d]
      /\ calls' = calls /\ answers' = answers /\ requests' = requests
  <2>1. ~Idle(c)
    BY <1>1 DEF Idle
  <2> QED
    BY <2>1, <1>1, WorkOrder
<1>3. Current(c).kind # "query" /\ n \in Name /\ n # Main /\ Current(c) \in Request
  <2>1. Current(c).kind # "query" /\ n \in Name
    BY <1>1 DEF IInv, AtWork
  <2>2. ~Idle(c)
    BY <1>1 DEF Idle
  <2> QED
    BY <2>1, <2>2, CurrentIsCalled, RequestAssumption
<1>4. CASE n \in known
  <2>1. /\ reply' \in [Connection -> Response \cup {None}]
        /\ \A d \in Connection \ {c} : reply'[d] = reply[d]
        /\ mailbox' \in [Worker -> Seq(Message)]
        /\ \A m \in Worker : Delivered(m)'
        /\ NoReplyLost'
    BY <1>1, <1>2, <1>3, <1>4, SendDelivers
  <2>2. StateTyped' /\ TrackersTyped'
    BY <1>1, <1>2, <1>4, <2>1 DEF IInv, StateTyped, TrackersTyped
  <2>3. \A d \in Connection : AtWork(d)'
    <3>1. ASSUME NEW d \in Connection, d # c PROVE AtWork(d)'
      BY <3>1, <2>1, <1>1, <1>2, <1>4 DEF IInv, AtWork
    <3>2. AtWork(c)'
      BY <1>2, <1>1, <1>3, <1>4 DEF IInv, AtWork
    <3> QED
      BY <3>1, <3>2
  <2> QED
    BY <2>1, <2>2, <2>3, <1>2 DEF IInv
<1>5. CASE n \notin known
  <2>1. /\ reply' = [reply EXCEPT ![c] = Unknown] /\ readers' = readers /\ mailbox' = mailbox
        /\ Unknown \in Response /\ Unknown # None
    BY <1>1, <1>5, NoneAssumption DEF Response
  <2>2. /\ reply' \in [Connection -> Response \cup {None}] /\ reply'[c] # None
        /\ \A d \in Connection \ {c} : reply'[d] = reply[d]
    BY <2>1 DEF IInv, StateTyped
  <2>3. StateTyped' /\ TrackersTyped'
    BY <1>1, <1>2, <2>1, <2>2 DEF IInv, StateTyped, TrackersTyped
  <2>4. \A d \in Connection : AtWork(d)'
    BY <1>1, <1>2, <2>1, <2>2 DEF IInv, AtWork
  <2>5. \A m \in Worker : Delivered(m)'
    <3>1. \A d \in Connection : task[d] = "await" => task'[d] = "await" /\ reply'[d] = reply[d]
      BY <1>1, <1>2, <2>2
    <3> QED
      BY <3>1, <1>1, <1>2, <2>1, DeliveredStays
  <2>6. NoReplyLost'
    BY <1>1, <1>2, <2>1, <2>2 DEF IInv, NoReplyLost
  <2> QED
    BY <2>3, <2>4, <2>5, <2>6, <1>2 DEF IInv
<1> QED
  BY <1>4, <1>5

LEMMA RespondIInv ==
  ASSUME IInv, NEW c \in Connection, Respond(c)
  PROVE  IInv'
<1>1. /\ task[c] = "await" /\ reply[c] # None
      /\ readers' = readers \ {c}
      /\ answers' = [answers EXCEPT ![c] = Append(@, reply[c])]
      /\ reply' = [reply EXCEPT ![c] = None]
      /\ task' = [task EXCEPT ![c] = "recv"]
      /\ calls' = calls /\ requests' = requests
      /\ known' = known /\ trackers' = trackers /\ dead' = dead /\ mailbox' = mailbox
  BY DEF Respond, workerVars
<1>2. /\ answers \in [Connection -> Seq(Response)] /\ reply[c] \in Response
      /\ reply \in [Connection -> Response \cup {None}]
      /\ task \in [Connection -> {"recv", "write", "read", "await", "ended"}]
  BY <1>1 DEF IInv, StateTyped
<1>3. Append(answers[c], reply[c]) \in Seq(Response) /\ Len(Append(answers[c], reply[c])) = Len(answers[c]) + 1
  BY <1>2
<1>4. /\ answers' \in [Connection -> Seq(Response)] /\ Len(answers'[c]) = Len(answers[c]) + 1
      /\ reply' \in [Connection -> Response \cup {None}] /\ reply'[c] = None
      /\ task' \in [Connection -> {"recv", "write", "read", "await", "ended"}] /\ task'[c] = "recv"
      /\ \A d \in Connection \ {c} :
           answers'[d] = answers[d] /\ reply'[d] = reply[d] /\ task'[d] = task[d]
  BY <1>1, <1>2, <1>3
<1>5. StateTyped' /\ TrackersTyped'
  BY <1>1, <1>4 DEF IInv, StateTyped, TrackersTyped
<1>6. \A d \in Connection \ {c} : InOrder(d)' /\ Current(d)' = Current(d)
  <2> SUFFICES ASSUME NEW d \in Connection \ {c} PROVE InOrder(d)' /\ Current(d)' = Current(d)
    OBVIOUS
  <2>1. Idle(d)' = Idle(d)
    BY <1>4 DEF Idle
  <2> QED
    BY <2>1, <1>1, <1>4, OrderStays
<1>7. InOrder(c)'
  <2>1. /\ ~Idle(c) /\ Idle(c)' /\ InOrder(c)
    BY <1>1, <1>4 DEF Idle, IInv
  <2>2. /\ Len(calls'[c]) = Len(answers'[c]) + Len(requests'[c])
    BY <2>1, <1>1, <1>4 DEF InOrder
  <2> QED
    BY <2>1, <2>2, <1>1 DEF InOrder
<1>8. \A d \in Connection : AtWork(d)'
  <2>1. ASSUME NEW d \in Connection, d # c PROVE AtWork(d)'
    BY <2>1, <1>1, <1>4, <1>6 DEF IInv, AtWork
  <2>2. AtWork(c)'
    BY <1>1, <1>4 DEF AtWork
  <2> QED
    BY <2>1, <2>2
<1>9. \A n \in Worker : Delivered(n)'
  <2>1. \A d \in Connection : task[d] = "await" /\ reply[d] = None =>
           task'[d] = "await" /\ reply'[d] = None /\ Current(d)' = Current(d)
    BY <1>1, <1>4, <1>6
  <2> QED
    BY <2>1, <1>1, DeliveredStays
<1>10. NoReplyLost'
  <2> SUFFICES ASSUME NEW d \in Connection, task'[d] = "await", reply'[d] = None
               PROVE  /\ Current(d)'.kind # "query" /\ Current(d)'.name \in Worker
                      /\ \E j \in 1..Len(mailbox'[Current(d)'.name]) :
                           mailbox'[Current(d)'.name][j].from = d
    BY DEF NoReplyLost
  <2>1. d # c
    BY <1>4
  <2>2. task[d] = "await" /\ reply[d] = None /\ Current(d)' = Current(d) /\ mailbox' = mailbox
    BY <1>1, <1>4, <1>6, <2>1
  <2> QED
    BY <2>2 DEF IInv, NoReplyLost
<1> QED
  BY <1>5, <1>6, <1>7, <1>8, <1>9, <1>10 DEF IInv

LEMMA HangUpIInv ==
  ASSUME IInv, NEW c \in Connection, HangUp(c)
  PROVE  IInv'
<1>1. /\ task[c] = "recv" /\ task' = [task EXCEPT ![c] = "ended"]
      /\ calls' = calls /\ answers' = answers /\ requests' = requests /\ reply' = reply
      /\ readers' = readers
      /\ known' = known /\ trackers' = trackers /\ dead' = dead /\ mailbox' = mailbox
  BY DEF HangUp, clientVars, lockVars, workerVars
<1>2. /\ task' \in [Connection -> {"recv", "write", "read", "await", "ended"}]
      /\ task'[c] = "ended" /\ \A d \in Connection \ {c} : task'[d] = task[d]
  BY <1>1 DEF IInv, StateTyped
<1>3. StateTyped' /\ TrackersTyped'
  BY <1>1, <1>2 DEF IInv, StateTyped, TrackersTyped
<1>4. \A d \in Connection : InOrder(d)' /\ Current(d)' = Current(d)
  <2>1. \A d \in Connection : Idle(d)' = Idle(d)
    <3>1. Idle(c)' = Idle(c)
      BY <1>1, <1>2 DEF Idle
    <3>2. \A d \in Connection \ {c} : Idle(d)' = Idle(d)
      BY <1>2 DEF Idle
    <3> QED
      BY <3>1, <3>2
  <2> QED
    BY <2>1, <1>1, OrderStays
<1>5. \A d \in Connection : AtWork(d)'
  BY <1>1, <1>2, <1>4 DEF IInv, AtWork
<1>6. \A n \in Worker : Delivered(n)'
  <2>1. \A d \in Connection : task[d] = "await" => task'[d] = "await"
    BY <1>1, <1>2
  <2> QED
    BY <2>1, <1>1, <1>4, DeliveredStays
<1>7. NoReplyLost'
  BY <1>1, <1>2, <1>4 DEF IInv, NoReplyLost
<1> QED
  BY <1>3, <1>4, <1>5, <1>6, <1>7 DEF IInv

(* The message a worker takes is the only one of its sender.               *)
LEMMA HeadOfMailbox ==
  ASSUME IInv, NEW n \in Worker, mailbox[n] # <<>>
  PROVE  LET m == Head(mailbox[n])
         IN  /\ m = mailbox[n][1] /\ 1 \in 1..Len(mailbox[n]) /\ mailbox[n] \in Seq(Message)
             /\ m.from \in Connection /\ m.request \in Request
             /\ task[m.from] = "await" /\ reply[m.from] = None
             /\ m.request = Current(m.from) /\ m.request.kind # "query" /\ m.request.name = n
             /\ n \in known \ dead
             /\ Len(Tail(mailbox[n])) = Len(mailbox[n]) - 1 /\ Tail(mailbox[n]) \in Seq(Message)
             /\ \A j \in 1..Len(Tail(mailbox[n])) : /\ Tail(mailbox[n])[j] = mailbox[n][j + 1]
                                                    /\ j + 1 \in 1..Len(mailbox[n])
                                                    /\ mailbox[n][j + 1].from # m.from
<1> DEFINE box == mailbox[n]
<1>1. box \in Seq(Message) /\ box # <<>>
  BY DEF IInv, StateTyped
<1>2. \A j \in 1..Len(box) : \A i \in 1..Len(box) : box[i].from = box[j].from => i = j
  BY DEF IInv, Delivered
<1>3. \A j \in 1..Len(box) :
         /\ box[j].from \in Connection /\ box[j].request \in Request
         /\ task[box[j].from] = "await" /\ reply[box[j].from] = None
         /\ box[j].request = Current(box[j].from)
         /\ box[j].request.kind # "query" /\ box[j].request.name = n
         /\ n \in known \ dead
  BY SendersWait
<1> HIDE DEF box
<1>4. /\ Head(box) = box[1] /\ Len(box) \in Nat /\ Len(box) >= 1
      /\ Len(Tail(box)) = Len(box) - 1 /\ Tail(box) \in Seq(Message)
      /\ \A j \in 1..(Len(box) - 1) : Tail(box)[j] = box[j + 1]
  BY <1>1
<1>5. \A j \in 1..(Len(box) - 1) : j + 1 \in 1..Len(box) /\ j + 1 # 1
  BY <1>4
<1>6. 1 \in 1..Len(box)
  BY <1>4
<1>7. \A j \in 1..(Len(box) - 1) : box[j + 1].from # Head(box).from
  BY <1>2, <1>4, <1>5, <1>6
<1>8. /\ Head(box) = box[1] /\ 1 \in 1..Len(box) /\ box \in Seq(Message)
      /\ Len(Tail(box)) = Len(box) - 1 /\ Tail(box) \in Seq(Message)
      /\ \A j \in 1..Len(Tail(box)) : /\ Tail(box)[j] = box[j + 1]
                                      /\ j + 1 \in 1..Len(box)
                                      /\ box[j + 1].from # Head(box).from
  BY <1>1, <1>4, <1>5, <1>6, <1>7
<1>9. /\ box[1].from \in Connection /\ box[1].request \in Request
      /\ task[box[1].from] = "await" /\ reply[box[1].from] = None
      /\ box[1].request = Current(box[1].from)
      /\ box[1].request.kind # "query" /\ box[1].request.name = n
      /\ n \in known \ dead
  BY <1>3, <1>6
<1> QED
  BY <1>8, <1>9 DEF box

LEMMA ProcessIInv ==
  ASSUME IInv, NEW n \in Worker, Process(n)
  PROVE  IInv'
<1> DEFINE m == Head(mailbox[n])
           c == m.from
           box == mailbox[n]
<1>1. /\ box # <<>>
      /\ trackers' = [trackers EXCEPT ![n] = AfterRequest(@, m.request)]
      /\ reply' = [reply EXCEPT ![c] = AnswerTo(trackers[n], m.request)]
      /\ mailbox' = [mailbox EXCEPT ![n] = Tail(@)]
      /\ calls' = calls /\ answers' = answers /\ requests' = requests
      /\ task' = task /\ readers' = readers /\ known' = known /\ dead' = dead
  BY DEF Process, clientVars, lockVars
<1>2. /\ c \in Connection /\ m.request \in Request /\ m.request.kind # "query"
      /\ task[c] = "await" /\ Current(c).name = n /\ n \in known \ dead
      /\ Len(Tail(box)) = Len(box) - 1 /\ Tail(box) \in Seq(Message) /\ box \in Seq(Message)
      /\ box[1] = m /\ 1 \in 1..Len(box)
      /\ \A j \in 1..Len(Tail(box)) : /\ Tail(box)[j] = box[j + 1]
                                      /\ j + 1 \in 1..Len(box)
                                      /\ box[j + 1].from # c
  BY <1>1, HeadOfMailbox
<1> HIDE DEF m, box
<1>3. GoodTrackers(trackers[n])
  BY DEF IInv, TrackersTyped, GoodTrackers
<1>4. AnswerTo(trackers[n], m.request) \in Response /\ GoodTrackers(AfterRequest(trackers[n], m.request))
  BY <1>2, <1>3, AnswerType, AfterRequestType
<1> HIDE DEF c
<1>5. /\ reply \in [Connection -> Response \cup {None}] /\ mailbox \in [Worker -> Seq(Message)]
      /\ DOMAIN trackers = Worker
  BY DEF IInv, StateTyped
<1>6. /\ reply' \in [Connection -> Response \cup {None}] /\ reply'[c] # None
      /\ \A d \in Connection \ {c} : reply'[d] = reply[d]
      /\ mailbox' \in [Worker -> Seq(Message)] /\ mailbox'[n] = Tail(box)
      /\ \A k \in Worker \ {n} : mailbox'[k] = mailbox[k]
  BY <1>1, <1>2, <1>4, <1>5, NoneAssumption DEF box
<1>7. /\ DOMAIN trackers' = Worker /\ trackers'[n] = AfterRequest(trackers[n], m.request)
      /\ \A k \in Worker \ {n} : trackers'[k] = trackers[k]
  BY <1>1, <1>5
<1>8. StateTyped'
  BY <1>1, <1>6, <1>7 DEF IInv, StateTyped
<1>9. TrackersTyped'
  <2>1. ASSUME NEW k \in Worker PROVE GoodTrackers(trackers'[k])
    <3>1. CASE k = n
      BY <3>1, <1>4, <1>7
    <3>2. CASE k # n
      BY <3>2, <1>7 DEF IInv, TrackersTyped, GoodTrackers
    <3> QED
      BY <3>1, <3>2
  <2> QED
    BY <2>1 DEF TrackersTyped, GoodTrackers
<1>10. \A d \in Connection : InOrder(d)' /\ Current(d)' = Current(d)
  BY <1>1, OrderStays DEF Idle
<1>11. \A d \in Connection : AtWork(d)'
  BY <1>1, <1>2, <1>6, <1>10 DEF IInv, AtWork
<1>12. \A k \in Worker : Delivered(k)'
  <2>1. ASSUME NEW k \in Worker, k # n PROVE Delivered(k)'
    <3>1. ASSUME NEW d \in Connection, task[d] = "await", reply[d] = None,
                 \E j \in 1..Len(mailbox[k]) : mailbox[k][j].from = d
          PROVE  task'[d] = "await" /\ reply'[d] = None /\ Current(d)' = Current(d)
      <4>1. Current(d).name = k
        BY <3>1, SendersWait
      <4>2. d # c
        BY <4>1, <2>1, <1>2
      <4> QED
        BY <4>2, <3>1, <1>1, <1>6, <1>10
    <3> QED
      BY <3>1, <2>1, <1>1, <1>6, DeliveredStays
  <2>2. Delivered(n)'
    <3> DEFINE q == mailbox'[n]
    <3>1. \A j \in 1..Len(q) : q[j] = box[j + 1] /\ j + 1 \in 1..Len(box) /\ box[j + 1].from # c
      BY <1>2, <1>6
    <3>2. \A j \in 1..Len(box) :
            /\ box[j].from \in Connection /\ task[box[j].from] = "await" /\ reply[box[j].from] = None
            /\ box[j].request = Current(box[j].from)
            /\ box[j].request.kind # "query" /\ box[j].request.name = n
      BY SendersWait DEF box
    <3>3. \A j \in 1..Len(box) : \A i \in 1..Len(box) : box[i].from = box[j].from => i = j
      BY DEF IInv, Delivered, box
    <3>4. ASSUME NEW j \in 1..Len(q), NEW d, d = q[j].from
          PROVE  /\ task'[d] = "await" /\ reply'[d] = None /\ q[j].request = Current(d)'
                 /\ q[j].request.kind # "query" /\ q[j].request.name = n
      <4>1. j + 1 \in 1..Len(box) /\ d = box[j + 1].from /\ q[j] = box[j + 1] /\ d # c
        BY <3>1, <3>4
      <4>2. /\ d \in Connection /\ task[d] = "await" /\ reply[d] = None
            /\ q[j].request = Current(d) /\ q[j].request.kind # "query" /\ q[j].request.name = n
        BY <4>1, <3>2
      <4> QED
        BY <4>1, <4>2, <1>1, <1>6, <1>10
    <3>5. ASSUME NEW j \in 1..Len(q), NEW i \in 1..Len(q), q[i].from = q[j].from
          PROVE  i = j
      <4>1. i + 1 = j + 1
        BY <3>1, <3>3, <3>5
      <4> QED
        BY <4>1
    <3>6. ASSUME NEW j \in 1..Len(q)
          PROVE  q[j].request = calls'[q[j].from][Len(answers'[q[j].from]) + 1]
      <4>1. PICK d : d = q[j].from
        OBVIOUS
      <4>2. q[j].request = Current(d)'
        BY <3>4, <4>1
      <4> QED
        BY <4>1, <4>2 DEF Current
    <3>7. n \in known' \ dead'
      BY <1>1, <1>2
    <3> QED
      BY <3>4, <3>5, <3>6, <3>7 DEF Delivered, Current
  <2> QED
    BY <2>1, <2>2
<1>13. NoReplyLost'
  <2> SUFFICES ASSUME NEW d \in Connection, task'[d] = "await", reply'[d] = None
               PROVE  /\ Current(d).kind # "query" /\ Current(d).name \in Worker
                      /\ \E j \in 1..Len(mailbox'[Current(d).name]) :
                            mailbox'[Current(d).name][j].from = d
    BY <1>10 DEF NoReplyLost
  <2> DEFINE k == Current(d).name
  <2>1. d # c /\ task[d] = "await" /\ reply[d] = None
    BY <1>1, <1>6
  <2>2. Current(d).kind # "query" /\ k \in Worker
        /\ \E j \in 1..Len(mailbox[k]) : mailbox[k][j].from = d
    BY <2>1 DEF IInv, NoReplyLost
  <2>3. PICK j \in 1..Len(mailbox[k]) : mailbox[k][j].from = d
    BY <2>2
  <2> HIDE DEF k
  <2>4. \E i \in 1..Len(mailbox'[k]) : mailbox'[k][i].from = d
    <3>1. CASE k = n
      <4>1. j \in 1..Len(box) /\ box[j].from = d /\ j # 1
        <5>1. box[1].from = c
          BY <1>2 DEF c
        <5> QED
          BY <5>1, <3>1, <2>1, <2>3 DEF box
      <4>2. Len(box) \in Nat /\ Len(mailbox'[n]) = Len(box) - 1
        BY <1>2, <1>6
      <4>3. j - 1 \in 1..Len(mailbox'[n]) /\ (j - 1) + 1 = j
        BY <4>1, <4>2
      <4>4. mailbox'[n][j - 1] = box[j]
        BY <4>3, <1>2, <1>6
      <4> QED
        BY <4>1, <4>3, <4>4, <3>1
    <3>2. CASE k # n
      BY <3>2, <2>2, <2>3, <1>6
    <3> QED
      BY <3>1, <3>2
  <2> QED
    BY <2>2, <2>4 DEF k
<1> QED
  BY <1>8, <1>9, <1>10, <1>11, <1>12, <1>13 DEF IInv

LEMMA PanicIInv ==
  ASSUME IInv, NEW n \in Worker, Panic(n)
  PROVE  IInv'
<1> DEFINE box == mailbox[n]
           Gone(c) == \E k \in DOMAIN box : box[k].from = c
<1>1. /\ n \notin dead /\ box # <<>>
      /\ dead' = dead \cup {n}
      /\ trackers' = [trackers EXCEPT ![n] = <<>>]
      /\ reply' = [c \in Connection |-> IF Gone(c) THEN Error ELSE reply[c]]
      /\ mailbox' = [mailbox EXCEPT ![n] = <<>>]
      /\ calls' = calls /\ answers' = answers /\ requests' = requests
      /\ task' = task /\ readers' = readers /\ known' = known
  BY DEF Panic, clientVars, lockVars
<1>2. /\ reply \in [Connection -> Response \cup {None}] /\ mailbox \in [Worker -> Seq(Message)]
      /\ DOMAIN trackers = Worker /\ box \in Seq(Message)
  BY DEF IInv, StateTyped
<1>3. DOMAIN box = 1..Len(box)
  BY <1>2
<1>4. n \in known
  BY <1>1, HeadOfMailbox
<1>5. \A c \in Connection : Gone(c) => task[c] = "await" /\ Current(c).name = n
  BY <1>3, SendersWait
<1>6. Error \in Response /\ Error # None
  BY NoneAssumption DEF Response
<1> HIDE DEF Gone
<1>7. /\ reply' \in [Connection -> Response \cup {None}]
      /\ \A c \in Connection : reply'[c] = IF Gone(c) THEN Error ELSE reply[c]
  BY <1>1, <1>2, <1>6
<1>8. /\ mailbox' \in [Worker -> Seq(Message)] /\ mailbox'[n] = <<>>
      /\ \A k \in Worker \ {n} : mailbox'[k] = mailbox[k]
  BY <1>1, <1>2
<1>9. /\ DOMAIN trackers' = Worker /\ trackers'[n] = <<>>
      /\ \A k \in Worker \ {n} : trackers'[k] = trackers[k]
  BY <1>1, <1>2
<1>10. StateTyped'
  BY <1>1, <1>4, <1>7, <1>8, <1>9 DEF IInv, StateTyped
<1>11. TrackersTyped'
  <2>1. DOMAIN trackers'[n] = {}
    BY <1>9
  <2> QED
    BY <2>1, <1>9 DEF IInv, TrackersTyped
<1>12. \A d \in Connection : InOrder(d)' /\ Current(d)' = Current(d)
  BY <1>1, OrderStays DEF Idle
<1>13. \A d \in Connection : AtWork(d)'
  <2> SUFFICES ASSUME NEW d \in Connection PROVE AtWork(d)'
    OBVIOUS
  <2>1. AtWork(d)
    BY DEF IInv
  <2>2. task[d] # "await" => reply'[d] = reply[d]
    BY <1>5, <1>7
  <2> QED
    BY <2>1, <2>2, <1>1, <1>12 DEF AtWork
<1>14. ASSUME NEW k \in Worker PROVE Delivered(k)'
  <2>1. CASE k = n
    <3>1. 1..Len(mailbox'[n]) = {}
      BY <1>8
    <3> QED
      BY <3>1, <2>1 DEF Delivered
  <2>2. CASE k # n
    <3> DEFINE q == mailbox[k]
    <3>1. \A j \in 1..Len(q) :
            /\ q[j].from \in Connection /\ task[q[j].from] = "await" /\ reply[q[j].from] = None
            /\ q[j].request = Current(q[j].from)
            /\ q[j].request.kind # "query" /\ q[j].request.name = k
            /\ k \in known \ dead
      BY SendersWait
    <3>2. \A j \in 1..Len(q) : \A i \in 1..Len(q) : q[i].from = q[j].from => i = j
      BY DEF IInv, Delivered
    <3>3. mailbox'[k] = q
      BY <2>2, <1>8
    <3> HIDE DEF q
    <3>4. ASSUME NEW j \in 1..Len(q), NEW d, d = q[j].from
          PROVE  task'[d] = "await" /\ reply'[d] = None /\ q[j].request = Current(d)'
      <4>1. d \in Connection /\ task[d] = "await" /\ reply[d] = None /\ q[j].request = Current(d)
            /\ Current(d).name = k
        BY <3>1, <3>4
      <4>2. ~Gone(d)
        BY <4>1, <1>5, <2>2
      <4> QED
        BY <4>1, <4>2, <1>1, <1>7, <1>12
    <3>5. ASSUME NEW j \in 1..Len(q)
          PROVE  q[j].request = calls'[q[j].from][Len(answers'[q[j].from]) + 1]
      <4>1. PICK d : d = q[j].from
        OBVIOUS
      <4>2. q[j].request = Current(d)'
        BY <3>4, <4>1
      <4> QED
        BY <4>1, <4>2 DEF Current
    <3>6. \A j \in 1..Len(q) : k \in known' \ dead'
      BY <3>1, <1>1, <2>2
    <3>7. ASSUME NEW j \in 1..Len(q)
          PROVE  /\ k \in known' \ dead' /\ task'[q[j].from] = "await" /\ reply'[q[j].from] = None
                 /\ q[j].request = calls'[q[j].from][Len(answers'[q[j].from]) + 1]
                 /\ q[j].request.kind # "query" /\ q[j].request.name = k
                 /\ \A i \in 1..Len(q) : q[i].from = q[j].from => i = j
      BY <3>1, <3>2, <3>4, <3>5, <3>6
    <3> QED
      BY <3>3, <3>7 DEF Delivered, Current
  <2> QED
    BY <2>1, <2>2
<1>15. NoReplyLost'
  <2> SUFFICES ASSUME NEW d \in Connection, task'[d] = "await", reply'[d] = None
               PROVE  /\ Current(d).kind # "query" /\ Current(d).name \in Worker
                      /\ \E j \in 1..Len(mailbox'[Current(d).name]) :
                            mailbox'[Current(d).name][j].from = d
    BY <1>12 DEF NoReplyLost
  <2> DEFINE k == Current(d).name
  <2>1. ~Gone(d) /\ task[d] = "await" /\ reply[d] = None
    BY <1>1, <1>6, <1>7
  <2>2. Current(d).kind # "query" /\ k \in Worker
        /\ \E j \in 1..Len(mailbox[k]) : mailbox[k][j].from = d
    BY <2>1 DEF IInv, NoReplyLost
  <2>3. k # n
    BY <2>1, <2>2, <1>3 DEF Gone
  <2> HIDE DEF k
  <2>4. mailbox'[k] = mailbox[k]
    BY <2>2, <2>3, <1>8
  <2> QED
    BY <2>2, <2>4 DEF k
<1> QED
  BY <1>10, <1>11, <1>12, <1>13, <1>14, <1>15 DEF IInv

-----------------------------------------------------------------------------
LEMMA InitIInv == Init => IInv
<1> SUFFICES ASSUME Init PROVE IInv
  OBVIOUS
<1>1. \A S : <<>> \in Seq(S)
  OBVIOUS
<1>2. StateTyped
  BY <1>1 DEF Init, StateTyped, Worker
<1>3. DOMAIN <<>> = {} /\ Len(<<>>) = 0 /\ 1..0 = {}
  OBVIOUS
<1>4. TrackersTyped
  BY <1>3 DEF Init, TrackersTyped
<1>5. \A c \in Connection : InOrder(c)
  BY <1>3 DEF Init, InOrder, Idle
<1>6. \A c \in Connection : AtWork(c)
  BY DEF Init, AtWork
<1>7. \A n \in Worker : Delivered(n)
  BY <1>3 DEF Init, Delivered
<1>8. NoReplyLost
  BY DEF Init, NoReplyLost
<1> QED
  BY <1>2, <1>4, <1>5, <1>6, <1>7, <1>8 DEF IInv

LEMMA NextIInv == IInv /\ [ServiceNext]_vars => IInv'
<1> SUFFICES ASSUME IInv, [ServiceNext]_vars PROVE IInv'
  OBVIOUS
<1>1. ASSUME NEW c \in Connection, TaskStep(c) PROVE IInv'
  BY <1>1, QueryIInv, AskMainIInv, AskLockIInv, InsertIInv, LookUpIInv DEF TaskStep
<1>2. ASSUME NEW c \in Connection, Respond(c) PROVE IInv'
  BY <1>2, RespondIInv
<1>3. ASSUME NEW c \in Connection, HangUp(c) PROVE IInv'
  BY <1>3, HangUpIInv
<1>4. ASSUME NEW c \in Connection, NEW r \in Request, Call(c, r) PROVE IInv'
  BY <1>4, CallIInv
<1>5. ASSUME NEW n \in Worker, WorkerNext(n) PROVE IInv'
  BY <1>5, ProcessIInv, PanicIInv DEF WorkerNext
<1>6. CASE UNCHANGED vars
  <2>1. /\ calls' = calls /\ answers' = answers /\ requests' = requests /\ task' = task
        /\ reply' = reply /\ readers' = readers /\ known' = known /\ trackers' = trackers
        /\ dead' = dead /\ mailbox' = mailbox
    BY <1>6 DEF vars, clientVars, lockVars, workerVars
  <2>2. \A d \in Connection : InOrder(d)' /\ Current(d)' = Current(d)
    BY <2>1, OrderStays DEF Idle
  <2>3. \A n \in Worker : Delivered(n)'
    BY <2>1, <2>2, DeliveredStays
  <2>4. StateTyped' /\ TrackersTyped'
    BY <2>1 DEF IInv, StateTyped, TrackersTyped
  <2>5. \A d \in Connection : AtWork(d)'
    BY <2>1, <2>2 DEF IInv, AtWork
  <2>6. NoReplyLost'
    BY <2>1, <2>2 DEF IInv, NoReplyLost
  <2> QED
    BY <2>2, <2>3, <2>4, <2>5, <2>6 DEF IInv
<1> QED
  BY <1>1, <1>2, <1>3, <1>4, <1>5, <1>6 DEF ServiceNext

-----------------------------------------------------------------------------
(* The HTTP side makes the requests the server is made for, and takes no   *)
(* other part in what the server does.                                     *)

BufferTyped ==
  /\ DOMAIN buffer = Connection
  /\ \A c \in HttpConnection : buffer[c] \notin {Empty, Dropped} => buffer[c] \in Reading

HIInv == IInv /\ BufferTyped

LEMMA ParsedPoint ==
  ASSUME NEW bytes \in Seq(Bytes), NEW hr, Parse(bytes, hr) # None
  PROVE  Parse(bytes, hr) \in Paths \cup {NoPath}
<1>1. Len(bytes) >= 2 /\ Parse(bytes, hr) = bytes[1].point
  BY DEF Parse
<1>2. bytes[1] \in Bytes
  BY <1>1
<1>3. PICK p \in Paths \cup {NoPath} : bytes[1] \in ToSet(Encoded(p))
  BY <1>2 DEF Bytes
<1>4. PICK k \in DOMAIN Encoded(p) : bytes[1] = Encoded(p)[k]
  BY <1>3 DEF ToSet
<1>5. bytes[1].point = p
  BY <1>4 DEF Encoded
<1> QED
  BY <1>1, <1>5

LEMMA ReadableRequest ==
  ASSUME NEW hr \in HttpRequest, ~IsMalformed(hr), ~KnnQueryPanics(hr),
         NEW p \in Paths \cup {NoPath}, NeedsPoint(hr) \/ p = NoPath
  PROVE  RequestOf(hr, p) \in Request
BY ReadableAssumption

LEMMA PollPointStep ==
  ASSUME HIInv, NEW c \in HttpConnection, PollPoint(c)
  PROVE  [ServiceNext]_vars /\ BufferTyped'
<1> DEFINE b == buffer[c]
           body == IF b.left = <<>> THEN b.body ELSE b.body \o Head(b.left)
<1>1. /\ b \in Reading /\ c \in Connection /\ DOMAIN buffer = Connection
      /\ \A d \in HttpConnection : buffer[d] \notin {Empty, Dropped} => buffer[d] \in Reading
  BY HttpAssumption DEF HIInv, BufferTyped, PollPoint, IsReading
<1>2. /\ b.request \in HttpRequest /\ NeedsPoint(b.request) /\ ~KnnQueryPanics(b.request)
      /\ b.body \in Seq(Bytes) /\ b.left \in Seq(Seq(Bytes))
      /\ b = [request |-> b.request, body |-> b.body, left |-> b.left]
  BY <1>1 DEF Reading
<1>3. ~IsMalformed(b.request)
  BY <1>2 DEF NeedsPoint, IsMalformed
<1>4. body \in Seq(Bytes)
  <2>1. CASE b.left = <<>>
    BY <2>1, <1>2
  <2>2. CASE b.left # <<>>
    <3>1. Head(b.left) \in Seq(Bytes)
      BY <2>2, <1>2
    <3>2. b.body \o Head(b.left) \in Seq(Bytes)
      BY <3>1, <1>2
    <3> QED
      BY <3>2, <2>2
  <2> QED
    BY <2>1, <2>2
<1>5. CASE Len(b.left) > 1
  <2>1. /\ buffer' = [buffer EXCEPT ![c].body = body, ![c].left = Tail(b.left)]
        /\ UNCHANGED vars
    BY <1>5 DEF PollPoint
  <2>2. Tail(b.left) \in Seq(Seq(Bytes))
    BY <1>2, <1>5
  <2>3. [b EXCEPT !.body = body, !.left = Tail(b.left)] \in Reading
    <3> HIDE DEF body
    <3> QED
      BY <2>2, <1>1, <1>4 DEF Reading
  <2>4. buffer' = [buffer EXCEPT ![c] = [b EXCEPT !.body = body, !.left = Tail(b.left)]]
    BY <2>1, <1>1
  <2>5. BufferTyped'
    BY <2>3, <2>4, <1>1 DEF BufferTyped
  <2> QED
    BY <2>1, <2>5
<1>6. CASE ~(Len(b.left) > 1)
  <2> DEFINE p == IF b.request.body.fails THEN None ELSE Parse(body, b.request)
  <2>1. Finish(c, p)
    BY <1>6 DEF PollPoint
  <2>2. p # None => p \in Paths \cup {NoPath}
    BY <1>4, ParsedPoint
  <2> HIDE DEF p, b, body
  <2>3. buffer' = [buffer EXCEPT ![c] = Empty]
    BY <2>1 DEF Finish
  <2>4. BufferTyped'
    BY <2>3, <1>1 DEF BufferTyped
  <2>5. CASE p = None
    BY <2>1, <2>4, <2>5 DEF Finish
  <2>6. CASE p # None
    <3>1. Call(c, RequestOf(b.request, p))
      BY <2>1, <2>6 DEF Finish, b
    <3>2. RequestOf(b.request, p) \in Request
      BY <2>2, <2>6, <1>2, <1>3, ReadableRequest
    <3> QED
      BY <3>1, <3>2, <2>4, <1>1 DEF ServiceNext
  <2> QED
    BY <2>5, <2>6
<1> QED
  BY <1>5, <1>6

LEMMA HttpStepIsService ==
  ASSUME HIInv, NEW c \in HttpConnection, HttpStep(c)
  PROVE  [ServiceNext]_vars /\ BufferTyped'
<1>1. c \in Connection /\ BufferTyped /\ DOMAIN buffer = Connection
  BY HttpAssumption DEF HIInv, BufferTyped
<1>2. CASE ReadWithoutBody(c)
  <2>1. PICK hr \in HttpRequest : /\ ~NeedsPoint(hr) /\ ~IsMalformed(hr)
                                  /\ Call(c, RequestOf(hr, NoPath)) /\ buffer' = buffer
    BY <1>2 DEF ReadWithoutBody
  <2>2. ~KnnQueryPanics(hr)
    BY <2>1 DEF NeedsPoint, KnnQueryPanics
  <2>3. RequestOf(hr, NoPath) \in Request
    BY <2>1, <2>2, ReadableRequest
  <2>4. BufferTyped'
    BY <2>1, <1>1 DEF BufferTyped
  <2> QED
    BY <2>1, <2>3, <2>4, <1>1 DEF ServiceNext
<1>3. CASE RejectQuery(c)
  BY <1>1, <1>3 DEF RejectQuery, BufferTyped
<1>4. CASE BeginBody(c)
  <2>1. PICK hr \in HttpRequest : /\ NeedsPoint(hr) /\ ~KnnQueryPanics(hr)
                                  /\ buffer' = [buffer EXCEPT ![c] = Switched(hr)]
                                  /\ UNCHANGED vars
    BY <1>4 DEF BeginBody
  <2>2. Switched(hr) \in Reading
    <3>1. hr.body.chunks \in Seq(Seq(Bytes)) /\ <<>> \in Seq(Bytes)
      BY HttpAssumption DEF Body
    <3> QED
      BY <2>1, <3>1 DEF Switched, Reading
  <2>3. BufferTyped'
    BY <2>1, <2>2, <1>1 DEF BufferTyped
  <2> QED
    BY <2>1, <2>3
<1>5. CASE PanicInQuery(c)
  <2>1. /\ task[c] = "recv" /\ requests[c] = <<>>
        /\ task' = [task EXCEPT ![c] = "ended"]
        /\ buffer' = [buffer EXCEPT ![c] = Dropped]
        /\ UNCHANGED <<clientVars, reply, lockVars, workerVars>>
    BY <1>5 DEF PanicInQuery, IsFree, EndsByPanic
  <2>2. HangUp(c)
    BY <2>1 DEF HangUp
  <2>3. BufferTyped'
    BY <2>1, <1>1 DEF BufferTyped
  <2> QED
    BY <2>2, <2>3, <1>1 DEF ServiceNext
<1>6. CASE PollPoint(c)
  BY <1>6, PollPointStep
<1>7. CASE HttpRespond(c)
  <2>1. Respond(c) /\ BufferTyped'
    BY <1>1, <1>7 DEF HttpRespond, BufferTyped
  <2> QED
    BY <2>1, <1>1 DEF ServiceNext
<1>8. CASE PanicInParse(c)
  <2>1. /\ task[c] = "recv" /\ requests[c] = <<>>
        /\ task' = [task EXCEPT ![c] = "ended"]
        /\ buffer' = [buffer EXCEPT ![c] = Dropped]
        /\ UNCHANGED <<clientVars, reply, lockVars, workerVars>>
    BY <1>8 DEF PanicInParse, IsReading, EndsByPanic
  <2>2. HangUp(c)
    BY <2>1 DEF HangUp
  <2>3. BufferTyped'
    BY <2>1, <1>1 DEF BufferTyped
  <2> QED
    BY <2>2, <2>3, <1>1 DEF ServiceNext
<1> QED
  BY <1>2, <1>3, <1>4, <1>5, <1>6, <1>7, <1>8 DEF HttpStep

LEMMA HNextIsService == HIInv /\ [HNext]_hvars => [ServiceNext]_vars /\ BufferTyped'
<1> SUFFICES ASSUME HIInv, [HNext]_hvars PROVE [ServiceNext]_vars /\ BufferTyped'
  OBVIOUS
<1>1. buffer' = buffer => BufferTyped'
  BY DEF HIInv, BufferTyped
<1>2. UNCHANGED httpVars => BufferTyped'
  BY <1>1 DEF httpVars
<1>3. ASSUME NEW c \in HttpConnection, HttpStep(c) PROVE [ServiceNext]_vars /\ BufferTyped'
  BY <1>3, HttpStepIsService
<1>4. ASSUME NEW c \in HttpConnection, HttpHangUp(c) PROVE [ServiceNext]_vars /\ BufferTyped'
  BY <1>2, <1>4, HttpAssumption DEF HttpHangUp, ServiceNext
<1>5. ASSUME NEW c \in HttpConnection, NEW hr \in HttpRequest, HttpCall(c, hr)
      PROVE  [ServiceNext]_vars /\ BufferTyped'
  BY <1>1, <1>5 DEF HttpCall
<1>6. ASSUME NEW c \in Connection \ HttpConnection,
             \/ LibraryRespond(c)
             \/ HangUp(c) /\ UNCHANGED httpVars
             \/ \E r \in LibraryRequest : Call(c, r) /\ UNCHANGED httpVars
      PROVE  [ServiceNext]_vars /\ BufferTyped'
  BY <1>2, <1>6, HttpAssumption DEF LibraryRespond, ServiceNext
<1>7. ASSUME NEW c \in Connection, ServerStep(c) PROVE [ServiceNext]_vars /\ BufferTyped'
  BY <1>2, <1>7 DEF ServerStep, ServiceNext
<1>8. ASSUME NEW n \in Worker, WorkerNext(n) /\ UNCHANGED httpVars PROVE [ServiceNext]_vars /\ BufferTyped'
  BY <1>2, <1>8 DEF ServiceNext
<1>9. CASE Quiet /\ UNCHANGED httpVars
  BY <1>2, <1>9 DEF Quiet
<1>10. CASE UNCHANGED hvars
  BY <1>2, <1>10 DEF hvars
<1> QED
  BY <1>3, <1>4, <1>5, <1>6, <1>7, <1>8, <1>9, <1>10 DEF HNext

LEMMA InitHIInv == HInit => HIInv
BY InitIInv, HttpAssumption DEF HInit, HIInv, BufferTyped

LEMMA NextHIInv == HIInv /\ [HNext]_hvars => HIInv'
BY HNextIsService, NextIInv DEF HIInv

LEMMA ServiceIsInvariant == HSpec => []HIInv
BY InitHIInv, NextHIInv, PTL DEF HSpec

-----------------------------------------------------------------------------
LEMMA IInvImpliesTypeOK == IInv => TypeOK
BY DEF IInv, StateTyped, TrackersTyped, AtWork, TypeOK

(* The state of the server keeps its type; and a task that holds the lock  *)
(* waits for a named worker that is there.                                 *)
THEOREM ServiceIsTyped == HSpec => []TypeOK
<1>1. HIInv => TypeOK
  BY IInvImpliesTypeOK DEF HIInv
<1> QED
  BY <1>1, ServiceIsInvariant, PTL

(* A task that waits has its reply, or the worker it waits for has its     *)
(* message: a worker that panics leaves nobody without an answer.          *)
THEOREM RepliesAreNotLost == HSpec => []NoReplyLost
<1>1. HIInv => NoReplyLost
  BY DEF HIInv, IInv
<1> QED
  BY <1>1, ServiceIsInvariant, PTL

-----------------------------------------------------------------------------
(* The windows of one worker.                                              *)

(* Seen from its end, a queue has the new path first, then what it had.    *)
LEMMA QueueFromEnd ==
  ASSUME NEW t \in BayesCovertree, t.window # 0, NEW p \in Paths
  PROVE  LET q == t.queue
             u == AddPath(t, p).queue
         IN  /\ Len(q) \in Nat /\ Len(u) \in Nat
             /\ \A k \in 1..Len(u) :
                  \/ k = 1 /\ u[Len(u) + 1 - k] = p
                  \/ /\ k - 1 \in 1..Len(q)
                     /\ u[Len(u) + 1 - k] = q[Len(q) + 1 - (k - 1)]
<1> DEFINE q == t.queue
           u == AddPath(t, p).queue
           n == Len(q)
           longer == Append(q, p)
<1>1. q \in Seq(Paths) /\ t.window \in Nat
  BY DEF BayesCovertree
<1>2. u = longer \/ (n + 1 > t.window /\ u = Tail(longer))
  BY AddPathKeepsTracker
<1> HIDE DEF q, u
<1>3. /\ n \in Nat /\ longer \in Seq(Paths) /\ Len(longer) = n + 1 /\ longer[n + 1] = p
      /\ \A j \in 1..n : longer[j] = q[j]
  BY <1>1
<1> HIDE DEF longer, n
<1>4. /\ Len(Tail(longer)) = n
      /\ \A j \in 1..n : Tail(longer)[j] = longer[j + 1]
  BY <1>3
<1>5. CASE u = longer
  <2> SUFFICES ASSUME NEW k \in 1..(n + 1)
               PROVE  \/ k = 1 /\ u[(n + 1) + 1 - k] = p
                      \/ k - 1 \in 1..n /\ u[(n + 1) + 1 - k] = q[n + 1 - (k - 1)]
    BY <1>3, <1>5 DEF q, u, n
  <2>1. CASE k = 1
    <3>1. (n + 1) + 1 - k = n + 1
      BY <1>3, <2>1
    <3> QED
      BY <3>1, <1>3, <1>5, <2>1
  <2>2. CASE k # 1
    <3>1. (n + 1) + 1 - k = n + 1 - (k - 1) /\ n + 1 - (k - 1) \in 1..n /\ k - 1 \in 1..n
      BY <1>3, <2>2
    <3> QED
      BY <3>1, <1>3, <1>5
  <2> QED
    BY <2>1, <2>2
<1>6. CASE u = Tail(longer)
  <2>a. Len(u) = n
    BY <1>4, <1>6
  <2> SUFFICES ASSUME NEW k \in 1..n
               PROVE  \/ k = 1 /\ u[n + 1 - k] = p
                      \/ k - 1 \in 1..n /\ u[n + 1 - k] = q[n + 1 - (k - 1)]
    BY <2>a, <1>3 DEF q, u, n
  <2>1. n + 1 - k \in 1..n /\ (n + 1 - k) + 1 = n + 1 - (k - 1)
    BY <1>3
  <2>2. u[n + 1 - k] = longer[n + 1 - (k - 1)]
    BY <2>1, <1>4, <1>6
  <2>3. CASE k = 1
    <3>1. n + 1 - (k - 1) = n + 1
      BY <1>3, <2>3
    <3> QED
      BY <3>1, <2>2, <2>3, <1>3
  <2>4. CASE k # 1
    <3>1. n + 1 - (k - 1) \in 1..n /\ k - 1 \in 1..n
      BY <1>3, <2>4
    <3> QED
      BY <3>1, <2>2, <1>3
  <2> QED
    BY <2>3, <2>4
<1> QED
  BY <1>2, <1>5, <1>6

Agree(p, q) == \A k \in 1..Len(p) : k <= Len(q) => p[Len(p) + 1 - k] = q[Len(q) + 1 - k]

LEMMA AddedPathsAgree ==
  ASSUME NEW s \in BayesCovertree, NEW t \in BayesCovertree, s.window # 0, t.window # 0,
         NEW x \in Paths, Agree(s.queue, t.queue)
  PROVE  Agree(AddPath(s, x).queue, AddPath(t, x).queue)
<1> DEFINE p == s.queue
           q == t.queue
           u == AddPath(s, x).queue
           v == AddPath(t, x).queue
<1>1. /\ Len(p) \in Nat /\ Len(u) \in Nat
      /\ \A k \in 1..Len(u) : \/ k = 1 /\ u[Len(u) + 1 - k] = x
                              \/ /\ k - 1 \in 1..Len(p)
                                 /\ u[Len(u) + 1 - k] = p[Len(p) + 1 - (k - 1)]
  BY QueueFromEnd
<1>2. /\ Len(q) \in Nat /\ Len(v) \in Nat
      /\ \A k \in 1..Len(v) : \/ k = 1 /\ v[Len(v) + 1 - k] = x
                              \/ /\ k - 1 \in 1..Len(q)
                                 /\ v[Len(v) + 1 - k] = q[Len(q) + 1 - (k - 1)]
  BY QueueFromEnd
<1>3. \A k \in 1..Len(p) : k <= Len(q) => p[Len(p) + 1 - k] = q[Len(q) + 1 - k]
  BY DEF Agree
<1> HIDE DEF p, q, u, v
<1>4. ASSUME NEW k \in 1..Len(u), k <= Len(v)
      PROVE  u[Len(u) + 1 - k] = v[Len(v) + 1 - k]
  <2>1. k \in 1..Len(v)
    BY <1>1, <1>2, <1>4
  <2>2. CASE k = 1
    <3>1. k - 1 \notin 1..Len(p) /\ k - 1 \notin 1..Len(q)
      BY <2>2, <1>1, <1>2
    <3> QED
      BY <3>1, <2>1, <2>2, <1>1, <1>2
  <2>3. CASE k # 1
    <3> DEFINE j == k - 1
    <3>1. j \in 1..Len(p) /\ u[Len(u) + 1 - k] = p[Len(p) + 1 - j]
      BY <2>3, <1>1
    <3>2. j \in 1..Len(q) /\ v[Len(v) + 1 - k] = q[Len(q) + 1 - j]
      BY <2>1, <2>3, <1>2
    <3> HIDE DEF j
    <3>3. j <= Len(q)
      BY <3>2, <1>2
    <3> QED
      BY <3>1, <3>2, <3>3, <1>3
  <2> QED
    BY <2>2, <2>3
<1> QED
  BY <1>4 DEF Agree, u, v

WindowsOf(ts) == \A v, w \in DOMAIN ts \ {0} : Agree(ts[v].queue, ts[w].queue)

LEMMA RequestKeepsWindows ==
  ASSUME NEW r \in Request, NEW ts, GoodTrackers(ts), WindowsOf(ts)
  PROVE  WindowsOf(AfterRequest(ts, r))
<1>1. CASE Counted(r)
  <2>1. AfterRequest(ts, r) = [w \in DOMAIN ts |-> AddPath(ts[w], r.path)] /\ r.path \in Paths
    <3>1. r.kind # "add"
      BY <1>1 DEF Counted
    <3> QED
      BY <1>1, <3>1, CountedPath DEF AfterRequest, Track
  <2>2. ASSUME NEW v \in DOMAIN ts \ {0}, NEW w \in DOMAIN ts \ {0}
        PROVE  Agree(AddPath(ts[v], r.path).queue, AddPath(ts[w], r.path).queue)
    <3>1. /\ ts[v] \in BayesCovertree /\ ts[v].window # 0
          /\ ts[w] \in BayesCovertree /\ ts[w].window # 0
          /\ Agree(ts[v].queue, ts[w].queue)
      BY DEF GoodTrackers, WindowsOf
    <3> QED
      BY <3>1, <2>1, AddedPathsAgree
  <2> QED
    BY <2>1, <2>2 DEF WindowsOf
<1>2. CASE ~Counted(r) /\ r.kind = "add" /\ r.window \notin DOMAIN ts
  <2> DEFINE x == r.window
             us == AfterRequest(ts, r)
  <2>1. us = [v \in DOMAIN ts \cup {x} |-> IF v = x THEN NewTracker(x) ELSE ts[v]]
    BY <1>2 DEF AfterRequest, WithTracker
  <2>2. x \in Nat
    BY <1>2, RequestFields
  <2>3. NewTracker(x).queue = <<>>
    BY <2>2, NewTrackerType
  <2>4. /\ DOMAIN us = DOMAIN ts \cup {x} /\ us[x].queue = <<>>
        /\ \A v \in DOMAIN ts : us[v] = ts[v]
    BY <2>1, <2>3, <1>2
  <2> HIDE DEF x, us
  <2>5. \A q \in Seq(Paths) : Agree(<<>>, q) /\ Agree(q, <<>>)
    <3>1. 1..Len(<<>>) = {} /\ Len(<<>>) = 0
      OBVIOUS
    <3>2. \A q \in Seq(Paths) : Agree(q, <<>>)
      BY <3>1 DEF Agree
    <3> QED
      BY <3>1, <3>2 DEF Agree
  <2>6. <<>> \in Seq(Paths)
    OBVIOUS
  <2>7. \A v \in DOMAIN ts : ts[v].queue \in Seq(Paths)
    BY DEF GoodTrackers, BayesCovertree
  <2>8. ASSUME NEW v \in DOMAIN us \ {0}, NEW w \in DOMAIN us \ {0}
        PROVE  Agree(us[v].queue, us[w].queue)
    <3>1. CASE v = x \/ w = x
      BY <3>1, <2>4, <2>5, <2>6, <2>7
    <3>2. CASE v # x /\ w # x
      BY <3>2, <2>4 DEF WindowsOf
    <3> QED
      BY <3>1, <3>2
  <2> QED
    BY <2>8 DEF WindowsOf, us
<1>3. CASE ~Counted(r) /\ ~(r.kind = "add" /\ r.window \notin DOMAIN ts)
  BY <1>3 DEF AfterRequest
<1> QED
  BY <1>1, <1>2, <1>3

LEMMA WindowsAreOfWorkers == WindowsAgree <=> \A n \in Worker : WindowsOf(trackers[n])
BY DEF WindowsAgree, WindowsOf, Agree

(* What a step does to the trackers of a worker. *)
LEMMA TrackersStep ==
  ASSUME IInv, [ServiceNext]_vars, NEW n \in Worker
  PROVE  \/ trackers'[n] = trackers[n]
         \/ DOMAIN trackers'[n] = {}
         \/ \E r \in Request : trackers'[n] = AfterRequest(trackers[n], r)
<1>1. DOMAIN trackers = Worker
  BY DEF IInv, StateTyped
<1>2. CASE UNCHANGED vars
  BY <1>2 DEF vars, workerVars
<1>3. ASSUME NEW c \in Connection, TaskStep(c) PROVE trackers' = trackers
  BY <1>3 DEF TaskStep, Query, AskMain, AskLock, InsertEntry, LookUp, workerVars
<1>4. ASSUME NEW c \in Connection, Respond(c) \/ HangUp(c) \/ \E r \in Request : Call(c, r)
      PROVE  trackers' = trackers
  BY <1>4 DEF Respond, HangUp, Call, workerVars
<1>5. ASSUME NEW m \in Worker, Process(m)
      PROVE  \/ trackers'[n] = trackers[n]
             \/ \E r \in Request : trackers'[n] = AfterRequest(trackers[n], r)
  <2>1. /\ trackers' = [trackers EXCEPT ![m] = AfterRequest(@, Head(mailbox[m]).request)]
        /\ mailbox[m] # <<>>
    BY <1>5 DEF Process
  <2>2. Head(mailbox[m]).request \in Request
    BY <2>1, HeadOfMailbox
  <2> QED
    BY <2>1, <2>2, <1>1
<1>6. ASSUME NEW m \in Worker, Panic(m)
      PROVE  trackers'[n] = trackers[n] \/ DOMAIN trackers'[n] = {}
  <2>1. trackers' = [trackers EXCEPT ![m] = <<>>]
    BY <1>6 DEF Panic
  <2>2. DOMAIN <<>> = {}
    OBVIOUS
  <2>3. CASE m = n
    BY <2>1, <2>2, <2>3, <1>1
  <2>4. CASE m # n
    BY <2>1, <2>4, <1>1
  <2> QED
    BY <2>3, <2>4
<1> QED
  BY <1>2, <1>3, <1>4, <1>5, <1>6 DEF ServiceNext, WorkerNext

LEMMA NextWindowsAgree == IInv /\ WindowsAgree /\ [ServiceNext]_vars => WindowsAgree'
<1> SUFFICES ASSUME IInv, WindowsAgree, [ServiceNext]_vars PROVE WindowsAgree'
  OBVIOUS
<1>1. ASSUME NEW n \in Worker PROVE WindowsOf(trackers'[n])
  <2>1. WindowsOf(trackers[n]) /\ GoodTrackers(trackers[n])
    BY WindowsAreOfWorkers DEF IInv, TrackersTyped, GoodTrackers
  <2>2. CASE trackers'[n] = trackers[n]
    BY <2>1, <2>2
  <2>3. CASE DOMAIN trackers'[n] = {}
    BY <2>3 DEF WindowsOf
  <2>4. ASSUME NEW r \in Request, trackers'[n] = AfterRequest(trackers[n], r)
        PROVE  WindowsOf(trackers'[n])
    BY <2>1, <2>4, RequestKeepsWindows
  <2> QED
    BY <2>2, <2>3, <2>4, TrackersStep
<1> QED
  BY <1>1 DEF WindowsAgree, WindowsOf, Agree

(* The trackers of one worker have seen the same paths, whatever was asked *)
(* of it in between and whenever their windows were added.                 *)
THEOREM WorkersWindowsAgree == HSpec => []WindowsAgree
<1>1. HInit => WindowsAgree
  <2>1. DOMAIN <<>> = {}
    OBVIOUS
  <2> QED
    BY <2>1 DEF HInit, Init, WindowsAgree
<1>2. HIInv /\ WindowsAgree /\ [HNext]_hvars => WindowsAgree'
  BY HNextIsService, NextWindowsAgree DEF HIInv
<1> QED
  BY <1>1, <1>2, ServiceIsInvariant, PTL DEF HSpec

-----------------------------------------------------------------------------
(* The step simulation of TrackerRegistry.                                 *)

LEMMA SameTracker ==
  ASSUME NEW t, NEW p
  PROVE  Registry!AddPath(t, p) = AddPath(t, p) /\ (Registry!Panics(p) <=> Panics(p))
<1>1. \A s : Registry!StepsOf(s) = StepsOf(s)
  BY DEF Registry!StepsOf, StepsOf
<1>2. \A n, change : Registry!Inc(n, change) = Inc(n, change)
  BY DEF Registry!Inc, Inc
<1>3. \A s, x, change : Registry!Trace(s, x, change) = Trace(s, x, change)
  <2> SUFFICES ASSUME NEW s, NEW x, NEW change
               PROVE  Registry!Trace(s, x, change) = Trace(s, x, change)
    OBVIOUS
  <2>1. [b \in Registry!Bucket |-> IF b \in Registry!StepsOf(x)
                                   THEN Registry!Inc(s.observations[b], change)
                                   ELSE s.observations[b]]
          = [b \in Bucket |-> IF b \in StepsOf(x) THEN Inc(s.observations[b], change)
                                                  ELSE s.observations[b]]
    BY <1>1, <1>2 DEF Registry!Bucket, Bucket
  <2>2. [n \in TreeNode |-> IF n = x[Len(x)] THEN Registry!Inc(s.overall[n], change)
                                             ELSE s.overall[n]]
          = [n \in TreeNode |-> IF n = x[Len(x)] THEN Inc(s.overall[n], change) ELSE s.overall[n]]
    BY <1>2
  <2> QED
    BY <2>1, <2>2, Zenon DEF Registry!Trace, Trace
<1>4. Registry!AddPath(t, p) = AddPath(t, p)
  BY <1>3 DEF Registry!AddPath, AddPath
<1> QED
  BY <1>1, <1>4 DEF Registry!Panics, Panics

LEMMA SameWorker ==
  ASSUME NEW ts, NEW r
  PROVE  /\ Registry!AfterRequest(ts, r) = AfterRequest(ts, r)
         /\ Registry!AnswerTo(ts, r) = AnswerTo(ts, r)
         /\ Registry!Kills(ts, r) <=> Kills(ts, r)
         /\ Registry!QueryAnswer(r) = QueryAnswer(r)
         /\ Registry!Unknown = Unknown /\ Registry!Error = Error
         /\ Registry!Worker = Worker
<1>1. /\ Registry!Unknown = Unknown /\ Registry!Error = Error /\ Registry!NotFound = NotFound
      /\ Registry!Worker = Worker
  BY DEF Registry!Unknown, Unknown, Registry!Error, Error, Registry!NotFound, NotFound,
         Registry!Worker, Worker
<1>2. Registry!Counted(r) <=> Counted(r)
  BY DEF Registry!Counted, Counted
<1>3. \A w : Registry!NewTracker(w) = NewTracker(w)
  BY DEF Registry!NewTracker, NewTracker, Registry!Bucket, Bucket
<1>4. \A us, p : Registry!Track(us, p) = Track(us, p)
  BY SameTracker DEF Registry!Track, Track
<1>5. \A us, w : Registry!WithTracker(us, w) = WithTracker(us, w)
  BY <1>3 DEF Registry!WithTracker, WithTracker
<1>6. Registry!AfterRequest(ts, r) = AfterRequest(ts, r)
  BY <1>2, <1>4, <1>5 DEF Registry!AfterRequest, AfterRequest
<1>7. \A t : Registry!SequenceLen(t) = SequenceLen(t)
  BY DEF Registry!SequenceLen, SequenceLen
<1>8. \A x, y : Registry!Done(x, y) = Done(x, y)
  BY DEF Registry!Done, Done
<1>9. Registry!AnswerTo(ts, r) = AnswerTo(ts, r)
  BY <1>1, <1>2, <1>7, <1>8 DEF Registry!AnswerTo, AnswerTo
<1>10. Registry!Kills(ts, r) <=> Kills(ts, r)
  BY <1>2, SameTracker DEF Registry!Kills, Kills
<1>11. Registry!QueryAnswer(r) = QueryAnswer(r)
  BY <1>1 DEF Registry!QueryAnswer, QueryAnswer, Registry!ParametersAnswer, ParametersAnswer,
              Registry!KnnAnswer, KnnAnswer, Registry!PathAnswer, PathAnswer
<1> QED
  BY <1>1, <1>6, <1>9, <1>10, <1>11

LEMMA SameCurrent ==
  ASSUME NEW c
  PROVE  Registry!Current(c) = Current(c)
BY DEF Registry!Current, Current

(* A task at work waits, in the eyes of its client. *)
LEMMA TaskWaits ==
  ASSUME IInv, NEW c \in Connection, ~Idle(c) \/ requests[c] # <<>>, reply[c] = None
  PROVE  /\ Registry!Waiting(c)
         /\ \A n : Current(c).kind # "query" /\ Current(c).name = n => Registry!WaitsFor(c, n)
<1>1. Len(answers[c]) + 1 \in 1..Len(calls[c]) /\ Len(answers[c]) \in Nat /\ Len(calls[c]) \in Nat
  BY CurrentIsCalled, Lengths
<1>2. Registry!Waiting(c)
  BY <1>1 DEF Registry!Waiting
<1> QED
  BY <1>2, SameCurrent DEF Registry!WaitsFor

LEMMA InitSimulates == Init => Registry!Init
BY SameWorker DEF Init, Registry!Init

LEMMA SendSimulates ==
  ASSUME IInv, NEW c \in Connection, NEW n \in known, Send(n, c, Current(c)),
         ~Idle(c) \/ requests[c] # <<>>, reply[c] = None,
         Current(c).kind # "query", Current(c).name = n,
         calls' = calls, answers' = answers, known' = known, trackers' = trackers, dead' = dead
  PROVE  [Registry!Next]_Registry!vars
<1>1. n \in Worker /\ Registry!WaitsFor(c, n)
  BY TaskWaits DEF IInv, StateTyped
<1>2. CASE n \in dead
  <2>1. reply' = [reply EXCEPT ![c] = Error]
    BY <1>2 DEF Send
  <2>2. Registry!Refuse(c, n)
    BY <1>1, <1>2, <2>1, SameWorker DEF Registry!Refuse
  <2> QED
    BY <2>2, <1>1, SameWorker DEF Registry!Next
<1>3. CASE n \notin dead
  BY <1>3 DEF Send, Registry!vars
<1> QED
  BY <1>2, <1>3

LEMMA TaskStepSimulates ==
  ASSUME IInv, NEW c \in Connection, TaskStep(c)
  PROVE  [Registry!Next]_Registry!vars
<1>1. CASE Query(c)
  <2>1. /\ Received(c) /\ Head(requests[c]) = Current(c)
        /\ task[c] = "recv" /\ requests[c] # <<>> /\ calls' = calls /\ answers' = answers
    BY <1>1, NextIsCurrent DEF Query, Received
  <2>2. reply[c] = None
    BY <2>1 DEF IInv, AtWork
  <2>3. Registry!Answer(c)
    BY <1>1, <2>1, <2>2, TaskWaits, SameCurrent, SameWorker DEF Query, Registry!Answer, workerVars
  <2> QED
    BY <2>3 DEF Registry!Next
<1>2. CASE AskMain(c)
  <2>1. /\ Received(c) /\ Head(requests[c]) = Current(c)
        /\ task[c] = "recv" /\ requests[c] # <<>> /\ calls' = calls /\ answers' = answers
    BY <1>2, NextIsCurrent DEF AskMain, Received
  <2>2. reply[c] = None /\ Main \in known
    BY <2>1 DEF IInv, AtWork, StateTyped
  <2>3. /\ Send(Main, c, Current(c)) /\ Current(c).kind # "query" /\ Current(c).name = Main
        /\ known' = known /\ trackers' = trackers /\ dead' = dead
    BY <1>2, <2>1 DEF AskMain
  <2> QED
    BY <2>1, <2>2, <2>3, SendSimulates
<1>3. CASE AskLock(c)
  BY <1>3 DEF AskLock, Received, workerVars, Registry!vars
<1>4. CASE InsertEntry(c)
  <2>1. /\ task[c] = "write" /\ known' = known \cup {Current(c).name}
        /\ calls' = calls /\ answers' = answers /\ reply' = reply
        /\ trackers' = trackers /\ dead' = dead
    BY <1>4 DEF InsertEntry, clientVars
  <2>2. /\ reply[c] = None /\ Current(c).kind = "add" /\ Current(c).name \in Worker
    BY <2>1 DEF IInv, AtWork, Worker
  <2>3. Registry!WaitsFor(c, Current(c).name)
    BY <2>1, <2>2, TaskWaits DEF Idle
  <2>4. Registry!Register(c, Current(c).name)
    BY <2>1, <2>2, <2>3, SameCurrent DEF Registry!Register
  <2> QED
    BY <2>2, <2>4, SameWorker DEF Registry!Next
<1>5. CASE LookUp(c)
  <2> DEFINE n == Current(c).name
  <2>1. /\ task[c] = "read" /\ calls' = calls /\ answers' = answers
        /\ known' = known /\ trackers' = trackers /\ dead' = dead
        /\ IF n \in known THEN Send(n, c, Current(c)) ELSE reply' = [reply EXCEPT ![c] = Unknown]
    BY <1>5 DEF LookUp, clientVars
  <2>2. /\ reply[c] = None /\ Current(c).kind # "query" /\ n \in Worker
        /\ Current(c).kind = "add" => n \in known
        /\ ~Idle(c)
    BY <2>1 DEF IInv, AtWork, Worker, Idle
  <2>3. CASE n \in known
    BY <2>1, <2>2, <2>3, SendSimulates
  <2>4. CASE n \notin known
    <3>1. Registry!WaitsFor(c, n)
      BY <2>2, TaskWaits
    <3>2. Registry!Refuse(c, n)
      BY <2>1, <2>2, <2>4, <3>1, SameCurrent, SameWorker DEF Registry!Refuse
    <3> QED
      BY <3>2, <2>2, SameWorker DEF Registry!Next
  <2> QED
    BY <2>3, <2>4
<1> QED
  BY <1>1, <1>2, <1>3, <1>4, <1>5 DEF TaskStep

LEMMA ProcessSimulates ==
  ASSUME IInv, NEW n \in Worker, Process(n)
  PROVE  [Registry!Next]_Registry!vars
<1> DEFINE m == Head(mailbox[n])
<1>1. /\ mailbox[n] # <<>> /\ ~Kills(trackers[n], m.request)
      /\ trackers' = [trackers EXCEPT ![n] = AfterRequest(@, m.request)]
      /\ reply' = [reply EXCEPT ![m.from] = AnswerTo(trackers[n], m.request)]
      /\ calls' = calls /\ answers' = answers /\ known' = known /\ dead' = dead
  BY DEF Process, clientVars
<1>2. /\ m.from \in Connection /\ task[m.from] = "await" /\ reply[m.from] = None
      /\ m.request = Current(m.from) /\ m.request.kind # "query" /\ m.request.name = n
      /\ n \in known \ dead
  BY <1>1, HeadOfMailbox
<1> HIDE DEF m
<1>3. Registry!WaitsFor(m.from, n)
  BY <1>2, TaskWaits DEF Idle
<1>4. Registry!Serve(m.from, n)
  BY <1>1, <1>2, <1>3, SameCurrent, SameWorker DEF Registry!Serve
<1> QED
  BY <1>2, <1>4, SameWorker DEF Registry!Next

LEMMA PanicSimulates ==
  ASSUME IInv, NEW n \in Worker, Panic(n)
  PROVE  [Registry!Next]_Registry!vars
<1> DEFINE box == mailbox[n]
           S == {c \in Connection : \E k \in DOMAIN box : box[k].from = c}
<1>1. /\ box # <<>> /\ Kills(trackers[n], Head(box).request)
      /\ dead' = dead \cup {n} /\ trackers' = [trackers EXCEPT ![n] = <<>>]
      /\ reply' = [c \in Connection |->
                     IF \E k \in DOMAIN box : box[k].from = c THEN Error ELSE reply[c]]
      /\ calls' = calls /\ answers' = answers /\ known' = known
  BY DEF Panic, clientVars
<1>2. box \in Seq(Message) /\ DOMAIN box = 1..Len(box)
  BY DEF IInv, StateTyped
<1>3. /\ Head(box) = box[1] /\ 1 \in DOMAIN box
      /\ Head(box).from \in Connection /\ Head(box).request = Current(Head(box).from)
      /\ n \in known \ dead
  BY <1>1, <1>2, HeadOfMailbox
<1>4. \A c \in S : Registry!WaitsFor(c, n)
  <2> SUFFICES ASSUME NEW c \in S PROVE Registry!WaitsFor(c, n)
    OBVIOUS
  <2>1. PICK k \in DOMAIN box : box[k].from = c
    OBVIOUS
  <2>2. /\ c \in Connection /\ task[c] = "await" /\ reply[c] = None
        /\ Current(c).kind # "query" /\ Current(c).name = n
    BY <2>1, <1>2, SendersWait
  <2> QED
    BY <2>2, TaskWaits DEF Idle
<1>5. Head(box).from \in S /\ Kills(trackers[n], Current(Head(box).from))
  BY <1>1, <1>3
<1>6. reply' = [c \in Connection |-> IF c \in S THEN Error ELSE reply[c]]
  BY <1>1
<1> HIDE DEF box
<1>7. S \in SUBSET {c \in Connection : Registry!WaitsFor(c, n)}
  BY <1>4
<1> HIDE DEF S
<1>8. Registry!Die(n)
  BY <1>1, <1>3, <1>5, <1>6, <1>7, SameCurrent, SameWorker DEF Registry!Die
<1> QED
  BY <1>8, SameWorker DEF Registry!Next

LEMMA NextSimulates == IInv /\ [ServiceNext]_vars => [Registry!Next]_Registry!vars
<1> SUFFICES ASSUME IInv, [ServiceNext]_vars PROVE [Registry!Next]_Registry!vars
  OBVIOUS
<1>1. ASSUME NEW c \in Connection, Respond(c) PROVE [Registry!Next]_Registry!vars
  <2>1. Registry!Respond(c)
    BY <1>1 DEF Respond, workerVars, Registry!Respond
  <2> QED
    BY <2>1 DEF Registry!Next
<1>2. ASSUME NEW c \in Connection, HangUp(c) PROVE [Registry!Next]_Registry!vars
  BY <1>2 DEF HangUp, clientVars, workerVars, Registry!vars
<1>3. ASSUME NEW c \in Connection, NEW r \in Request, Call(c, r) PROVE [Registry!Next]_Registry!vars
  <2>1. Registry!Call(c, r)
    BY <1>3 DEF Call, workerVars, Registry!Call
  <2> QED
    BY <2>1 DEF Registry!Next
<1>4. CASE UNCHANGED vars
  BY <1>4 DEF vars, clientVars, workerVars, Registry!vars
<1> QED
  BY <1>1, <1>2, <1>3, <1>4, TaskStepSimulates, ProcessSimulates, PanicSimulates
     DEF ServiceNext, WorkerNext

(* Tasks, channels, the lock and panics implement the atomic registry:     *)
(* whatever they do, every request of a client takes effect at one moment  *)
(* between its call and its answer, in the order of its connection.        *)
THEOREM ServiceIsAtomic == HSpec => AtomicTrackers
<1>1. HInit => Registry!Init
  BY InitSimulates DEF HInit
<1>2. HIInv /\ [HNext]_hvars => [Registry!Next]_Registry!vars
  BY HNextIsService, NextSimulates DEF HIInv
<1> QED
  BY <1>1, <1>2, ServiceIsInvariant, PTL DEF HSpec, AtomicTrackers, Registry!Spec

-----------------------------------------------------------------------------
(* What HTTP requests mean.                                                *)

PointOf(hr) == IF hr.body.fails THEN None ELSE Parse(FlattenSeq(hr.body.chunks), hr)

LEMMA RequestsAreNoAnswers == \A r \in Request : IsRequest(r)
<1> SUFFICES ASSUME NEW r \in Request PROVE r # NotFound /\ r # Error
  BY DEF IsRequest
<1>1. "kind" \in DOMAIN r
  BY RequestAssumption DEF Tracking, Querying
<1>2. DOMAIN NotFound = {"type"} /\ DOMAIN Error = {"type"}
  BY DEF NotFound, Error
<1> QED
  BY <1>1, <1>2

LEMMA FlatBody ==
  ASSUME NEW hr \in HttpRequest
  PROVE  FlattenSeq(hr.body.chunks) \in Seq(Bytes)
<1>1. hr.body.chunks \in Seq(Seq(Bytes)) /\ <<>> \in Seq(Bytes)
  BY HttpAssumption DEF Body
<1> QED
  BY <1>1, FlattenAppend

LEMMA PointOfType ==
  ASSUME NEW hr \in HttpRequest, PointOf(hr) # None
  PROVE  PointOf(hr) \in Paths \cup {NoPath}
<1>1. PointOf(hr) = Parse(FlattenSeq(hr.body.chunks), hr)
  BY DEF PointOf
<1> QED
  BY <1>1, FlatBody, ParsedPoint

LEMMA MeaningCases ==
  ASSUME NEW hr \in HttpRequest
  PROVE  /\ IsMalformed(hr) => Meaning(hr) = NotFound
         /\ KnnQueryPanics(hr) => Meaning(hr) = Error
         /\ ~NeedsPoint(hr) /\ ~IsMalformed(hr) =>
              Meaning(hr) = RequestOf(hr, NoPath) /\ Meaning(hr) \in Request
         /\ NeedsPoint(hr) /\ ~KnnQueryPanics(hr) =>
              IF PointOf(hr) = None THEN Meaning(hr) = Error
              ELSE Meaning(hr) = RequestOf(hr, PointOf(hr)) /\ Meaning(hr) \in Request
<1>1. /\ IsMalformed(hr) => ~NeedsPoint(hr)
      /\ KnnQueryPanics(hr) => NeedsPoint(hr)
  BY DEF IsMalformed, NeedsPoint, KnnQueryPanics
<1>2. Meaning(hr) = CASE IsMalformed(hr) -> NotFound
                      [] KnnQueryPanics(hr) \/ (NeedsPoint(hr) /\ PointOf(hr) = None) -> Error
                      [] OTHER -> RequestOf(hr, PointOf(hr))
  BY DEF Meaning, PointOf
<1>3. ASSUME ~NeedsPoint(hr), ~IsMalformed(hr)
      PROVE  RequestOf(hr, NoPath) = RequestOf(hr, PointOf(hr)) /\ RequestOf(hr, NoPath) \in Request
  <2>1. RequestOf(hr, NoPath) = RequestOf(hr, PointOf(hr))
    <3>1. hr.route \notin {"knn", "routing_knn", "path", "track_point"}
      BY <1>3 DEF NeedsPoint
    <3> QED
      BY <3>1 DEF RequestOf
  <2> QED
    BY <2>1, <1>1, <1>3, ReadableRequest
<1>4. ASSUME NeedsPoint(hr), ~KnnQueryPanics(hr), PointOf(hr) # None
      PROVE  RequestOf(hr, PointOf(hr)) \in Request
  BY <1>1, <1>4, PointOfType, ReadableRequest
<1> QED
  BY <1>1, <1>2, <1>3, <1>4

LEMMA RequestsMeant ==
  ASSUME NEW hr \in HttpRequest
  PROVE  IsRequest(Meaning(hr)) <=> Meaning(hr) \in Request
<1>1. Meaning(hr) \in Request \cup {NotFound, Error}
  BY MeaningCases DEF NeedsPoint, IsMalformed
<1> QED
  BY <1>1, RequestsAreNoAnswers DEF IsRequest

(* The requests of a connection, in the order they are asked.              *)
After(reqs, hr) == IF IsRequest(Meaning(hr)) THEN Append(reqs, Meaning(hr)) ELSE reqs

Means(hrs, f) ==
  f = [n \in 0..Len(hrs) |->
         IF n = 0 THEN <<>>
         ELSE LET m == Meaning(hrs[n]) IN IF IsRequest(m) THEN Append(f[n-1], m) ELSE f[n-1]]

LEMMA MeantIs == \A hrs : Meant(hrs) = CHOOSE f : Means(hrs, f)
BY DEF Meant, Means

LEMMA AfterType ==
  ASSUME NEW reqs \in Seq(Request), NEW hr \in HttpRequest
  PROVE  After(reqs, hr) \in Seq(Request)
BY RequestsMeant DEF After

LEMMA MeantSteps ==
  ASSUME NEW hrs \in Seq(HttpRequest)
  PROVE  /\ Meant(hrs)[0] = <<>>
         /\ \A n \in 0..Len(hrs) : Meant(hrs)[n] \in Seq(Request)
         /\ \A n \in 1..Len(hrs) : Meant(hrs)[n] = After(Meant(hrs)[n - 1], hrs[n])
<1> DEFINE N == Len(hrs)
           X == Seq(Request)
           g == [nx \in (1..N) \X X |-> After(nx[2], hrs[nx[1]])]
<1>1. N \in Nat /\ <<>> \in X /\ \A n \in 1..N : hrs[n] \in HttpRequest
  OBVIOUS
<1>2. ASSUME NEW n \in 1..N, NEW x \in X
      PROVE  g[<<n, x>>] = After(x, hrs[n]) /\ g[<<n, x>>] \in X
  BY <1>1, AfterType
<1> HIDE DEF g
<1>3. PICK F : RecursionTo(N, F, X, <<>>, g)
  <2>1. StepsIn(g, X, N)
    BY <1>2 DEF StepsIn
  <2> HIDE DEF N, X
  <2> QED
    BY <2>1, <1>1, RecursionUpTo
<1> HIDE DEF X, N
<1>4. /\ F \in [0..N -> X] /\ F[0] = <<>>
      /\ \A n \in 1..N : F[n] = After(F[n - 1], hrs[n])
  <2>1. F \in [0..N -> X] /\ F[0] = <<>> /\ \A n \in 1..N : F[n] = g[<<n, F[n - 1]>>]
    BY <1>3 DEF RecursionTo
  <2>2. ASSUME NEW n \in 1..N PROVE F[n - 1] \in X
    <3>1. n - 1 \in 0..N
      BY <1>1
    <3> QED
      BY <3>1, <2>1
  <2> QED
    BY <2>1, <2>2, <1>2
<1>5. Means(hrs, F)
  <2>1. \A n \in 0..N : n # 0 => n \in 1..N
    BY <1>1
  <2>2. \A n \in 0..N : F[n] = IF n = 0 THEN <<>> ELSE After(F[n - 1], hrs[n])
    BY <2>1, <1>4
  <2> QED
    BY <2>2, <1>4 DEF Means, After, N
<1>6. Means(hrs, Meant(hrs))
  BY <1>5, MeantIs
<1>7. \A n \in 0..N : Meant(hrs)[n] = IF n = 0 THEN <<>> ELSE After(Meant(hrs)[n - 1], hrs[n])
  BY <1>6 DEF Means, After, N
<1> DEFINE P == {n \in Nat : n \in 0..N => Meant(hrs)[n] \in X}
<1>8. 0 \in P
  BY <1>1, <1>7
<1>9. ASSUME NEW n \in P PROVE n + 1 \in P
  <2> SUFFICES ASSUME n + 1 \in 0..N PROVE Meant(hrs)[n + 1] \in X
    OBVIOUS
  <2>1. n \in Nat /\ n \in 0..N /\ (n + 1) - 1 = n /\ n + 1 # 0 /\ n + 1 \in 1..N
    BY <1>1
  <2>2. Meant(hrs)[n + 1] = After(Meant(hrs)[n], hrs[n + 1]) /\ Meant(hrs)[n] \in X
    BY <2>1, <1>7
  <2> QED
    BY <2>1, <2>2, <1>1, AfterType DEF X
<1>10. P = Nat
  <2>1. P \in SUBSET Nat
    OBVIOUS
  <2> HIDE DEF P
  <2> QED
    BY <2>1, <1>8, <1>9, AllNaturals
<1>11. \A n \in 0..N : n \in P
  <2> HIDE DEF P
  <2> QED
    BY <1>10, <1>1
<1> QED
  <2>1. \A n \in 0..N : Meant(hrs)[n] \in X
    BY <1>11
  <2>2. \A n \in 1..N : n \in 0..N /\ n # 0
    BY <1>1
  <2>3. 0 \in 0..N
    BY <1>1
  <2> QED
    BY <2>1, <2>2, <2>3, <1>7 DEF X, N

(* What is asked later changes nothing of it. *)
LEMMA MeantOfMore ==
  ASSUME NEW hrs \in Seq(HttpRequest), NEW hr \in HttpRequest
  PROVE  \A n \in 0..Len(hrs) : Meant(Append(hrs, hr))[n] = Meant(hrs)[n]
<1> DEFINE more == Append(hrs, hr)
           N == Len(hrs)
           P == {n \in Nat : n \in 0..N => Meant(more)[n] = Meant(hrs)[n]}
<1>1. /\ more \in Seq(HttpRequest) /\ N \in Nat /\ Len(more) = N + 1
      /\ \A n \in 1..N : more[n] = hrs[n] /\ n \in 1..Len(more)
  OBVIOUS
<1> HIDE DEF more
<1>2. 0 \in P
  BY <1>1, MeantSteps
<1>3. ASSUME NEW n \in P PROVE n + 1 \in P
  <2> SUFFICES ASSUME n + 1 \in 0..N PROVE Meant(more)[n + 1] = Meant(hrs)[n + 1]
    OBVIOUS
  <2>1. n \in Nat /\ n \in 0..N /\ (n + 1) - 1 = n /\ n + 1 \in 1..N
    BY <1>1
  <2>2. Meant(more)[n] = Meant(hrs)[n]
    BY <2>1
  <2>3. /\ Meant(hrs)[n + 1] = After(Meant(hrs)[n], hrs[n + 1])
        /\ Meant(more)[n + 1] = After(Meant(more)[n], more[n + 1])
    BY <2>1, <1>1, MeantSteps
  <2> QED
    BY <2>1, <2>2, <2>3, <1>1
<1>4. P = Nat
  <2>1. P \in SUBSET Nat
    OBVIOUS
  <2> HIDE DEF P
  <2> QED
    BY <2>1, <1>2, <1>3, AllNaturals
<1>5. \A n \in 0..N : n \in P
  <2> HIDE DEF P
  <2> QED
    BY <1>4, <1>1
<1> QED
  BY <1>5 DEF more

-----------------------------------------------------------------------------
(* Every reply is one to the request its task is at work on.               *)

AnswerTypes(m) ==
  {"unknown", CASE m.kind = "add" -> "add" [] m.kind = "stats" -> "stats" [] OTHER -> "track"}

Suits(m, r) ==
  \/ m.kind = "query" /\ r = QueryAnswer(m)
  \/ m.kind # "query" /\ r = Error /\ (dead # {} \/ ("path" \in DOMAIN m /\ m.path = NoPath))
  \/ m.kind # "query" /\ r \notin {Error, NotFound} /\ r.type \in AnswerTypes(m)

RepliesSuit == \A c \in Connection : reply[c] # None => Suits(Current(c), reply[c])

LEMMA AnswerSuits ==
  ASSUME NEW m \in Request, m.kind # "query", NEW ts
  PROVE  Suits(m, AnswerTo(ts, m))
<1>1. m \in Tracking
  BY RequestAssumption DEF Querying
<1>2. /\ DOMAIN Error = {"type"} /\ Error.type = "error"
      /\ DOMAIN NotFound = {"type"} /\ NotFound.type = "404"
      /\ Unknown.type = "unknown"
  BY DEF Error, NotFound, Unknown
<1>3. CASE Counted(m)
  <2>1. m.kind \in {"track_point", "track_path"}
    BY <1>3 DEF Counted
  <2>2. AnswerTo(ts, m) = Done("track", m.kind = "track_path" \/ DOMAIN ts # {})
    BY <1>3, <2>1 DEF AnswerTo
  <2>3. PICK x : AnswerTo(ts, m) = [type |-> "track", success |-> x]
    BY <2>2 DEF Done
  <2> QED
    BY <2>1, <2>3, <1>2 DEF Suits, AnswerTypes
<1>4. CASE m.kind = "track_point" /\ ~Counted(m)
  <2>1. "path" \in DOMAIN m /\ m.path = NoPath
    BY <1>1, <1>4 DEF Tracking, Counted
  <2>2. AnswerTo(ts, m) = Error
    BY <1>4 DEF AnswerTo
  <2> QED
    BY <2>1, <2>2, <1>4 DEF Suits
<1>5. CASE m.kind = "track_path" /\ ~Counted(m)
  <2>1. m.path \in Paths
    BY <1>5, RequestFields
  <2> QED
    BY <2>1, <1>5, RequestAssumption DEF Counted
<1>6. CASE m.kind = "add"
  <2>1. PICK x : AnswerTo(ts, m) = [type |-> "add", success |-> x]
    BY <1>6 DEF AnswerTo, Done, Counted
  <2> QED
    BY <2>1, <1>2, <1>6 DEF Suits, AnswerTypes
<1>7. CASE m.kind = "stats"
  <2>1. CASE m.window \in DOMAIN ts
    <3>1. PICK x, y : AnswerTo(ts, m) = [type |-> "stats", length |-> x, overall |-> y]
      BY <1>7, <2>1 DEF AnswerTo, Counted
    <3> QED
      BY <3>1, <1>2, <1>7 DEF Suits, AnswerTypes
  <2>2. CASE m.window \notin DOMAIN ts
    <3>1. AnswerTo(ts, m) = Unknown
      BY <1>7, <2>2 DEF AnswerTo, Counted
    <3>2. Unknown # Error /\ Unknown # NotFound
      BY <1>2 DEF Unknown
    <3> QED
      BY <3>1, <3>2, <1>2, <1>7 DEF Suits, AnswerTypes
  <2> QED
    BY <2>1, <2>2
<1> QED
  BY <1>3, <1>4, <1>5, <1>6, <1>7, RequestFields

LEMMA UnknownSuits ==
  ASSUME NEW m, m.kind # "query"
  PROVE  Suits(m, Unknown)
<1>1. Unknown.type = "unknown" /\ Unknown # Error /\ Unknown # NotFound
  BY DEF Unknown, Error, NotFound
<1> QED
  BY <1>1 DEF Suits, AnswerTypes

LEMMA SuitsStays ==
  ASSUME NEW m, NEW r, Suits(m, r), dead \subseteq dead'
  PROVE  Suits(m, r)'
BY DEF Suits

(* The replies of all but one connection are as they were.                 *)
LEMMA OthersSuit ==
  ASSUME IInv, RepliesSuit, dead \subseteq dead', NEW c \in Connection,
         \A d \in Connection \ {c} :
           reply'[d] = reply[d] /\ (reply[d] # None => Current(d)' = Current(d)),
         reply'[c] # None => Suits(Current(c), reply[c])'
  PROVE  RepliesSuit'
<1> SUFFICES ASSUME NEW d \in Connection, reply'[d] # None PROVE Suits(Current(d), reply[d])'
  BY DEF RepliesSuit
<1>1. CASE d = c
  BY <1>1
<1>2. CASE d # c
  <2>1. reply[d] # None /\ reply'[d] = reply[d] /\ Current(d)' = Current(d)
    BY <1>2
  <2>2. Suits(Current(d), reply[d])
    BY <2>1 DEF RepliesSuit
  <2> QED
    BY <2>1, <2>2, SuitsStays
<1> QED
  BY <1>1, <1>2

LEMMA QuerySuits ==
  ASSUME IInv, RepliesSuit, NEW c \in Connection, Query(c)
  PROVE  RepliesSuit'
<1>1. /\ Received(c) /\ Head(requests[c]).kind = "query" /\ dead' = dead
      /\ reply' = [reply EXCEPT ![c] = QueryAnswer(Head(requests[c]))]
      /\ calls' = calls /\ answers' = answers
  BY DEF Query, workerVars, Received
<1>2. Head(requests[c]) = Current(c) /\ Current(c)' = Current(c)
  BY <1>1, NextIsCurrent
<1>3. reply'[c] = QueryAnswer(Current(c)) /\ \A d \in Connection \ {c} : reply'[d] = reply[d]
  BY <1>1, <1>2 DEF IInv, StateTyped
<1>4. Suits(Current(c), reply[c])'
  BY <1>1, <1>2, <1>3 DEF Suits
<1>5. \A d \in Connection : Current(d)' = Current(d)
  BY <1>1 DEF Current
<1> QED
  BY <1>1, <1>3, <1>4, <1>5, OthersSuit

(* A request that is sent to a worker has no reply but that of a dead one. *)
LEMMA SendSuits ==
  ASSUME IInv, RepliesSuit, NEW c \in Connection, NEW n \in Worker, Send(n, c, Current(c)),
         reply[c] = None, Current(c).kind # "query", dead' = dead, calls' = calls, answers' = answers
  PROVE  RepliesSuit'
<1>1. \A d \in Connection : Current(d)' = Current(d)
  BY DEF Current
<1>2. \A d \in Connection \ {c} : reply'[d] = reply[d]
  BY DEF Send, IInv, StateTyped
<1>3. ASSUME reply'[c] # None PROVE Suits(Current(c), reply[c])'
  <2>1. n \in dead /\ reply'[c] = Error
    BY <1>3 DEF Send, IInv, StateTyped
  <2> QED
    BY <2>1, <1>1 DEF Suits
<1> QED
  BY <1>1, <1>2, <1>3, OthersSuit

LEMMA AskMainSuits ==
  ASSUME IInv, RepliesSuit, NEW c \in Connection, AskMain(c)
  PROVE  RepliesSuit'
<1>1. /\ Received(c) /\ Head(requests[c]).kind # "query" /\ Send(Main, c, Head(requests[c]))
      /\ dead' = dead /\ calls' = calls /\ answers' = answers /\ reply[c] = None
  BY DEF AskMain, Received, IInv, AtWork
<1>2. Head(requests[c]) = Current(c)
  BY <1>1, NextIsCurrent
<1> QED
  BY <1>1, <1>2, SendSuits DEF Worker

LEMMA LookUpSuits ==
  ASSUME IInv, RepliesSuit, NEW c \in Connection, LookUp(c)
  PROVE  RepliesSuit'
<1>1. /\ dead' = dead /\ calls' = calls /\ answers' = answers
      /\ reply[c] = None /\ Current(c).kind # "query" /\ Current(c).name \in Name
  BY DEF LookUp, clientVars, IInv, AtWork
<1>2. CASE Current(c).name \in known
  <2>1. Send(Current(c).name, c, Current(c))
    BY <1>2 DEF LookUp
  <2> QED
    BY <2>1, <1>1, SendSuits DEF Worker
<1>3. CASE Current(c).name \notin known
  <2>1. reply' = [reply EXCEPT ![c] = Unknown]
    BY <1>3 DEF LookUp
  <2>2. \A d \in Connection : Current(d)' = Current(d)
    BY <1>1 DEF Current
  <2>3. reply'[c] = Unknown /\ \A d \in Connection \ {c} : reply'[d] = reply[d]
    BY <2>1 DEF IInv, StateTyped
  <2>4. Suits(Current(c), Unknown)
    BY <1>1, UnknownSuits
  <2>5. Suits(Current(c), reply[c])'
    BY <2>2, <2>3, <2>4, <1>1 DEF Suits
  <2> QED
    BY <2>2, <2>3, <2>5, <1>1, OthersSuit
<1> QED
  BY <1>2, <1>3

LEMMA ProcessSuits ==
  ASSUME IInv, RepliesSuit, NEW n \in Worker, Process(n)
  PROVE  RepliesSuit'
<1> DEFINE m == Head(mailbox[n])
<1>1. /\ mailbox[n] # <<>> /\ dead' = dead /\ calls' = calls /\ answers' = answers
      /\ reply' = [reply EXCEPT ![m.from] = AnswerTo(trackers[n], m.request)]
  BY DEF Process, clientVars
<1>2. /\ m.from \in Connection /\ m.request \in Request
      /\ m.request = Current(m.from) /\ m.request.kind # "query"
  BY <1>1, HeadOfMailbox
<1> HIDE DEF m
<1>3. \A d \in Connection : Current(d)' = Current(d)
  BY <1>1 DEF Current
<1>4. PICK c \in Connection : c = m.from
  BY <1>2
<1>5. /\ reply'[c] = AnswerTo(trackers[n], m.request)
      /\ \A d \in Connection \ {c} : reply'[d] = reply[d]
  BY <1>1, <1>4 DEF IInv, StateTyped
<1>6. Suits(m.request, AnswerTo(trackers[n], m.request))
  BY <1>2, AnswerSuits
<1>7. Suits(Current(c), reply[c])'
  BY <1>1, <1>2, <1>3, <1>4, <1>5, <1>6 DEF Suits
<1> QED
  BY <1>1, <1>3, <1>5, <1>7, OthersSuit

LEMMA PanicSuits ==
  ASSUME IInv, RepliesSuit, NEW n \in Worker, Panic(n)
  PROVE  RepliesSuit'
<1>1. /\ dead' = dead \cup {n} /\ calls' = calls /\ answers' = answers
      /\ reply' = [c \in Connection |->
                     IF \E k \in DOMAIN mailbox[n] : mailbox[n][k].from = c THEN Error ELSE reply[c]]
      /\ mailbox[n] \in Seq(Message)
  BY DEF Panic, clientVars, IInv, StateTyped
<1> SUFFICES ASSUME NEW d \in Connection, reply'[d] # None PROVE Suits(Current(d), reply[d])'
  BY DEF RepliesSuit
<1>2. Current(d)' = Current(d)
  BY <1>1 DEF Current
<1>3. CASE \E k \in DOMAIN mailbox[n] : mailbox[n][k].from = d
  <2>1. PICK k \in 1..Len(mailbox[n]) : mailbox[n][k].from = d
    BY <1>1, <1>3
  <2>2. Current(d).kind # "query"
    BY <2>1, SendersWait
  <2>3. reply'[d] = Error /\ dead' # {}
    BY <1>1, <1>3
  <2> QED
    BY <2>2, <2>3, <1>2 DEF Suits
<1>4. CASE ~ \E k \in DOMAIN mailbox[n] : mailbox[n][k].from = d
  <2>1. reply'[d] = reply[d]
    BY <1>1, <1>4
  <2>2. Suits(Current(d), reply[d])
    BY <2>1 DEF RepliesSuit
  <2> QED
    BY <2>1, <2>2, <1>1, <1>2, SuitsStays
<1> QED
  BY <1>3, <1>4

LEMMA NextSuits == IInv /\ RepliesSuit /\ [ServiceNext]_vars => RepliesSuit'
<1> SUFFICES ASSUME IInv, RepliesSuit, [ServiceNext]_vars PROVE RepliesSuit'
  OBVIOUS
<1>1. ASSUME reply' = reply, dead' = dead, \A d \in Connection : reply[d] # None => Current(d)' = Current(d)
      PROVE  RepliesSuit'
  <2> SUFFICES ASSUME NEW d \in Connection, reply'[d] # None PROVE Suits(Current(d), reply[d])'
    BY DEF RepliesSuit
  <2>1. Suits(Current(d), reply[d])
    BY <1>1 DEF RepliesSuit
  <2> QED
    BY <2>1, <1>1, SuitsStays
<1>2. calls' = calls /\ answers' = answers => \A d \in Connection : Current(d)' = Current(d)
  BY DEF Current
<1>3. CASE UNCHANGED vars
  BY <1>1, <1>2, <1>3 DEF vars, clientVars, workerVars
<1>4. ASSUME NEW c \in Connection, Respond(c) PROVE RepliesSuit'
  <2>1. /\ reply' = [reply EXCEPT ![c] = None] /\ calls' = calls /\ dead' = dead
        /\ answers' = [answers EXCEPT ![c] = Append(@, reply[c])]
    BY <1>4 DEF Respond, workerVars
  <2>2. reply'[c] = None /\ \A d \in Connection \ {c} : reply'[d] = reply[d] /\ answers'[d] = answers[d]
    BY <2>1 DEF IInv, StateTyped
  <2>3. \A d \in Connection \ {c} : Current(d)' = Current(d)
    BY <2>1, <2>2 DEF Current
  <2> QED
    BY <2>1, <2>2, <2>3, OthersSuit
<1>5. ASSUME NEW c \in Connection, HangUp(c) PROVE RepliesSuit'
  BY <1>1, <1>2, <1>5 DEF HangUp, clientVars, workerVars
<1>6. ASSUME NEW c \in Connection, TaskStep(c) PROVE RepliesSuit'
  <2>1. CASE AskLock(c)
    BY <1>1, <1>2, <2>1 DEF AskLock, Received, workerVars
  <2>2. CASE InsertEntry(c)
    BY <1>1, <1>2, <2>2 DEF InsertEntry, clientVars
  <2> QED
    BY <2>1, <2>2, <1>6, QuerySuits, AskMainSuits, LookUpSuits DEF TaskStep
<1>7. ASSUME NEW c \in Connection, NEW r \in Request, Call(c, r) PROVE RepliesSuit'
  <2>1. /\ calls' = [calls EXCEPT ![c] = Append(@, r)] /\ answers' = answers
        /\ reply' = reply /\ dead' = dead
    BY <1>7 DEF Call, workerVars
  <2>2. ASSUME NEW d \in Connection, reply[d] # None PROVE Current(d)' = Current(d)
    <3>1. ~Idle(d)
      BY <2>2 DEF IInv, AtWork, Idle
    <3>2. calls'[d] = calls[d] \/ calls'[d] = Append(calls[d], r)
      BY <2>1 DEF IInv, StateTyped
    <3> QED
      BY <3>1, <3>2, <2>1, CurrentStays
  <2> QED
    BY <2>1, <2>2, <1>1
<1>8. ASSUME NEW n \in Worker, WorkerNext(n) PROVE RepliesSuit'
  BY <1>8, ProcessSuits, PanicSuits DEF WorkerNext
<1> QED
  BY <1>3, <1>4, <1>5, <1>6, <1>7, <1>8 DEF ServiceNext

-----------------------------------------------------------------------------
(* The phases of a conversation over HTTP: of the requests hrs the task    *)
(* has taken the first t and answered the first k, it has b in its buffer, *)
(* and of the calls cs to the reader the first n have been answered.       *)

NothingPanics(hrs, t) == \A j \in 1..t : ~EndsTask(hrs[j])

AtRest(hrs, t, k, b, cs, n) ==
  /\ b = Empty /\ Len(cs) = n /\ t = k
  /\ NothingPanics(hrs, t) /\ cs = Meant(hrs)[t]

Working(hrs, t, k, b, cs, n) ==
  /\ b = Empty /\ Len(cs) = n + 1 /\ t = k + 1
  /\ NothingPanics(hrs, t) /\ cs = Meant(hrs)[t] /\ IsRequest(Meaning(hrs[t]))

(* Some chunks are in the buffer, the others are left. *)
ReadSoFar(b) ==
  LET chunks == b.request.body.chunks
  IN \E i \in 0..Len(chunks) :
       /\ Len(b.left) = Len(chunks) - i
       /\ \A j \in 1..Len(b.left) : b.left[j] = chunks[i + j]
       /\ b.body = FlattenSeq(SubSeq(chunks, 1, i))

InBody(hrs, t, k, b, cs, n) ==
  /\ b \in Reading /\ b # Empty /\ b # Dropped /\ ReadSoFar(b)
  /\ Len(cs) = n /\ t = k + 1
  /\ NothingPanics(hrs, k) /\ cs = Meant(hrs)[k] /\ b.request = hrs[t]

Gone(hrs, t, k, b, cs, n) ==
  /\ b = Dropped /\ Len(cs) = n /\ t = k /\ t = Len(hrs)
  /\ ~NothingPanics(hrs, t)
  /\ \E i \in 0..Len(hrs) : cs = Meant(hrs)[i]

Phase(hrs, t, k, b, cs, n) ==
  \/ AtRest(hrs, t, k, b, cs, n) \/ Working(hrs, t, k, b, cs, n)
  \/ InBody(hrs, t, k, b, cs, n) \/ Gone(hrs, t, k, b, cs, n)

LEMMA AskedMore ==
  ASSUME NEW hrs \in Seq(HttpRequest), NEW hr \in HttpRequest, NEW t \in 0..Len(hrs), NEW k \in Nat,
         NEW b, b # Dropped, NEW cs, NEW n, Phase(hrs, t, k, b, cs, n)
  PROVE  Phase(Append(hrs, hr), t, k, b, cs, n)
<1> DEFINE more == Append(hrs, hr)
<1>1. /\ \A i \in 1..Len(hrs) : more[i] = hrs[i]
      /\ \A j \in 1..t : j \in 1..Len(hrs)
      /\ t \in Nat /\ Len(hrs) \in Nat
      /\ t = k + 1 => k \in 0..Len(hrs) /\ t \in 1..Len(hrs) /\ \A j \in 1..k : j \in 1..Len(hrs)
  OBVIOUS
<1>2. \A i \in 0..Len(hrs) : Meant(more)[i] = Meant(hrs)[i]
  BY MeantOfMore
<1> HIDE DEF more
<1>3. NothingPanics(hrs, t) => NothingPanics(more, t)
  BY <1>1 DEF NothingPanics
<1>4. ~Gone(hrs, t, k, b, cs, n)
  BY DEF Gone
<1>5. AtRest(hrs, t, k, b, cs, n) => AtRest(more, t, k, b, cs, n)
  BY <1>1, <1>2, <1>3 DEF AtRest
<1>6. Working(hrs, t, k, b, cs, n) => Working(more, t, k, b, cs, n)
  BY <1>1, <1>2, <1>3 DEF Working
<1>7. InBody(hrs, t, k, b, cs, n) => InBody(more, t, k, b, cs, n)
  BY <1>1, <1>2 DEF InBody, NothingPanics
<1> QED
  BY <1>4, <1>5, <1>6, <1>7 DEF Phase, more

LEMMA AskedOfGone ==
  ASSUME NEW hrs \in Seq(HttpRequest), NEW hr \in HttpRequest, NEW t, NEW k,
         NEW cs, NEW n, Phase(hrs, t, k, Dropped, cs, n)
  PROVE  /\ Gone(Append(hrs, hr), t + 1, k + 1, Dropped, cs, n)
         /\ t = Len(hrs) /\ k = Len(hrs)
<1> DEFINE more == Append(hrs, hr)
<1>1. /\ \A i \in 1..Len(hrs) : more[i] = hrs[i]
      /\ Len(hrs) \in Nat /\ Len(more) = Len(hrs) + 1
      /\ \A i \in 0..Len(hrs) : i \in 0..Len(more)
      /\ \A j \in 1..Len(hrs) : j \in 1..Len(more)
  OBVIOUS
<1>2. \A i \in 0..Len(hrs) : Meant(more)[i] = Meant(hrs)[i]
  BY MeantOfMore
<1> HIDE DEF more
<1>3. Gone(hrs, t, k, Dropped, cs, n)
  BY BufferAssumption DEF Phase, AtRest, Working, InBody
<1>4. ~NothingPanics(more, t + 1)
  BY <1>1, <1>3 DEF Gone, NothingPanics
<1> QED
  BY <1>1, <1>2, <1>3, <1>4 DEF Gone, more

(* The task takes the next request. *)
LEMMA NextMeant ==
  ASSUME NEW hrs \in Seq(HttpRequest), NEW t \in Nat, t + 1 <= Len(hrs)
  PROVE  /\ hrs[t + 1] \in HttpRequest
         /\ Meant(hrs)[t] \in Seq(Request)
         /\ Meant(hrs)[t + 1] = After(Meant(hrs)[t], hrs[t + 1])
         /\ NothingPanics(hrs, t) /\ ~EndsTask(hrs[t + 1]) => NothingPanics(hrs, t + 1)
<1>1. t + 1 \in 1..Len(hrs) /\ (t + 1) - 1 = t /\ t \in 0..Len(hrs)
  OBVIOUS
<1>2. \A j \in 1..(t + 1) : j \in 1..t \/ j = t + 1
  OBVIOUS
<1>3. NothingPanics(hrs, t) /\ ~EndsTask(hrs[t + 1]) => NothingPanics(hrs, t + 1)
  BY <1>2 DEF NothingPanics
<1> QED
  BY <1>1, <1>3, MeantSteps

(* ... and has it processed, or answers it at once. *)
LEMMA TakenWhole ==
  ASSUME NEW hrs \in Seq(HttpRequest), NEW t \in Nat, t + 1 <= Len(hrs), NEW k, NEW cs, NEW n \in Nat,
         AtRest(hrs, t, k, Empty, cs, n), ~EndsTask(hrs[t + 1])
  PROVE  LET m == Meaning(hrs[t + 1])
         IN  IF IsRequest(m) THEN Phase(hrs, t + 1, k, Empty, Append(cs, m), n)
             ELSE Phase(hrs, t + 1, k + 1, Empty, cs, n)
<1> DEFINE m == Meaning(hrs[t + 1])
<1>1. /\ Len(cs) = n /\ t = k /\ cs = Meant(hrs)[t] /\ cs \in Seq(Request)
      /\ NothingPanics(hrs, t + 1) /\ hrs[t + 1] \in HttpRequest
      /\ Meant(hrs)[t + 1] = After(cs, hrs[t + 1])
  BY NextMeant DEF AtRest
<1>2. IsRequest(m) => Len(Append(cs, m)) = n + 1
  BY <1>1, RequestsMeant
<1>3. CASE IsRequest(m)
  <2>1. Meant(hrs)[t + 1] = Append(cs, m)
    BY <1>1, <1>3 DEF After
  <2> HIDE DEF m
  <2>2. Working(hrs, t + 1, k, Empty, Append(cs, m), n)
    BY <2>1, <1>1, <1>2, <1>3 DEF Working, m
  <2> QED
    BY <2>2, <1>3 DEF Phase, m
<1>4. CASE ~IsRequest(m)
  <2>1. Meant(hrs)[t + 1] = cs
    BY <1>1, <1>4 DEF After
  <2>2. AtRest(hrs, t + 1, k + 1, Empty, cs, n)
    BY <2>1, <1>1 DEF AtRest
  <2> QED
    BY <2>2, <1>4 DEF Phase
<1> QED
  BY <1>3, <1>4

LEMMA TakenPanics ==
  ASSUME NEW hrs \in Seq(HttpRequest), NEW t \in Nat, t + 1 <= Len(hrs), NEW k, NEW cs, NEW n,
         AtRest(hrs, t, k, Empty, cs, n), EndsTask(hrs[t + 1])
  PROVE  Phase(hrs, Len(hrs), Len(hrs), Dropped, cs, n)
<1>1. t + 1 \in 1..Len(hrs) /\ t \in 0..Len(hrs)
  OBVIOUS
<1>2. ~NothingPanics(hrs, Len(hrs))
  BY <1>1 DEF NothingPanics
<1> QED
  BY <1>1, <1>2 DEF AtRest, Gone, Phase

LEMMA BodyBegins ==
  ASSUME NEW hrs \in Seq(HttpRequest), NEW t \in Nat, t + 1 <= Len(hrs), NEW k, NEW cs, NEW n,
         AtRest(hrs, t, k, Empty, cs, n), NEW hr, hr = hrs[t + 1], NeedsPoint(hr), ~KnnQueryPanics(hr)
  PROVE  Phase(hrs, t + 1, k, Switched(hr), cs, n)
<1> DEFINE b == Switched(hr)
           chunks == hr.body.chunks
<1>1. /\ NothingPanics(hrs, t) /\ hr \in HttpRequest
      /\ Len(cs) = n /\ t = k /\ cs = Meant(hrs)[t]
  BY NextMeant DEF AtRest
<1>2. chunks \in Seq(Seq(Bytes)) /\ <<>> \in Seq(Bytes)
  BY <1>1, HttpAssumption DEF Body
<1>3. b.request = hr /\ b.body = <<>> /\ b.left = chunks /\ b \in Reading
  BY <1>1, <1>2 DEF Switched, Reading
<1>4. SubSeq(chunks, 1, 0) = <<>> /\ 0 \in 0..Len(chunks) /\ \A j \in 1..Len(chunks) : 0 + j = j
  BY <1>2
<1>5. ReadSoFar(b)
  <2>1. Len(b.left) = Len(chunks) - 0
    BY <1>2, <1>3
  <2>2. \A j \in 1..Len(b.left) : b.left[j] = chunks[0 + j]
    BY <1>3, <1>4
  <2>3. b.body = FlattenSeq(SubSeq(chunks, 1, 0))
    BY <1>3, <1>4, FlattenNone
  <2> HIDE DEF b
  <2> QED
    BY <2>1, <2>2, <2>3, <1>3, <1>4 DEF ReadSoFar
<1> HIDE DEF b
<1>6. InBody(hrs, t + 1, k, b, cs, n)
  BY <1>1, <1>3, <1>5, BufferAssumption DEF InBody
<1> QED
  BY <1>6 DEF Phase, b

(* One more chunk is read. *)
LEMMA ChunkRead ==
  ASSUME NEW b \in Reading, ReadSoFar(b), b.left # <<>>
  PROVE  LET chunks == b.request.body.chunks
         IN  \E i \in 1..Len(chunks) :
               /\ Len(b.left) - 1 = Len(chunks) - i
               /\ \A j \in 1..(Len(b.left) - 1) : Tail(b.left)[j] = chunks[i + j]
               /\ b.body \o Head(b.left) = FlattenSeq(SubSeq(chunks, 1, i))
<1> DEFINE chunks == b.request.body.chunks
           left == b.left
<1>1. b.request \in HttpRequest /\ left \in Seq(Seq(Bytes)) /\ left # <<>>
  BY DEF Reading
<1>2. chunks \in Seq(Seq(Bytes))
  BY <1>1, HttpAssumption DEF Body
<1>3. PICK i \in 0..Len(chunks) :
        /\ Len(left) = Len(chunks) - i
        /\ \A j \in 1..Len(left) : left[j] = chunks[i + j]
        /\ b.body = FlattenSeq(SubSeq(chunks, 1, i))
  BY DEF ReadSoFar
<1> HIDE DEF chunks, left
<1>4. /\ Len(left) \in Nat /\ Len(left) >= 1 /\ Head(left) = left[1] /\ 1 \in 1..Len(left)
      /\ \A j \in 1..(Len(left) - 1) : Tail(left)[j] = left[j + 1] /\ j + 1 \in 1..Len(left)
  BY <1>1
<1>5. i + 1 \in 1..Len(chunks) /\ i \in Nat /\ Len(chunks) \in Nat
  BY <1>2, <1>3, <1>4
<1>6. /\ SubSeq(chunks, 1, i) \in Seq(Seq(Bytes)) /\ chunks[i + 1] \in Seq(Bytes)
      /\ SubSeq(chunks, 1, i + 1) = Append(SubSeq(chunks, 1, i), chunks[i + 1])
  BY <1>2, <1>5
<1>7. b.body \o Head(left) = FlattenSeq(SubSeq(chunks, 1, i + 1))
  <2>1. FlattenSeq(Append(SubSeq(chunks, 1, i), chunks[i + 1])) =
          FlattenSeq(SubSeq(chunks, 1, i)) \o chunks[i + 1]
    BY <1>6, FlattenAppend
  <2>2. Head(left) = chunks[i + 1]
    BY <1>3, <1>4
  <2> QED
    BY <2>1, <2>2, <1>3, <1>6
<1>8. \A j \in 1..(Len(left) - 1) : Tail(left)[j] = chunks[(i + 1) + j]
  <2> SUFFICES ASSUME NEW j \in 1..(Len(left) - 1) PROVE Tail(left)[j] = chunks[(i + 1) + j]
    OBVIOUS
  <2>1. i + (j + 1) = (i + 1) + j
    BY <1>4, <1>5
  <2> QED
    BY <2>1, <1>3, <1>4
<1>9. Len(left) - 1 = Len(chunks) - (i + 1)
  BY <1>3, <1>4, <1>5
<1> QED
  BY <1>5, <1>7, <1>8, <1>9 DEF left, chunks

LEMMA BodyGoesOn ==
  ASSUME NEW hrs, NEW t, NEW k, NEW cs, NEW n, NEW b, InBody(hrs, t, k, b, cs, n), Len(b.left) > 1
  PROVE  InBody(hrs, t, k, [b EXCEPT !.body = b.body \o Head(b.left), !.left = Tail(b.left)], cs, n)
<1> DEFINE new == [b EXCEPT !.body = b.body \o Head(b.left), !.left = Tail(b.left)]
           chunks == b.request.body.chunks
<1>1. b \in Reading /\ ReadSoFar(b)
  BY DEF InBody
<1>2. b.left \in Seq(Seq(Bytes)) /\ b.body \in Seq(Bytes)
  BY <1>1 DEF Reading
<1>3. /\ b.left # <<>> /\ Tail(b.left) \in Seq(Seq(Bytes)) /\ Head(b.left) \in Seq(Bytes)
      /\ Len(Tail(b.left)) = Len(b.left) - 1
  BY <1>2
<1>4. b.body \o Head(b.left) \in Seq(Bytes)
  BY <1>2, <1>3
<1>5. /\ new \in Reading /\ new.request = b.request
      /\ new.body = b.body \o Head(b.left) /\ new.left = Tail(b.left)
  BY <1>1, <1>3, <1>4 DEF Reading
<1> HIDE DEF new
<1>6. PICK i \in 1..Len(chunks) :
               /\ Len(b.left) - 1 = Len(chunks) - i
               /\ \A j \in 1..(Len(b.left) - 1) : Tail(b.left)[j] = chunks[i + j]
               /\ b.body \o Head(b.left) = FlattenSeq(SubSeq(chunks, 1, i))
  BY <1>1, <1>3, ChunkRead
<1>7. i \in 0..Len(new.request.body.chunks)
  BY <1>5
<1> HIDE DEF chunks
<1>8. ReadSoFar(new)
  BY <1>3, <1>5, <1>6, <1>7 DEF ReadSoFar, chunks
<1> QED
  BY <1>5, <1>8, BufferAssumption DEF InBody, new

(* At the end of the body the point is that of the whole of it. *)
LEMMA BodyIsWhole ==
  ASSUME NEW b \in Reading, ReadSoFar(b), ~(Len(b.left) > 1)
  PROVE  FlattenSeq(b.request.body.chunks) = IF b.left = <<>> THEN b.body ELSE b.body \o Head(b.left)
<1> DEFINE chunks == b.request.body.chunks
           left == b.left
           k == Len(left)
           N == Len(chunks)
<1>1. b.request \in HttpRequest /\ left \in Seq(Seq(Bytes))
  BY DEF Reading
<1>2. chunks \in Seq(Seq(Bytes))
  BY <1>1, HttpAssumption DEF Body
<1>3. SubSeq(chunks, 1, N) = chunks /\ N \in Nat
  BY <1>2
<1>4. k \in Nat /\ ~(k > 1) /\ (left = <<>> <=> k = 0)
  <2> HIDE DEF left
  <2>1. k \in Nat /\ (left = <<>> <=> k = 0)
    BY <1>1
  <2> QED
    BY <2>1 DEF left
<1>5. CASE left = <<>>
  <2>1. PICK i \in 0..N : k = N - i /\ b.body = FlattenSeq(SubSeq(chunks, 1, i))
    BY DEF ReadSoFar
  <2> HIDE DEF k, N
  <2>2. i = N
    BY <2>1, <1>3, <1>4, <1>5
  <2> QED
    BY <2>1, <2>2, <1>3, <1>5
<1>6. CASE left # <<>>
  <2>1. PICK i \in 1..N :
          k - 1 = N - i /\ b.body \o Head(left) = FlattenSeq(SubSeq(chunks, 1, i))
    BY <1>6, ChunkRead
  <2> HIDE DEF k, N
  <2>2. i = N
    BY <2>1, <1>3, <1>4, <1>6
  <2> QED
    BY <2>1, <2>2, <1>3, <1>6
<1> QED
  BY <1>5, <1>6

LEMMA BodyReadable ==
  ASSUME NEW hrs \in Seq(HttpRequest), NEW t \in 0..Len(hrs), NEW k \in Nat, NEW cs, NEW n, NEW b,
         InBody(hrs, t, k, b, cs, n), ~ParsePanics(b.request)
  PROVE  NothingPanics(hrs, t)
<1>1. t = k + 1 /\ NothingPanics(hrs, k) /\ b.request = hrs[t] /\ b \in Reading
  BY DEF InBody
<1>2. ~EndsTask(hrs[t])
  BY <1>1 DEF EndsTask, Reading
<1> QED
  BY <1>1, <1>2, NextMeant

LEMMA BodyEnds ==
  ASSUME NEW hrs \in Seq(HttpRequest), NEW t \in 0..Len(hrs), NEW k \in Nat, NEW cs, NEW n \in Nat, NEW b,
         InBody(hrs, t, k, b, cs, n), ~(Len(b.left) > 1), ~ParsePanics(b.request)
  PROVE  LET body == IF b.left = <<>> THEN b.body ELSE b.body \o Head(b.left)
             p == IF b.request.body.fails THEN None ELSE Parse(body, b.request)
         IN  IF p = None THEN Meaning(b.request) = Error /\ Phase(hrs, t, k + 1, Empty, cs, n)
             ELSE Phase(hrs, t, k, Empty, Append(cs, RequestOf(b.request, p)), n)
<1> DEFINE p == PointOf(b.request)
<1>1. b \in Reading /\ ReadSoFar(b)
  BY DEF InBody
<1>2. b.request \in HttpRequest /\ NeedsPoint(b.request) /\ ~KnnQueryPanics(b.request)
  BY <1>1 DEF Reading
<1>3. p = IF b.request.body.fails THEN None
          ELSE Parse(IF b.left = <<>> THEN b.body ELSE b.body \o Head(b.left), b.request)
  BY <1>1, BodyIsWhole DEF PointOf
<1> HIDE DEF p
<1>4. /\ Len(cs) = n /\ t = k + 1 /\ NothingPanics(hrs, k) /\ b.request = hrs[t]
      /\ cs = Meant(hrs)[k]
  BY DEF InBody
<1>5. /\ cs \in Seq(Request) /\ Meant(hrs)[t] = After(cs, b.request)
      /\ NothingPanics(hrs, t)
  BY <1>4, NextMeant, BodyReadable
<1>6. CASE p = None
  <2>1. Meaning(b.request) = Error
    BY <1>2, <1>6, MeaningCases DEF p
  <2>2. AtRest(hrs, t, k + 1, Empty, cs, n)
    BY <2>1, <1>4, <1>5 DEF AtRest, After, IsRequest
  <2> QED
    BY <2>1, <2>2, <1>3, <1>6 DEF Phase
<1>7. CASE p # None
  <2>1. Meaning(b.request) = RequestOf(b.request, p) /\ Meaning(b.request) \in Request
    BY <1>2, <1>7, MeaningCases DEF p
  <2>2. IsRequest(Meaning(b.request))
    BY <2>1, RequestsAreNoAnswers
  <2>3. Len(Append(cs, Meaning(b.request))) = n + 1
    BY <2>1, <1>4, <1>5
  <2>4. Working(hrs, t, k, Empty, Append(cs, Meaning(b.request)), n)
    BY <2>2, <2>3, <1>4, <1>5 DEF Working, After
  <2> QED
    BY <2>1, <2>4, <1>3, <1>7 DEF Phase
<1> QED
  BY <1>6, <1>7

(* ... or its content type ends the task. *)
LEMMA BodyPanics ==
  ASSUME NEW hrs \in Seq(HttpRequest), NEW t \in 0..Len(hrs), NEW k \in Nat, NEW cs, NEW n, NEW b,
         InBody(hrs, t, k, b, cs, n), ParsePanics(b.request)
  PROVE  /\ Phase(hrs, Len(hrs), Len(hrs), Dropped, cs, n)
         /\ EndsTask(hrs[k + 1]) /\ t = k + 1 /\ k + 1 <= Len(hrs)
<1>1. t = k + 1 /\ b.request = hrs[t] /\ Len(cs) = n /\ cs = Meant(hrs)[k]
  BY DEF InBody
<1>2. t \in 1..Len(hrs) /\ k \in 0..Len(hrs)
  BY <1>1
<1>3. EndsTask(hrs[t])
  BY <1>1 DEF EndsTask
<1>4. ~NothingPanics(hrs, Len(hrs))
  BY <1>2, <1>3 DEF NothingPanics
<1> QED
  BY <1>1, <1>2, <1>3, <1>4 DEF Gone, Phase

(* What the task is at work on is what the request it took last means. *)
LEMMA WorkIsMeant ==
  ASSUME NEW hrs \in Seq(HttpRequest), NEW t \in 0..Len(hrs), NEW k \in Nat, NEW cs, NEW n \in Nat,
         Working(hrs, t, k, Empty, cs, n)
  PROVE  cs[n + 1] = Meaning(hrs[t]) /\ Phase(hrs, t, k + 1, Empty, cs, n + 1)
<1>1. t = k + 1 /\ t \in 1..Len(hrs) /\ Len(cs) = n + 1 /\ cs = Meant(hrs)[t]
  BY DEF Working
<1>2. /\ Meant(hrs)[k] \in Seq(Request) /\ Meaning(hrs[t]) \in Request
      /\ cs = Append(Meant(hrs)[k], Meaning(hrs[t]))
  <2>1. /\ hrs[t] \in HttpRequest /\ Meant(hrs)[k] \in Seq(Request)
        /\ Meant(hrs)[t] = After(Meant(hrs)[k], hrs[t])
    BY <1>1, NextMeant
  <2> QED
    BY <2>1, <1>1, RequestsMeant DEF Working, After
<1>3. cs[Len(Meant(hrs)[k]) + 1] = Meaning(hrs[t]) /\ Len(cs) = Len(Meant(hrs)[k]) + 1
  BY <1>2
<1>4. cs[n + 1] = Meaning(hrs[t])
  BY <1>1, <1>2, <1>3
<1>5. AtRest(hrs, t, k + 1, Empty, cs, n + 1)
  BY <1>1 DEF Working, AtRest
<1> QED
  BY <1>4, <1>5 DEF Phase

-----------------------------------------------------------------------------
(* A conversation is in tune: what waits in the channel is the rest of     *)
(* what was asked, what was responded fits, and it is in one of the        *)
(* phases.                                                                 *)

HttpResponse == Response \cup [status: {200}, answer: Response]

IsTheRest(box, hrs) ==
  /\ Len(box) <= Len(hrs)
  /\ \A i \in 1..Len(box) : box[i] = hrs[Len(hrs) - Len(box) + i]

Fit(hrs, i, r) == IF NothingPanics(hrs, i) THEN Fits(Meaning(hrs[i]), r) ELSE r = Error
AllFit(hrs, rs) == Len(rs) <= Len(hrs) /\ \A i \in 1..Len(rs) : Fit(hrs, i, rs[i])

Tune(hrs, rs, box, b, cs, n) ==
  /\ IsTheRest(box, hrs) /\ AllFit(hrs, rs)
  /\ Phase(hrs, Len(hrs) - Len(box), Len(rs), b, cs, n)

LEMMA ErrorIsResponse == Error \in HttpResponse /\ NotFound \in HttpResponse /\ Error # NotFound
<1>1. Error.type = "error" /\ NotFound.type = "404"
  BY DEF Error, NotFound
<1> QED
  BY <1>1 DEF HttpResponse, Response

LEMMA FitOfMore ==
  ASSUME NEW hrs \in Seq(HttpRequest), NEW hr \in HttpRequest, NEW i \in 1..Len(hrs), NEW r, Fit(hrs, i, r)
  PROVE  Fit(Append(hrs, hr), i, r)
<1> DEFINE more == Append(hrs, hr)
<1>1. \A j \in 1..Len(hrs) : more[j] = hrs[j]
  OBVIOUS
<1>2. i \in 1..Len(hrs) /\ \A j \in 1..i : j \in 1..Len(hrs)
  OBVIOUS
<1> HIDE DEF more
<1>3. NothingPanics(more, i) <=> NothingPanics(hrs, i)
  BY <1>1, <1>2 DEF NothingPanics
<1> QED
  BY <1>1, <1>2, <1>3 DEF Fit, more

LEMMA OneMoreFits ==
  ASSUME NEW hrs \in Seq(HttpRequest), NEW rs \in Seq(HttpResponse), NEW r \in HttpResponse,
         AllFit(hrs, rs), Len(rs) + 1 <= Len(hrs), Fit(hrs, Len(rs) + 1, r)
  PROVE  AllFit(hrs, Append(rs, r))
<1>1. /\ Len(Append(rs, r)) = Len(rs) + 1 /\ Len(rs) \in Nat
      /\ \A i \in 1..(Len(rs) + 1) : Append(rs, r)[i] = IF i = Len(rs) + 1 THEN r ELSE rs[i]
      /\ \A i \in 1..(Len(rs) + 1) : i = Len(rs) + 1 \/ i \in 1..Len(rs)
  OBVIOUS
<1> QED
  BY <1>1 DEF AllFit

WithErrors(rs, pending) == rs \o [i \in 1..pending |-> Error]

LEMMA RestFails ==
  ASSUME NEW hrs \in Seq(HttpRequest), NEW rs \in Seq(HttpResponse), NEW pending \in Nat,
         AllFit(hrs, rs), Len(rs) + 1 <= Len(hrs), Len(rs) + pending = Len(hrs),
         EndsTask(hrs[Len(rs) + 1])
  PROVE  /\ AllFit(hrs, WithErrors(rs, pending))
         /\ WithErrors(rs, pending) \in Seq(HttpResponse)
         /\ Len(WithErrors(rs, pending)) = Len(hrs)
<1> DEFINE errors == [i \in 1..pending |-> Error]
           all == rs \o errors
<1>1. errors \in Seq(HttpResponse) /\ Len(errors) = pending
  BY ErrorIsResponse
<1>2. \A i \in 1..Len(errors) : errors[i] = Error
  BY <1>1
<1> HIDE DEF errors
<1>3. /\ all \in Seq(HttpResponse) /\ Len(all) = Len(rs) + Len(errors)
      /\ Len(rs) \in Nat /\ Len(errors) \in Nat
      /\ \A i \in 1..Len(all) : all[i] = IF i <= Len(rs) THEN rs[i] ELSE errors[i - Len(rs)]
  BY <1>1
<1> HIDE DEF all
<1>4. Len(all) = Len(hrs)
  BY <1>1, <1>3
<1>5. ASSUME NEW i \in 1..Len(all) PROVE Fit(hrs, i, all[i])
  <2>1. CASE i <= Len(rs)
    <3>1. i \in 1..Len(rs) /\ all[i] = rs[i]
      BY <2>1, <1>3
    <3> QED
      BY <3>1 DEF AllFit
  <2>2. CASE ~(i <= Len(rs))
    <3>1. i - Len(rs) \in 1..Len(errors) /\ Len(rs) + 1 \in 1..i
      BY <2>2, <1>3
    <3>2. all[i] = Error
      BY <3>1, <2>2, <1>2, <1>3
    <3>3. ~NothingPanics(hrs, i)
      BY <3>1 DEF NothingPanics
    <3> QED
      BY <3>2, <3>3 DEF Fit
  <2> QED
    BY <2>1, <2>2
<1>6. AllFit(hrs, all)
  <2>1. Len(all) <= Len(hrs)
    BY <1>3, <1>4
  <2> QED
    BY <2>1, <1>5 DEF AllFit
<1> QED
  BY <1>3, <1>4, <1>6 DEF all, errors, WithErrors

(* The next in the channel is the next that was asked. *)
LEMMA HeadOfRest ==
  ASSUME NEW hrs \in Seq(HttpRequest), NEW box \in Seq(HttpRequest), box # <<>>, IsTheRest(box, hrs)
  PROVE  LET t == Len(hrs) - Len(box)
         IN  /\ t \in Nat /\ t + 1 <= Len(hrs)
             /\ Head(box) = hrs[t + 1] /\ Head(box) \in HttpRequest
             /\ Tail(box) \in Seq(HttpRequest) /\ IsTheRest(Tail(box), hrs)
             /\ Len(hrs) - Len(Tail(box)) = t + 1
<1> DEFINE t == Len(hrs) - Len(box)
<1>1. /\ Len(box) \in Nat /\ Len(box) >= 1 /\ Len(hrs) \in Nat
      /\ Head(box) = box[1] /\ Tail(box) \in Seq(HttpRequest) /\ Len(Tail(box)) = Len(box) - 1
      /\ Head(box) \in HttpRequest
      /\ \A i \in 1..(Len(box) - 1) : Tail(box)[i] = box[i + 1]
  OBVIOUS
<1>2. Len(box) <= Len(hrs) /\ \A i \in 1..Len(box) : box[i] = hrs[t + i]
  BY DEF IsTheRest
<1>3. 1 \in 1..Len(box) /\ t \in Nat /\ t + 1 <= Len(hrs) /\ Len(hrs) - Len(Tail(box)) = t + 1
  BY <1>1, <1>2
<1>4. IsTheRest(Tail(box), hrs)
  <2>1. ASSUME NEW i \in 1..(Len(box) - 1) PROVE Tail(box)[i] = hrs[(t + 1) + i]
    <3>1. i + 1 \in 1..Len(box) /\ t + (i + 1) = (t + 1) + i
      BY <1>1, <1>3
    <3> QED
      BY <3>1, <1>1, <1>2
  <2>2. Len(Tail(box)) <= Len(hrs)
    BY <1>1, <1>2
  <2> HIDE DEF t
  <2> QED
    BY <2>1, <2>2, <1>1, <1>3 DEF IsTheRest
<1> QED
  BY <1>1, <1>2, <1>3, <1>4

(* Every step of the conversation keeps it in tune. *)
LEMMA CallInTune ==
  ASSUME NEW hrs \in Seq(HttpRequest), NEW rs \in Seq(HttpResponse), NEW box \in Seq(HttpRequest),
         NEW b, NEW cs, NEW n, Tune(hrs, rs, box, b, cs, n), b # Dropped, NEW hr \in HttpRequest
  PROVE  Tune(Append(hrs, hr), rs, Append(box, hr), b, cs, n)
<1> DEFINE more == Append(hrs, hr)
           new == Append(box, hr)
           t == Len(hrs) - Len(box)
<1>1. /\ Len(more) = Len(hrs) + 1 /\ Len(new) = Len(box) + 1 /\ more[Len(hrs) + 1] = hr
      /\ Len(hrs) \in Nat /\ Len(box) \in Nat /\ Len(rs) \in Nat
      /\ \A i \in 1..Len(new) : new[i] = IF i = Len(box) + 1 THEN hr ELSE box[i]
      /\ \A i \in 1..Len(hrs) : more[i] = hrs[i]
  OBVIOUS
<1>2. Len(box) <= Len(hrs) /\ \A i \in 1..Len(box) : box[i] = hrs[t + i]
  BY DEF Tune, IsTheRest
<1>3. t \in 0..Len(hrs) /\ Len(more) - Len(new) = t
  BY <1>1, <1>2
<1>4. IsTheRest(new, more)
  <2>1. ASSUME NEW i \in 1..Len(new) PROVE new[i] = more[t + i]
    <3>1. CASE i = Len(box) + 1
      <4>1. t + i = Len(hrs) + 1
        BY <3>1, <1>1, <1>2
      <4> QED
        BY <3>1, <4>1, <1>1
    <3>2. CASE i # Len(box) + 1
      <4>1. i \in 1..Len(box) /\ t + i \in 1..Len(hrs)
        BY <3>2, <1>1, <1>2
      <4> QED
        BY <3>2, <4>1, <1>1, <1>2
    <3> QED
      BY <3>1, <3>2
  <2>2. Len(new) <= Len(more)
    BY <1>1, <1>2
  <2> HIDE DEF new, more, t
  <2> QED
    BY <2>1, <2>2, <1>3 DEF IsTheRest
<1>5. Phase(hrs, t, Len(rs), b, cs, n)
  BY DEF Tune
<1>6. Phase(more, t, Len(rs), b, cs, n)
  <2> HIDE DEF t
  <2> QED
    BY <1>1, <1>3, <1>5, AskedMore
<1>7. AllFit(more, rs)
  <2>1. \A i \in 1..Len(rs) : i \in 1..Len(hrs) /\ Fit(hrs, i, rs[i])
    BY <1>1 DEF Tune, AllFit
  <2>2. \A i \in 1..Len(rs) : Fit(more, i, rs[i])
    BY <2>1, FitOfMore
  <2>3. Len(rs) <= Len(more)
    BY <1>1 DEF Tune, AllFit
  <2> HIDE DEF more
  <2> QED
    BY <2>2, <2>3 DEF AllFit
<1> HIDE DEF t, new, more
<1> QED
  BY <1>3, <1>4, <1>6, <1>7 DEF Tune, new, more

LEMMA CallAfterPanic ==
  ASSUME NEW hrs \in Seq(HttpRequest), NEW rs \in Seq(HttpResponse), NEW box \in Seq(HttpRequest),
         NEW cs, NEW n, Tune(hrs, rs, box, Dropped, cs, n), NEW hr \in HttpRequest
  PROVE  Tune(Append(hrs, hr), Append(rs, Error), box, Dropped, cs, n)
<1> DEFINE more == Append(hrs, hr)
           t == Len(hrs) - Len(box)
           k == Len(rs)
<1>1. /\ Len(more) = Len(hrs) + 1 /\ more \in Seq(HttpRequest) /\ Len(Append(rs, Error)) = k + 1
      /\ Len(hrs) \in Nat /\ Len(box) \in Nat /\ k \in Nat
  OBVIOUS
<1>2. Phase(hrs, t, k, Dropped, cs, n) /\ AllFit(hrs, rs)
  BY DEF Tune
<1>3. t = Len(hrs) /\ k = Len(hrs) /\ Gone(more, t + 1, k + 1, Dropped, cs, n)
  <2> HIDE DEF t, k
  <2> QED
    BY <1>2, AskedOfGone
<1>4. Len(box) = 0 /\ Len(more) - Len(box) = t + 1
  BY <1>1, <1>3
<1>5. AllFit(more, rs)
  <2>1. \A i \in 1..Len(rs) : i \in 1..Len(hrs) /\ Fit(hrs, i, rs[i])
    BY <1>1, <1>2, <1>3 DEF AllFit
  <2>2. \A i \in 1..Len(rs) : Fit(more, i, rs[i])
    BY <2>1, FitOfMore
  <2>3. Len(rs) <= Len(more)
    BY <1>1, <1>3
  <2> HIDE DEF more
  <2> QED
    BY <2>2, <2>3 DEF AllFit
<1>6. Fit(more, k + 1, Error)
  <2> HIDE DEF more, t, k
  <2> QED
    BY <1>3 DEF Fit, Gone
<1>7. k + 1 <= Len(more)
  BY <1>1, <1>3
<1> HIDE DEF more
<1>8. AllFit(more, Append(rs, Error))
  BY <1>1, <1>5, <1>6, <1>7, ErrorIsResponse, OneMoreFits
<1>9. IsTheRest(box, more)
  BY <1>1, <1>4 DEF IsTheRest
<1> HIDE DEF t, k
<1> QED
  BY <1>1, <1>3, <1>4, <1>8, <1>9 DEF Tune, Phase, more

(* What the steps start from that take a request. *)
LEMMA TakesNext ==
  ASSUME NEW hrs \in Seq(HttpRequest), NEW rs \in Seq(HttpResponse), NEW box \in Seq(HttpRequest),
         NEW cs, NEW n \in Nat, Tune(hrs, rs, box, Empty, cs, n), Len(cs) = n, box # <<>>
  PROVE  LET k == Len(rs)
         IN  /\ AtRest(hrs, k, k, Empty, cs, n) /\ AllFit(hrs, rs)
             /\ k \in Nat /\ k + 1 <= Len(hrs) /\ Len(rs) + Len(box) = Len(hrs)
             /\ Head(box) = hrs[k + 1] /\ Head(box) \in HttpRequest
             /\ Tail(box) \in Seq(HttpRequest) /\ IsTheRest(Tail(box), hrs)
             /\ Len(hrs) - Len(Tail(box)) = k + 1
<1> DEFINE k == Len(rs)
           t == Len(hrs) - Len(box)
<1>1. Phase(hrs, t, k, Empty, cs, n) /\ AllFit(hrs, rs) /\ IsTheRest(box, hrs)
  BY DEF Tune
<1>2. /\ t \in Nat /\ t + 1 <= Len(hrs)
      /\ Head(box) = hrs[t + 1] /\ Head(box) \in HttpRequest
      /\ Tail(box) \in Seq(HttpRequest) /\ IsTheRest(Tail(box), hrs)
      /\ Len(hrs) - Len(Tail(box)) = t + 1
  BY <1>1, HeadOfRest
<1>3. AtRest(hrs, t, k, Empty, cs, n)
  <2>1. n # n + 1
    OBVIOUS
  <2> HIDE DEF t, k
  <2> QED
    BY <2>1, <1>1, BufferAssumption DEF Phase, Working, InBody, Gone
<1>4. t = k
  BY <1>3 DEF AtRest
<1>5. Len(rs) + Len(box) = Len(hrs)
  <2>1. Len(rs) \in Nat /\ Len(box) \in Nat /\ Len(hrs) \in Nat
    OBVIOUS
  <2> QED
    BY <2>1, <1>4
<1> HIDE DEF t
<1> QED
  BY <1>1, <1>2, <1>3, <1>4, <1>5

LEMMA WholeInTune ==
  ASSUME NEW hrs \in Seq(HttpRequest), NEW rs \in Seq(HttpResponse), NEW box \in Seq(HttpRequest),
         NEW cs, NEW n \in Nat, Tune(hrs, rs, box, Empty, cs, n), Len(cs) = n, box # <<>>,
         ~EndsTask(Head(box))
  PROVE  LET m == Meaning(Head(box))
         IN  IF IsRequest(m) THEN Tune(hrs, rs, Tail(box), Empty, Append(cs, m), n)
             ELSE Tune(hrs, Append(rs, m), Tail(box), Empty, cs, n)
<1> DEFINE m == Meaning(Head(box))
           k == Len(rs)
<1>1. /\ AtRest(hrs, k, k, Empty, cs, n) /\ AllFit(hrs, rs)
      /\ k \in Nat /\ k + 1 <= Len(hrs)
      /\ Head(box) = hrs[k + 1] /\ Head(box) \in HttpRequest
      /\ Tail(box) \in Seq(HttpRequest) /\ IsTheRest(Tail(box), hrs)
      /\ Len(hrs) - Len(Tail(box)) = k + 1
  BY TakesNext
<1>2. IF IsRequest(m) THEN Phase(hrs, k + 1, k, Empty, Append(cs, m), n)
      ELSE Phase(hrs, k + 1, k + 1, Empty, cs, n)
  <2> HIDE DEF k
  <2> QED
    BY <1>1, TakenWhole
<1>3. CASE IsRequest(m)
  <2> HIDE DEF m
  <2> QED
    BY <1>1, <1>2, <1>3 DEF Tune, m
<1>4. CASE ~IsRequest(m)
  <2>1. NothingPanics(hrs, k + 1)
    <3> HIDE DEF k
    <3> QED
      BY <1>1, NextMeant DEF AtRest
  <2>2. m \in {NotFound, Error} /\ m = Meaning(hrs[k + 1])
    BY <1>1, <1>4 DEF IsRequest
  <2>3. Fit(hrs, k + 1, m)
    <3> HIDE DEF k
    <3> QED
      BY <2>1, <2>2, <1>4 DEF Fit, Fits
  <2>4. m \in HttpResponse
    BY <2>2, ErrorIsResponse
  <2> HIDE DEF m
  <2>5. AllFit(hrs, Append(rs, m)) /\ Len(Append(rs, m)) = k + 1
    BY <2>3, <2>4, <1>1, OneMoreFits
  <2> QED
    BY <2>5, <1>1, <1>2, <1>4 DEF Tune, m
<1> QED
  BY <1>3, <1>4

LEMMA BeginInTune ==
  ASSUME NEW hrs \in Seq(HttpRequest), NEW rs \in Seq(HttpResponse), NEW box \in Seq(HttpRequest),
         NEW cs, NEW n \in Nat, Tune(hrs, rs, box, Empty, cs, n), Len(cs) = n, box # <<>>,
         NeedsPoint(Head(box)), ~KnnQueryPanics(Head(box))
  PROVE  Tune(hrs, rs, Tail(box), Switched(Head(box)), cs, n)
<1> DEFINE k == Len(rs)
           hr == Head(box)
<1>1. /\ AtRest(hrs, k, k, Empty, cs, n) /\ AllFit(hrs, rs)
      /\ k \in Nat /\ k + 1 <= Len(hrs)
      /\ hr = hrs[k + 1]
      /\ IsTheRest(Tail(box), hrs) /\ Len(hrs) - Len(Tail(box)) = k + 1
  BY TakesNext
<1> HIDE DEF k, hr
<1>2. Phase(hrs, k + 1, k, Switched(hr), cs, n)
  BY <1>1, BodyBegins DEF hr
<1> QED
  BY <1>1, <1>2 DEF Tune, hr, k

LEMMA PanicInTune ==
  ASSUME NEW hrs \in Seq(HttpRequest), NEW rs \in Seq(HttpResponse), NEW box \in Seq(HttpRequest),
         NEW cs, NEW n \in Nat, Tune(hrs, rs, box, Empty, cs, n), Len(cs) = n, box # <<>>,
         KnnQueryPanics(Head(box))
  PROVE  /\ Tune(hrs, WithErrors(rs, Len(box)), <<>>, Dropped, cs, n)
         /\ WithErrors(rs, Len(box)) \in Seq(HttpResponse)
<1> DEFINE k == Len(rs)
           all == WithErrors(rs, Len(box))
<1>1. /\ AtRest(hrs, k, k, Empty, cs, n) /\ AllFit(hrs, rs)
      /\ k \in Nat /\ k + 1 <= Len(hrs) /\ Len(rs) + Len(box) = Len(hrs)
      /\ Head(box) = hrs[k + 1]
  BY TakesNext
<1>2. AllFit(hrs, all) /\ all \in Seq(HttpResponse) /\ Len(all) = Len(hrs)
  <2>1. Len(box) \in Nat /\ EndsTask(hrs[k + 1])
    BY <1>1 DEF EndsTask
  <2> QED
    BY <2>1, <1>1, RestFails
<1>3. Phase(hrs, Len(hrs), Len(hrs), Dropped, cs, n)
  <2> HIDE DEF k
  <2> QED
    BY <1>1, TakenPanics DEF EndsTask
<1>4. IsTheRest(<<>>, hrs) /\ Len(hrs) - Len(<<>>) = Len(hrs)
  BY DEF IsTheRest
<1> HIDE DEF all
<1> QED
  BY <1>2, <1>3, <1>4 DEF Tune, all

LEMMA PanicInBodyInTune ==
  ASSUME NEW hrs \in Seq(HttpRequest), NEW rs \in Seq(HttpResponse), NEW box \in Seq(HttpRequest),
         NEW cs, NEW n \in Nat, NEW b, Tune(hrs, rs, box, b, cs, n), b # Empty, b # Dropped,
         ParsePanics(b.request)
  PROVE  /\ Tune(hrs, WithErrors(rs, Len(box) + 1), <<>>, Dropped, cs, n)
         /\ WithErrors(rs, Len(box) + 1) \in Seq(HttpResponse)
<1> DEFINE t == Len(hrs) - Len(box)
           k == Len(rs)
           all == WithErrors(rs, Len(box) + 1)
<1>1. Phase(hrs, t, k, b, cs, n) /\ AllFit(hrs, rs) /\ IsTheRest(box, hrs)
  BY DEF Tune
<1>2. /\ k \in Nat /\ t \in 0..Len(hrs) /\ Len(hrs) \in Nat /\ Len(box) \in Nat
      /\ Len(box) + 1 \in Nat /\ (t = k + 1 => k + (Len(box) + 1) = Len(hrs))
  <2>1. Len(box) \in Nat /\ Len(hrs) \in Nat /\ Len(box) <= Len(hrs) /\ Len(rs) \in Nat
    BY <1>1 DEF IsTheRest
  <2> QED
    BY <2>1
<1> HIDE DEF t, k
<1>3. InBody(hrs, t, k, b, cs, n)
  BY <1>1 DEF Phase, AtRest, Working, Gone
<1>4. /\ Phase(hrs, Len(hrs), Len(hrs), Dropped, cs, n)
      /\ EndsTask(hrs[k + 1]) /\ t = k + 1 /\ k + 1 <= Len(hrs)
  BY <1>2, <1>3, BodyPanics
<1>5. AllFit(hrs, all) /\ all \in Seq(HttpResponse) /\ Len(all) = Len(hrs)
  BY <1>1, <1>2, <1>4, RestFails DEF k
<1>6. IsTheRest(<<>>, hrs) /\ Len(hrs) - Len(<<>>) = Len(hrs)
  BY DEF IsTheRest
<1> HIDE DEF all
<1> QED
  BY <1>4, <1>5, <1>6 DEF Tune, all

LEMMA PollInTune ==
  ASSUME NEW hrs \in Seq(HttpRequest), NEW rs \in Seq(HttpResponse), NEW box \in Seq(HttpRequest),
         NEW cs, NEW n \in Nat, NEW b, Tune(hrs, rs, box, b, cs, n), b # Empty, b # Dropped,
         Len(b.left) > 1 \/ ~ParsePanics(b.request)
  PROVE  LET body == IF b.left = <<>> THEN b.body ELSE b.body \o Head(b.left)
             p == IF b.request.body.fails THEN None ELSE Parse(body, b.request)
         IN  IF Len(b.left) > 1
             THEN Tune(hrs, rs, box, [b EXCEPT !.body = body, !.left = Tail(b.left)], cs, n)
             ELSE IF p = None THEN Tune(hrs, Append(rs, Error), box, Empty, cs, n)
             ELSE Tune(hrs, rs, box, Empty, Append(cs, RequestOf(b.request, p)), n)
<1> DEFINE t == Len(hrs) - Len(box)
           k == Len(rs)
           body == IF b.left = <<>> THEN b.body ELSE b.body \o Head(b.left)
           p == IF b.request.body.fails THEN None ELSE Parse(body, b.request)
<1>1. Phase(hrs, t, k, b, cs, n) /\ AllFit(hrs, rs) /\ IsTheRest(box, hrs)
  BY DEF Tune
<1>2. /\ k \in Nat /\ t \in 0..Len(hrs) /\ Len(Append(rs, Error)) = k + 1
      /\ Len(hrs) \in Nat
  <2>1. Len(box) \in Nat /\ Len(hrs) \in Nat /\ Len(box) <= Len(hrs) /\ Len(rs) \in Nat
    BY <1>1 DEF IsTheRest
  <2> QED
    BY <2>1
<1> HIDE DEF t, k
<1>3. InBody(hrs, t, k, b, cs, n)
  BY <1>1 DEF Phase, AtRest, Working, Gone
<1>4. CASE Len(b.left) > 1
  <2>1. b.left # <<>>
    <3>1. Len(<<>>) = 0
      OBVIOUS
    <3>2. ASSUME b.left = <<>> PROVE FALSE
      BY <3>1, <3>2, <1>4
    <3> QED
      BY <3>2
  <2>2. InBody(hrs, t, k, [b EXCEPT !.body = body, !.left = Tail(b.left)], cs, n)
    BY <2>1, <1>3, <1>4, BodyGoesOn
  <2> HIDE DEF body
  <2>3. Phase(hrs, t, k, [b EXCEPT !.body = body, !.left = Tail(b.left)], cs, n)
    BY <2>2 DEF Phase
  <2>4. Tune(hrs, rs, box, [b EXCEPT !.body = body, !.left = Tail(b.left)], cs, n)
    BY <2>3, <1>1 DEF Tune, t, k
  <2> QED
    BY <2>4, <1>4 DEF body
<1>5. CASE ~(Len(b.left) > 1)
  <2>1. IF p = None THEN Meaning(b.request) = Error /\ Phase(hrs, t, k + 1, Empty, cs, n)
        ELSE Phase(hrs, t, k, Empty, Append(cs, RequestOf(b.request, p)), n)
    BY <1>2, <1>3, <1>5, BodyEnds
  <2>2. IF p = None THEN Tune(hrs, Append(rs, Error), box, Empty, cs, n)
        ELSE Tune(hrs, rs, box, Empty, Append(cs, RequestOf(b.request, p)), n)
    <3> HIDE DEF p
    <3>1. CASE p = None
      <4>1. t = k + 1 /\ NothingPanics(hrs, t) /\ b.request = hrs[t]
        BY <1>2, <1>3, <1>5, BodyReadable DEF InBody
      <4>2. Meaning(hrs[k + 1]) = Error
        BY <2>1, <3>1, <4>1
      <4>3. Fit(hrs, k + 1, Error)
        BY <4>1, <4>2 DEF Fit, Fits, IsRequest
      <4>4. k + 1 <= Len(hrs)
        BY <1>2, <4>1
      <4>5. AllFit(hrs, Append(rs, Error))
        BY <4>3, <4>4, <1>1, ErrorIsResponse, OneMoreFits DEF k
      <4> QED
        BY <2>1, <3>1, <4>5, <1>1, <1>2 DEF Tune, t
    <3>2. CASE p # None
      BY <2>1, <3>2, <1>1 DEF Tune, t, k
    <3> QED
      BY <3>1, <3>2
  <2> QED
    BY <2>2, <1>5
<1> QED
  BY <1>4, <1>5

LEMMA SuitingFits ==
  ASSUME NEW m, IsRequest(m), NEW r, Suits(m, r)
  PROVE  Fits(m, IntoHttp(r))
<1>1. CASE m.kind = "query" /\ r = QueryAnswer(m)
  BY <1>1 DEF Fits
<1>2. CASE m.kind # "query" /\ r = Error /\ (dead # {} \/ ("path" \in DOMAIN m /\ m.path = NoPath))
  BY <1>2 DEF Fits, IntoHttp
<1>3. CASE m.kind # "query" /\ r \notin {Error, NotFound} /\ r.type \in AnswerTypes(m)
  <2>1. IntoHttp(r) = [status |-> 200, answer |-> r]
    BY <1>3 DEF IntoHttp
  <2>2. "status" \in DOMAIN IntoHttp(r) /\ IntoHttp(r).answer = r
    BY <2>1
  <2> QED
    BY <2>2, <1>3 DEF Fits, AnswerTypes
<1> QED
  BY <1>1, <1>2, <1>3 DEF Suits

LEMMA RespondInTune ==
  ASSUME NEW hrs \in Seq(HttpRequest), NEW rs \in Seq(HttpResponse), NEW box \in Seq(HttpRequest),
         NEW b, NEW cs, NEW n \in Nat, Tune(hrs, rs, box, b, cs, n), Len(cs) # n,
         NEW r \in Response, Suits(cs[n + 1], r)
  PROVE  Tune(hrs, Append(rs, IntoHttp(r)), box, b, cs, n + 1) /\ IntoHttp(r) \in HttpResponse
<1> DEFINE t == Len(hrs) - Len(box)
           k == Len(rs)
<1>1. Phase(hrs, t, k, b, cs, n) /\ AllFit(hrs, rs) /\ IsTheRest(box, hrs)
  BY DEF Tune
<1>2. /\ k \in Nat /\ t \in 0..Len(hrs) /\ Len(hrs) \in Nat
  <2>1. Len(box) \in Nat /\ Len(hrs) \in Nat /\ Len(box) <= Len(hrs) /\ Len(rs) \in Nat
    BY <1>1 DEF IsTheRest
  <2> QED
    BY <2>1
<1>3. IntoHttp(r) \in HttpResponse
  BY DEF IntoHttp, HttpResponse
<1>4. Len(Append(rs, IntoHttp(r))) = k + 1
  OBVIOUS
<1> HIDE DEF t, k
<1>5. Working(hrs, t, k, b, cs, n)
  BY <1>1 DEF Phase, AtRest, InBody, Gone
<1>6. /\ b = Empty /\ t = k + 1 /\ NothingPanics(hrs, t) /\ IsRequest(Meaning(hrs[t]))
  BY <1>5 DEF Working
<1>7. cs[n + 1] = Meaning(hrs[t]) /\ Phase(hrs, t, k + 1, Empty, cs, n + 1)
  BY <1>2, <1>5, <1>6, WorkIsMeant
<1>8. Fit(hrs, k + 1, IntoHttp(r))
  BY <1>6, <1>7, SuitingFits DEF Fit
<1>9. k + 1 <= Len(hrs)
  BY <1>2, <1>6
<1>10. AllFit(hrs, Append(rs, IntoHttp(r)))
  BY <1>1, <1>3, <1>8, <1>9, OneMoreFits DEF k
<1> QED
  BY <1>1, <1>3, <1>4, <1>6, <1>7, <1>10 DEF Tune, t

-----------------------------------------------------------------------------
(* Every conversation is in tune, whatever step is taken.                  *)

HttpTyped ==
  /\ asked \in [Connection -> Seq(HttpRequest)] /\ inbox \in [Connection -> Seq(HttpRequest)]
  /\ responses \in [Connection -> Seq(HttpResponse)]

InTune(c) == Tune(asked[c], responses[c], inbox[c], buffer[c], calls[c], Len(answers[c]))

CInv == HIInv /\ HttpTyped /\ RepliesSuit /\ \A c \in HttpConnection : InTune(c)

Unmoved(d) ==
  /\ asked'[d] = asked[d] /\ responses'[d] = responses[d] /\ inbox'[d] = inbox[d]
  /\ buffer'[d] = buffer[d] /\ calls'[d] = calls[d] /\ answers'[d] = answers[d]

LEMMA TuneStays ==
  ASSUME NEW hrs, NEW rs, NEW box, NEW b, NEW cs, NEW n, Tune(hrs, rs, box, b, cs, n), dead \subseteq dead'
  PROVE  Tune(hrs, rs, box, b, cs, n)'
<1>1. ASSUME NEW m, NEW r, Fits(m, r) PROVE Fits(m, r)'
  BY <1>1 DEF Fits
<1>2. ASSUME NEW i \in 1..Len(rs), Fit(hrs, i, rs[i]) PROVE Fit(hrs, i, rs[i])'
  BY <1>1, <1>2 DEF Fit
<1> QED
  BY <1>2 DEF Tune, AllFit

LEMMA UnmovedInTune ==
  ASSUME NEW d, InTune(d), Unmoved(d), dead \subseteq dead'
  PROVE  InTune(d)'
<1>1. /\ asked'[d] = asked[d] /\ responses'[d] = responses[d] /\ inbox'[d] = inbox[d]
      /\ buffer'[d] = buffer[d] /\ calls'[d] = calls[d] /\ Len(answers'[d]) = Len(answers[d])
  BY DEF Unmoved
<1>2. PICK hrs, rs, box, b, cs, n :
        /\ hrs = asked[d] /\ rs = responses[d] /\ box = inbox[d] /\ b = buffer[d]
        /\ cs = calls[d] /\ n = Len(answers[d])
  OBVIOUS
<1>3. Tune(hrs, rs, box, b, cs, n)'
  BY <1>2, TuneStays DEF InTune
<1> QED
  BY <1>1, <1>2, <1>3 DEF InTune

(* What is known of a connection when it takes a step. *)
LEMMA Connected ==
  ASSUME CInv, NEW c \in HttpConnection
  PROVE  /\ c \in Connection /\ IInv /\ InTune(c)
         /\ asked[c] \in Seq(HttpRequest) /\ inbox[c] \in Seq(HttpRequest)
         /\ responses[c] \in Seq(HttpResponse)
         /\ calls[c] \in Seq(Request) /\ Len(answers[c]) \in Nat
         /\ answers[c] \in Seq(Response)
BY HttpAssumption, Lengths DEF CInv, HIInv, HttpTyped

LEMMA IsFreeAtRest ==
  ASSUME CInv, NEW c \in HttpConnection, IsFree(c)
  PROVE  buffer[c] = Empty /\ Len(calls[c]) = Len(answers[c])
<1>1. c \in Connection /\ IInv /\ Len(answers[c]) \in Nat
  BY Connected
<1>2. Len(calls[c]) = Len(answers[c]) + Len(requests[c]) /\ Len(requests[c]) = 0
  BY <1>1 DEF IInv, InOrder, Idle, IsFree
<1> QED
  BY <1>1, <1>2 DEF IsFree

(* A step of one connection, and of no other. *)
StepOf(c) ==
  /\ dead' = dead /\ HttpTyped' /\ InTune(c)'
  /\ \A d \in HttpConnection \ {c} : Unmoved(d)

(* The values a connection has next, when they are in tune. *)
LEMMA NextInTune ==
  ASSUME dead' = dead, NEW c, NEW hrs, NEW rs, NEW box, NEW b, NEW cs, NEW n,
         Tune(hrs, rs, box, b, cs, n),
         asked'[c] = hrs, responses'[c] = rs, inbox'[c] = box, buffer'[c] = b,
         calls'[c] = cs, Len(answers'[c]) = n
  PROVE  InTune(c)'
<1>1. Tune(hrs, rs, box, b, cs, n)'
  BY TuneStays
<1> QED
  BY <1>1 DEF InTune

(* The functions of the state, with a new value for one connection. *)
LEMMA OneConnection ==
  ASSUME NEW S, NEW f, DOMAIN f = Connection,
         NEW c \in Connection, NEW x, NEW g, g = [f EXCEPT ![c] = x]
  PROVE  /\ g[c] = x /\ \A d \in HttpConnection \ {c} : g[d] = f[d]
         /\ f \in [Connection -> S] /\ x \in S => g \in [Connection -> S]
<1>1. \A d \in HttpConnection : d \in Connection
  BY HttpAssumption
<1> QED
  BY <1>1

LEMMA HttpCallStep ==
  ASSUME CInv, NEW c \in HttpConnection, NEW hr \in HttpRequest, HttpCall(c, hr)
  PROVE  StepOf(c)
<1>1. /\ asked' = [asked EXCEPT ![c] = Append(asked[c], hr)]
      /\ calls' = calls /\ answers' = answers /\ dead' = dead /\ buffer' = buffer
  BY DEF HttpCall, vars, clientVars, workerVars
<1>2. HttpTyped /\ c \in Connection /\ Append(asked[c], hr) \in Seq(HttpRequest)
  BY Connected DEF CInv
<1>3. /\ asked'[c] = Append(asked[c], hr) /\ asked' \in [Connection -> Seq(HttpRequest)]
      /\ \A d \in HttpConnection \ {c} : asked'[d] = asked[d]
  BY <1>1, <1>2, OneConnection DEF HttpTyped
<1>4. CASE buffer[c] = Dropped
  <2>1. responses' = [responses EXCEPT ![c] = Append(responses[c], Error)] /\ inbox' = inbox
    BY <1>4 DEF HttpCall
  <2>2. Append(responses[c], Error) \in Seq(HttpResponse)
    BY Connected, ErrorIsResponse
  <2>3. /\ responses'[c] = Append(responses[c], Error) /\ responses' \in [Connection -> Seq(HttpResponse)]
        /\ \A d \in HttpConnection \ {c} : responses'[d] = responses[d]
    BY <2>1, <2>2, <1>2, OneConnection DEF HttpTyped
  <2>4. Tune(Append(asked[c], hr), Append(responses[c], Error), inbox[c], Dropped, calls[c], Len(answers[c]))
    BY <1>4, Connected, CallAfterPanic DEF InTune
  <2>5. InTune(c)'
    BY <2>1, <2>3, <2>4, <1>1, <1>3, <1>4, NextInTune
  <2> QED
    BY <2>1, <2>3, <2>5, <1>1, <1>2, <1>3 DEF StepOf, HttpTyped, Unmoved
<1>5. CASE buffer[c] # Dropped
  <2>1. inbox' = [inbox EXCEPT ![c] = Append(inbox[c], hr)] /\ responses' = responses
    BY <1>5 DEF HttpCall
  <2>2. Append(inbox[c], hr) \in Seq(HttpRequest)
    BY Connected
  <2>3. /\ inbox'[c] = Append(inbox[c], hr) /\ inbox' \in [Connection -> Seq(HttpRequest)]
        /\ \A d \in HttpConnection \ {c} : inbox'[d] = inbox[d]
    BY <2>1, <2>2, <1>2, OneConnection DEF HttpTyped
  <2>4. Tune(Append(asked[c], hr), responses[c], Append(inbox[c], hr), buffer[c], calls[c], Len(answers[c]))
    BY <1>5, Connected, CallInTune DEF InTune
  <2>5. InTune(c)'
    BY <2>1, <2>3, <2>4, <1>1, <1>3, NextInTune
  <2> QED
    BY <2>1, <2>3, <2>5, <1>1, <1>2, <1>3 DEF StepOf, HttpTyped, Unmoved
<1> QED
  BY <1>4, <1>5

LEMMA CalledOnce ==
  ASSUME CInv, NEW c \in HttpConnection, NEW r, Call(c, r)
  PROVE  /\ calls'[c] = Append(calls[c], r) /\ answers' = answers /\ dead' = dead
         /\ \A d \in HttpConnection \ {c} : calls'[d] = calls[d]
<1>1. c \in Connection /\ DOMAIN calls = Connection
  BY Connected DEF IInv, StateTyped
<1>2. calls' = [calls EXCEPT ![c] = Append(calls[c], r)] /\ answers' = answers /\ dead' = dead
  BY DEF Call, workerVars
<1> QED
  BY <1>1, <1>2, OneConnection

(* What the steps have in common that take a request from the channel. *)
LEMMA ReadsNext ==
  ASSUME CInv, NEW c \in HttpConnection, NEW hr, Reads(c, hr)
  PROVE  /\ Tune(asked[c], responses[c], inbox[c], Empty, calls[c], Len(answers[c]))
         /\ Len(calls[c]) = Len(answers[c]) /\ inbox[c] # <<>> /\ hr = Head(inbox[c])
         /\ buffer[c] = Empty /\ asked' = asked
         /\ inbox'[c] = Tail(inbox[c]) /\ inbox' \in [Connection -> Seq(HttpRequest)]
         /\ \A d \in HttpConnection \ {c} : inbox'[d] = inbox[d]
<1>1. /\ IsFree(c) /\ inbox[c] # <<>> /\ hr = Head(inbox[c]) /\ asked' = asked
      /\ inbox' = [inbox EXCEPT ![c] = Tail(inbox[c])]
  BY DEF Reads
<1>2. buffer[c] = Empty /\ Len(calls[c]) = Len(answers[c])
  BY <1>1, IsFreeAtRest
<1>3. c \in Connection /\ Tail(inbox[c]) \in Seq(HttpRequest) /\ DOMAIN inbox = Connection
      /\ inbox \in [Connection -> Seq(HttpRequest)]
  <2>1. \A box \in Seq(HttpRequest) : box # <<>> => Tail(box) \in Seq(HttpRequest)
    OBVIOUS
  <2> QED
    BY <2>1, <1>1, Connected DEF CInv, HttpTyped
<1>4. /\ inbox'[c] = Tail(inbox[c]) /\ inbox' \in [Connection -> Seq(HttpRequest)]
      /\ \A d \in HttpConnection \ {c} : inbox'[d] = inbox[d]
  BY <1>1, <1>3, OneConnection
<1> QED
  BY <1>1, <1>2, <1>4, Connected DEF InTune

LEMMA ReadWithoutBodyStep ==
  ASSUME CInv, NEW c \in HttpConnection, ReadWithoutBody(c)
  PROVE  StepOf(c)
<1>1. PICK hr \in HttpRequest : /\ Reads(c, hr) /\ ~NeedsPoint(hr) /\ ~IsMalformed(hr)
                                /\ Call(c, RequestOf(hr, NoPath))
                                /\ responses' = responses /\ buffer' = buffer
  BY DEF ReadWithoutBody
<1>2. ~EndsTask(hr) /\ Meaning(hr) = RequestOf(hr, NoPath) /\ IsRequest(Meaning(hr))
  BY <1>1, MeaningCases, RequestsMeant DEF EndsTask, KnnQueryPanics, ParsePanics, NeedsPoint
<1>3. /\ Tune(asked[c], responses[c], inbox[c], Empty, calls[c], Len(answers[c]))
      /\ Len(calls[c]) = Len(answers[c]) /\ inbox[c] # <<>> /\ hr = Head(inbox[c])
      /\ buffer[c] = Empty /\ asked' = asked
      /\ inbox'[c] = Tail(inbox[c]) /\ inbox' \in [Connection -> Seq(HttpRequest)]
      /\ \A d \in HttpConnection \ {c} : inbox'[d] = inbox[d]
  BY <1>1, ReadsNext
<1>4. Tune(asked[c], responses[c], Tail(inbox[c]), Empty, Append(calls[c], Meaning(hr)), Len(answers[c]))
  BY <1>2, <1>3, Connected, WholeInTune
<1>5. /\ calls'[c] = Append(calls[c], Meaning(hr)) /\ answers' = answers /\ dead' = dead
      /\ \A d \in HttpConnection \ {c} : calls'[d] = calls[d]
  BY <1>1, <1>2, CalledOnce
<1>6. InTune(c)'
  BY <1>1, <1>3, <1>4, <1>5, NextInTune
<1> QED
  BY <1>1, <1>3, <1>5, <1>6 DEF StepOf, HttpTyped, Unmoved, CInv

LEMMA RejectQueryStep ==
  ASSUME CInv, NEW c \in HttpConnection, RejectQuery(c)
  PROVE  StepOf(c)
<1>1. PICK hr \in HttpRequest :
         /\ Reads(c, hr) /\ IsMalformed(hr)
         /\ responses' = [responses EXCEPT ![c] = Append(responses[c], NotFound)]
         /\ buffer' = buffer /\ calls' = calls /\ answers' = answers /\ dead' = dead
  BY DEF RejectQuery, vars, clientVars, workerVars
<1>2. ~EndsTask(hr) /\ Meaning(hr) = NotFound /\ ~IsRequest(Meaning(hr))
  BY <1>1, MeaningCases DEF EndsTask, KnnQueryPanics, ParsePanics, NeedsPoint, IsMalformed, IsRequest
<1>3. /\ Tune(asked[c], responses[c], inbox[c], Empty, calls[c], Len(answers[c]))
      /\ Len(calls[c]) = Len(answers[c]) /\ inbox[c] # <<>> /\ hr = Head(inbox[c])
      /\ buffer[c] = Empty /\ asked' = asked
      /\ inbox'[c] = Tail(inbox[c]) /\ inbox' \in [Connection -> Seq(HttpRequest)]
      /\ \A d \in HttpConnection \ {c} : inbox'[d] = inbox[d]
  BY <1>1, ReadsNext
<1>4. Tune(asked[c], Append(responses[c], NotFound), Tail(inbox[c]), Empty, calls[c], Len(answers[c]))
  BY <1>2, <1>3, Connected, WholeInTune
<1>5. Append(responses[c], NotFound) \in Seq(HttpResponse) /\ c \in Connection
      /\ responses \in [Connection -> Seq(HttpResponse)] /\ DOMAIN responses = Connection
  BY Connected, ErrorIsResponse DEF CInv, HttpTyped
<1>6. /\ responses'[c] = Append(responses[c], NotFound) /\ responses' \in [Connection -> Seq(HttpResponse)]
      /\ \A d \in HttpConnection \ {c} : responses'[d] = responses[d]
  BY <1>1, <1>5, OneConnection
<1>7. InTune(c)'
  BY <1>1, <1>3, <1>4, <1>6, NextInTune
<1> QED
  BY <1>1, <1>3, <1>6, <1>7 DEF StepOf, HttpTyped, Unmoved, CInv

LEMMA BeginBodyStep ==
  ASSUME CInv, NEW c \in HttpConnection, BeginBody(c)
  PROVE  StepOf(c)
<1>1. PICK hr \in HttpRequest :
         /\ Reads(c, hr) /\ NeedsPoint(hr) /\ ~KnnQueryPanics(hr)
         /\ buffer' = [buffer EXCEPT ![c] = Switched(hr)]
         /\ responses' = responses /\ calls' = calls /\ answers' = answers /\ dead' = dead
  BY DEF BeginBody, vars, clientVars, workerVars
<1>2. /\ Tune(asked[c], responses[c], inbox[c], Empty, calls[c], Len(answers[c]))
      /\ Len(calls[c]) = Len(answers[c]) /\ inbox[c] # <<>> /\ hr = Head(inbox[c])
      /\ buffer[c] = Empty /\ asked' = asked
      /\ inbox'[c] = Tail(inbox[c]) /\ inbox' \in [Connection -> Seq(HttpRequest)]
      /\ \A d \in HttpConnection \ {c} : inbox'[d] = inbox[d]
  BY <1>1, ReadsNext
<1>3. Tune(asked[c], responses[c], Tail(inbox[c]), Switched(hr), calls[c], Len(answers[c]))
  BY <1>1, <1>2, Connected, BeginInTune
<1>4. c \in Connection /\ DOMAIN buffer = Connection
  BY Connected DEF CInv, HIInv, BufferTyped
<1>5. buffer'[c] = Switched(hr) /\ \A d \in HttpConnection \ {c} : buffer'[d] = buffer[d]
  BY <1>1, <1>4, OneConnection
<1>6. InTune(c)'
  BY <1>1, <1>2, <1>3, <1>5, NextInTune
<1> QED
  BY <1>1, <1>2, <1>5, <1>6 DEF StepOf, HttpTyped, Unmoved, CInv

(* A task that panics has answered all it was asked. *)
LEMMA EndsInTune ==
  ASSUME CInv, NEW c \in HttpConnection, NEW pending, EndsByPanic(c, pending),
         Tune(asked[c], WithErrors(responses[c], pending), <<>>, Dropped, calls[c], Len(answers[c])),
         WithErrors(responses[c], pending) \in Seq(HttpResponse)
  PROVE  StepOf(c)
<1>1. /\ buffer' = [buffer EXCEPT ![c] = Dropped]
      /\ responses' = [responses EXCEPT ![c] = WithErrors(responses[c], pending)]
      /\ inbox' = [inbox EXCEPT ![c] = <<>>]
      /\ asked' = asked /\ calls' = calls /\ answers' = answers /\ dead' = dead
  BY DEF EndsByPanic, clientVars, workerVars, WithErrors
<1>2. /\ c \in Connection /\ DOMAIN buffer = Connection
      /\ asked \in [Connection -> Seq(HttpRequest)] /\ DOMAIN asked = Connection
      /\ inbox \in [Connection -> Seq(HttpRequest)] /\ DOMAIN inbox = Connection
      /\ responses \in [Connection -> Seq(HttpResponse)] /\ DOMAIN responses = Connection
      /\ <<>> \in Seq(HttpRequest)
  BY Connected DEF CInv, HIInv, BufferTyped, HttpTyped
<1>3. buffer'[c] = Dropped /\ \A d \in HttpConnection \ {c} : buffer'[d] = buffer[d]
  BY <1>1, <1>2, OneConnection
<1>4. /\ inbox'[c] = <<>> /\ inbox' \in [Connection -> Seq(HttpRequest)]
      /\ \A d \in HttpConnection \ {c} : inbox'[d] = inbox[d]
  BY <1>1, <1>2, OneConnection
<1>5. /\ responses'[c] = WithErrors(responses[c], pending)
      /\ responses' \in [Connection -> Seq(HttpResponse)]
      /\ \A d \in HttpConnection \ {c} : responses'[d] = responses[d]
  BY <1>1, <1>2, OneConnection
<1>6. InTune(c)'
  BY <1>1, <1>3, <1>4, <1>5, NextInTune
<1> QED
  BY <1>1, <1>2, <1>3, <1>4, <1>5, <1>6 DEF StepOf, HttpTyped, Unmoved

LEMMA PanicInQueryStep ==
  ASSUME CInv, NEW c \in HttpConnection, PanicInQuery(c)
  PROVE  StepOf(c)
<1>1. /\ IsFree(c) /\ inbox[c] # <<>> /\ KnnQueryPanics(Head(inbox[c]))
      /\ EndsByPanic(c, Len(inbox[c]))
  BY DEF PanicInQuery
<1>2. buffer[c] = Empty /\ Len(calls[c]) = Len(answers[c])
  BY <1>1, IsFreeAtRest
<1>3. /\ Tune(asked[c], WithErrors(responses[c], Len(inbox[c])), <<>>, Dropped, calls[c], Len(answers[c]))
      /\ WithErrors(responses[c], Len(inbox[c])) \in Seq(HttpResponse)
  BY <1>1, <1>2, Connected, PanicInTune DEF InTune
<1> QED
  BY <1>1, <1>3, EndsInTune

LEMMA PanicInParseStep ==
  ASSUME CInv, NEW c \in HttpConnection, PanicInParse(c)
  PROVE  StepOf(c)
<1>1. /\ buffer[c] # Empty /\ buffer[c] # Dropped /\ ParsePanics(buffer[c].request)
      /\ EndsByPanic(c, Len(inbox[c]) + 1)
  BY DEF PanicInParse, IsReading
<1>2. /\ Tune(asked[c], WithErrors(responses[c], Len(inbox[c]) + 1), <<>>, Dropped, calls[c],
              Len(answers[c]))
      /\ WithErrors(responses[c], Len(inbox[c]) + 1) \in Seq(HttpResponse)
  BY <1>1, Connected, PanicInBodyInTune DEF InTune
<1> QED
  BY <1>1, <1>2, EndsInTune

LEMMA PollPointMoves ==
  ASSUME CInv, NEW c \in HttpConnection, PollPoint(c)
  PROVE  StepOf(c)
<1> DEFINE b == buffer[c]
           body == IF b.left = <<>> THEN b.body ELSE b.body \o Head(b.left)
           p == IF b.request.body.fails THEN None ELSE Parse(body, b.request)
           new == [b EXCEPT !.body = body, !.left = Tail(b.left)]
<1>1. /\ b # Empty /\ b # Dropped /\ asked' = asked /\ inbox' = inbox
      /\ Len(b.left) > 1 \/ ~ParsePanics(b.request)
  BY DEF PollPoint, IsReading
<1>2. /\ c \in Connection /\ DOMAIN buffer = Connection /\ HttpTyped
      /\ responses \in [Connection -> Seq(HttpResponse)] /\ DOMAIN responses = Connection
  BY Connected DEF CInv, HIInv, BufferTyped, HttpTyped
<1>3. IF Len(b.left) > 1
      THEN Tune(asked[c], responses[c], inbox[c], new, calls[c], Len(answers[c]))
      ELSE IF p = None
      THEN Tune(asked[c], Append(responses[c], Error), inbox[c], Empty, calls[c], Len(answers[c]))
      ELSE Tune(asked[c], responses[c], inbox[c], Empty, Append(calls[c], RequestOf(b.request, p)),
                Len(answers[c]))
  BY <1>1, Connected, PollInTune DEF InTune
<1>4. CASE Len(b.left) > 1
  <2>1. /\ buffer' = [buffer EXCEPT ![c].body = body, ![c].left = Tail(b.left)]
        /\ responses' = responses /\ calls' = calls /\ answers' = answers /\ dead' = dead
    BY <1>4 DEF PollPoint, vars, clientVars, workerVars
  <2>2. buffer' = [buffer EXCEPT ![c] = new]
    BY <2>1, <1>2
  <2> HIDE DEF new
  <2>3. buffer'[c] = new /\ \A d \in HttpConnection \ {c} : buffer'[d] = buffer[d]
    BY <2>2, <1>2, OneConnection
  <2>4. Tune(asked[c], responses[c], inbox[c], new, calls[c], Len(answers[c]))
    BY <1>3, <1>4
  <2> HIDE DEF b, body
  <2>5. InTune(c)'
    BY <2>1, <2>3, <2>4, <1>1, NextInTune
  <2> QED
    BY <2>1, <2>3, <2>5, <1>1, <1>2 DEF StepOf, HttpTyped, Unmoved
<1>5. CASE ~(Len(b.left) > 1)
  <2>1. Finish(c, p)
    BY <1>5 DEF PollPoint
  <2> HIDE DEF p, body, new
  <2>2. buffer' = [buffer EXCEPT ![c] = Empty]
    BY <2>1 DEF Finish
  <2>3. buffer'[c] = Empty /\ \A d \in HttpConnection \ {c} : buffer'[d] = buffer[d]
    BY <2>2, <1>2, OneConnection
  <2>4. CASE p = None
    <3>1. /\ responses' = [responses EXCEPT ![c] = Append(responses[c], Error)]
          /\ calls' = calls /\ answers' = answers /\ dead' = dead
      BY <2>1, <2>4 DEF Finish, vars, clientVars, workerVars
    <3>2. Append(responses[c], Error) \in Seq(HttpResponse)
      BY Connected, ErrorIsResponse
    <3>3. /\ responses'[c] = Append(responses[c], Error) /\ responses' \in [Connection -> Seq(HttpResponse)]
          /\ \A d \in HttpConnection \ {c} : responses'[d] = responses[d]
      BY <3>1, <3>2, <1>2, OneConnection
    <3>4. Tune(asked[c], Append(responses[c], Error), inbox[c], Empty, calls[c], Len(answers[c]))
      BY <1>3, <1>5, <2>4
    <3> HIDE DEF b
    <3>5. InTune(c)'
      BY <3>1, <3>3, <3>4, <2>3, <1>1, NextInTune
    <3> QED
      BY <3>1, <3>3, <3>5, <2>3, <1>1, <1>2 DEF StepOf, HttpTyped, Unmoved
  <2>5. CASE p # None
    <3>1. Call(c, RequestOf(b.request, p)) /\ responses' = responses
      BY <2>1, <2>5 DEF Finish
    <3>2. PICK r : r = RequestOf(b.request, p)
      OBVIOUS
    <3>3. /\ calls'[c] = Append(calls[c], r) /\ answers' = answers /\ dead' = dead
          /\ \A d \in HttpConnection \ {c} : calls'[d] = calls[d]
      BY <3>1, <3>2, CalledOnce
    <3>4. Tune(asked[c], responses[c], inbox[c], Empty, Append(calls[c], r), Len(answers[c]))
      BY <1>3, <1>5, <2>5, <3>2
    <3> HIDE DEF b
    <3>5. InTune(c)'
      BY <3>1, <3>3, <3>4, <2>3, <1>1, NextInTune
    <3> QED
      BY <3>1, <3>3, <3>5, <2>3, <1>1, <1>2 DEF StepOf, HttpTyped, Unmoved
  <2> QED
    BY <2>4, <2>5
<1> QED
  BY <1>4, <1>5

LEMMA HttpRespondStep ==
  ASSUME CInv, NEW c \in HttpConnection, HttpRespond(c)
  PROVE  StepOf(c)
<1>1. /\ task[c] = "await" /\ reply[c] # None
      /\ answers' = [answers EXCEPT ![c] = Append(answers[c], reply[c])]
      /\ responses' = [responses EXCEPT ![c] = Append(responses[c], IntoHttp(reply[c]))]
      /\ calls' = calls /\ dead' = dead
      /\ asked' = asked /\ inbox' = inbox /\ buffer' = buffer
  BY DEF HttpRespond, Respond, workerVars
<1>2. /\ c \in Connection /\ HttpTyped /\ IInv /\ reply[c] \in Response
      /\ responses \in [Connection -> Seq(HttpResponse)] /\ DOMAIN responses = Connection
      /\ DOMAIN answers = Connection
  BY <1>1, Connected DEF CInv, HttpTyped, IInv, StateTyped
<1>3. Len(calls[c]) # Len(answers[c])
  <2>1. Len(calls[c]) = Len(answers[c]) + 1 + Len(requests[c])
    BY <1>1, <1>2 DEF IInv, InOrder, Idle
  <2>2. Len(answers[c]) \in Nat /\ Len(requests[c]) \in Nat
    BY <1>2, Lengths
  <2>3. \A x, y \in Nat : x + 1 + y # x
    OBVIOUS
  <2> QED
    BY <2>1, <2>2, <2>3, Zenon
<1>4. Suits(calls[c][Len(answers[c]) + 1], reply[c])
  BY <1>1, <1>2 DEF CInv, RepliesSuit, Current
<1>5. /\ Tune(asked[c], Append(responses[c], IntoHttp(reply[c])), inbox[c], buffer[c], calls[c],
              Len(answers[c]) + 1)
      /\ IntoHttp(reply[c]) \in HttpResponse
  BY <1>2, <1>3, <1>4, Connected, RespondInTune DEF InTune
<1>6. Append(responses[c], IntoHttp(reply[c])) \in Seq(HttpResponse)
  BY <1>5, Connected
<1>7. /\ responses'[c] = Append(responses[c], IntoHttp(reply[c]))
      /\ responses' \in [Connection -> Seq(HttpResponse)]
      /\ \A d \in HttpConnection \ {c} : responses'[d] = responses[d]
  BY <1>1, <1>2, <1>6, OneConnection
<1>8. /\ answers'[c] = Append(answers[c], reply[c])
      /\ \A d \in HttpConnection \ {c} : answers'[d] = answers[d]
  BY <1>1, <1>2, OneConnection
<1>9. Len(answers'[c]) = Len(answers[c]) + 1
  BY <1>2, <1>8, Connected
<1>10. InTune(c)'
  BY <1>1, <1>5, <1>7, <1>9, NextInTune
<1> QED
  BY <1>1, <1>2, <1>7, <1>8, <1>10 DEF StepOf, HttpTyped, Unmoved

LEMMA HttpStepInTune ==
  ASSUME CInv, NEW c \in HttpConnection, HttpStep(c)
  PROVE  StepOf(c)
BY ReadWithoutBodyStep, RejectQueryStep, BeginBodyStep, PanicInQueryStep, PanicInParseStep,
   PollPointMoves, HttpRespondStep
   DEF HttpStep

(* The steps that leave HTTP alone. *)
LEMMA OthersInTune ==
  ASSUME CInv, UNCHANGED httpVars, dead \subseteq dead',
         \A d \in HttpConnection : calls'[d] = calls[d] /\ answers'[d] = answers[d]
  PROVE  HttpTyped' /\ \A d \in HttpConnection : InTune(d)'
<1>1. asked' = asked /\ responses' = responses /\ inbox' = inbox /\ buffer' = buffer
  BY DEF httpVars
<1>2. HttpTyped'
  BY <1>1 DEF CInv, HttpTyped
<1>3. \A d \in HttpConnection : Unmoved(d) /\ InTune(d)
  BY <1>1 DEF Unmoved, CInv
<1> QED
  BY <1>2, <1>3, UnmovedInTune

LEMMA TaskStepCalls ==
  ASSUME NEW c, TaskStep(c)
  PROVE  calls' = calls /\ answers' = answers /\ dead' = dead
BY DEF TaskStep, Query, AskMain, AskLock, InsertEntry, LookUp, Received, clientVars, workerVars

LEMMA WorkerNextCalls ==
  ASSUME NEW n, WorkerNext(n)
  PROVE  calls' = calls /\ answers' = answers /\ dead \subseteq dead'
BY DEF WorkerNext, Process, Panic, clientVars

LEMMA NextCInv == CInv /\ [HNext]_hvars => CInv'
<1> SUFFICES ASSUME CInv, [HNext]_hvars PROVE CInv'
  OBVIOUS
<1>1. HIInv' /\ RepliesSuit'
  BY NextHIInv, HNextIsService, NextSuits DEF CInv, HIInv
<1> SUFFICES HttpTyped' /\ \A d \in HttpConnection : InTune(d)'
  BY <1>1 DEF CInv
<1>2. ASSUME NEW c \in HttpConnection, StepOf(c)
      PROVE  HttpTyped' /\ \A d \in HttpConnection : InTune(d)'
  <2>1. ASSUME NEW d \in HttpConnection PROVE InTune(d)'
    <3>1. CASE d = c
      BY <1>2, <3>1 DEF StepOf
    <3>2. CASE d # c
      <4>1. Unmoved(d) /\ dead' = dead
        BY <1>2, <3>2 DEF StepOf
      <4> QED
        BY <4>1, UnmovedInTune DEF CInv
    <3> QED
      BY <3>1, <3>2
  <2> QED
    BY <2>1, <1>2 DEF StepOf
<1>3. ASSUME NEW c \in HttpConnection, HttpStep(c)
      PROVE  HttpTyped' /\ \A d \in HttpConnection : InTune(d)'
  BY <1>2, <1>3, HttpStepInTune
<1>4. ASSUME NEW c \in HttpConnection, HttpHangUp(c)
      PROVE  HttpTyped' /\ \A d \in HttpConnection : InTune(d)'
  BY <1>4, OthersInTune DEF HttpHangUp, HangUp, clientVars, workerVars
<1>5. ASSUME NEW c \in HttpConnection, NEW hr \in HttpRequest, HttpCall(c, hr)
      PROVE  HttpTyped' /\ \A d \in HttpConnection : InTune(d)'
  BY <1>2, <1>5, HttpCallStep
<1>6. ASSUME NEW c \in Connection \ HttpConnection, LibraryRespond(c)
      PROVE  HttpTyped' /\ \A d \in HttpConnection : InTune(d)'
  <2>1. /\ answers' = [answers EXCEPT ![c] = Append(answers[c], reply[c])]
        /\ calls' = calls /\ dead' = dead /\ UNCHANGED httpVars
    BY <1>6 DEF LibraryRespond, Respond, workerVars
  <2>2. \A d \in HttpConnection : answers'[d] = answers[d]
    BY <2>1, HttpAssumption DEF CInv, HIInv, IInv, StateTyped
  <2> QED
    BY <2>1, <2>2, OthersInTune
<1>7. ASSUME NEW c \in Connection \ HttpConnection, HangUp(c) /\ UNCHANGED httpVars
      PROVE  HttpTyped' /\ \A d \in HttpConnection : InTune(d)'
  BY <1>7, OthersInTune DEF HangUp, clientVars, workerVars
<1>8. ASSUME NEW c \in Connection \ HttpConnection, NEW r \in LibraryRequest, Call(c, r) /\ UNCHANGED httpVars
      PROVE  HttpTyped' /\ \A d \in HttpConnection : InTune(d)'
  <2>1. /\ calls' = [calls EXCEPT ![c] = Append(calls[c], r)]
        /\ answers' = answers /\ dead' = dead /\ UNCHANGED httpVars
    BY <1>8 DEF Call, workerVars
  <2>2. \A d \in HttpConnection : calls'[d] = calls[d]
    BY <2>1, HttpAssumption DEF CInv, HIInv, IInv, StateTyped
  <2> QED
    BY <2>1, <2>2, OthersInTune
<1>9. ASSUME NEW c \in Connection, ServerStep(c)
      PROVE  HttpTyped' /\ \A d \in HttpConnection : InTune(d)'
  BY <1>9, TaskStepCalls, OthersInTune DEF ServerStep
<1>10. ASSUME NEW n \in Worker, WorkerNext(n) /\ UNCHANGED httpVars
       PROVE  HttpTyped' /\ \A d \in HttpConnection : InTune(d)'
  BY <1>10, WorkerNextCalls, OthersInTune
<1>11. CASE Quiet /\ UNCHANGED httpVars
  BY <1>11, OthersInTune DEF Quiet, vars, clientVars, workerVars
<1>12. CASE UNCHANGED hvars
  BY <1>12, OthersInTune DEF hvars, vars, clientVars, workerVars
<1> QED
  BY <1>3, <1>4, <1>5, <1>6, <1>7, <1>8, <1>9, <1>10, <1>11, <1>12 DEF HNext

LEMMA InitCInv == HInit => CInv
<1> SUFFICES ASSUME HInit PROVE CInv
  OBVIOUS
<1>1. /\ asked = [c \in Connection |-> <<>>] /\ responses = [c \in Connection |-> <<>>]
      /\ inbox = [c \in Connection |-> <<>>] /\ buffer = [c \in Connection |-> Empty]
      /\ calls = [c \in Connection |-> <<>>] /\ answers = [c \in Connection |-> <<>>]
      /\ reply = [c \in Connection |-> None]
  BY DEF HInit, Init
<1>2. HttpTyped
  <2>1. <<>> \in Seq(HttpRequest) /\ <<>> \in Seq(HttpResponse)
    OBVIOUS
  <2> QED
    BY <2>1, <1>1 DEF HttpTyped
<1>3. RepliesSuit
  BY <1>1 DEF RepliesSuit
<1>4. Tune(<<>>, <<>>, <<>>, Empty, <<>>, 0)
  <2>1. Len(<<>>) = 0 /\ 0 - 0 = 0 /\ <<>> \in Seq(HttpRequest)
    OBVIOUS
  <2>2. IsTheRest(<<>>, <<>>) /\ AllFit(<<>>, <<>>)
    BY DEF IsTheRest, AllFit
  <2>3. Meant(<<>>)[0] = <<>>
    BY <2>1, MeantSteps
  <2>4. NothingPanics(<<>>, 0)
    BY DEF NothingPanics
  <2>5. AtRest(<<>>, 0, 0, Empty, <<>>, 0)
    BY <2>1, <2>3, <2>4 DEF AtRest
  <2> QED
    BY <2>1, <2>2, <2>5 DEF Tune, Phase
<1>5. ASSUME NEW c \in HttpConnection PROVE InTune(c)
  <2>1. c \in Connection /\ Len(<<>>) = 0
    BY HttpAssumption
  <2> QED
    BY <2>1, <1>1, <1>4 DEF InTune
<1> QED
  BY <1>2, <1>3, <1>5, InitHIInv DEF CInv

LEMMA InTuneIsInOrder == CInv => ConversationIsInOrder
<1> SUFFICES ASSUME CInv, NEW c \in HttpConnection
             PROVE  /\ \E n \in 0..Len(asked[c]) : calls[c] = Meant(asked[c])[n]
                    /\ \A i \in DOMAIN responses[c] :
                         IF Alive(c, i) THEN Fits(Meaning(asked[c][i]), responses[c][i])
                                        ELSE responses[c][i] = Error
  BY DEF ConversationIsInOrder
<1> DEFINE hrs == asked[c]
           t == Len(asked[c]) - Len(inbox[c])
           k == Len(responses[c])
<1>1. /\ hrs \in Seq(HttpRequest) /\ responses[c] \in Seq(HttpResponse)
      /\ IsTheRest(inbox[c], hrs) /\ AllFit(hrs, responses[c])
      /\ Phase(hrs, t, k, buffer[c], calls[c], Len(answers[c]))
      /\ Len(inbox[c]) \in Nat /\ Len(hrs) \in Nat /\ k \in Nat
  <2>1. hrs \in Seq(HttpRequest) /\ responses[c] \in Seq(HttpResponse) /\ inbox[c] \in Seq(HttpRequest)
    BY Connected
  <2>2. Len(inbox[c]) \in Nat /\ Len(hrs) \in Nat /\ k \in Nat
    BY <2>1
  <2> QED
    BY <2>1, <2>2, Connected DEF InTune, Tune
<1>2. t \in 0..Len(hrs)
  <2>1. \A x, y \in Nat : y <= x => x - y \in 0..x
    OBVIOUS
  <2>2. Len(inbox[c]) <= Len(hrs)
    BY <1>1 DEF IsTheRest
  <2> QED
    BY <2>1, <2>2, <1>1, Zenon
<1>3. \E n \in 0..Len(hrs) : calls[c] = Meant(hrs)[n]
  <2> HIDE DEF hrs, t, k
  <2>1. t = k + 1 => k \in 0..Len(hrs)
    BY <1>1, <1>2
  <2> QED
    BY <2>1, <1>1, <1>2 DEF Phase, AtRest, Working, InBody, Gone
<1>4. ASSUME NEW i \in DOMAIN responses[c]
      PROVE  IF Alive(c, i) THEN Fits(Meaning(asked[c][i]), responses[c][i]) ELSE responses[c][i] = Error
  <2>1. i \in 1..Len(responses[c])
    BY <1>1
  <2>2. Fit(asked[c], i, responses[c][i])
    BY <2>1, <1>1 DEF AllFit
  <2> QED
    BY <2>2 DEF Fit, Alive, NothingPanics
<1> QED
  BY <1>3, <1>4

(* The conversation over every connection is in order: whatever chunks the *)
(* bodies come in, whatever the other connections, the lock and the        *)
(* workers do, and whatever was wrong with the requests before, the reader *)
(* is asked for what the requests mean, one after the other, and every     *)
(* response is one to its own request.                                     *)
THEOREM ConversationsAreInOrder == HSpec => []ConversationIsInOrder
<1>1. HInit => CInv
  BY InitCInv
<1>2. CInv /\ [HNext]_hvars => CInv'
  BY NextCInv
<1>3. CInv => ConversationIsInOrder
  BY InTuneIsInOrder
<1> QED
  BY <1>1, <1>2, <1>3, PTL DEF HSpec
=============================================================================
