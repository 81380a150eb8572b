---------------------------- MODULE HttpService ----------------------------
(***************************************************************************)
(* The HTTP side of the server (serve_goko/src/http, parsers): a service   *)
(* per connection sends every HTTP request, with a one-shot for its        *)
(* response, to the task of the connection, which reads one request after  *)
(* the other, body and all, into the buffer it keeps (PointBuffer), and    *)
(* has the reader process it (TrackerService).                             *)
(***************************************************************************)
EXTENDS TrackerService, FiniteSetsExt, SequencesExt

CONSTANTS
  HttpConnection, \* the connections over HTTP; the others use a CoreReader
  HttpRequest,    \* what they ask ...
  LibraryRequest, \* ... and what the others do
  Absent,         \* a query parameter or a header that is not there
  MaxUsize,       \* usize::MAX
  Empty, Dropped  \* a buffer without a request, and that of a task that has panicked

Route == {"parameters", "knn", "routing_knn", "path", "track_add", "track_point", "track_stats", "unknown"}

(* The encoding of a point: two parts, of which neither can be decoded     *)
(* alone; what follows them is not looked at.                              *)
Encoded(p) == <<[point |-> p, part |-> 1], [point |-> p, part |-> 2]>>
Bytes == UNION {ToSet(Encoded(p)) : p \in Paths \cup {NoPath}}

(* A body comes in chunks, and may fail at the last.                       *)
Body == [compressed: {"no", "deflate", "zlib"}, chunks: Seq(Seq(Bytes)), fails: BOOLEAN]

ASSUME HttpAssumption ==
  /\ HttpConnection \subseteq Connection
  /\ LibraryRequest \subseteq Request
  /\ MaxUsize \in Nat
  /\ HttpRequest \subseteq
       [route: Route, name: Name \cup {Main}, k: Nat \cup {Absent}, window: Nat \cup {Absent},
        content: {Absent, "zlib", "gzip", "other", "opaque"}, body: Body]

VARIABLES
  asked, responses, \* per connection, the HTTP requests and their responses
  inbox,            \* the channel of its task
  buffer            \* what its task has of the body it is reading

httpVars == <<asked, responses, inbox, buffer>>
hvars == <<vars, httpVars>>

-----------------------------------------------------------------------------
(* parse_http *)

NeedsPoint(hr) == hr.route \in {"knn", "routing_knn", "path", "track_point"}

(* A k that is no usize is unwrapped all the same.                         *)
K(hr) == IF hr.k = Absent THEN 10 ELSE hr.k
KnnQueryPanics(hr) == hr.route \in {"knn", "routing_knn"} /\ K(hr) > MaxUsize

(* A window that is no usize is none.                                      *)
WindowOf(hr) == IF hr.window = Absent \/ hr.window > MaxUsize THEN Absent ELSE hr.window
IsMalformed(hr) == hr.route \in {"track_add", "track_stats"} /\ WindowOf(hr) = Absent

RequestOf(hr, p) ==
  CASE hr.route = "track_add"   -> [kind |-> "add", name |-> hr.name, window |-> WindowOf(hr)]
    [] hr.route = "track_stats" -> [kind |-> "stats", name |-> hr.name, window |-> WindowOf(hr)]
    [] hr.route = "track_point" -> [kind |-> "track_point", name |-> hr.name, path |-> p]
    [] hr.route = "path"        -> [kind |-> "query", what |-> "path", path |-> p]
    [] hr.route \in {"knn", "routing_knn"} ->
         [kind |-> "query", what |-> hr.route, path |-> p, k |-> K(hr)]
    [] OTHER -> [kind |-> "query", what |-> hr.route]

(* Request has all that HTTP requests can ask for. *)
ASSUME ReadableAssumption ==
  \A hr \in HttpRequest : ~IsMalformed(hr) /\ ~KnnQueryPanics(hr) =>
    IF NeedsPoint(hr) THEN \A p \in Paths \cup {NoPath} : RequestOf(hr, p) \in Request
                      ELSE RequestOf(hr, NoPath) \in Request

(* MsgPackDense::parse.  "zlib" is read by the decoder of bare deflate     *)
(* streams, and "gzip" by that of zlib streams.                            *)
Decoder(content) ==
  CASE content = Absent -> "no" [] content = "zlib" -> "deflate" [] content = "gzip" -> "zlib"
    [] OTHER -> "none"
Parse(bytes, hr) ==
  IF Decoder(hr.content) = hr.body.compressed /\ Len(bytes) >= 2 /\ bytes[1].part = 1
     /\ bytes[2] = Encoded(bytes[1].point)[2]
  THEN bytes[1].point ELSE None

(* A content type that is no text is unwrapped, once the body has ended.   *)
ParsePanics(hr) == NeedsPoint(hr) /\ hr.content = "opaque" /\ ~hr.body.fails
EndsTask(hr) == KnnQueryPanics(hr) \/ ParsePanics(hr)

(* PointBuffer::switch *)
Switched(hr) == [request |-> hr, body |-> <<>>, left |-> hr.body.chunks]

(* A buffer in which a body is being read is no other; to parse it is to   *)
(* have a point, or nothing.                                               *)
Reading ==
  [request: {hr \in HttpRequest : NeedsPoint(hr) /\ ~KnnQueryPanics(hr)},
   body: Seq(Bytes), left: Seq(Seq(Bytes))]

ASSUME BufferAssumption ==
  /\ Empty # Dropped /\ Empty \notin Reading /\ Dropped \notin Reading
  /\ None \notin Paths \cup {NoPath}

-----------------------------------------------------------------------------
HInit ==
  /\ Init
  /\ asked = [c \in Connection |-> <<>>] /\ responses = [c \in Connection |-> <<>>]
  /\ inbox = [c \in Connection |-> <<>>]
  /\ buffer = [c \in Connection |-> Empty]

(* into_http: what the reader does not know at all is a 404; a tracker     *)
(* that is not there is an answer like any other.                          *)
IntoHttp(answer) ==
  IF answer \in {Error, NotFound} THEN answer ELSE [status |-> 200, answer |-> answer]

(* message: a task that has panicked has dropped its receiver. Whether     *)
(* poll_ready finds that out (ClientDropped) or the send does (FailedSend) *)
(* is told apart no more than other errors under the service are.          *)
HttpCall(c, hr) ==
  /\ Len(asked[c]) < MaxCalls
  /\ task[c] # "ended" \/ buffer[c] = Dropped
  /\ asked' = [asked EXCEPT ![c] = Append(@, hr)]
  /\ IF buffer[c] = Dropped
     THEN responses' = [responses EXCEPT ![c] = Append(@, Error)] /\ UNCHANGED inbox
     ELSE inbox' = [inbox EXCEPT ![c] = Append(@, hr)] /\ UNCHANGED responses
  /\ UNCHANGED <<vars, buffer>>

IsFree(c) == task[c] = "recv" /\ requests[c] = <<>> /\ buffer[c] = Empty
IsReading(c) == task[c] = "recv" /\ requests[c] = <<>> /\ buffer[c] \notin {Empty, Dropped}

Reads(c, hr) ==
  /\ IsFree(c) /\ inbox[c] # <<>>
  /\ hr = Head(inbox[c])
  /\ inbox' = [inbox EXCEPT ![c] = Tail(@)]
  /\ UNCHANGED asked

ReadWithoutBody(c) ==
  \E hr \in HttpRequest :
    /\ Reads(c, hr)
    /\ ~NeedsPoint(hr) /\ ~IsMalformed(hr)
    /\ Call(c, RequestOf(hr, NoPath))
    /\ UNCHANGED <<responses, buffer>>

RejectQuery(c) ==
  \E hr \in HttpRequest :
    /\ Reads(c, hr)
    /\ IsMalformed(hr)
    /\ responses' = [responses EXCEPT ![c] = Append(@, NotFound)]
    /\ UNCHANGED <<vars, buffer>>

BeginBody(c) ==
  \E hr \in HttpRequest :
    /\ Reads(c, hr)
    /\ NeedsPoint(hr) /\ ~KnnQueryPanics(hr)
    /\ buffer' = [buffer EXCEPT ![c] = Switched(hr)]
    /\ UNCHANGED <<vars, responses>>

(* The task ends, and with it the channel and the one-shots in it: what    *)
(* was being read and what waits get errors.                               *)
EndsByPanic(c, pending) ==
  /\ task' = [task EXCEPT ![c] = "ended"]
  /\ buffer' = [buffer EXCEPT ![c] = Dropped]
  /\ responses' = [responses EXCEPT ![c] = @ \o [i \in 1..pending |-> Error]]
  /\ inbox' = [inbox EXCEPT ![c] = <<>>]
  /\ UNCHANGED <<asked, clientVars, reply, lockVars, workerVars>>

PanicInQuery(c) ==
  \E hr \in HttpRequest :
    /\ IsFree(c) /\ inbox[c] # <<>> /\ hr = Head(inbox[c])
    /\ KnnQueryPanics(hr)
    /\ EndsByPanic(c, Len(inbox[c]))

(* poll_point, when the next chunk is there: at the end of the stream the  *)
(* point is parsed, and in any case the buffer is empty again.             *)
Finish(c, p) ==
  /\ buffer' = [buffer EXCEPT ![c] = Empty]
  /\ IF p = None
     THEN responses' = [responses EXCEPT ![c] = Append(@, Error)] /\ UNCHANGED vars
     ELSE Call(c, RequestOf(buffer[c].request, p)) /\ UNCHANGED responses

(* Mutant: the first chunk is taken for all of the body. *)
PollFirstChunk(c) ==
  /\ IsReading(c)
  /\ LET b == buffer[c]
     IN Finish(c, IF b.left = <<>> THEN None ELSE Parse(Head(b.left), b.request))
  /\ UNCHANGED <<asked, inbox>>

PollPoint(c) ==
  /\ IsReading(c)
  /\ LET b == buffer[c]
         body == IF b.left = <<>> THEN b.body ELSE b.body \o Head(b.left)
     IN IF Len(b.left) > 1
        THEN /\ buffer' = [buffer EXCEPT ![c].body = body, ![c].left = Tail(b.left)]
             /\ UNCHANGED <<vars, responses>>
        ELSE /\ ~ParsePanics(b.request)
             /\ Finish(c, IF b.request.body.fails THEN None ELSE Parse(body, b.request))
  /\ UNCHANGED <<asked, inbox>>

PanicInParse(c) ==
  /\ IsReading(c)
  /\ Len(buffer[c].left) <= 1 /\ ParsePanics(buffer[c].request)
  /\ EndsByPanic(c, Len(inbox[c]) + 1)

HttpRespond(c) ==
  /\ Respond(c)
  /\ responses' = [responses EXCEPT ![c] = Append(@, IntoHttp(reply[c]))]
  /\ UNCHANGED <<asked, inbox, buffer>>

(* The service is dropped with its sender, and the channel is empty. *)
HttpHangUp(c) == IsFree(c) /\ inbox[c] = <<>> /\ HangUp(c) /\ UNCHANGED httpVars

-----------------------------------------------------------------------------
HttpStep(c) ==
  \/ ReadWithoutBody(c) \/ RejectQuery(c) \/ BeginBody(c) \/ PollPoint(c) \/ HttpRespond(c)
  \/ PanicInQuery(c) \/ PanicInParse(c)

ServerStep(c) == TaskStep(c) /\ UNCHANGED httpVars

LibraryRespond(c) == Respond(c) /\ UNCHANGED httpVars

HNext ==
  \/ \E c \in HttpConnection : HttpStep(c) \/ HttpHangUp(c) \/ \E hr \in HttpRequest : HttpCall(c, hr)
  \/ \E c \in Connection \ HttpConnection :
       LibraryRespond(c) \/ (HangUp(c) /\ UNCHANGED httpVars)
         \/ \E r \in LibraryRequest : Call(c, r) /\ UNCHANGED httpVars
  \/ \E c \in Connection : ServerStep(c)
  \/ \E n \in Worker : WorkerNext(n) /\ UNCHANGED httpVars
  \/ (\A c \in HttpConnection : Len(responses[c]) = Len(asked[c])) /\ Quiet /\ UNCHANGED httpVars

(* tokio polls every task that can go on, and clients send the bodies they *)
(* have announced.                                                         *)
Fairness ==
  /\ \A c \in HttpConnection : WF_hvars(HttpStep(c))
  /\ \A c \in Connection \ HttpConnection : WF_hvars(LibraryRespond(c))
  /\ \A c \in Connection : WF_hvars(ServerStep(c))
  /\ \A n \in Worker : WF_hvars(WorkerNext(n) /\ UNCHANGED httpVars)

HSpec == HInit /\ [][HNext]_hvars /\ Fairness

-----------------------------------------------------------------------------
(* What a request means, read whole and on its own. *)
Meaning(hr) ==
  LET p == IF hr.body.fails THEN None ELSE Parse(FlattenSeq(hr.body.chunks), hr)
  IN CASE IsMalformed(hr) -> NotFound
       [] KnnQueryPanics(hr) \/ (NeedsPoint(hr) /\ p = None) -> Error
       [] OTHER -> RequestOf(hr, p)

IsRequest(m) == m \notin {NotFound, Error}

(* What the first requests of a connection ask of the reader. *)
Meant(hrs) ==
  LET meant[n \in 0..Len(hrs)] ==
        IF n = 0 THEN <<>>
        ELSE LET m == Meaning(hrs[n])
             IN IF IsRequest(m) THEN Append(meant[n-1], m) ELSE meant[n-1]
  IN meant

(* Until a request that ends the task.  A worker that has panicked, or a   *)
(* point without a path, makes an error of a request.                      *)
Alive(c, i) == \A j \in 1..i : ~EndsTask(asked[c][j])
Fits(m, response) ==
  \/ ~IsRequest(m) /\ response = m
  \/ /\ IsRequest(m) /\ response = Error
     /\ dead # {} \/ ("path" \in DOMAIN m /\ m.path = NoPath)
  \/ IsRequest(m) /\ m.kind = "query" /\ response = IntoHttp(QueryAnswer(m))
  \/ /\ IsRequest(m) /\ m.kind # "query" /\ "status" \in DOMAIN response
     /\ response.answer.type \in
          {"unknown", CASE m.kind = "add" -> "add" [] m.kind = "stats" -> "stats" [] OTHER -> "track"}

(* The conversation over a connection is in order: the reader is asked for *)
(* what the requests mean, one after the other, whatever chunks their      *)
(* bodies come in and whatever was wrong with those before, and every      *)
(* response is one to its own request.                                     *)
ConversationIsInOrder ==
  \A c \in HttpConnection :
    /\ \E n \in 0..Len(asked[c]) : calls[c] = Meant(asked[c])[n]
    /\ \A i \in DOMAIN responses[c] :
         IF Alive(c, i) THEN Fits(Meaning(asked[c][i]), responses[c][i]) ELSE responses[c][i] = Error

(* Every request is answered: no task waits for ever for the lock or for a *)
(* worker, not even for one that has panicked, and what cannot be read is  *)
(* answered too, as is what waits behind a request that ends the task.     *)
EveryRequestAnswered ==
  /\ \A c \in HttpConnection :
       (Len(responses[c]) < Len(asked[c])) ~> (Len(responses[c]) = Len(asked[c]))
  /\ \A c \in Connection \ HttpConnection :
       (Len(answers[c]) < Len(calls[c])) ~> (Len(answers[c]) = Len(calls[c]))
=============================================================================
