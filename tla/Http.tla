-------------------------------- MODULE Http ---------------------------------
(***************************************************************************)
(* SimpleWeb's HTTP client and server (common/server/client_http.hpp,      *)
(* server_http.hpp) talking to each other over connections that may close. *)
(* The client sends one request at a time on a connection it keeps; the    *)
(* server serves each connection by a chain of asio handlers (read the     *)
(* header, read the content, run the resource, write, read again), each    *)
(* phase guarded by a timer whose handler closes the socket.               *)
(*                                                                         *)
(* A handler is one step; handlers of one connection and its timers        *)
(* interleave freely (the server runs the io_service on several threads),  *)
(* but the timer of the response shares a strand with the coroutine that   *)
(* runs the resource.  Whether a resource returns is not the server's      *)
(* doing: the default one may wait for a Redis connection without limit.   *)
(* A message is a head followed by its content, a sequence of pieces; a    *)
(* read takes any number of the pieces that have arrived, as the streambuf *)
(* may.  The piece "nl" is a line end.                                     *)
(***************************************************************************)
EXTENDS Integers, Sequences, SequencesExt

CONSTANTS MaxConn,      \* bound: connections the client makes
          MaxRequest,   \* bound: requests the client sends
          Bodies,       \* the contents of requests
          Methods       \* methods of requests; "GET" has a resource

\* What a token of a message may be: a method, a status, a piece of content.
Text == Methods \cup {"200", "x"} \cup UNION {Range(b) : b \in Bodies}

ASSUME ConstAssumption == /\ MaxConn \in Nat /\ MaxRequest \in Nat
                          /\ "GET" \in Methods
                          /\ Bodies \subseteq Seq(Text)

Conn == 1..MaxConn

VARIABLES
    \* the client
    cpc,           \* "idle", "connect", "write", "head", "body"
    request,       \* the request at hand: [id, method, body]
    sent,          \* requests begun
    conn,          \* the connection it uses, 0 for none
    socket_error,  \* ClientBase::socket_error
    need,          \* pieces of content still to come
    tag,           \* the request the answer being read belongs to
    returned,      \* [id, tag] of the last request that returned, and its answer
    \* the network
    c2s, s2c,      \* what is on its way on each connection
    copen,         \* the client's end is open
    \* the server
    open,          \* the server's socket is open
    spc,           \* "none", "head", "body", "run", "flush", "write", "left", "gone"
    timer,         \* phases of armed timers: "request", "content", "response"
    late,          \* of timers that expired: the handler is to run with no error
    serving,       \* the request at hand
    content,       \* the content as the resource will see it
    todo,          \* pieces of it still to come
    out            \* how much of the answer the resource has flushed

clientVars == <<cpc, request, sent, conn, socket_error, need, tag, returned>>
serverVars == <<open, spc, timer, late, serving, content, todo, out>>
vars == <<clientVars, c2s, s2c, copen, serverVars>>

NoRequest == [id |-> 0, method |-> "GET", body |-> <<>>]

Init == /\ cpc = "idle" /\ request = NoRequest /\ sent = 0 /\ conn = 0
        /\ socket_error = FALSE /\ need = 0 /\ tag = 0
        /\ returned = [id |-> 0, tag |-> 0]
        /\ c2s = [k \in Conn |-> <<>>] /\ s2c = [k \in Conn |-> <<>>]
        /\ copen = [k \in Conn |-> FALSE] /\ open = [k \in Conn |-> FALSE]
        /\ spc = [k \in Conn |-> "none"]
        /\ timer = [k \in Conn |-> {}] /\ late = [k \in Conn |-> {}]
        /\ serving = [k \in Conn |-> [id |-> 0, method |-> "GET"]]
        /\ content = [k \in Conn |-> <<>>] /\ todo = [k \in Conn |-> 0]
        /\ out = [k \in Conn |-> 0]

\* What travels: the head of a message of request r (its method, or "200")
\* that announces n pieces of content, and the pieces.
Token(r, n, x) == [req |-> r, len |-> n, what |-> x]
Message(r, x, body) == <<Token(r, Len(body), x)>>
                       \o [i \in 1..Len(body) |-> Token(r, 0, body[i])]
Pieces(q) == [i \in 1..Len(q) |-> q[i].what]
-----------------------------------------------------------------------------
(* The client: ClientBase::request.                                        *)

Request(m, b) ==
    /\ cpc = "idle" /\ sent < MaxRequest
    /\ sent' = sent + 1
    /\ request' = [id |-> sent + 1, method |-> m, body |-> b]
    /\ cpc' = "connect"
    /\ UNCHANGED <<conn, socket_error, need, tag, returned, c2s, s2c, copen,
                   serverVars>>

\* The server accepts a connection: it starts to read, with a timer, after it
\* has begun to accept the next one.
Accept(k) == /\ open' = [open EXCEPT ![k] = TRUE]
             /\ spc' = [spc EXCEPT ![k] = "head"]
             /\ timer' = [timer EXCEPT ![k] = {"request"}]

\* connect: a new connection after an error or when there is none; the old
\* socket is closed by it.
Connect ==
    /\ cpc = "connect"
    /\ \/ /\ socket_error \/ conn = 0
          /\ conn < MaxConn
          /\ conn' = conn + 1
          /\ copen' = [k \in Conn |-> k = conn + 1]
          /\ socket_error' = FALSE
          /\ Accept(conn + 1)
       \/ /\ ~socket_error /\ conn # 0
          /\ UNCHANGED <<conn, copen, socket_error, open, spc, timer>>
    /\ cpc' = "write"
    /\ UNCHANGED <<request, sent, need, tag, returned, c2s, s2c, late, serving,
                   content, todo, out>>

\* Any exception marks the connection and is thrown on.
Throw == /\ cpc' = "idle"
         /\ socket_error' = TRUE
         /\ need' = 0 /\ tag' = 0
         /\ UNCHANGED <<request, sent, conn, returned>>

\* The host is not found, or does not accept; the old socket is closed by then.
ConnectFails ==
    /\ cpc = "connect" /\ (socket_error \/ conn = 0)
    /\ Throw
    /\ copen' \in {copen, [k \in Conn |-> FALSE]}
    /\ UNCHANGED <<c2s, s2c, serverVars>>

\* Writing to a connection the server has closed fails, or is lost.
Write ==
    /\ cpc = "write"
    /\ \/ /\ c2s' = IF open[conn]
                     THEN [c2s EXCEPT ![conn] =
                             @ \o Message(request.id, request.method, request.body)]
                     ELSE c2s
          /\ cpc' = "head"
          /\ UNCHANGED <<request, sent, conn, socket_error, need, tag, returned>>
       \/ ~open[conn] /\ Throw /\ UNCHANGED c2s
    /\ UNCHANGED <<s2c, copen, serverVars>>

\* What a read fails with: the connection is closed (data on its way may be
\* lost with it) or reset.
ReadFails ==
    /\ cpc \in {"head", "body"} /\ ~open[conn]
    /\ Throw
    /\ s2c' = [s2c EXCEPT ![conn] = <<>>]
    /\ UNCHANGED <<c2s, copen, serverVars>>

Return(t) == /\ returned' = [id |-> request.id, tag |-> t]
             /\ cpc' = "idle" /\ need' = 0 /\ tag' = 0

\* read_until: the head, and j pieces that came with it.
ReadHead ==
    /\ cpc = "head" /\ s2c[conn] # <<>>
    /\ LET h == Head(s2c[conn])
       IN  \E j \in 0..(Len(s2c[conn]) - 1) :
              /\ j <= h.len
              /\ s2c' = [s2c EXCEPT ![conn] = SubSeq(@, j + 2, Len(@))]
              /\ \/ h.len = j /\ Return(h.req)
                 \/ /\ h.len > j
                    /\ need' = h.len - j /\ tag' = h.req /\ cpc' = "body"
                    /\ UNCHANGED returned
    /\ UNCHANGED <<request, sent, conn, socket_error, c2s, copen, serverVars>>

\* transfer_exactly: the rest.
ReadBody ==
    /\ cpc = "body" /\ Len(s2c[conn]) >= need
    /\ s2c' = [s2c EXCEPT ![conn] = SubSeq(@, need + 1, Len(@))]
    /\ Return(tag)
    /\ UNCHANGED <<request, sent, conn, socket_error, c2s, copen, serverVars>>
-----------------------------------------------------------------------------
(* The server: one connection k.                                           *)

\* cancel() of the phase's timer: it cannot stop a handler that is queued.
CancelTimer(k, phase) == timer[k] \ {phase}

\* read_request_and_content looks at the first line of what is left in the
\* streambuf and writes it back: the line end is gone and the line is now
\* behind whatever followed it.
CopyBack(buf) ==
    LET nl == SelectInSeq(buf, LAMBDA x : x = "nl")
    IN  IF nl = 0 THEN buf ELSE SubSeq(buf, nl + 1, Len(buf)) \o SubSeq(buf, 1, nl - 1)

\* The chain of handlers ends.  The socket has no owner left and its destructor
\* closes it, unless the handler of an expired timer still refers to it.
Drop(k) == \/ /\ late[k] = {}
              /\ open' = [open EXCEPT ![k] = FALSE]
              /\ spc' = [spc EXCEPT ![k] = "gone"]
           \/ /\ late[k] # {}
              /\ spc' = [spc EXCEPT ![k] = "left"]
              /\ UNCHANGED open

\* Mutant: a request without a resource leaves its socket to somebody.
FindResource_Keeps(k, r, others) ==
    /\ spc' = [spc EXCEPT ![k] = IF r.method = "GET" THEN "run" ELSE "left"]
    /\ timer' = [timer EXCEPT ![k] =
                   IF r.method = "GET" THEN others \cup {"response"} ELSE others]
    /\ UNCHANGED open

\* find_resource and the start of write_response; without a resource nothing
\* refers to the socket any more.
FindResource(k, r, others) ==
    \/ /\ r.method = "GET"
       /\ spc' = [spc EXCEPT ![k] = "run"]
       /\ timer' = [timer EXCEPT ![k] = others \cup {"response"}]
       /\ UNCHANGED open
    \/ /\ r.method # "GET"
       /\ Drop(k)
       /\ timer' = [timer EXCEPT ![k] = others]

\* The head has arrived, with j pieces of the content.
OnHead(k) ==
    /\ spc[k] = "head" /\ open[k] /\ c2s[k] # <<>>
    /\ \E j \in 0..(Len(c2s[k]) - 1) :
          LET h == Head(c2s[k])
              r == [id |-> h.req, method |-> h.what]
          IN  /\ c2s' = [c2s EXCEPT ![k] = SubSeq(@, j + 2, Len(@))]
              /\ serving' = [serving EXCEPT ![k] = r]
              /\ content' = [content EXCEPT ![k] =
                               CopyBack(Pieces(SubSeq(c2s[k], 2, j + 1)))]
              /\ todo' = [todo EXCEPT ![k] = h.len - j]
              /\ \/ /\ h.len > 0
                    /\ spc' = [spc EXCEPT ![k] = "body"]
                    /\ timer' = [timer EXCEPT ![k] =
                                   CancelTimer(k, "request") \cup {"content"}]
                    /\ UNCHANGED open
                 \/ /\ h.len = 0
                    /\ FindResource(k, r, CancelTimer(k, "request"))
    /\ UNCHANGED <<clientVars, s2c, copen, late, out>>

\* The rest of the content has arrived.
OnBody(k) ==
    /\ spc[k] = "body" /\ open[k] /\ Len(c2s[k]) >= todo[k]
    /\ content' = [content EXCEPT ![k] = @ \o Pieces(SubSeq(c2s[k], 1, todo[k]))]
    /\ c2s' = [c2s EXCEPT ![k] = SubSeq(@, todo[k] + 1, Len(@))]
    /\ todo' = [todo EXCEPT ![k] = 0]
    /\ FindResource(k, serving[k], CancelTimer(k, "content"))
    /\ UNCHANGED <<clientVars, s2c, copen, late, serving, out>>

\* A read fails: the client's end or the socket itself is closed.  The timer
\* is cancelled and nothing follows.
OnReadError(k) ==
    /\ spc[k] \in {"head", "body"}
    /\ ~copen[k] \/ ~open[k]
    /\ timer' = [timer EXCEPT ![k] =
                   CancelTimer(k, IF spc[k] = "head" THEN "request" ELSE "content")]
    /\ Drop(k)
    /\ UNCHANGED <<clientVars, c2s, s2c, copen, late, serving, content, todo, out>>

\* The answer to the request at hand, of which what is not flushed so far is
\* written up to its m-th token; on a closed socket nothing is.
Answer(k) == Message(serving[k].id, "200", <<"x">>)
AnswerLen == 2
Put(k, m) == s2c' = IF open[k]
                    THEN [s2c EXCEPT ![k] = @ \o SubSeq(Answer(k), out[k] + 1, m)]
                    ELSE s2c

\* Mutant: the search for a resource goes on after the first and both answer.
RunResource_Twice(k) ==
    /\ spc[k] = "run"
    /\ spc' = [spc EXCEPT ![k] = "write"]
    /\ s2c' = IF open[k] THEN [s2c EXCEPT ![k] = @ \o Answer(k) \o Answer(k)] ELSE s2c
    /\ out' = [out EXCEPT ![k] = 0]
    /\ UNCHANGED <<clientVars, c2s, copen, open, timer, late, serving, content,
                   todo>>

\* The coroutine is over with the resource: the timer it owned is destroyed.
Abandon(k) == /\ Drop(k)
              /\ timer' = [timer EXCEPT ![k] = CancelTimer(k, "response")]
              /\ out' = [out EXCEPT ![k] = 0]

\* The resource function returns and async_flush writes what is left of the
\* response, or it throws and the coroutine returns.
RunResource(k) ==
    /\ spc[k] = "run"
    /\ \/ /\ spc' = [spc EXCEPT ![k] = "write"]
          /\ Put(k, AnswerLen)
          /\ out' = [out EXCEPT ![k] = 0]
          /\ UNCHANGED <<open, timer>>
       \/ Abandon(k) /\ UNCHANGED s2c
    /\ UNCHANGED <<clientVars, c2s, copen, late, serving, content, todo>>

\* Response::flush: the resource writes part of the response and waits for it,
\* which lets go of the strand.
Flush(k) ==
    /\ spc[k] = "run"
    /\ \E m \in (out[k] + 1)..AnswerLen : /\ Put(k, m)
                                          /\ out' = [out EXCEPT ![k] = m]
    /\ spc' = [spc EXCEPT ![k] = "flush"]
    /\ UNCHANGED <<clientVars, c2s, copen, open, timer, late, serving, content,
                   todo>>

\* The coroutine goes on, or the error is thrown out of the resource.
OnFlushed(k) ==
    /\ spc[k] = "flush"
    /\ \/ /\ open[k]
          /\ spc' = [spc EXCEPT ![k] = "run"]
          /\ UNCHANGED <<open, timer, out>>
       \/ ~(open[k] /\ copen[k]) /\ Abandon(k)
    /\ UNCHANGED <<clientVars, c2s, s2c, copen, late, serving, content, todo>>

\* Mutant: the timer of the response is left armed.
OnWritten_KeepsTimer(k) ==
    /\ spc[k] = "write"
    /\ \/ /\ open[k]
          /\ spc' = [spc EXCEPT ![k] = "head"]
          /\ timer' = [timer EXCEPT ![k] = @ \cup {"request"}]
          /\ UNCHANGED open
       \/ /\ ~(open[k] /\ copen[k])
          /\ Drop(k)
          /\ timer' = [timer EXCEPT ![k] = CancelTimer(k, "response")]
    /\ content' = [content EXCEPT ![k] = <<>>]
    /\ UNCHANGED <<clientVars, c2s, s2c, copen, late, serving, todo, out>>

\* Mutant: the next read is started without a timer.
OnWritten_NoTimer(k) ==
    /\ spc[k] = "write"
    /\ \/ open[k] /\ spc' = [spc EXCEPT ![k] = "head"] /\ UNCHANGED open
       \/ ~(open[k] /\ copen[k]) /\ Drop(k)
    /\ timer' = [timer EXCEPT ![k] = CancelTimer(k, "response")]
    /\ content' = [content EXCEPT ![k] = <<>>]
    /\ UNCHANGED <<clientVars, c2s, s2c, copen, late, serving, todo, out>>

\* async_flush's callback: the timer is cancelled and, the version being 1.1,
\* the next request is read into a new Request, with a new timer.  A write may
\* succeed although the client has closed.
OnWritten(k) ==
    /\ spc[k] = "write"
    /\ \/ /\ open[k]
          /\ spc' = [spc EXCEPT ![k] = "head"]
          /\ timer' = [timer EXCEPT ![k] =
                         CancelTimer(k, "response") \cup {"request"}]
          /\ UNCHANGED open
       \/ /\ ~(open[k] /\ copen[k])
          /\ Drop(k)
          /\ timer' = [timer EXCEPT ![k] = CancelTimer(k, "response")]
    /\ content' = [content EXCEPT ![k] = <<>>]
    /\ UNCHANGED <<clientVars, c2s, s2c, copen, late, serving, todo, out>>

\* A timer expires: its handler will run with no error, whatever is cancelled
\* from now on.
TimerExpires(k) ==
    /\ \E phase \in timer[k] : /\ timer' = [timer EXCEPT ![k] = @ \ {phase}]
                               /\ late' = [late EXCEPT ![k] = @ \cup {phase}]
    /\ UNCHANGED <<clientVars, c2s, s2c, copen, open, spc, serving, content, todo,
                   out>>

\* set_timeout_on_socket's handler closes the socket; that of the response is
\* wrapped in the strand, which the running resource holds.
TimerHandler(k) ==
    /\ \E phase \in late[k] : /\ phase = "response" => spc[k] # "run"
                              /\ late' = [late EXCEPT ![k] = @ \ {phase}]
    /\ open' = [open EXCEPT ![k] = FALSE]
    /\ spc' = [spc EXCEPT ![k] = IF @ = "left" THEN "gone" ELSE @]
    /\ UNCHANGED <<clientVars, c2s, s2c, copen, timer, serving, content, todo, out>>
-----------------------------------------------------------------------------
Client == Connect \/ ConnectFails \/ Write \/ ReadFails \/ ReadHead \/ ReadBody
Handler(k) == OnHead(k) \/ OnBody(k) \/ OnReadError(k) \/ OnFlushed(k) \/ OnWritten(k)
Resource(k) == RunResource(k) \/ Flush(k)

Next == \/ \E m \in Methods, b \in Bodies : Request(m, b)
        \/ Client
        \/ \E k \in Conn : Handler(k) \/ Resource(k) \/ TimerExpires(k) \/ TimerHandler(k)

Spec == Init /\ [][Next]_vars

\* The threads of the io_service run what is ready, and timers expire.  Nothing
\* says that a resource returns.
FairSpec == /\ Spec
            /\ WF_vars(Client)
            /\ \A k \in Conn : /\ WF_vars(Handler(k))
                               /\ WF_vars(TimerExpires(k))
                               /\ WF_vars(TimerHandler(k))
-----------------------------------------------------------------------------
\* A request that returns has its own answer, never that of an earlier request
\* whose connection broke down: the connection is kept from one request to
\* the next, and answers carry nothing to tell them apart.
AnswerMatches == returned.id = returned.tag

\* The timer armed on a connection is the one of the phase it is in: none is
\* left over from an earlier phase to close the socket under a later one.
\* (One that has expired already can: late.)
TimerFollowsPhase ==
    \A k \in Conn :
       timer[k] \subseteq (CASE spc[k] = "head" -> {"request"}
                             [] spc[k] = "body" -> {"content"}
                             [] spc[k] \in {"run", "flush", "write"} -> {"response"}
                             [] OTHER -> {})

\* No resource keeps a thread, and the strand of its connection, for ever.  The
\* default one can: pullConnection waits for a connection that nobody may bring.
ResourcesReturn == \A k \in Conn : []<>(spc[k] # "run")

\* If resources return, no connection stays open for ever, whatever the client
\* stops doing and wherever a handler gives up: the request's error, a resource
\* that throws, a flush that fails, a silent client.
ConnectionEnds == ResourcesReturn => \A k \in Conn : open[k] ~> ~open[k]

\* If resources return, so does every request of the client, with an answer or an
\* exception, half an answer included: the client has no timeout of its own.
RequestReturns == ResourcesReturn => (cpc = "head" ~> cpc = "idle")

\* What server_http.hpp:254 says of the bytes that came with the header: "What
\* is left of the streambuf (maybe some bytes of the content) is appended to
\* in the async_read-function".  The resource would see the content as sent.
ContentKept ==
    \A k \in Conn : spc[k] = "run" /\ serving[k].id = request.id
                       => content[k] = request.body
-----------------------------------------------------------------------------
(* The inductive invariant.                                                *)

TokenSet == [req : Nat, len : Nat, what : Text]
ServerPc == {"none", "head", "body", "run", "flush", "write", "left", "gone"}

TypeOK ==
    /\ cpc \in {"idle", "connect", "write", "head", "body"}
    /\ request \in [id : Nat, method : Text, body : Seq(Text)]
    /\ sent \in Nat /\ conn \in 0..MaxConn /\ socket_error \in BOOLEAN
    /\ need \in Nat /\ tag \in Nat /\ returned \in [id : Nat, tag : Nat]
    /\ c2s \in [Conn -> Seq(TokenSet)] /\ s2c \in [Conn -> Seq(TokenSet)]
    /\ copen \in [Conn -> BOOLEAN] /\ open \in [Conn -> BOOLEAN]
    /\ spc \in [Conn -> ServerPc]
    /\ timer \in [Conn -> SUBSET {"request", "content", "response"}]
    /\ late \in [Conn -> SUBSET {"request", "content", "response"}]
    /\ serving \in [Conn -> [id : Nat, method : Text]]
    /\ todo \in [Conn -> Nat] /\ out \in [Conn -> 0..AnswerLen]

\* Connections are made one after the other, and a new one is fresh.
FreshInv == \A k \in Conn : /\ spc[k] = "none" <=> k > conn
                            /\ k > conn => c2s[k] = <<>> /\ s2c[k] = <<>>

\* The resource owes part of the answer, or has done with it, as has the server
\* in the phases before the next head.
Working(k) == spc[k] \in {"run", "flush"} /\ out[k] < AnswerLen
Between(k) == \/ spc[k] \in {"head", "write"}
              \/ spc[k] \in {"run", "flush"} /\ out[k] = AnswerLen
Owed(k) == IF spc[k] \in {"run", "flush"} THEN AnswerLen - out[k] ELSE 0

\* Only a resource flushes.
FlushedInv == \A k \in Conn : spc[k] \notin {"run", "flush"} => out[k] = 0

\* What has arrived at the server is one request or the rest of one.
FramedInv ==
    \A k \in Conn :
       /\ Between(k) /\ c2s[k] # <<>> => Head(c2s[k]).len = Len(c2s[k]) - 1
       /\ spc[k] = "body" => Len(c2s[k]) = todo[k]
       /\ Working(k) => c2s[k] = <<>>

\* The server has read the last request and has no answer to it left to write.
Served == c2s[conn] = <<>> /\ spc[conn] # "body" /\ ~Working(conn)

\* The request at hand is unanswered: wherever it is, it is that one.
Asked == /\ s2c[conn] = <<>>
         /\ Between(conn) /\ c2s[conn] # <<>> => Head(c2s[conn]).req = request.id
         /\ spc[conn] = "body" \/ Working(conn) => serving[conn].id = request.id
         /\ Working(conn) => out[conn] = 0 \/ ~open[conn]

\* The server is past its first part, or can write no more.
Begun == c2s[conn] = <<>> /\ spc[conn] # "body" /\ (Working(conn) => out[conn] > 0)

\* Its answer is on the way, all of it, or less if the rest is owed or was lost.
Answered == /\ Begun
            /\ s2c[conn] # <<>>
            /\ Head(s2c[conn]).req = request.id
            /\ Len(s2c[conn]) - 1 + Owed(conn) <= Head(s2c[conn]).len

\* A connection that is kept carries nothing of the last request: whatever
\* failed before has made the client give the connection up.
TalkInv ==
    /\ cpc \in {"write", "head", "body"} => conn # 0 /\ ~socket_error
    /\ conn # 0 /\ ~socket_error /\ cpc \in {"idle", "connect", "write"}
          => Served /\ s2c[conn] = <<>>
    /\ cpc = "head" => Asked \/ Answered
    /\ cpc = "body" => Begun /\ Len(s2c[conn]) + Owed(conn) <= need /\ tag = request.id

IInv == /\ TypeOK /\ FreshInv /\ FlushedInv /\ FramedInv /\ TalkInv
        /\ AnswerMatches /\ TimerFollowsPhase
=============================================================================
