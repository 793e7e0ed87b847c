----------------------------- MODULE HttpProofs ------------------------------
(***************************************************************************)
(* Http: a returned request has its own answer, and no timer outlives its  *)
(* phase, for any number of connections and requests and any contents.     *)
(***************************************************************************)
EXTENDS Http, SequenceTheorems, TLAPS

(* What travels.                                                           *)

LEMMA MessageShape ==
    ASSUME NEW r \in Nat, NEW x \in Text, NEW body \in Seq(Text)
    PROVE  /\ Message(r, x, body) \in Seq(TokenSet)
           /\ Message(r, x, body) # <<>>
           /\ Head(Message(r, x, body)).req = r
           /\ Head(Message(r, x, body)).len = Len(Message(r, x, body)) - 1
  <1> DEFINE h == Token(r, Len(body), x)
             q == [i \in 1..Len(body) |-> Token(r, 0, body[i])]
  <1>1. h \in TokenSet /\ h.req = r /\ h.len = Len(body) /\ Len(body) \in Nat
    BY LenProperties DEF Token, TokenSet
  <1>2. \A i \in 1..Len(body) : Token(r, 0, body[i]) \in TokenSet
    BY ElementOfSeq DEF Token, TokenSet
  <1>3. q \in Seq(TokenSet) /\ Len(q) = Len(body)
    <2>1. q \in [1..Len(body) -> TokenSet] /\ DOMAIN q = 1..Len(body)
      BY <1>2
    <2>2. q \in Seq(TokenSet)
      BY <2>1, <1>1, SeqDef
    <2> HIDE DEF q
    <2> QED BY <2>1, <2>2, <1>1, LenProperties
  <1>4. Message(r, x, body) = <<h>> \o q
    BY DEF Message
  <1> HIDE DEF h, q
  <1>5. <<h>> \in Seq(TokenSet) /\ Len(<<h>>) = 1 /\ <<h>>[1] = h
    BY <1>1
  <1>6. /\ <<h>> \o q \in Seq(TokenSet) /\ Len(<<h>> \o q) = 1 + Len(body)
        /\ (<<h>> \o q)[1] = h
    BY <1>1, <1>3, <1>5, ConcatProperties
  <1> QED BY <1>1, <1>4, <1>6

\* What a read leaves.
LEMMA RestShape ==
    ASSUME NEW q \in Seq(TokenSet), NEW m \in 1..(Len(q) + 1)
    PROVE  /\ SubSeq(q, m, Len(q)) \in Seq(TokenSet)
           /\ Len(SubSeq(q, m, Len(q))) = Len(q) + 1 - m
           /\ Len(q) + 1 = m => SubSeq(q, m, Len(q)) = <<>>
  <1>1. Len(q) \in Nat /\ m \in Int /\ \A i \in m..Len(q) : q[i] \in TokenSet
    BY LenProperties, ElementOfSeq
  <1> QED BY <1>1, SubSeqProperties, SubSeqEmpty

LEMMA HeadShape ==
    ASSUME NEW q \in Seq(TokenSet), q # <<>>
    PROVE  /\ Head(q) \in TokenSet /\ Head(q).len \in Nat /\ Head(q).req \in Nat
           /\ Head(q).what \in Text /\ Len(q) \in Nat \ {0}
  <1>1. Head(q) \in TokenSet
    BY HeadTailProperties
  <1>2. Len(q) \in Nat \ {0}
    BY EmptySeq
  <1> QED BY <1>1, <1>2 DEF TokenSet

\* What a flush writes of the answer.
LEMMA PartShape ==
    ASSUME TypeOK, NEW k \in Conn, NEW i \in 0..AnswerLen, NEW m \in i..AnswerLen
    PROVE  /\ SubSeq(Answer(k), i + 1, m) \in Seq(TokenSet)
           /\ Len(SubSeq(Answer(k), i + 1, m)) = m - i
           /\ m = i => SubSeq(Answer(k), i + 1, m) = <<>>
           /\ i = 0 /\ m > 0 => /\ SubSeq(Answer(k), i + 1, m) # <<>>
                               /\ Head(SubSeq(Answer(k), i + 1, m)).req = serving[k].id
                               /\ Head(SubSeq(Answer(k), i + 1, m)).len = AnswerLen - 1
  <1>1. PICK a \in Seq(TokenSet) :
           /\ a = Answer(k) /\ Len(a) = AnswerLen /\ a # <<>>
           /\ Head(a).req = serving[k].id /\ Head(a).len = AnswerLen - 1
    <2>1. serving[k].id \in Nat /\ "200" \in Text /\ <<"x">> \in Seq(Text) /\ Len(<<"x">>) = 1
      BY DEF TypeOK, Text
    <2>2. /\ Answer(k) \in Seq(TokenSet) /\ Answer(k) # <<>>
          /\ Head(Answer(k)).req = serving[k].id
          /\ Head(Answer(k)).len = Len(Answer(k)) - 1
      BY <2>1, MessageShape DEF Answer
    <2>3. Len(Answer(k)) = 2
      <3>1. Answer(k) = <<Token(serving[k].id, 1, "200")>>
                        \o [j \in 1..1 |-> Token(serving[k].id, 0, <<"x">>[j])]
        BY <2>1 DEF Answer, Message
      <3> QED BY <3>1
    <2> QED BY <2>2, <2>3 DEF AnswerLen
  <1>2. \A j \in (i + 1)..m : a[j] \in TokenSet
    BY <1>1, ElementOfSeq DEF AnswerLen
  <1>3. i + 1 \in Int /\ m \in Int /\ i \in Int /\ i <= m
    BY DEF AnswerLen
  <1> DEFINE part == SubSeq(a, i + 1, m)
  <1>4. /\ part \in Seq(TokenSet)
        /\ Len(part) = IF i + 1 <= m THEN m - (i + 1) + 1 ELSE 0
        /\ \A j \in 1..(m - (i + 1) + 1) : part[j] = a[(i + 1) + j - 1]
    BY <1>2, <1>3, SubSeqProperties
  <1>5. Len(part) = m - i
    BY <1>3, <1>4
  <1>6. m = i => part = <<>>
    BY <1>3, SubSeqEmpty
  <1>7. ASSUME i = 0, m > 0 PROVE part # <<>> /\ Head(part) = Head(a)
    <2>1. part[1] = a[1] /\ Len(part) > 0
      BY <1>3, <1>4, <1>5, <1>7
    <2> QED BY <1>1, <1>4, <2>1, EmptySeq
  <1> QED BY <1>1, <1>4, <1>5, <1>6, <1>7
-----------------------------------------------------------------------------
(* The invariant, connection by connection.                                *)

PhaseTimer(pc) == CASE pc = "head" -> {"request"}
                    [] pc = "body" -> {"content"}
                    [] pc \in {"run", "flush", "write"} -> {"response"}
                    [] OTHER -> {}

FreshAt(k) == /\ spc[k] = "none" <=> k > conn
              /\ k > conn => c2s[k] = <<>> /\ s2c[k] = <<>>
FlushedAt(k) == spc[k] \notin {"run", "flush"} => out[k] = 0
FramedAt(k) == /\ Between(k) /\ c2s[k] # <<>> => Head(c2s[k]).len = Len(c2s[k]) - 1
               /\ spc[k] = "body" => Len(c2s[k]) = todo[k]
               /\ Working(k) => c2s[k] = <<>>
TimerAt(k) == timer[k] \subseteq PhaseTimer(spc[k])
At(k) == FreshAt(k) /\ FlushedAt(k) /\ FramedAt(k) /\ TimerAt(k)

LEMMA IInvIs ==
    /\ IInv <=> TypeOK /\ TalkInv /\ AnswerMatches /\ \A k \in Conn : At(k)
    /\ IInv' <=> TypeOK' /\ TalkInv' /\ AnswerMatches' /\ \A k \in Conn : At(k)'
  BY DEF IInv, FreshInv, FlushedInv, FramedInv, TimerFollowsPhase, At, FreshAt, FlushedAt,
         FramedAt, TimerAt, PhaseTimer

\* The client does nothing and the server acts on connection k only.
OnlyAt(k) ==
    /\ UNCHANGED clientVars
    /\ spc[k] # "none"
    /\ \A x \in Conn \ {k} :
          /\ c2s'[x] = c2s[x] /\ s2c'[x] = s2c[x] /\ spc'[x] = spc[x]
          /\ timer'[x] = timer[x] /\ serving'[x] = serving[x] /\ todo'[x] = todo[x]
          /\ out'[x] = out[x] /\ open'[x] = open[x]

LEMMA ServerStep ==
    ASSUME IInv, TypeOK', NEW k \in Conn, OnlyAt(k), spc'[k] # "none",
           FlushedAt(k)', FramedAt(k)', TimerAt(k)', k = conn => TalkInv'
    PROVE  IInv'
  <1>1. \A x \in Conn \ {k} : At(x)'
    BY IInvIs DEF At, FreshAt, FlushedAt, FramedAt, TimerAt, PhaseTimer, OnlyAt, clientVars,
                  Working, Between
  <1>2. conn' = conn /\ conn \in 0..MaxConn /\ k <= conn
    BY DEF OnlyAt, clientVars, IInv, TypeOK, FreshInv, Conn
  <1>3. At(k)'
    BY <1>2 DEF At, FreshAt, Conn
  <1>4. TalkInv'
    <2>1. CASE k # conn
      <3>1. conn # 0 => conn \in Conn \ {k}
        BY <1>2, <2>1 DEF Conn
      <3> QED BY <3>1 DEF IInv, TalkInv, Served, Asked, Answered, Begun, Working, Between, Owed,
                          OnlyAt, clientVars
    <2> QED BY <2>1
  <1>5. AnswerMatches'
    BY DEF IInv, AnswerMatches, OnlyAt, clientVars
  <1> QED BY <1>1, <1>3, <1>4, <1>5, IInvIs
-----------------------------------------------------------------------------
(* The server's steps.                                                     *)

\* find_resource: the socket's next place.
LEMMA FindResourceTo ==
    ASSUME TypeOK, NEW k \in Conn, NEW r, NEW others, FindResource(k, r, others)
    PROVE  \E p \in {"run", "left", "gone"}, b \in BOOLEAN :
              /\ spc' = [spc EXCEPT ![k] = p] /\ open' = [open EXCEPT ![k] = b]
              /\ timer' = [timer EXCEPT ![k] =
                              IF p = "run" THEN others \cup {"response"} ELSE others]
  <1>1. open = [open EXCEPT ![k] = open[k]] /\ open[k] \in BOOLEAN
    BY DEF TypeOK
  <1>2. CASE r.method = "GET"
    BY <1>1, <1>2 DEF FindResource
  <1>3. CASE r.method # "GET"
    BY <1>1, <1>3 DEF FindResource, Drop
  <1> QED BY <1>2, <1>3

LEMMA DropTo ==
    ASSUME TypeOK, NEW k \in Conn, Drop(k)
    PROVE  \E p \in {"left", "gone"}, b \in BOOLEAN :
              spc' = [spc EXCEPT ![k] = p] /\ open' = [open EXCEPT ![k] = b]
  <1>1. open = [open EXCEPT ![k] = open[k]] /\ open[k] \in BOOLEAN
    BY DEF TypeOK
  <1> QED BY <1>1 DEF Drop

LEMMA OnHeadInv == ASSUME IInv, NEW k \in Conn, OnHead(k) PROVE IInv'
  <1>1. PICK q \in Seq(TokenSet) : q = c2s[k]
    BY DEF IInv, TypeOK
  <1>2. /\ spc[k] = "head" /\ q # <<>> /\ Head(q).len = Len(q) - 1 /\ timer[k] \subseteq {"request"}
        /\ k <= conn
    <2>1. spc[k] = "head" /\ q # <<>>
      BY <1>1 DEF OnHead
    <2>2. At(k) /\ conn \in 0..MaxConn
      BY IInvIs DEF IInv, TypeOK
    <2> QED BY <1>1, <2>1, <2>2 DEF At, FramedAt, Between, TimerAt, PhaseTimer, FreshAt, Conn
  <1>3. PICK j \in 0..(Len(q) - 1), r \in [id : Nat, method : Text] :
           /\ r = [id |-> Head(q).req, method |-> Head(q).what]
           /\ c2s' = [c2s EXCEPT ![k] = SubSeq(q, j + 2, Len(q))]
           /\ serving' = [serving EXCEPT ![k] = r]
           /\ todo' = [todo EXCEPT ![k] = Head(q).len - j]
           /\ \/ /\ Head(q).len > 0
                 /\ spc' = [spc EXCEPT ![k] = "body"]
                 /\ timer' = [timer EXCEPT ![k] = CancelTimer(k, "request") \cup {"content"}]
                 /\ UNCHANGED open
              \/ /\ Head(q).len = 0
                 /\ FindResource(k, r, CancelTimer(k, "request"))
    BY <1>1, <1>2, HeadShape DEF OnHead, IInv, TypeOK
  <1>4. PICK rest \in Seq(TokenSet) :
           rest = SubSeq(q, j + 2, Len(q)) /\ Len(rest) = Len(q) - 1 - j
    <2>1. j + 2 \in 1..(Len(q) + 1) /\ Len(q) \in Nat /\ Len(q) + 1 - (j + 2) = Len(q) - 1 - j
      BY <1>2, HeadShape
    <2> QED BY <2>1, RestShape
  <1>5. /\ CancelTimer(k, "request") = {} /\ Len(rest) \in Nat /\ Len(q) \in Nat
        /\ Head(q).req \in Nat /\ Head(q).len - j = Len(rest)
    BY <1>2, <1>4, HeadShape, LenProperties DEF CancelTimer
  <1>6. PICK p \in {"body", "run", "left", "gone"}, b \in BOOLEAN :
           /\ spc' = [spc EXCEPT ![k] = p] /\ open' = [open EXCEPT ![k] = b]
           /\ timer' = [timer EXCEPT ![k] = PhaseTimer(p)]
           /\ p = "run" => Len(rest) = 0
    <2>1. CASE Head(q).len > 0
      <3>1. open = [open EXCEPT ![k] = open[k]] /\ open[k] \in BOOLEAN
        BY DEF IInv, TypeOK
      <3> QED BY <1>3, <1>5, <2>1, <3>1 DEF PhaseTimer
    <2>2. CASE Head(q).len = 0
      <3>1. FindResource(k, r, CancelTimer(k, "request")) /\ TypeOK
        BY <1>3, <2>2 DEF IInv
      <3>2. PICK p \in {"run", "left", "gone"}, b \in BOOLEAN :
               /\ spc' = [spc EXCEPT ![k] = p] /\ open' = [open EXCEPT ![k] = b]
               /\ timer' = [timer EXCEPT ![k] = IF p = "run"
                               THEN CancelTimer(k, "request") \cup {"response"}
                               ELSE CancelTimer(k, "request")]
        BY <3>1, FindResourceTo
      <3>3. timer' = [timer EXCEPT ![k] = PhaseTimer(p)]
        BY <1>5, <3>2 DEF PhaseTimer
      <3>4. Len(rest) = 0
        BY <1>5, <2>2
      <3> QED BY <3>2, <3>3, <3>4
    <2>3. Head(q).len \in Nat
      BY <1>2, HeadShape
    <2> QED BY <2>1, <2>2, <2>3
  <1>7. p = "run" => rest = <<>>
    BY <1>6, EmptySeq
  <1>8. UNCHANGED <<clientVars, s2c, copen, late, out>> /\ out[k] = 0
    BY <1>2, IInvIs DEF OnHead, At, FlushedAt
  <1>9. TypeOK'
    BY <1>3, <1>4, <1>5, <1>6, <1>8 DEF IInv, TypeOK, ServerPc, clientVars, PhaseTimer
  <1>10. /\ OnlyAt(k) /\ spc'[k] = p /\ c2s'[k] = rest /\ serving'[k].id = Head(q).req
         /\ timer'[k] = PhaseTimer(p) /\ todo'[k] = Len(rest) /\ s2c'[k] = s2c[k]
    BY <1>2, <1>3, <1>4, <1>5, <1>6, <1>8 DEF OnlyAt, IInv, TypeOK
  <1>11. FlushedAt(k)' /\ FramedAt(k)' /\ TimerAt(k)'
    BY <1>6, <1>7, <1>8, <1>10 DEF FlushedAt, FramedAt, TimerAt, Working, Between, AnswerLen
  <1>12. ASSUME k = conn PROVE TalkInv'
    <2>1. conn # 0 /\ ~Served
      BY <1>1, <1>2, <1>12 DEF Served, Conn
    <2>2. cpc = "head" => Asked /\ Head(q).req = request.id
      BY <1>1, <1>2, <1>12, <2>1 DEF IInv, TalkInv, Asked, Answered, Begun, Between
    <2>3. cpc = "head" => Asked'
      BY <1>6, <1>8, <1>10, <1>12, <2>2 DEF Asked, clientVars, Between, AnswerLen
    <2>4. ~Begun
      BY <1>1, <1>2, <1>12 DEF Begun
    <2> QED BY <1>8, <1>12, <2>1, <2>3, <2>4 DEF IInv, TalkInv, clientVars
  <1> QED BY <1>6, <1>9, <1>10, <1>11, <1>12, ServerStep

LEMMA OnBodyInv == ASSUME IInv, NEW k \in Conn, OnBody(k) PROVE IInv'
  <1>1. PICK q \in Seq(TokenSet) : q = c2s[k]
    BY DEF IInv, TypeOK
  <1>2. /\ spc[k] = "body" /\ Len(q) = todo[k] /\ Len(q) \in Nat /\ k <= conn
        /\ timer[k] \subseteq {"content"}
    <2>1. spc[k] = "body"
      BY DEF OnBody
    <2>2. At(k) /\ conn \in 0..MaxConn
      BY IInvIs DEF IInv, TypeOK
    <2> QED BY <1>1, <2>1, <2>2, LenProperties
            DEF At, FramedAt, TimerAt, PhaseTimer, FreshAt, Conn
  <1>3. SubSeq(q, todo[k] + 1, Len(q)) = <<>>
    BY <1>2, RestShape
  <1>4. /\ c2s' = [c2s EXCEPT ![k] = <<>>] /\ todo' = [todo EXCEPT ![k] = 0]
        /\ FindResource(k, serving[k], CancelTimer(k, "content"))
        /\ UNCHANGED <<clientVars, s2c, copen, late, serving, out>> /\ out[k] = 0
    BY <1>1, <1>2, <1>3, IInvIs DEF OnBody, At, FlushedAt
  <1>5. PICK p \in {"run", "left", "gone"}, b \in BOOLEAN :
           /\ spc' = [spc EXCEPT ![k] = p] /\ open' = [open EXCEPT ![k] = b]
           /\ timer' = [timer EXCEPT ![k] = PhaseTimer(p)]
    <2>1. TypeOK /\ CancelTimer(k, "content") = {}
      BY <1>2 DEF CancelTimer, IInv
    <2>2. PICK p \in {"run", "left", "gone"}, b \in BOOLEAN :
             /\ spc' = [spc EXCEPT ![k] = p] /\ open' = [open EXCEPT ![k] = b]
             /\ timer' = [timer EXCEPT ![k] = IF p = "run"
                             THEN CancelTimer(k, "content") \cup {"response"}
                             ELSE CancelTimer(k, "content")]
      BY <1>4, <2>1, FindResourceTo
    <2>3. timer' = [timer EXCEPT ![k] = PhaseTimer(p)]
      BY <2>1, <2>2 DEF PhaseTimer
    <2> QED BY <2>2, <2>3
  <1>6. TypeOK'
    BY <1>4, <1>5, EmptySeq DEF IInv, TypeOK, ServerPc, clientVars, PhaseTimer
  <1>7. OnlyAt(k) /\ spc'[k] = p /\ c2s'[k] = <<>> /\ timer'[k] = PhaseTimer(p)
    BY <1>2, <1>4, <1>5 DEF OnlyAt, IInv, TypeOK
  <1>8. FlushedAt(k)' /\ FramedAt(k)' /\ TimerAt(k)'
    BY <1>4, <1>5, <1>7 DEF FlushedAt, FramedAt, TimerAt
  <1>9. ASSUME k = conn PROVE TalkInv'
    <2>1. conn # 0 /\ ~Served
      BY <1>2, <1>9 DEF Served, Conn
    <2>2. cpc = "head" => Asked'
      BY <1>2, <1>4, <1>5, <1>7, <1>9, <2>1
         DEF Asked, Answered, Begun, clientVars, IInv, TalkInv
    <2>3. ~Begun
      BY <1>2, <1>9 DEF Begun
    <2> QED BY <1>4, <1>9, <2>1, <2>2, <2>3 DEF IInv, TalkInv, clientVars
  <1> QED BY <1>5, <1>6, <1>7, <1>8, <1>9, ServerStep

\* A connection that the server gives up, at whatever point.
LEMMA GiveUp ==
    ASSUME IInv, NEW k \in Conn, spc[k] # "none", Drop(k),
           timer' = [timer EXCEPT ![k] = {}], out' = [out EXCEPT ![k] = 0],
           UNCHANGED <<clientVars, c2s, s2c, copen, late, serving, todo>>
    PROVE  IInv'
  <1>1. PICK p \in {"left", "gone"}, b \in BOOLEAN :
           spc' = [spc EXCEPT ![k] = p] /\ open' = [open EXCEPT ![k] = b]
    BY DropTo DEF IInv
  <1>2. TypeOK'
    BY <1>1 DEF IInv, TypeOK, ServerPc, clientVars, AnswerLen
  <1>3. OnlyAt(k) /\ spc'[k] = p /\ timer'[k] = {} /\ out'[k] = 0
    BY <1>1 DEF OnlyAt, IInv, TypeOK
  <1>4. FlushedAt(k)' /\ FramedAt(k)' /\ TimerAt(k)' /\ ~Working(k)' /\ ~Between(k)'
    BY <1>1, <1>3 DEF FlushedAt, FramedAt, TimerAt, Working, Between
  <1>5. ASSUME k = conn PROVE TalkInv'
    <2>0. Owed(conn)' = 0 /\ Owed(conn) \in Nat /\ conn' = conn
      <3>1. out[k] \in 0..AnswerLen
        BY DEF IInv, TypeOK
      <3> QED BY <1>1, <1>3, <1>5, <3>1 DEF Owed, clientVars, AnswerLen
    <2>1. (Served => Served') /\ (Asked => Asked') /\ (Begun => Begun')
      BY <1>1, <1>3, <1>4, <1>5 DEF Served, Asked, Begun, clientVars
    <2>2. Answered => Answered'
      <3> SUFFICES ASSUME Answered PROVE Answered'
        OBVIOUS
      <3>1. PICK q \in Seq(TokenSet) : q = s2c[conn] /\ s2c' = s2c
        BY <1>5 DEF IInv, TypeOK
      <3>2. Begun' /\ q # <<>> /\ Head(q).req = request.id /\ Len(q) - 1 + Owed(conn) <= Head(q).len
        BY <2>1, <3>1 DEF Answered
      <3>3. Len(q) - 1 + 0 <= Head(q).len
        BY <2>0, <3>2, HeadShape
      <3> QED BY <2>0, <3>1, <3>2, <3>3 DEF Answered, clientVars
    <2>3. cpc = "body" => Len(s2c[conn]) + 0 <= need
      <3>1. s2c[conn] \in Seq(TokenSet) /\ Len(s2c[conn]) \in Nat /\ need \in Nat
        BY <1>5, LenProperties DEF IInv, TypeOK
      <3> QED BY <2>0, <3>1 DEF IInv, TalkInv
    <2> QED BY <1>5, <2>0, <2>1, <2>2, <2>3 DEF IInv, TalkInv, clientVars
  <1> QED BY <1>1, <1>2, <1>3, <1>4, <1>5, ServerStep

\* The timer of the phase is the only one to cancel.
LEMMA PhaseCancelled ==
    ASSUME IInv, NEW k \in Conn
    PROVE  /\ spc[k] = "head" => CancelTimer(k, "request") = {}
           /\ spc[k] = "body" => CancelTimer(k, "content") = {}
           /\ spc[k] \in {"run", "flush", "write"} => CancelTimer(k, "response") = {}
  <1>1. TimerAt(k)
    BY IInvIs DEF At
  <1> QED BY <1>1 DEF TimerAt, PhaseTimer, CancelTimer

LEMMA OnReadErrorInv == ASSUME IInv, NEW k \in Conn, OnReadError(k) PROVE IInv'
  <1>1. timer' = [timer EXCEPT ![k] = {}]
    BY PhaseCancelled DEF OnReadError
  <1>2. out[k] = 0
    BY IInvIs DEF At, FlushedAt, OnReadError
  <1>3. out' = [out EXCEPT ![k] = 0]
    BY <1>2 DEF OnReadError, IInv, TypeOK
  <1> QED BY <1>1, <1>3, GiveUp DEF OnReadError

\* Some of the answer is written, up to its end or not.
LEMMA PutInv ==
    ASSUME IInv, NEW k \in Conn, spc[k] = "run",
           NEW m \in out[k]..AnswerLen, Put(k, m),
           NEW p \in {"write", "flush"}, spc' = [spc EXCEPT ![k] = p],
           NEW o \in 0..AnswerLen, out' = [out EXCEPT ![k] = o],
           p = "write" => m = AnswerLen /\ o = 0,
           p = "flush" => m > out[k] /\ o = m,
           UNCHANGED <<clientVars, c2s, copen, open, timer, late, serving, todo>>
    PROVE  IInv'
  <1>1. /\ out[k] \in 0..AnswerLen /\ m \in Int /\ AnswerLen = 2
        /\ s2c[k] \in Seq(TokenSet) /\ Len(s2c[k]) \in Nat
    BY LenProperties DEF IInv, TypeOK, AnswerLen
  <1>2. PICK part \in Seq(TokenSet) :
           /\ part = SubSeq(Answer(k), out[k] + 1, m) /\ Len(part) = m - out[k]
           /\ m = out[k] => part = <<>>
           /\ out[k] = 0 /\ m > 0 => /\ part # <<>> /\ Head(part).req = serving[k].id
                                    /\ Head(part).len = AnswerLen - 1
    BY <1>1, PartShape DEF IInv
  <1>3. PICK q \in Seq(TokenSet) :
           /\ s2c' = [s2c EXCEPT ![k] = q]
           /\ open[k] => q = s2c[k] \o part
           /\ ~open[k] => q = s2c[k]
    <2>1. s2c[k] \o part \in Seq(TokenSet) /\ s2c = [s2c EXCEPT ![k] = s2c[k]]
      BY <1>1, <1>2, ConcatProperties DEF IInv, TypeOK
    <2> QED BY <1>1, <1>2, <2>1 DEF Put
  <1>4. TypeOK'
    BY <1>3 DEF IInv, TypeOK, ServerPc, clientVars
  <1>5. /\ OnlyAt(k) /\ spc'[k] = p /\ out'[k] = o /\ s2c'[k] = q
        /\ UNCHANGED <<c2s, serving, open, timer>>
    BY <1>3 DEF OnlyAt, IInv, TypeOK
  <1>6. At(k) /\ (Working(k) <=> out[k] < 2) /\ (Between(k) <=> out[k] = 2)
        /\ k \in Nat /\ k # 0
    BY <1>1, IInvIs DEF Working, Between, Conn
  <1>7. /\ Working(k)' <=> p = "flush" /\ m < 2
        /\ Between(k)' <=> m = 2
        /\ m = 2 \/ p = "flush"
    BY <1>1, <1>5 DEF Working, Between
  <1>8. FlushedAt(k)' /\ TimerAt(k)'
    BY <1>5, <1>6 DEF At, FlushedAt, TimerAt, PhaseTimer
  <1>9. FramedAt(k)'
    BY <1>1, <1>5, <1>6, <1>7 DEF At, FramedAt
  <1>10. ASSUME k = conn PROVE TalkInv'
    <2>1. /\ Owed(conn) = 2 - out[conn] /\ Owed(conn)' = 2 - m
          /\ UNCHANGED <<cpc, request, conn, socket_error, need, tag>>
      BY <1>1, <1>5, <1>10 DEF Owed, clientVars
    <2>2. open[k] => /\ Len(q) = Len(s2c[k]) + (m - out[k])
                     /\ s2c[k] # <<>> => q # <<>> /\ Head(q) = Head(s2c[k])
                     /\ s2c[k] = <<>> => q = part
      <3> SUFFICES ASSUME open[k]
                   PROVE  /\ Len(q) = Len(s2c[k]) + (m - out[k])
                          /\ s2c[k] # <<>> => q # <<>> /\ Head(q) = Head(s2c[k])
                          /\ s2c[k] = <<>> => q = part
        OBVIOUS
      <3>0. PICK old \in Seq(TokenSet) : old = s2c[k]
        BY <1>1
      <3>1. /\ Len(q) = Len(s2c[k]) + (m - out[k])
            /\ \A i \in 1..(Len(s2c[k]) + Len(part)) :
                  q[i] = IF i <= Len(s2c[k]) THEN s2c[k][i] ELSE part[i - Len(s2c[k])]
        <4>1. q = old \o part
          BY <1>3, <3>0
        <4>2. /\ Len(q) = Len(old) + Len(part)
              /\ \A i \in 1..(Len(old) + Len(part)) :
                    q[i] = IF i <= Len(old) THEN old[i] ELSE part[i - Len(old)]
          BY <1>2, <4>1, ConcatProperties
        <4> QED BY <1>2, <3>0, <4>2
      <3>2. s2c[k] = <<>> => q = part
        BY <1>2, <1>3, ConcatEmptySeq
      <3>3. ASSUME s2c[k] # <<>> PROVE q # <<>> /\ Head(q) = Head(s2c[k])
        <4>0. Len(old) \in Nat /\ Len(part) \in Nat /\ Len(old) # 0
          BY <1>2, <3>0, <3>3, EmptySeq, LenProperties
        <4>1. Len(s2c[k]) > 0 /\ Len(part) \in Nat
          BY <3>0, <4>0
        <4>2. q[1] = s2c[k][1]
          BY <1>1, <3>1, <4>1
        <4>3. q # <<>>
          BY <1>3, <3>3, <4>1, <1>1, <1>2, <3>1, EmptySeq
        <4> QED BY <1>1, <4>2, <4>3
      <3> QED BY <3>1, <3>2, <3>3
    <2>3. Begun => Begun'
      BY <1>1, <1>5, <1>6, <1>7, <1>10, <2>1 DEF Begun
    <2>4. ASSUME Served, s2c[conn] = <<>> PROVE Served' /\ s2c'[conn] = <<>>
      <3>1. out[k] = 2 /\ m = 2
        BY <1>1, <1>6, <1>10, <2>4 DEF Served
      <3>2. q = <<>>
        BY <1>2, <1>3, <1>10, <2>2, <2>4, <3>1
      <3> QED BY <1>5, <1>7, <1>10, <2>1, <2>4, <3>1, <3>2 DEF Served
    <2>5. ASSUME Asked PROVE Asked' \/ Answered'
      <3>1. CASE open[k] /\ Working(k)
        <4>1. /\ out[k] = 0 /\ serving[k].id = request.id /\ s2c[k] = <<>> /\ c2s[k] = <<>>
              /\ m > 0
          BY <1>1, <1>6, <1>10, <2>5, <3>1 DEF Asked, At, FramedAt
        <4>2. q = part /\ Len(q) = m /\ Head(q).req = request.id /\ Head(q).len = 1 /\ q # <<>>
          BY <1>1, <1>2, <2>2, <3>1, <4>1
        <4>3. Begun'
          BY <1>1, <1>5, <1>7, <1>10, <2>1, <4>1 DEF Begun
        <4>4. m - 1 + (2 - m) <= 1
          BY <1>1
        <4>5. Answered'
          BY <1>5, <1>10, <2>1, <4>2, <4>3, <4>4 DEF Answered
        <4> QED BY <4>5
      <3>2. CASE ~open[k] \/ ~Working(k)
        <4>1. q = <<>>
          <5>1. CASE ~open[k]
            BY <1>3, <1>10, <2>5, <5>1 DEF Asked
          <5>2. CASE ~Working(k) /\ open[k]
            <6>1. out[k] = 2 /\ m = 2
              BY <1>1, <1>6, <5>2
            <6> QED BY <1>2, <1>10, <2>2, <2>5, <5>2, <6>1 DEF Asked
          <5> QED BY <3>2, <5>1, <5>2
        <4>2. Working(k) => c2s[k] = <<>> /\ serving[k].id = request.id
          BY <1>6, <1>10, <2>5 DEF Asked, At, FramedAt
        <4>3. ~Working(k) => Between(k) /\ m = 2
          BY <1>1, <1>6
        <4>4. Working(k)' => Working(k) /\ ~open[k]
          BY <1>1, <1>7, <3>2, <4>3
        <4>5. spc'[k] # "body"
          BY <1>5
        <4> QED BY <1>5, <1>10, <2>1, <2>5, <4>1, <4>2, <4>3, <4>4, <4>5 DEF Asked
      <3> QED BY <3>1, <3>2
    <2>6. ASSUME Answered PROVE Answered'
      <3>1. PICK h \in TokenSet : h = Head(s2c[k]) /\ h.len \in Nat
        BY <1>1, <1>10, <2>6, HeadShape DEF Answered
      <3>2. /\ s2c[k] # <<>> /\ h.req = request.id /\ Len(s2c[k]) - 1 + (2 - out[k]) <= h.len
        BY <1>10, <2>1, <2>6, <3>1 DEF Answered
      <3>3. q # <<>> /\ Head(q) = h /\ (Len(q) = Len(s2c[k]) + (m - out[k]) \/ Len(q) = Len(s2c[k]))
        BY <1>3, <2>2, <3>1, <3>2
      <3>4. Len(q) - 1 + (2 - m) <= h.len
        BY <1>1, <3>1, <3>2, <3>3
      <3> QED BY <1>5, <1>10, <2>1, <2>3, <2>6, <3>2, <3>3, <3>4 DEF Answered
    <2>7. ASSUME cpc = "body" PROVE Len(q) + (2 - m) <= need
      <3>1. Len(s2c[k]) + (2 - out[k]) <= need /\ need \in Nat
        BY <1>10, <2>1, <2>7 DEF IInv, TalkInv, TypeOK
      <3>2. Len(q) = Len(s2c[k]) + (m - out[k]) \/ Len(q) = Len(s2c[k])
        BY <1>3, <2>2
      <3> QED BY <1>1, <3>1, <3>2
    <2> QED BY <1>5, <1>10, <2>1, <2>3, <2>4, <2>5, <2>6, <2>7 DEF IInv, TalkInv
  <1> QED BY <1>4, <1>5, <1>8, <1>9, <1>10, ServerStep

LEMMA AbandonInv ==
    ASSUME IInv, NEW k \in Conn, spc[k] \in {"run", "flush"}, Abandon(k),
           UNCHANGED <<clientVars, c2s, s2c, copen, late, serving, todo>>
    PROVE  IInv'
  <1>1. timer' = [timer EXCEPT ![k] = {}] /\ spc[k] # "none"
    BY PhaseCancelled DEF Abandon
  <1> QED BY <1>1, GiveUp DEF Abandon

LEMMA RunResourceInv == ASSUME IInv, NEW k \in Conn, RunResource(k) PROVE IInv'
  <1>1. CASE Abandon(k) /\ UNCHANGED s2c
    BY <1>1, AbandonInv DEF RunResource
  <1>2. CASE /\ spc' = [spc EXCEPT ![k] = "write"]
             /\ Put(k, AnswerLen)
             /\ out' = [out EXCEPT ![k] = 0]
             /\ UNCHANGED <<open, timer>>
    <2>1. out[k] \in 0..AnswerLen /\ AnswerLen \in out[k]..AnswerLen /\ 0 \in 0..AnswerLen
      BY DEF IInv, TypeOK, AnswerLen
    <2>2. spc[k] = "run" /\ UNCHANGED <<clientVars, c2s, copen, open, timer, late, serving, todo>>
      BY <1>2 DEF RunResource
    <2> QED BY <1>2, <2>1, <2>2, PutInv
  <1> QED BY <1>1, <1>2 DEF RunResource

LEMMA FlushInv == ASSUME IInv, NEW k \in Conn, Flush(k) PROVE IInv'
  <1>1. PICK m \in (out[k] + 1)..AnswerLen : Put(k, m) /\ out' = [out EXCEPT ![k] = m]
    BY DEF Flush
  <1>2. m \in out[k]..AnswerLen /\ m \in 0..AnswerLen /\ m > out[k]
    <2>1. PICK f \in 0..2 : f = out[k]
      BY DEF IInv, TypeOK, AnswerLen
    <2>2. m \in (f + 1)..2
      BY <1>1, <2>1 DEF AnswerLen
    <2>3. m \in f..2 /\ m \in 0..2 /\ m > f
      BY <2>2
    <2> QED BY <2>1, <2>3 DEF AnswerLen
  <1>3. /\ spc[k] = "run" /\ spc' = [spc EXCEPT ![k] = "flush"]
        /\ UNCHANGED <<clientVars, c2s, copen, open, timer, late, serving, todo>>
    BY DEF Flush
  <1> QED BY <1>1, <1>2, <1>3, PutInv

LEMMA OnFlushedInv == ASSUME IInv, NEW k \in Conn, OnFlushed(k) PROVE IInv'
  <1>0. spc[k] = "flush" /\ UNCHANGED <<clientVars, c2s, s2c, copen, late, serving, todo>>
    BY DEF OnFlushed
  <1>1. CASE Abandon(k)
    BY <1>0, <1>1, AbandonInv
  <1>2. CASE spc' = [spc EXCEPT ![k] = "run"] /\ UNCHANGED <<open, timer, out>>
    <2>1. TypeOK'
      BY <1>0, <1>2 DEF IInv, TypeOK, ServerPc, clientVars
    <2>2. OnlyAt(k) /\ spc'[k] = "run"
      BY <1>0, <1>2 DEF OnlyAt, IInv, TypeOK
    <2>3. (Working(k)' <=> Working(k)) /\ (Between(k)' <=> Between(k)) /\ Owed(k)' = Owed(k)
      BY <1>0, <1>2, <2>2 DEF Working, Between, Owed
    <2>4. FlushedAt(k)' /\ FramedAt(k)' /\ TimerAt(k)'
      BY <1>0, <1>2, <2>2, <2>3, IInvIs DEF At, FlushedAt, FramedAt, TimerAt, PhaseTimer
    <2>5. k = conn => TalkInv'
      BY <1>0, <1>2, <2>2, <2>3
         DEF IInv, TalkInv, Served, Asked, Answered, Begun, clientVars
    <2> QED BY <2>1, <2>2, <2>4, <2>5, ServerStep
  <1> QED BY <1>1, <1>2 DEF OnFlushed

LEMMA OnWrittenInv == ASSUME IInv, NEW k \in Conn, OnWritten(k) PROVE IInv'
  <1>1. CASE Drop(k) /\ timer' = [timer EXCEPT ![k] = CancelTimer(k, "response")]
    <2>1. timer' = [timer EXCEPT ![k] = {}] /\ out[k] = 0
      BY <1>1, PhaseCancelled, IInvIs DEF OnWritten, At, FlushedAt
    <2>2. out' = [out EXCEPT ![k] = 0]
      BY <2>1 DEF OnWritten, IInv, TypeOK
    <2> QED BY <1>1, <2>1, <2>2, GiveUp DEF OnWritten
  <1>2. CASE /\ spc' = [spc EXCEPT ![k] = "head"]
             /\ timer' = [timer EXCEPT ![k] = CancelTimer(k, "response") \cup {"request"}]
             /\ UNCHANGED open
    <2>1. /\ spc[k] = "write" /\ UNCHANGED <<clientVars, c2s, s2c, copen, late, serving, todo, out>>
      BY DEF OnWritten
    <2>2. timer' = [timer EXCEPT ![k] = {"request"}]
      BY <1>2, <2>1, PhaseCancelled
    <2>3. TypeOK'
      BY <1>2, <2>1, <2>2 DEF IInv, TypeOK, ServerPc, clientVars
    <2>4. OnlyAt(k) /\ spc'[k] = "head" /\ timer'[k] = {"request"}
      BY <1>2, <2>1, <2>2 DEF OnlyAt, IInv, TypeOK
    <2>5. FramedAt(k)
      BY IInvIs DEF At
    <2>6. FlushedAt(k)' /\ FramedAt(k)' /\ TimerAt(k)'
      BY <2>1, <2>4, <2>5, IInvIs DEF At, FlushedAt, FramedAt, TimerAt, PhaseTimer, Working, Between
    <2>7. ASSUME k = conn PROVE TalkInv'
      <3>1. (Served => Served') /\ (Asked => Asked') /\ (Answered => Answered')
        BY <2>1, <2>4, <2>7
           DEF Served, Asked, Answered, Begun, Working, Between, Owed, clientVars
      <3>2. (Begun => Begun') /\ Owed(conn)' = Owed(conn)
        BY <2>1, <2>4, <2>7 DEF Begun, Working, Owed, clientVars
      <3> QED BY <2>1, <2>7, <3>1, <3>2 DEF IInv, TalkInv, clientVars
    <2> QED BY <2>3, <2>4, <2>6, <2>7, ServerStep
  <1> QED BY <1>1, <1>2 DEF OnWritten

LEMMA TimerExpiresInv == ASSUME IInv, NEW k \in Conn, TimerExpires(k) PROVE IInv'
  <1>1. PICK phase \in timer[k] : /\ timer' = [timer EXCEPT ![k] = @ \ {phase}]
                                  /\ late' = [late EXCEPT ![k] = @ \cup {phase}]
    BY DEF TimerExpires
  <1>2. UNCHANGED <<clientVars, c2s, s2c, copen, open, spc, serving, todo, out>>
    BY DEF TimerExpires
  <1>3. TypeOK'
    BY <1>1, <1>2 DEF IInv, TypeOK, clientVars
  <1>4. At(k) /\ spc[k] # "none"
    <2>1. At(k)
      BY IInvIs
    <2> QED BY <1>1, <2>1 DEF At, TimerAt, PhaseTimer
  <1>5. OnlyAt(k) /\ timer'[k] = timer[k] \ {phase}
    BY <1>1, <1>2, <1>4 DEF OnlyAt, IInv, TypeOK
  <1>6. FlushedAt(k)' /\ FramedAt(k)' /\ TimerAt(k)'
    BY <1>2, <1>4, <1>5 DEF At, FlushedAt, FramedAt, TimerAt, PhaseTimer, Working, Between
  <1>7. TalkInv'
    BY <1>2 DEF IInv, TalkInv, Served, Asked, Answered, Begun, Working, Between, Owed, clientVars
  <1> QED BY <1>2, <1>3, <1>4, <1>5, <1>6, <1>7, ServerStep

LEMMA TimerHandlerInv == ASSUME IInv, NEW k \in Conn, TimerHandler(k) PROVE IInv'
  <1>1. /\ open' = [open EXCEPT ![k] = FALSE]
        /\ spc' = [spc EXCEPT ![k] = IF @ = "left" THEN "gone" ELSE @]
        /\ UNCHANGED <<clientVars, c2s, s2c, copen, timer, serving, todo, out>>
        /\ \E phase \in late[k] : late' = [late EXCEPT ![k] = @ \ {phase}]
    BY DEF TimerHandler
  <1>2. TypeOK'
    BY <1>1 DEF IInv, TypeOK, ServerPc, clientVars
  <1>3. \A x \in Conn : spc'[x] = spc[x] \/ (spc[x] = "left" /\ spc'[x] = "gone")
    BY <1>1 DEF IInv, TypeOK
  <1>4. \A x \in Conn : At(x) => At(x)'
    BY <1>1, <1>3 DEF At, FreshAt, FlushedAt, FramedAt, TimerAt, PhaseTimer, Working, Between,
                      clientVars
  <1>5. TalkInv'
    <2>1. conn = 0 \/ conn \in Conn
      BY DEF IInv, TypeOK, Conn
    <2>2. conn # 0 /\ ~open[conn] => ~open'[conn]
      BY <1>1, <2>1 DEF IInv, TypeOK
    <2> QED BY <1>1, <1>3, <2>1, <2>2
            DEF IInv, TalkInv, Served, Asked, Answered, Begun, Working, Between, Owed, clientVars
  <1> QED BY <1>1, <1>2, <1>4, <1>5, IInvIs DEF AnswerMatches, clientVars
-----------------------------------------------------------------------------
(* The client's steps.  A connection's own invariant changes only where    *)
(* the step reads from it or writes to it.                                 *)

LEMMA RequestInv ==
    ASSUME IInv, NEW m \in Methods, NEW b \in Bodies, Request(m, b) PROVE IInv'
  <1>1. /\ cpc = "idle" /\ sent' = sent + 1 /\ cpc' = "connect"
        /\ request' = [id |-> sent + 1, method |-> m, body |-> b]
        /\ UNCHANGED <<conn, socket_error, need, tag, returned, c2s, s2c, copen, open, spc,
                       timer, late, serving, todo, out>>
    BY DEF Request, serverVars
  <1>2. TypeOK'
    <2>1. m \in Text /\ b \in Seq(Text)
      BY ConstAssumption DEF Text
    <2> QED BY <1>1, <2>1 DEF IInv, TypeOK
  <1>3. \A k \in Conn : At(k) => At(k)'
    BY <1>1 DEF At, FreshAt, FlushedAt, FramedAt, TimerAt, Working, Between
  <1>4. TalkInv'
    BY <1>1 DEF IInv, TalkInv, Served, Working
  <1> QED BY <1>1, <1>2, <1>3, <1>4, IInvIs DEF AnswerMatches

LEMMA ConnectInv == ASSUME IInv, Connect PROVE IInv'
  <1>1. /\ cpc = "connect" /\ cpc' = "write"
        /\ UNCHANGED <<request, sent, need, tag, returned, c2s, s2c, late, serving, todo, out>>
    BY DEF Connect
  <1>2. CASE /\ ~socket_error /\ conn # 0
             /\ UNCHANGED <<conn, copen, socket_error, open, spc, timer>>
    <2>1. TypeOK'
      BY <1>1, <1>2 DEF IInv, TypeOK
    <2>2. \A k \in Conn : At(k) => At(k)'
      BY <1>1, <1>2 DEF At, FreshAt, FlushedAt, FramedAt, TimerAt, Working, Between
    <2>3. TalkInv'
      BY <1>1, <1>2 DEF IInv, TalkInv, Served, Working
    <2> QED BY <1>1, <2>1, <2>2, <2>3, IInvIs DEF AnswerMatches
  <1>3. CASE /\ conn < MaxConn
             /\ conn' = conn + 1
             /\ copen' = [k \in Conn |-> k = conn + 1]
             /\ socket_error' = FALSE
             /\ Accept(conn + 1)
    <2>1. PICK n \in Conn : n = conn + 1
      BY <1>3, ConstAssumption DEF IInv, TypeOK, Conn
    <2>2. /\ open' = [open EXCEPT ![n] = TRUE] /\ spc' = [spc EXCEPT ![n] = "head"]
          /\ timer' = [timer EXCEPT ![n] = {"request"}] /\ conn' = n
      BY <1>3, <2>1 DEF Accept
    <2>3. TypeOK'
      <3>1. /\ open' \in [Conn -> BOOLEAN] /\ spc' \in [Conn -> ServerPc]
            /\ timer' \in [Conn -> SUBSET {"request", "content", "response"}]
        BY <2>2 DEF IInv, TypeOK, ServerPc
      <3>2. copen' \in [Conn -> BOOLEAN] /\ conn' \in 0..MaxConn
        BY <1>3, <2>2 DEF Conn
      <3> QED BY <1>1, <1>3, <3>1, <3>2 DEF IInv, TypeOK
    <2>4. c2s[n] = <<>> /\ s2c[n] = <<>>
      BY <2>1 DEF IInv, FreshInv, TypeOK, Conn
    <2>5. spc'[n] = "head" /\ timer'[n] = {"request"}
      BY <2>2 DEF IInv, TypeOK
    <2>6. At(n)'
      <3>01. conn \in Int /\ n > conn
        BY <2>1 DEF IInv, TypeOK
      <3>02. FreshAt(n) /\ FlushedAt(n)
        BY IInvIs DEF At
      <3>1. out[n] = 0
        BY <3>01, <3>02 DEF FreshAt, FlushedAt
      <3> QED BY <1>1, <2>2, <2>4, <2>5, <3>1
              DEF At, FreshAt, FlushedAt, FramedAt, TimerAt, PhaseTimer, Conn, Working
    <2>7. ASSUME NEW k \in Conn, k # n PROVE At(k)'
      <3>1. At(k) /\ spc'[k] = spc[k] /\ timer'[k] = timer[k]
        BY <2>2, <2>7, IInvIs DEF IInv, TypeOK
      <3>2. k > conn <=> k > conn'
        BY <2>1, <2>2, <2>7 DEF IInv, TypeOK, Conn
      <3> QED BY <1>1, <3>1, <3>2
              DEF At, FreshAt, FlushedAt, FramedAt, TimerAt, Working, Between
    <2>8. TalkInv'
      BY <1>1, <1>3, <2>1, <2>2, <2>4, <2>5 DEF TalkInv, Served, Working, Conn
    <2> QED BY <1>1, <2>3, <2>6, <2>7, <2>8, IInvIs DEF AnswerMatches, IInv
  <1> QED BY <1>2, <1>3 DEF Connect

\* An exception: from now on nothing is read from the connection.
LEMMA ThrowInv ==
    ASSUME IInv, Throw, TypeOK',
           UNCHANGED <<c2s, spc, timer, todo, out>>,
           \A k \in Conn : k > conn => s2c'[k] = s2c[k]
    PROVE  IInv'
  <1>1. /\ cpc' = "idle" /\ socket_error' = TRUE /\ conn' = conn /\ returned' = returned
    BY DEF Throw
  <1>2. \A k \in Conn : At(k) => At(k)'
    BY <1>1 DEF At, FreshAt, FlushedAt, FramedAt, TimerAt, Working, Between
  <1>3. TalkInv'
    BY <1>1 DEF TalkInv
  <1> QED BY <1>1, <1>2, <1>3, IInvIs DEF AnswerMatches

LEMMA ConnectFailsInv == ASSUME IInv, ConnectFails PROVE IInv'
  <1>1. /\ Throw /\ copen' \in {copen, [k \in Conn |-> FALSE]}
        /\ UNCHANGED <<c2s, s2c, open, spc, timer, late, serving, todo, out>>
    BY DEF ConnectFails, serverVars
  <1>2. TypeOK'
    BY <1>1 DEF IInv, TypeOK, Throw
  <1> QED BY <1>1, <1>2, ThrowInv

LEMMA ReadFailsInv == ASSUME IInv, ReadFails PROVE IInv'
  <1>1. /\ cpc \in {"head", "body"} /\ Throw /\ s2c' = [s2c EXCEPT ![conn] = <<>>]
        /\ UNCHANGED <<c2s, copen, open, spc, timer, late, serving, todo, out>>
    BY DEF ReadFails, serverVars
  <1>2. conn \in Conn
    BY <1>1 DEF IInv, TypeOK, TalkInv, Conn
  <1>3. TypeOK'
    BY <1>1, <1>2, EmptySeq DEF IInv, TypeOK, Throw
  <1>4. \A k \in Conn : k > conn => s2c'[k] = s2c[k]
    BY <1>1 DEF IInv, TypeOK, Conn
  <1> QED BY <1>1, <1>3, <1>4, ThrowInv

LEMMA WriteInv == ASSUME IInv, Write PROVE IInv'
  <1>1. /\ cpc = "write" /\ UNCHANGED <<s2c, copen, open, spc, timer, late, serving, todo, out>>
    BY DEF Write, serverVars
  <1>2. conn \in Conn /\ Served /\ s2c[conn] = <<>> /\ ~socket_error
    BY <1>1 DEF IInv, TypeOK, TalkInv, Conn
  <1>3. CASE Throw /\ UNCHANGED c2s
    <2>1. TypeOK'
      BY <1>1, <1>3 DEF IInv, TypeOK, Throw
    <2> QED BY <1>1, <1>3, <2>1, ThrowInv
  <1>4. CASE /\ c2s' = IF open[conn]
                       THEN [c2s EXCEPT ![conn] =
                               @ \o Message(request.id, request.method, request.body)]
                       ELSE c2s
             /\ cpc' = "head"
             /\ UNCHANGED <<request, sent, conn, socket_error, need, tag, returned>>
    <2>1. PICK m \in Seq(TokenSet) :
             /\ m = Message(request.id, request.method, request.body) /\ m # <<>>
             /\ Head(m).req = request.id /\ Head(m).len = Len(m) - 1
      <3>1. request.id \in Nat /\ request.method \in Text /\ request.body \in Seq(Text)
        BY DEF IInv, TypeOK
      <3> QED BY <3>1, MessageShape
    <2>2. c2s[conn] \o m = m
      BY <1>2, ConcatEmptySeq DEF Served
    <2>3. PICK q \in Seq(TokenSet) :
             c2s' = [c2s EXCEPT ![conn] = q] /\ (q = m \/ q = <<>>)
      <3>1. c2s = [c2s EXCEPT ![conn] = <<>>]
        BY <1>2 DEF Served, IInv, TypeOK
      <3> QED BY <1>4, <2>1, <2>2, <3>1, EmptySeq
    <2>4. TypeOK'
      <3>1. c2s' \in [Conn -> Seq(TokenSet)]
        BY <2>3 DEF IInv, TypeOK
      <3> QED BY <1>1, <1>4, <3>1 DEF IInv, TypeOK
    <2>5. c2s'[conn] = q /\ \A k \in Conn \ {conn} : c2s'[k] = c2s[k]
      BY <1>2, <2>3 DEF IInv, TypeOK
    <2>6. ASSUME NEW k \in Conn, k # conn PROVE At(k)'
      <3>1. At(k) /\ c2s'[k] = c2s[k]
        BY <2>5, <2>6, IInvIs
      <3> QED BY <1>1, <1>4, <3>1 DEF At, FreshAt, FlushedAt, FramedAt, TimerAt, Working, Between
    <2>7. At(conn)'
      <3>1. At(conn)
        BY <1>2, IInvIs
      <3>2. FreshAt(conn)' /\ FlushedAt(conn)' /\ TimerAt(conn)'
        BY <1>1, <1>2, <1>4, <3>1 DEF At, FreshAt, FlushedAt, TimerAt, Conn
      <3>3. FramedAt(conn)'
        BY <1>1, <1>2, <1>4, <2>1, <2>3, <2>5 DEF FramedAt, Served, Working, Between
      <3> QED BY <3>2, <3>3 DEF At
    <2>8. Asked'
      BY <1>1, <1>2, <1>4, <2>1, <2>3, <2>5 DEF Asked, Served, Working, Between
    <2>9. TalkInv'
      BY <1>2, <1>4, <2>8 DEF TalkInv, Conn
    <2> QED BY <1>4, <2>4, <2>6, <2>7, <2>9, IInvIs DEF AnswerMatches
  <1> QED BY <1>3, <1>4 DEF Write

\* Something of connection conn is read by the client; the rest stays.
LEMMA ClientReads ==
    ASSUME IInv, TypeOK', conn \in Conn, NEW q \in Seq(TokenSet),
           s2c' = [s2c EXCEPT ![conn] = q],
           UNCHANGED <<request, conn, c2s, spc, timer, serving, todo, out>>,
           TalkInv', AnswerMatches'
    PROVE  IInv'
  <1>1. \A k \in Conn : k > conn => s2c'[k] = s2c[k]
    BY DEF IInv, TypeOK, Conn
  <1>2. \A k \in Conn : At(k) => At(k)'
    BY <1>1 DEF At, FreshAt, FlushedAt, FramedAt, TimerAt, Working, Between
  <1> QED BY <1>2, IInvIs

\* An answer that the client reads to its end was the one it waited for, and
\* leaves the connection as it was before the request.
LEMMA ReadHeadInv == ASSUME IInv, ReadHead PROVE IInv'
  <1>1. /\ cpc = "head" /\ s2c[conn] # <<>>
        /\ UNCHANGED <<request, sent, conn, socket_error, c2s, copen, open, spc, timer, late,
                       serving, todo, out>>
    BY DEF ReadHead, serverVars
  <1>2. conn \in Conn /\ conn # 0 /\ ~socket_error
    BY <1>1 DEF IInv, TypeOK, TalkInv, Conn
  <1>3. PICK q \in Seq(TokenSet) : q = s2c[conn]
    BY <1>2 DEF IInv, TypeOK
  <1>4. /\ Begun /\ q # <<>> /\ Head(q).req = request.id
        /\ Len(q) - 1 + Owed(conn) <= Head(q).len /\ Owed(conn) \in Nat
        /\ Owed(conn) = 0 => ~Working(conn)
        /\ Len(q) \in Nat \ {0} /\ Head(q).len \in Nat /\ Head(q).req \in Nat
    <2>1. Answered
      BY <1>1 DEF IInv, TalkInv, Asked
    <2>2. out[conn] \in 0..2
      BY <1>2 DEF IInv, TypeOK, AnswerLen
    <2>3. Owed(conn) \in Nat /\ (Owed(conn) = 0 => ~Working(conn))
      BY <2>2 DEF Owed, Working, AnswerLen
    <2> QED BY <1>1, <1>3, <2>1, <2>3, HeadShape DEF Answered
  <1>5. PICK j \in 0..(Len(q) - 1) :
           /\ s2c' = [s2c EXCEPT ![conn] = SubSeq(q, j + 2, Len(q))]
           /\ \/ Head(q).len = j /\ Return(Head(q).req)
              \/ /\ Head(q).len > j
                 /\ need' = Head(q).len - j /\ tag' = Head(q).req /\ cpc' = "body"
                 /\ UNCHANGED returned
    BY <1>3 DEF ReadHead
  <1>6. PICK rest \in Seq(TokenSet) :
           /\ rest = SubSeq(q, j + 2, Len(q)) /\ Len(rest) = Len(q) - 1 - j
           /\ Len(rest) \in Nat
           /\ Len(rest) = 0 => rest = <<>>
    <2>1. PICK n \in Nat \ {0} : n = Len(q)
      BY <1>4
    <2>2. j \in 0..(n - 1)
      BY <1>4, <2>1
    <2>3. j + 2 \in 1..(n + 1) /\ n + 1 - (j + 2) = n - 1 - j
      BY <2>2
    <2> QED BY <2>1, <2>2, <2>3, RestShape, EmptySeq, LenProperties
  <1>7. s2c' \in [Conn -> Seq(TokenSet)] /\ s2c'[conn] = rest
    BY <1>2, <1>5, <1>6 DEF IInv, TypeOK
  <1>8. /\ Begun' /\ Owed(conn)' = Owed(conn)
        /\ Owed(conn) = 0 => Served'
    BY <1>1, <1>4 DEF Begun, Served, Owed, Working
  <1>9. CASE Head(q).len = j /\ Return(Head(q).req)
    <2>1. /\ returned' = [id |-> request.id, tag |-> Head(q).req]
          /\ cpc' = "idle" /\ need' = 0 /\ tag' = 0
      BY <1>9 DEF Return
    <2>0. rest = <<>> /\ Owed(conn) = 0
      <3>1. Len(rest) = 0 /\ Owed(conn) = 0
        BY <1>4, <1>6, <1>9
      <3> QED BY <1>6, <3>1
    <2>2. TypeOK'
      BY <1>1, <1>4, <1>7, <2>1 DEF IInv, TypeOK
    <2>3. TalkInv' /\ AnswerMatches'
      BY <1>1, <1>4, <1>7, <1>8, <2>0, <2>1 DEF TalkInv, AnswerMatches
    <2> QED BY <1>1, <1>2, <1>5, <1>6, <2>2, <2>3, ClientReads
  <1>10. CASE /\ Head(q).len > j
              /\ need' = Head(q).len - j /\ tag' = Head(q).req /\ cpc' = "body"
              /\ UNCHANGED returned
    <2>1. TypeOK'
      <3>1. need' \in Nat /\ tag' \in Nat
        BY <1>4, <1>6, <1>10, LenProperties
      <3> QED BY <1>1, <1>7, <1>10, <3>1 DEF IInv, TypeOK
    <2>2. TalkInv' /\ AnswerMatches'
      <3>1. PICK l \in Nat, w \in Nat, n \in Nat \ {0}, o \in Nat :
               l = Head(q).len /\ w = Len(rest) /\ n = Len(q) /\ o = Owed(conn)
        BY <1>4, <1>6
      <3>2. w = n - 1 - j /\ n - 1 + o <= l /\ need' = l - j
        BY <1>4, <1>6, <1>10, <3>1
      <3>3. j \in 0..(n - 1)
        BY <3>1
      <3>4. w + o <= need'
        BY <3>2, <3>3
      <3>5. Len(rest) + Owed(conn) <= need'
        BY <3>1, <3>4
      <3> QED BY <1>1, <1>2, <1>4, <1>7, <1>8, <1>10, <3>5 DEF TalkInv, AnswerMatches, IInv
    <2> QED BY <1>1, <1>2, <1>5, <1>6, <2>1, <2>2, ClientReads
  <1> QED BY <1>5, <1>9, <1>10

LEMMA ReadBodyInv == ASSUME IInv, ReadBody PROVE IInv'
  <1>1. /\ cpc = "body" /\ s2c' = [s2c EXCEPT ![conn] = SubSeq(@, need + 1, Len(@))]
        /\ returned' = [id |-> request.id, tag |-> tag]
        /\ cpc' = "idle" /\ need' = 0 /\ tag' = 0
        /\ UNCHANGED <<request, sent, conn, socket_error, c2s, copen, open, spc, timer, late,
                       serving, todo, out>>
    BY DEF ReadBody, Return, serverVars
  <1>2. conn \in Conn /\ Served /\ Len(s2c[conn]) = need /\ tag = request.id
    <2>1. /\ conn \in Conn /\ Begun /\ Len(s2c[conn]) + Owed(conn) <= need /\ tag = request.id
          /\ Len(s2c[conn]) >= need
      BY <1>1 DEF IInv, TypeOK, TalkInv, Conn, ReadBody
    <2>2. need \in Nat /\ Len(s2c[conn]) \in Nat /\ out[conn] \in 0..2
      BY <2>1, LenProperties DEF IInv, TypeOK, AnswerLen
    <2>3. Owed(conn) \in Nat /\ (Owed(conn) = 0 => ~Working(conn))
      BY <2>2 DEF Owed, Working, AnswerLen
    <2>4. Owed(conn) = 0 /\ Len(s2c[conn]) = need
      BY <2>1, <2>2, <2>3
    <2> QED BY <2>1, <2>3, <2>4 DEF Begun, Served
  <1>3. s2c' = [s2c EXCEPT ![conn] = <<>>]
    <2>1. PICK q \in Seq(TokenSet) : q = s2c[conn]
      BY <1>2 DEF IInv, TypeOK
    <2>2. SubSeq(q, need + 1, Len(q)) = <<>>
      BY <1>2, <2>1, RestShape DEF IInv, TypeOK
    <2> QED BY <1>1, <2>1, <2>2
  <1>4. /\ s2c' \in [Conn -> Seq(TokenSet)] /\ s2c'[conn] = <<>>
    BY <1>2, <1>3, EmptySeq DEF IInv, TypeOK
  <1>5. TypeOK'
    BY <1>1, <1>4 DEF IInv, TypeOK
  <1>6. TalkInv' /\ AnswerMatches'
    BY <1>1, <1>2, <1>4 DEF TalkInv, AnswerMatches, Served, Working
  <1> QED BY <1>1, <1>2, <1>3, <1>5, <1>6, EmptySeq, ClientReads
-----------------------------------------------------------------------------
LEMMA InitInv == Init => IInv
  <1> SUFFICES ASSUME Init PROVE IInv
    OBVIOUS
  <1>1. TypeOK
    <2>1. "GET" \in Text /\ <<>> \in Seq(Text) /\ <<>> \in Seq(TokenSet)
      BY ConstAssumption, EmptySeq DEF Text
    <2>2. /\ request \in [id : Nat, method : Text, body : Seq(Text)]
          /\ serving \in [Conn -> [id : Nat, method : Text]]
      BY <2>1 DEF Init, NoRequest
    <2>3. c2s \in [Conn -> Seq(TokenSet)] /\ s2c \in [Conn -> Seq(TokenSet)]
      BY <2>1 DEF Init
    <2>4. /\ cpc \in {"idle", "connect", "write", "head", "body"} /\ sent \in Nat
          /\ socket_error \in BOOLEAN /\ need \in Nat /\ tag \in Nat
          /\ returned \in [id : Nat, tag : Nat]
      BY DEF Init
    <2>5. conn \in 0..MaxConn
      <3>1. conn = 0 /\ MaxConn \in Nat
        BY ConstAssumption DEF Init
      <3> QED BY <3>1
    <2>6. /\ copen \in [Conn -> BOOLEAN] /\ open \in [Conn -> BOOLEAN]
          /\ todo \in [Conn -> Nat] /\ spc \in [Conn -> ServerPc]
          /\ timer \in [Conn -> SUBSET {"request", "content", "response"}]
          /\ late \in [Conn -> SUBSET {"request", "content", "response"}]
          /\ out \in [Conn -> 0..AnswerLen]
      BY DEF Init, ServerPc, AnswerLen
    <2> QED BY <2>2, <2>3, <2>4, <2>5, <2>6 DEF TypeOK
  <1>2. \A k \in Conn : At(k)
    BY DEF Init, At, FreshAt, FlushedAt, FramedAt, TimerAt, Conn, Working, Between
  <1>3. TalkInv /\ AnswerMatches
    BY DEF Init, TalkInv, AnswerMatches
  <1> QED BY <1>1, <1>2, <1>3, IInvIs

LEMMA NextInv == IInv /\ [Next]_vars => IInv'
  <1> SUFFICES ASSUME IInv, [Next]_vars PROVE IInv'
    OBVIOUS
  <1>1. ASSUME NEW m \in Methods, NEW b \in Bodies, Request(m, b) PROVE IInv'
    BY <1>1, RequestInv
  <1>2. CASE Client
    BY <1>2, ConnectInv, ConnectFailsInv, WriteInv, ReadFailsInv, ReadHeadInv, ReadBodyInv DEF Client
  <1>3. ASSUME NEW k \in Conn, Handler(k) PROVE IInv'
    BY <1>3, OnHeadInv, OnBodyInv, OnReadErrorInv, OnFlushedInv, OnWrittenInv DEF Handler
  <1>6. ASSUME NEW k \in Conn, Resource(k) PROVE IInv'
    BY <1>6, RunResourceInv, FlushInv DEF Resource
  <1>4. ASSUME NEW k \in Conn, TimerExpires(k) \/ TimerHandler(k) PROVE IInv'
    BY <1>4, TimerExpiresInv, TimerHandlerInv
  <1>5. CASE UNCHANGED vars
    BY <1>5 DEF vars, clientVars, serverVars, IInv, TypeOK, FreshInv, FlushedInv, FramedInv,
                TalkInv, Served, Asked, Answered, Begun, Working, Between, Owed,
                AnswerMatches, TimerFollowsPhase
  <1> QED BY <1>1, <1>2, <1>3, <1>4, <1>5, <1>6 DEF Next

\* The whole invariant: on every connection what travels is one request or one
\* answer, never more, and a connection that is kept is empty between two of
\* them, whatever timers, errors and exceptions end on either side.
THEOREM HttpInductive == Spec => []IInv
  BY InitInv, NextInv, PTL DEF Spec

\* ClientBase::request returns the answer to its own request, though answers
\* carry nothing to tell them apart and the connection is used again.
THEOREM HttpAnswerMatches == Spec => []AnswerMatches
  BY HttpInductive, PTL DEF IInv

\* The timer that is armed is the one of the phase the server is in.
THEOREM HttpTimerFollowsPhase == Spec => []TimerFollowsPhase
  BY HttpInductive, PTL DEF IInv
=============================================================================
