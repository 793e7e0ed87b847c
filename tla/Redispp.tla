------------------------------- MODULE Redispp -------------------------------
(***************************************************************************)
(* The pipelined Redis client (common/redispp.h, redispp.cpp).  A command  *)
(* is written at once and returns a reply object; the answer is read when  *)
(* somebody asks the object for it, or when it is destroyed.  Answers come *)
(* in the order of the commands, so whoever reads first reads those of all *)
(* earlier objects, which the connection keeps in an intrusive list.       *)
(*                                                                         *)
(* The client is single-threaded: while a read is going on (doing # none)  *)
(* nothing else happens; a step reads one line of the protocol, since any  *)
(* of them may throw.  The answers the server will give to what was sent   *)
(* are in wire.  A reply object keeps its number when it is copied: the    *)
(* copy takes its place in the list.  An object is put at the end of the   *)
(* list, so the list is a set of numbers and its order theirs.             *)
(*                                                                         *)
(* lapse collects what a caller may do, or may happen to him, that the     *)
(* library does not make up for; the properties are about the rest.  The   *)
(* server may answer every line with an error.                             *)
(***************************************************************************)
EXTENDS Integers, Sequences

CONSTANTS MaxCmd,     \* bound: objects that read, transactions included
          Elements    \* the lengths of multi-bulk answers, -1 for nil

ConstOk == MaxCmd \in Nat /\ Elements \subseteq Int

-----------------------------------------------------------------------------
(* How the answer to each command is read.  VoidReply reads a status,      *)
(* BoolReply and IntReply an integer, StringReply a bulk and               *)
(* MultiBulkEnumerator a multi-bulk answer; type() reads a status at once; *)
(* the answers to the commands read by nobody stay where they are.         *)

KeyCommands == [quit |-> "nobody", authenticate |-> "status", exists |-> "int",
    del |-> "int", type |-> "at once", keys |-> "multi", randomKey |-> "bulk",
    rename |-> "status", renameNX |-> "int", dbSize |-> "int", expire |-> "int",
    expireAt |-> "int", ttl |-> "int", select |-> "status", move |-> "int",
    flushDb |-> "status", flushAll |-> "status"]
StringCommands == [set |-> "status", get |-> "bulk", getSet |-> "bulk",
    setNX |-> "int", setEx |-> "status", incr |-> "int", incrBy |-> "int",
    decr |-> "int", decrBy |-> "int", append |-> "int", subStr |-> "bulk"]
ListCommands == [rpush |-> "int", lpush |-> "int", llen |-> "int",
    lrange |-> "multi", ltrim |-> "status", lindex |-> "bulk", lset |-> "status",
    lrem |-> "int", lpop |-> "bulk", rpop |-> "bulk", rpopLpush |-> "bulk"]
SetCommands == [sadd |-> "int", srem |-> "int", spop |-> "bulk", smove |-> "int",
    scard |-> "int", sisMember |-> "int", smembers |-> "multi",
    srandMember |-> "bulk"]
HashCommands == [hset |-> "int", hget |-> "bulk", hsetNX |-> "int",
    hincrBy |-> "int", hexists |-> "int", hdel |-> "int", hlen |-> "int",
    hkeys |-> "multi", hvals |-> "multi", hgetAll |-> "multi"]
ServerCommands == [save |-> "status", bgSave |-> "status",
    bgReWriteAOF |-> "status", lastSave |-> "int", shutdown |-> "nobody",
    info |-> "bulk", subscribe |-> "nobody", unsubscribe |-> "nobody",
    psubscribe |-> "nobody", punsubscribe |-> "nobody", publish |-> "int"]

ReadAs == UNION {{f[c] : c \in DOMAIN f} :
                 f \in {KeyCommands, StringCommands, ListCommands, SetCommands,
                        HashCommands, ServerCommands}}
Simple == {"status", "int", "bulk"}
-----------------------------------------------------------------------------
VARIABLES n,          \* objects so far
          kind,       \* what each reads; "queued" for that of a Transaction
          list,       \* outstandingReplies
          conn,       \* BaseReply::conn is not null
          headerDone, count,   \* a MultiBulkEnumerator
          transaction, state, tcount,  \* its QueuedReply, state and count
          queued,     \* commands the server has queued since MULTI
          inMulti,    \* whether it queues: "none", "open", or "refused" a command
          wire,       \* the answers on their way: whose, and what they are
          stream,     \* ioStream is "good" or has "failed"
          doing, goal, qread,  \* the read going on, for whom, lines read
          mixed,      \* objects that read the answer to another command
          lapse

objVars == <<kind, conn, headerDone, count>>
txVars == <<transaction, state, tcount, queued, inMulti>>
vars == <<n, objVars, list, txVars, wire, stream, doing, goal, qread, mixed, lapse>>

Id == 1..MaxCmd

Init == /\ n = 0
        /\ kind = [i \in Id |-> "none"]
        /\ list = {}
        /\ conn = [i \in Id |-> FALSE]
        /\ headerDone = [i \in Id |-> FALSE]
        /\ count = [i \in Id |-> 0]
        /\ transaction = 0 /\ state = "Blank" /\ tcount = 0 /\ queued = <<>>
        /\ inMulti = "none"
        /\ wire = <<>> /\ stream = "good"
        /\ doing = "none" /\ goal = 0 /\ qread = 0
        /\ mixed = {} /\ lapse = {}

\* An object with something left for readResult to read.
Unread(i) == /\ conn[i]
             /\ kind[i] = "multi" => ~headerDone[i] \/ count[i] > 0
Outstanding == \E i \in list : Unread(i)
Idle == doing = "none"
Lapse(l, P) == lapse' = IF P THEN lapse \cup {l} ELSE lapse
-----------------------------------------------------------------------------
(* Sending.  EXECUTE_COMMAND writes to the stream and does not look whether*)
(* that worked; on a failed stream nothing is sent.                        *)

\* What the server sends back for object i, read as k: so many lines of a kind.
\* A multi-bulk answer is a header, then so many bulks.
Line(i, k) == [of |-> i, is |-> k, len |-> 1]
Answer(i, k) ==
    {Line(i, "err")} \cup
    (IF k = "multi" THEN {[of |-> i, is |-> "multi", len |-> e] : e \in Elements}
     ELSE {Line(i, k)})
Sent(items) == wire' = IF stream = "good" THEN wire \o items ELSE wire

\* BaseReply's constructor.
NewObject(k) == /\ n < MaxCmd
                /\ n' = n + 1
                /\ kind' = [kind EXCEPT ![n + 1] = k]
                /\ conn' = [conn EXCEPT ![n + 1] = TRUE]
                /\ list' = list \cup {n + 1}

\* A command with a reply object, which a transaction counts.  After MULTI the
\* server queues it, or refuses it at once, and will then refuse EXEC.
Send(k) ==
    /\ Idle /\ k \in (ReadAs \cap Simple) \cup {"multi"}
    /\ NewObject(k)
    /\ tcount' = IF transaction # 0 THEN tcount + 1 ELSE tcount
    /\ \/ /\ inMulti = "none"
          /\ \E a \in Answer(n + 1, k) : Sent(<<a>>)
          /\ UNCHANGED <<queued, inMulti, lapse>>
       \/ /\ inMulti # "none"
          /\ Sent(<<Line(transaction, "status")>>)
          /\ queued' = Append(queued, n + 1)
          /\ UNCHANGED <<inMulti, lapse>>
       \/ /\ inMulti # "none"
          /\ Sent(<<Line(transaction, "err")>>)
          /\ inMulti' = "refused"
          /\ Lapse("refused in a transaction", TRUE)
          /\ UNCHANGED queued
    /\ UNCHANGED <<headerDone, count, transaction, state, stream, doing, goal,
                   qread, mixed>>

\* A command whose answer nobody reads.
SendUnread ==
    /\ Idle /\ n < MaxCmd /\ "nobody" \in ReadAs
    /\ n' = n + 1
    /\ Sent(<<Line(n + 1, "status")>>)
    /\ Lapse("unread answer", TRUE)
    /\ UNCHANGED <<objVars, list, txVars, stream, doing, goal, qread, mixed>>

\* type(): the next status is taken for the answer.
SendType ==
    /\ Idle /\ n < MaxCmd /\ "at once" \in ReadAs
    /\ n' = n + 1
    /\ kind' = [kind EXCEPT ![n + 1] = "status"]
    /\ \E a \in Answer(n + 1, "status") : Sent(<<a>>)
    /\ doing' = "type" /\ goal' = n + 1
    /\ Lapse("read out of turn", Outstanding \/ state = "Dirty")
    /\ UNCHANGED <<conn, headerDone, count, list, txVars, stream, qread, mixed>>

\* The connection is lost, or a read meets its end.
Lose == /\ stream = "good" /\ Idle
        /\ stream' = "failed"
        /\ UNCHANGED <<n, objVars, list, txVars, wire, doing, goal, qread, mixed,
                       lapse>>
-----------------------------------------------------------------------------
(* Reading.                                                                *)

\* readStatusCodeReply, readIntegerReply and readBulkReply on the next line.
\* An error answer makes the first throw; the others fail to parse a number
\* and with that fail the stream for good.  An answer of another kind leaves
\* the client in the middle of it, which is followed no further.  EXEC's
\* answer starts with a number behind another sign, and passes for an integer.
Fits(reader) == \/ Head(wire).is = reader
                \/ reader = "int" /\ Head(wire).is = "exec"
Readable == stream = "failed" \/ wire # <<>>
Succeeds(reader) == stream = "good" /\ Fits(reader)
\* The answers without their first line.
Left == IF Head(wire).is = "multi" THEN Head(wire).len ELSE Head(wire).len - 1
NextLine == IF Left > 0
            THEN [wire EXCEPT ![1] = [of |-> Head(wire).of, is |-> "bulk", len |-> Left]]
            ELSE Tail(wire)
Take(i, reader) ==
    /\ Readable
    /\ IF stream = "failed" THEN UNCHANGED <<wire, stream, mixed>>
       ELSE /\ wire' = NextLine
            /\ stream' = IF Fits(reader)
                            \/ (reader = "status" /\ Head(wire).is = "err")
                         THEN "good" ELSE "failed"
            /\ mixed' = IF Head(wire).of = i THEN mixed ELSE mixed \cup {i}

Over == doing' = "none" /\ goal' = 0 /\ qread' = 0
Unlink(i) == list' = list \ {i}

\* The objects before the goal that have not been read.
Before == {i \in list : i < goal /\ Unread(i)}

\* Mutant: clearPendingResults is forgotten.
Turn_Own == goal

\* clearPendingResults: the first of them, then the goal itself.
Turn == IF Before = {} THEN goal
        ELSE CHOOSE i \in Before : \A j \in Before : i <= j

Reading == doing \in {"result", "next", "destroy"}

\* The read of the goal ends, with or without an exception.  A destructor
\* catches it; the object then goes, read or not.
Leave(left) ==
    /\ Over
    /\ IF doing = "destroy"
       THEN /\ conn' = [left EXCEPT ![goal] = FALSE]
            /\ Unlink(goal)
            /\ Lapse("unread answer", left[goal] /\ stream' = "good")
       ELSE conn' = left /\ UNCHANGED <<list, lapse>>

\* The object whose turn it is has been read; the goal's own read may be over.
Done(i) ==
    /\ conn' = [conn EXCEPT ![i] = FALSE]
    /\ Unlink(i)
    /\ IF i = goal THEN Over ELSE UNCHANGED <<doing, goal, qread>>
    /\ UNCHANGED lapse

\* VoidReply::result and its like; nextOptional of an enumerator that has
\* something to read.  Inside a transaction the answer is only to come.
OutOfTurn(i) == state = "Dirty" /\ i > transaction
Result(i) ==
    /\ Idle /\ i \in list /\ Unread(i) /\ kind[i] # "queued"
    /\ doing' = IF kind[i] = "multi" THEN "next" ELSE "result"
    /\ goal' = i
    /\ Lapse("read out of turn", OutOfTurn(i))
    /\ UNCHANGED <<n, objVars, list, txVars, wire, stream, qread, mixed>>

\* The destructor reads what is left, but of an enumerator only the elements:
\* one that has not read its header just goes.
Destroy(i) ==
    /\ Idle /\ i \in list /\ kind[i] # "queued"
    /\ IF conn[i] /\ (kind[i] = "multi" => count[i] > 0)
       THEN /\ doing' = "destroy" /\ goal' = i
            /\ Lapse("read out of turn", OutOfTurn(i))
            /\ UNCHANGED <<conn, list>>
       ELSE /\ Unlink(i)
            /\ conn' = [conn EXCEPT ![i] = FALSE]
            /\ Lapse("unread answer", Unread(i) /\ stream = "good")
            /\ UNCHANGED <<doing, goal>>
    /\ UNCHANGED <<n, kind, headerDone, count, txVars, wire, stream, qread, mixed>>

\* Mutant: conn is not reset once the answer is read.
ReadSimple_KeepsConn ==
    /\ Reading /\ kind[Turn] \in Simple
    /\ Take(Turn, kind[Turn])
    /\ Over /\ UNCHANGED <<conn, list, lapse>>
    /\ UNCHANGED <<n, kind, headerDone, count, txVars>>

\* The turn of a simple reply: conn is reset first, so an exception leaves it
\* in the list without anything to read.
ReadSimple ==
    /\ Reading /\ kind[Turn] \in Simple
    /\ Take(Turn, kind[Turn])
    /\ IF Succeeds(kind[Turn]) THEN Done(Turn)
       ELSE Leave([conn EXCEPT ![Turn] = FALSE])
    /\ UNCHANGED <<n, kind, headerDone, count, txVars>>

\* The turn of an enumerator, its header.  A nil answer throws and leaves
\* nothing to read.
ReadHeader ==
    LET len == IF Succeeds("multi") THEN Head(wire).len ELSE 0
    IN  /\ Reading /\ kind[Turn] = "multi" /\ ~headerDone[Turn]
        /\ Take(Turn, "multi")
        /\ headerDone' = [headerDone EXCEPT ![Turn] = TRUE]
        /\ count' = [count EXCEPT ![Turn] = len]
        /\ IF ~Succeeds("multi") \/ len < 0 THEN Leave(conn)
           ELSE IF len = 0 THEN Done(Turn)
           ELSE UNCHANGED <<conn, list, doing, goal, qread, lapse>>
        /\ UNCHANGED <<n, kind, txVars>>

\* One element.  The user's next() asks for one, readResult (for a later
\* object) and the destructor for all of them.
ReadElement ==
    /\ Reading /\ kind[Turn] = "multi" /\ headerDone[Turn]
    /\ Take(Turn, "bulk")
    /\ count' = [count EXCEPT ![Turn] = @ - 1]
    /\ IF ~Succeeds("bulk") \/ (Turn = goal /\ doing = "next") THEN Leave(conn)
       ELSE IF count[Turn] = 1 THEN Done(Turn)
       ELSE UNCHANGED <<conn, list, doing, goal, qread, lapse>>
    /\ UNCHANGED <<n, kind, headerDone, txVars>>

\* type().
ReadType == /\ doing = "type" /\ Take(goal, "status")
            /\ Over
            /\ UNCHANGED <<n, objVars, list, txVars, lapse>>
-----------------------------------------------------------------------------
(* Transactions.                                                           *)

\* MULTI, which the server may refuse: it then answers each command at once.
BeginTransaction ==
    /\ Idle /\ transaction = 0
    /\ NewObject("queued")
    /\ \/ /\ Sent(<<Line(n + 1, "status")>>)
          /\ inMulti' = "open"
          /\ UNCHANGED lapse
       \/ /\ Sent(<<Line(n + 1, "err")>>)
          /\ Lapse("refused in a transaction", TRUE)
          /\ UNCHANGED inMulti
    /\ transaction' = n + 1 /\ state' = "Dirty" /\ tcount' = 0 /\ queued' = <<>>
    /\ UNCHANGED <<headerDone, count, stream, doing, goal, qread, mixed>>

\* A second Transaction throws, but its QueuedReply was made and counted.
BeginNested ==
    /\ Idle /\ state = "Dirty" /\ tcount < MaxCmd
    /\ tcount' = tcount + 1
    /\ Lapse("nested transaction", TRUE)
    /\ UNCHANGED <<n, objVars, list, transaction, state, queued, inMulti, wire,
                   stream, doing, goal, qread, mixed>>

\* EXEC, then QueuedReply::readResult, which does not look at objects before.
\* EXEC is answered with all the answers or refused, always so if it has to be.
Commit ==
    /\ Idle /\ state = "Dirty"
    /\ state' = "Committed" /\ inMulti' = "none"
    /\ \/ /\ inMulti = "open"
          /\ \E a \in [DOMAIN queued -> UNION {Answer(i, kind[i]) : i \in 1..n}] :
                /\ \A x \in DOMAIN queued : a[x] \in Answer(queued[x], kind[queued[x]])
                /\ Sent(<<Line(transaction, "exec")>> \o a)
       \/ Sent(<<Line(transaction, "err")>>)
    /\ doing' = "queued" /\ goal' = transaction
    /\ Lapse("read out of turn", \E i \in list : i < transaction /\ Unread(i))
    /\ UNCHANGED <<n, objVars, list, transaction, tcount, queued, stream, qread,
                   mixed>>

\* DISCARD: the queued commands are not answered, their objects do not know.
Abort ==
    /\ Idle /\ state = "Dirty"
    /\ state' = "Aborted" /\ inMulti' = "none"
    /\ \/ inMulti # "none" /\ Sent(<<Line(transaction, "status")>>)
       \/ Sent(<<Line(transaction, "err")>>)
    /\ doing' = "queued" /\ goal' = transaction
    /\ lapse' = lapse \cup (IF queued = <<>> THEN {} ELSE {"aborted commands"})
                \cup (IF \E i \in list : i < transaction /\ Unread(i)
                      THEN {"read out of turn"} ELSE {})
    /\ UNCHANGED <<n, objVars, list, transaction, tcount, queued, stream, qread,
                   mixed>>

\* The lines of QueuedReply::readResult: one for MULTI, one per command, one
\* for EXEC or DISCARD (none when it is read before either was sent).
Lines == 1 + tcount + (IF state = "Dirty" THEN 0 ELSE 1)
LineReader == IF state = "Committed" /\ qread = 1 + tcount THEN "int" ELSE "status"

ReadQueued ==
    LET last == qread + 1 = Lines
    IN  /\ \/ doing = "queued"
           \/ Reading /\ kind[Turn] = "queued"
        /\ Take(transaction, LineReader)
        /\ conn' = [conn EXCEPT ![transaction] = @ /\ ~last /\ Succeeds(LineReader)]
        /\ IF ~Succeeds(LineReader) \/ (last /\ doing = "queued")
           THEN Over
           ELSE qread' = (IF last THEN 0 ELSE qread + 1) /\ UNCHANGED <<doing, goal>>
        /\ UNCHANGED <<n, kind, headerDone, count, list, txVars, lapse>>

\* ~Transaction, after the commit or the abort.
EndTransaction ==
    /\ Idle /\ state \in {"Committed", "Aborted"}
    /\ transaction' = 0 /\ state' = "Blank" /\ tcount' = 0 /\ queued' = <<>>
    /\ Unlink(transaction)
    /\ UNCHANGED <<n, objVars, inMulti, wire, stream, doing, goal, qread, mixed, lapse>>
-----------------------------------------------------------------------------
Next == \/ \E k \in ReadAs : Send(k)
        \/ SendUnread \/ SendType \/ Lose
        \/ \E i \in Id : Result(i) \/ Destroy(i)
        \/ ReadSimple \/ ReadHeader \/ ReadElement \/ ReadType \/ ReadQueued
        \/ BeginTransaction \/ BeginNested \/ Commit \/ Abort \/ EndTransaction

Spec == Init /\ [][Next]_vars
-----------------------------------------------------------------------------
\* In whatever order objects are asked, destroyed or queued in transactions, and
\* whichever of their answers, EXEC's or DISCARD's is an error at which a read
\* throws, each reads the answer to its own command, unless one of the recorded
\* lapses came before.  A MULTI or a command after it that the server refuses is
\* such a lapse: QueuedReply::readResult throws at that line and leaves the rest.
AnswersMatch == lapse = {} => mixed = {}

\* Nobody waits for an answer that is not to come, with the same exceptions.
NoVainWait == doing # "none" /\ lapse = {} => Readable
=============================================================================
