------------------------------- MODULE Server -------------------------------
(***************************************************************************)
(* The TCP server on top of Storage, from the first connection to the end  *)
(* of main: the accept loop, one handler goroutine per connection, the     *)
(* table of DayWriters that the handlers share, the goroutines that flush  *)
(* the writers, and main, which stops the server and closes the storage    *)
(* when a signal arrives.  (tffiles/tcp_server.go, storage.go, main.go)    *)
(*                                                                         *)
(* A point is named <<c, n, d>>: day d of the n-th request on connection   *)
(* c.  What a writer does with its points is DayWriter's subject, what a   *)
(* query returns that of DayReader and Tiering: here a flush moves the     *)
(* buffer to disk and a query just succeeds.                               *)
(***************************************************************************)
EXTENDS Integers, Sequences, FiniteSets, SequencesExt, Sifting

CONSTANTS
    Conns,       \* connections, each used once
    Days,        \* the days of one device, a writer for each
    Requests,    \* what a client may send
    MaxRequests, \* bound: requests on all connections together
    MayFail      \* whether NewDayWriter may fail

\* "pong" stands for every message without an answer, unknown types included.
Request == [kind : {"write", "query", "pong"},
            form : {"good", "bad", "huge"},
            days : SUBSET Days,
            fields : Nat]

ASSUME RequestAssumption ==
    /\ Requests \subseteq Request
    /\ IsFiniteSet(Conns) /\ IsFiniteSet(Days) /\ Days # {}
    /\ MaxRequests \in Nat /\ MayFail \in BOOLEAN

VARIABLES
    mpc, closing,               \* main, and the writers Storage.Close has to do
    stopped, listening, apc,    \* stopChan is closed, the listener, acceptLoop
    pc,                         \* of the handler of each connection
    reqs, hungup,               \* what the client has sent, whether it has gone
    at, groups, day, code,      \* the request in hand, its days still to do,
                                \* the day in hand, the status of the answer
    replies, cut,               \* what the client has received, and whether an
                                \* answer has been lost on its way
    writers, buffer, disk,      \* Storage.writers and their points
    schema,                     \* deviceSchemas: the fields of the device, 0 if none
    activeConns, totals,        \* the statistics
    opens, early, panicked      \* history: NewDayWriter calls, points whose success
                                \* was answered before Storage.Close

mainVars   == <<mpc, closing, stopped, listening>>
clientVars == <<reqs, hungup>>
handleVars == <<at, groups, day, code>>
answerVars == <<replies, cut>>
storeVars  == <<writers, buffer, disk, schema, opens>>
statVars   == <<activeConns, totals>>
vars == <<mainVars, apc, pc, clientVars, handleVars, answerVars, storeVars, statVars, early, panicked>>

Running == mpc # "exit"
Locked  == mpc = "close"     \* Storage.Close holds s.mu
Sent    == Cardinality(UNION {{c} \X DOMAIN reqs[c] : c \in Conns})
Req(c)  == reqs[c][at[c]]
Points(c) == {<<c, at[c], d>> : d \in Req(c).days}
Live == {c \in Conns : pc[c] \notin {"none", "backlog", "closed"}}

Init ==
    /\ mpc = "run" /\ closing = {}
    /\ stopped = FALSE /\ listening = TRUE /\ apc = "select"
    /\ pc = [c \in Conns |-> "none"]
    /\ reqs = [c \in Conns |-> <<>>] /\ hungup = [c \in Conns |-> FALSE]
    /\ at = [c \in Conns |-> 1] /\ groups = [c \in Conns |-> {}]
    /\ day = [c \in Conns |-> CHOOSE d \in Days : TRUE]
    /\ code = [c \in Conns |-> "success"]
    /\ replies = [c \in Conns |-> <<>>] /\ cut = [c \in Conns |-> FALSE]
    /\ writers = [d \in Days |-> "none"] /\ buffer = [d \in Days |-> {}] /\ disk = {}
    /\ schema = 0
    /\ activeConns = 0 /\ totals = [k \in {"write", "query"} |-> 0]
    /\ opens = [d \in Days |-> 0] /\ early = {} /\ panicked = FALSE

-----------------------------------------------------------------------------
(* The clients *)

\* A client connects.  What it will send is settled here: a message that comes
\* late looks the same to the handler, which waits for it.
Connect(c) ==
    /\ Running /\ listening /\ pc[c] = "none"
    /\ pc' = [pc EXCEPT ![c] = "backlog"]
    /\ \E m \in 0 .. MaxRequests - Sent : \E s \in [1 .. m -> Requests] :
          reqs' = [reqs EXCEPT ![c] = s]
    /\ UNCHANGED <<mainVars, apc, hungup, handleVars, answerVars, storeVars, statVars, early, panicked>>

Hangup(c) ==
    /\ Running /\ pc[c] \notin {"none", "closed"} /\ ~hungup[c]
    /\ hungup' = [hungup EXCEPT ![c] = TRUE]
    /\ UNCHANGED <<mainVars, apc, pc, reqs, handleVars, answerVars, storeVars, statVars, early, panicked>>

-----------------------------------------------------------------------------
(* acceptLoop *)

AcceptSelect ==
    /\ Running /\ apc = "select"
    /\ apc' = IF stopped THEN "done" ELSE "accept"
    /\ UNCHANGED <<mainVars, pc, clientVars, handleVars, answerVars, storeVars, statVars, early, panicked>>

Accept(c) ==
    /\ Running /\ apc = "accept" /\ listening /\ pc[c] = "backlog"
    /\ activeConns' = activeConns + 1
    /\ pc' = [pc EXCEPT ![c] = "select"]
    /\ apc' = "select"
    /\ UNCHANGED <<mainVars, clientVars, handleVars, answerVars, storeVars, totals, early, panicked>>

\* The listener is closed, or Accept fails for some other reason.
AcceptFail ==
    /\ Running /\ apc = "accept"
    /\ apc' = IF stopped THEN "done" ELSE "select"
    /\ UNCHANGED <<mainVars, pc, clientVars, handleVars, answerVars, storeVars, statVars, early, panicked>>

-----------------------------------------------------------------------------
(* handleConnection *)

\* Mutant: only a clean end of the stream is counted down.
LeaveUncounted(c) ==
    /\ pc' = [pc EXCEPT ![c] = "closed"]
    /\ activeConns' = IF hungup[c] THEN activeConns - 1 ELSE activeConns

\* Mutant: a handler is counted down where it returns and once more at its end.
LeaveTwice(c) ==
    /\ pc' = [pc EXCEPT ![c] = "closed"]
    /\ activeConns' = activeConns - 2

\* The deferred function.
Leave(c) ==
    /\ pc' = [pc EXCEPT ![c] = "closed"]
    /\ activeConns' = activeConns - 1

\* The head of the loop.
Select(c) ==
    /\ Running /\ pc[c] = "select"
    /\ \/ stopped /\ Leave(c)
       \/ ~stopped /\ pc' = [pc EXCEPT ![c] = "read"] /\ UNCHANGED activeConns
    /\ UNCHANGED <<mainVars, apc, clientVars, handleVars, answerVars, storeVars, totals, early, panicked>>

\* readMessage: the next message is there in full ...
Message(c) == Running /\ pc[c] = "read" /\ at[c] <= Len(reqs[c]) /\ Req(c).form # "huge"

\* ... or it is too long, the client has gone, or the read deadline passes.
ReadFail(c) ==
    /\ Running /\ pc[c] = "read"
    /\ at[c] <= Len(reqs[c]) => Req(c).form = "huge"
    /\ Leave(c)
    /\ UNCHANGED <<mainVars, apc, clientVars, handleVars, answerVars, storeVars, totals, early, panicked>>

\* handleMessage for messages without an answer.
HandlePong(c) ==
    /\ Message(c) /\ Req(c).kind = "pong"
    /\ at' = [at EXCEPT ![c] = @ + 1]
    /\ pc' = [pc EXCEPT ![c] = "select"]
    /\ UNCHANGED <<mainVars, apc, clientVars, groups, day, code, answerVars, storeVars, statVars, early, panicked>>

\* handleWrite and handleQuery for a body that cannot be parsed, and handleQuery.
HandleOther(c) ==
    /\ Message(c)
    /\ Req(c).kind = "query" \/ (Req(c).kind = "write" /\ Req(c).form = "bad")
    /\ code' = [code EXCEPT ![c] = IF Req(c).form = "bad" THEN "error" ELSE "success"]
    /\ pc' = [pc EXCEPT ![c] = "answer"]
    /\ UNCHANGED <<mainVars, apc, clientVars, at, groups, day, answerVars, storeVars, statVars, early, panicked>>

\* registerSchema: the first write with points settles the fields of the device.
RegisterSchema(r) == schema' = IF schema = 0 /\ r.days # {} THEN r.fields ELSE schema

\* handleWrite, and Storage.WriteBatch up to the grouping by day.
HandleWrite(c) ==
    /\ Message(c) /\ Req(c).kind = "write" /\ Req(c).form = "good"
    /\ RegisterSchema(Req(c))
    /\ groups' = [groups EXCEPT ![c] = Req(c).days]
    /\ pc' = [pc EXCEPT ![c] = "group"]
    /\ UNCHANGED <<mainVars, apc, clientVars, at, day, code, answerVars, writers, buffer, disk, opens, statVars, early, panicked>>

-----------------------------------------------------------------------------
(* Storage.WriteBatch *)

\* The next day, taken from a map in any order, and the part of getOrCreateWriter
\* under the read lock.
Lookup(c, d) ==
    /\ ~Locked
    /\ day' = [day EXCEPT ![c] = d]
    /\ pc' = [pc EXCEPT ![c] = IF writers[d] = "none" THEN "create" ELSE "append"]
    /\ UNCHANGED code

Written(c) ==
    /\ code' = [code EXCEPT ![c] = "success"]
    /\ pc' = [pc EXCEPT ![c] = "answer"]
    /\ UNCHANGED day

\* Mutant: the loop over the days ends after the first.
GroupOnce(c) ==
    /\ Running /\ pc[c] = "group"
    /\ \/ (groups[c] # Req(c).days \/ groups[c] = {}) /\ Written(c)
       \/ groups[c] = Req(c).days /\ \E d \in groups[c] : Lookup(c, d)
    /\ UNCHANGED <<mainVars, apc, clientVars, at, groups, answerVars, storeVars, statVars, early, panicked>>

Group(c) ==
    /\ Running /\ pc[c] = "group"
    /\ \/ groups[c] = {} /\ Written(c)
       \/ \E d \in groups[c] : Lookup(c, d)
    /\ UNCHANGED <<mainVars, apc, clientVars, at, groups, answerVars, storeVars, statVars, early, panicked>>

\* Mutant: the writer is created without looking again.
CreateBlindly(c) ==
    /\ Running /\ pc[c] = "create" /\ ~Locked
    /\ writers' = [writers EXCEPT ![day[c]] = "open"]
    /\ opens' = [opens EXCEPT ![day[c]] = @ + 1]
    /\ pc' = [pc EXCEPT ![c] = "append"]
    /\ UNCHANGED <<mainVars, apc, clientVars, handleVars, answerVars, buffer, disk, schema, statVars, early, panicked>>

\* getOrCreateWriter, the part under the write lock: another handler may have
\* been faster, and NewDayWriter may fail.
Create(c) ==
    /\ Running /\ pc[c] = "create" /\ ~Locked
    /\ \/ /\ writers[day[c]] # "none"
          /\ pc' = [pc EXCEPT ![c] = "append"]
          /\ UNCHANGED <<writers, opens, code>>
       \/ /\ writers[day[c]] = "none"
          /\ writers' = [writers EXCEPT ![day[c]] = "open"]
          /\ opens' = [opens EXCEPT ![day[c]] = @ + 1]
          /\ pc' = [pc EXCEPT ![c] = "append"]
          /\ UNCHANGED code
       \/ /\ MayFail /\ writers[day[c]] = "none"
          /\ code' = [code EXCEPT ![c] = "error"]
          /\ pc' = [pc EXCEPT ![c] = "answer"]
          /\ UNCHANGED <<writers, opens>>
    /\ UNCHANGED <<mainVars, apc, clientVars, at, groups, day, answerVars, buffer, disk, schema, statVars, early, panicked>>

\* Mutant: the day is not ticked off.
AppendPointsRepeats(c) ==
    /\ Running /\ pc[c] = "append"
    /\ buffer' = [buffer EXCEPT ![day[c]] = @ \union {<<c, at[c], day[c]>>}]
    /\ pc' = [pc EXCEPT ![c] = "group"]
    /\ UNCHANGED <<mainVars, apc, clientVars, handleVars, answerVars, writers, disk, schema, opens, statVars, early, panicked>>

\* DayWriter.WriteBatch: a closed writer takes the points as well.
AppendPoints(c) ==
    /\ Running /\ pc[c] = "append"
    /\ buffer' = [buffer EXCEPT ![day[c]] = @ \union {<<c, at[c], day[c]>>}]
    /\ groups' = [groups EXCEPT ![c] = @ \ {day[c]}]
    /\ pc' = [pc EXCEPT ![c] = "group"]
    /\ UNCHANGED <<mainVars, apc, clientVars, at, day, code, answerVars, writers, disk, schema, opens, statVars, early, panicked>>

-----------------------------------------------------------------------------

\* Mutant: a failed write is answered, but the handler leaves the message to be
\* handled again.
SendAgain(c) ==
    /\ Running /\ pc[c] = "answer"
    /\ \E lost \in BOOLEAN :
        /\ hungup[c] \/ cut[c] => lost
        /\ cut' = [cut EXCEPT ![c] = lost]
        /\ replies' = [replies EXCEPT ![c] = IF lost THEN @ ELSE Append(@, [n |-> at[c], code |-> code[c]])]
    /\ at' = [at EXCEPT ![c] = IF code[c] = "success" THEN @ + 1 ELSE @]
    /\ pc' = [pc EXCEPT ![c] = "count"]
    /\ UNCHANGED <<mainVars, apc, clientVars, groups, day, code, storeVars, statVars, early, panicked>>

\* sendResponse and sendErrorWithType.  An answer is lost when the client has
\* gone, or when the write fails or is cut short, its deadline of a minute being
\* over; the error is only logged, and stays with the bufio.Writer, so that no
\* later answer is written either.
Send(c) ==
    /\ Running /\ pc[c] = "answer"
    /\ \E lost \in BOOLEAN :
        /\ hungup[c] \/ cut[c] => lost
        /\ cut' = [cut EXCEPT ![c] = lost]
        /\ replies' = [replies EXCEPT ![c] = IF lost THEN @ ELSE Append(@, [n |-> at[c], code |-> code[c]])]
    /\ early' = IF Req(c).kind = "write" /\ code[c] = "success" /\ mpc \in {"run", "stop", "unlisten"}
                THEN early \union Points(c) ELSE early
    /\ at' = [at EXCEPT ![c] = @ + 1]
    /\ pc' = [pc EXCEPT ![c] = "count"]
    /\ UNCHANGED <<mainVars, apc, clientVars, groups, day, code, storeVars, statVars, panicked>>

\* The request that has been answered last.
Done(c) == reqs[c][at[c] - 1]

\* The end of handleWrite and handleQuery: a success is counted, once it has been
\* sent.
Count(c) ==
    /\ Running /\ pc[c] = "count"
    /\ totals' = [totals EXCEPT ![Done(c).kind] = IF code[c] = "success" THEN @ + 1 ELSE @]
    /\ pc' = [pc EXCEPT ![c] = "select"]
    /\ UNCHANGED <<mainVars, apc, clientVars, handleVars, answerVars, storeVars, activeConns, early, panicked>>

\* A write of no points that took longer than 100 ms: the line for the log asks
\* for the first point, and the panic ends the process.
SlowEmptyWrite(c) ==
    /\ Running /\ pc[c] = "count"
    /\ Done(c).kind = "write" /\ code[c] = "success" /\ Done(c).days = {}
    /\ totals' = [totals EXCEPT !["write"] = @ + 1]
    /\ mpc' = "exit" /\ panicked' = TRUE
    /\ UNCHANGED <<closing, stopped, listening, apc, pc, clientVars, handleVars, answerVars, storeVars, activeConns, early>>

Handler(c) ==
    \/ Select(c) \/ HandlePong(c) \/ HandleOther(c) \/ HandleWrite(c)
    \/ Group(c) \/ Create(c) \/ AppendPoints(c) \/ Send(c) \/ Count(c) \/ SlowEmptyWrite(c)

\* flushLoop of the writer of day d, by its timer or because the buffer is full.
Flush(d) ==
    /\ Running /\ writers[d] = "open" /\ buffer[d] # {}
    /\ disk' = disk \union buffer[d]
    /\ buffer' = [buffer EXCEPT ![d] = {}]
    /\ UNCHANGED <<mainVars, apc, pc, clientVars, handleVars, answerVars, writers, schema, opens, statVars, early, panicked>>

-----------------------------------------------------------------------------
(* main: the signal, Stop, Storage.Close, the end *)

Signal ==
    /\ mpc = "run"
    /\ mpc' = "stop"
    /\ UNCHANGED <<closing, stopped, listening, apc, pc, clientVars, handleVars, answerVars, storeVars, statVars, early, panicked>>

StopChan ==
    /\ mpc = "stop"
    /\ stopped' = TRUE
    /\ mpc' = "unlisten"
    /\ UNCHANGED <<closing, listening, apc, pc, clientVars, handleVars, answerVars, storeVars, statVars, early, panicked>>

\* listener.Close resets the connections not accepted yet; Storage.Close then
\* takes the lock, and finds these writers.
CloseListener ==
    /\ mpc = "unlisten"
    /\ listening' = FALSE
    /\ pc' = [c \in Conns |-> IF pc[c] = "backlog" THEN "closed" ELSE pc[c]]
    /\ mpc' = "close"
    /\ closing' = {d \in Days : writers[d] # "none"}
    /\ UNCHANGED <<stopped, apc, clientVars, handleVars, answerVars, storeVars, statVars, early, panicked>>

\* Mutant: the writer is closed without a last flush.
CloseWriterAtOnce(d) ==
    /\ mpc = "close" /\ d \in closing
    /\ writers' = [writers EXCEPT ![d] = "closed"]
    /\ closing' = closing \ {d}
    /\ UNCHANGED <<mpc, stopped, listening, apc, pc, clientVars, handleVars, answerVars, buffer, disk, schema, opens, statVars, early, panicked>>

\* Mutant: the storage waits for the last connection to go.
CloseWriterWaits(d) ==
    /\ mpc = "close" /\ d \in closing /\ Live = {}
    /\ disk' = disk \union buffer[d]
    /\ buffer' = [buffer EXCEPT ![d] = {}]
    /\ writers' = [writers EXCEPT ![d] = "closed"]
    /\ closing' = closing \ {d}
    /\ UNCHANGED <<mpc, stopped, listening, apc, pc, clientVars, handleVars, answerVars, schema, opens, statVars, early, panicked>>

\* DayWriter.Close waits for flushLoop, which flushes once more.
CloseWriter(d) ==
    /\ mpc = "close" /\ d \in closing
    /\ disk' = disk \union buffer[d]
    /\ buffer' = [buffer EXCEPT ![d] = {}]
    /\ writers' = [writers EXCEPT ![d] = "closed"]
    /\ closing' = closing \ {d}
    /\ UNCHANGED <<mpc, stopped, listening, apc, pc, clientVars, handleVars, answerVars, schema, opens, statVars, early, panicked>>

\* The lock is released: until the process is gone the handlers go on.
CloseReturns ==
    /\ mpc = "close" /\ closing = {}
    /\ mpc' = "return"
    /\ UNCHANGED <<closing, stopped, listening, apc, pc, clientVars, handleVars, answerVars, storeVars, statVars, early, panicked>>

Exit ==
    /\ mpc = "return"
    /\ mpc' = "exit"
    /\ UNCHANGED <<closing, stopped, listening, apc, pc, clientVars, handleVars, answerVars, storeVars, statVars, early, panicked>>

Shutdown ==
    \/ StopChan \/ CloseListener \/ (\E d \in Days : CloseWriter(d)) \/ CloseReturns \/ Exit

Next ==
    \/ \E c \in Conns :
          \/ Connect(c) \/ Hangup(c)
          \/ Accept(c) \/ Handler(c) \/ ReadFail(c)
    \/ AcceptSelect \/ AcceptFail
    \/ \E d \in Days : Flush(d)
    \/ Signal \/ Shutdown

Spec == Init /\ [][Next]_vars

\* The scheduler runs every goroutine that can run; clients owe nothing.
FairSpec == Spec /\ WF_vars(Shutdown) /\ \A c \in Conns : WF_vars(Handler(c))

-----------------------------------------------------------------------------
(* Properties. *)

TypeOK ==
    /\ mpc \in {"run", "stop", "unlisten", "close", "return", "exit"} /\ closing \subseteq Days
    /\ stopped \in BOOLEAN /\ listening \in BOOLEAN /\ apc \in {"select", "accept", "done"}
    /\ pc \in [Conns -> {"none", "backlog", "select", "read", "group", "create",
                         "append", "answer", "count", "closed"}]
    /\ reqs \in [Conns -> Seq(Requests)] /\ hungup \in [Conns -> BOOLEAN]
    /\ at \in [Conns -> 1 .. MaxRequests + 1] /\ groups \in [Conns -> SUBSET Days]
    /\ day \in [Conns -> Days] /\ code \in [Conns -> {"success", "error"}]
    /\ replies \in [Conns -> Seq([n : Nat, code : {"success", "error"}])] /\ cut \in [Conns -> BOOLEAN]
    /\ writers \in [Days -> {"none", "open", "closed"}]
    /\ disk \subseteq Conns \X Nat \X Days /\ buffer \in [Days -> SUBSET (Conns \X Nat \X Days)]
    /\ schema \in Nat /\ activeConns \in Nat /\ totals \in [{"write", "query"} -> Nat]
    /\ opens \in [Days -> Nat] /\ early \subseteq Conns \X Nat \X Days /\ panicked \in BOOLEAN

\* Handlers that meet over a day without a writer open its file once: two writers
\* would each keep an offset of their own and ruin each other's index.
OneWriter == \A d \in Days : opens[d] <= 1

\* The requests of a connection that have been dealt with and call for an answer,
\* and those its client has an answer to, in order.
Owing(c)  == {n \in DOMAIN reqs[c] : reqs[c][n].kind # "pong"}
Due(c)    == Sift(Counting(at[c] - 1), Owing(c))
Answered(c) == [x \in DOMAIN replies[c] |-> replies[c][x].n]

\* The client reads the answers in the order of its requests, one for each write
\* and query and none for the rest, whatever happened to each of them; once an
\* answer is lost on its way nothing follows, so that no answer is ever taken for
\* that of another request.
AnswersInOrder ==
    \A c \in Conns : IF cut[c] THEN IsPrefix(Answered(c), Due(c)) ELSE Answered(c) = Due(c)

\* A success covers every day of the write: each of its points is with a writer
\* or on disk, although the days are handed over one by one.
SuccessIsWhole ==
    \A c \in Conns : \A x \in DOMAIN replies[c] :
        LET r == reqs[c][replies[c][x].n] IN
        r.kind = "write" /\ replies[c][x].code = "success" =>
            \A d \in r.days : <<c, replies[c][x].n, d>> \in disk \union buffer[d]

\* What was answered with success before Storage.Close takes the lock is on disk
\* when the process ends, whatever the handlers do during the shutdown.
EarlyIsDurable == mpc = "exit" /\ ~panicked => early \subseteq disk

\* The answers of success to requests of kind k that clients have seen.
SeenSuccess(c, x, k) ==
    /\ x \in DOMAIN replies[c]
    /\ replies[c][x].code = "success" /\ reqs[c][replies[c][x].n].kind = k
Successes(k) == {p \in Conns \X (1 .. MaxRequests) : SeenSuccess(p[1], p[2], k)}

\* The handlers that have sent a success and are about to count it.
Uncounted(k) == {c \in Conns : pc[c] = "count" /\ code[c] = "success" /\ Done(c).kind = k}

\* The statistics: the open connections are the running handlers, and the totals
\* lag behind the successes that clients have seen by no more than the handlers
\* between sending and counting.
StatsAgree ==
    /\ activeConns = Cardinality(Live)
    /\ \A k \in {"write", "query"} :
          Cardinality(Successes(k)) <= totals[k] + Cardinality(Uncounted(k))

\* Once the signal has come the process ends, though clients stay connected and
\* handlers wait for the lock that Storage.Close holds.
ShutdownEnds == (mpc = "stop") ~> (mpc = "exit")

\* A write that was read is answered, unless its answer or an earlier one is lost
\* on its way or the process ends first.
EveryWriteAnswered ==
    \A c \in Conns : \A n \in 1 .. MaxRequests :
        (pc[c] = "group" /\ at[c] = n) ~>
            (n \in Range(Answered(c)) \/ cut[c] \/ mpc = "exit")

=============================================================================
