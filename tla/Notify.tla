------------------------------- MODULE Notify -------------------------------
(***************************************************************************)
(* ListenForNotifications and the connection pool it takes its connection  *)
(* from (gobackendkit/db/db_postgres.go).  A call acquires a connection,   *)
(* executes LISTEN on it and hands what arrives to its callback until its  *)
(* context is cancelled; then the connection goes back to the pool as it   *)
(* is, still listening.  pgxpool and the server are modelled from their    *)
(* use: a pool of connections, each with the notifications on their way.   *)
(***************************************************************************)
EXTENDS Integers, Sequences, SequencesExt, FiniteSets, Sifting

CONSTANTS
    Listeners,      \* the calls of ListenForNotifications
    channel,        \* the channel of each
    PoolConns,      \* the connections the pool may open
    NoConn,
    MaxSent,        \* the most notifications sent
    MaxBreaks       \* the most connections lost

Channels == {channel[l] : l \in Listeners}

ASSUME NotifyAssumption ==
    /\ DOMAIN channel = Listeners /\ NoConn \notin PoolConns
    /\ MaxSent \in Nat /\ MaxBreaks \in Nat

VARIABLES
    lpc,            \* where each call is
    conn,           \* its connection, kept when it has been released
    cancelled,      \* the calls whose context is cancelled
    calls,          \* the calls of onChange: [label, id]
    since,          \* how many notifications had been sent at its LISTEN
    connState,      \* "none", "idle", "taken" or "broken"
    listening,      \* the channels the server sends to a connection
    arriving,       \* the notifications not yet read from a connection
    sent,           \* the channels of the notifications, in order
    breaks,
    pool            \* "open", "closing" or "closed"

notifyVars == <<lpc, conn, cancelled, calls, since, connState, listening, arriving,
                sent, breaks, pool>>
connVars == <<connState, listening, arriving>>
callVars == <<conn, calls, since>>

NotifyInit ==
    /\ lpc = [l \in Listeners |-> "idle"] /\ conn = [l \in Listeners |-> NoConn]
    /\ cancelled = {}
    /\ calls = [l \in Listeners |-> <<>>] /\ since = [l \in Listeners |-> 0]
    /\ connState = [c \in PoolConns |-> "none"]
    /\ listening = [c \in PoolConns |-> {}] /\ arriving = [c \in PoolConns |-> <<>>]
    /\ sent = <<>> /\ breaks = 0 /\ pool = "open"

Goto(l, label) == lpc' = [lpc EXCEPT ![l] = label]

-----------------------------------------------------------------------------
(* The pool.                                                                *)

Idle == {c \in PoolConns : connState[c] = "idle"}
Unused == {c \in PoolConns : connState[c] = "none"}

Destroy(cs) ==
    /\ connState' = [c \in PoolConns |-> IF c \in cs THEN "none" ELSE connState[c]]
    /\ listening' = [c \in PoolConns |-> IF c \in cs THEN {} ELSE listening[c]]
    /\ arriving' = [c \in PoolConns |-> IF c \in cs THEN <<>> ELSE arriving[c]]

\* A connection that is closed, or comes back to a closed pool, is destroyed;
\* any other stays as it is.
Release(c) ==
    IF connState[c] = "broken" \/ pool # "open" THEN Destroy({c})
    ELSE /\ connState' = [connState EXCEPT ![c] = "idle"]
         /\ UNCHANGED <<listening, arriving>>

\* db.Close: the pool destroys the idle connections and waits for the others.
ClosePool ==
    /\ pool = "open"
    /\ pool' = "closing"
    /\ Destroy(Idle)
    /\ UNCHANGED <<lpc, callVars, cancelled, sent, breaks>>

PoolClosed ==
    /\ pool = "closing" /\ Unused = PoolConns
    /\ pool' = "closed"
    /\ UNCHANGED <<lpc, callVars, cancelled, connVars, sent, breaks>>

-----------------------------------------------------------------------------
(* A call.                                                                  *)

\* go ListenForNotifications(...)
Call(l) ==
    /\ lpc[l] = "idle" /\ Goto(l, "acquire")
    /\ UNCHANGED <<callVars, cancelled, connVars, sent, breaks, pool>>

\* An idle connection is taken before another is opened.
Acquire(l) ==
    /\ lpc[l] = "acquire" /\ l \notin cancelled /\ pool = "open"
    /\ \E c \in IF Idle # {} THEN Idle ELSE Unused :
        /\ conn' = [conn EXCEPT ![l] = c]
        /\ connState' = [connState EXCEPT ![c] = "taken"]
    /\ Goto(l, "listen")
    /\ UNCHANGED <<calls, since, cancelled, listening, arriving, sent, breaks, pool>>

\* No connection can be had, or a new one not be made.
AcquireFail(l) ==
    /\ lpc[l] = "acquire"
    /\ l \in cancelled \/ pool # "open" \/ (Idle = {} /\ Unused # {})
    /\ Goto(l, "done")
    /\ UNCHANGED <<callVars, cancelled, connVars, sent, breaks, pool>>

\* Mutant: the connection is given back once LISTEN has been executed.
ListenAndRelease(l) ==
    /\ lpc[l] = "listen" /\ connState[conn[l]] = "taken"
    /\ listening' = [listening EXCEPT ![conn[l]] = @ \union {channel[l]}]
    /\ connState' = [connState EXCEPT ![conn[l]] = "idle"]
    /\ since' = [since EXCEPT ![l] = Len(sent)]
    /\ Goto(l, "select")
    /\ UNCHANGED <<conn, calls, cancelled, arriving, sent, breaks, pool>>

Listen(l) ==
    /\ lpc[l] = "listen" /\ connState[conn[l]] = "taken"
    /\ listening' = [listening EXCEPT ![conn[l]] = @ \union {channel[l]}]
    /\ since' = [since EXCEPT ![l] = Len(sent)]
    /\ Goto(l, "select")
    /\ UNCHANGED <<conn, calls, cancelled, connState, arriving, sent, breaks, pool>>

\* The statement fails; when the context is cancelled under it, pgx closes the
\* connection.
ListenFail(l) ==
    /\ lpc[l] = "listen"
    /\ Release(conn[l]) \/ (l \in cancelled /\ Destroy({conn[l]}))
    /\ Goto(l, "done")
    /\ UNCHANGED <<callVars, cancelled, sent, breaks, pool>>

\* The deferred Release of every return from the loop.
Return(l) ==
    /\ Release(conn[l])
    /\ Goto(l, "done")
    /\ UNCHANGED <<callVars, cancelled, sent, breaks, pool>>

SelectDone(l) == lpc[l] = "select" /\ l \in cancelled /\ Return(l)

SelectDefault(l) ==
    /\ lpc[l] = "select" /\ l \notin cancelled
    /\ Goto(l, "wait")
    /\ UNCHANGED <<callVars, cancelled, connVars, sent, breaks, pool>>

\* Mutant: what is there to be read is read, and the last of it handed on.
ReceiveLast(l) ==
    /\ lpc[l] = "wait" /\ connState[conn[l]] = "taken" /\ arriving[conn[l]] # <<>>
    /\ calls' = [calls EXCEPT ![l] =
            Append(@, [label |-> channel[l], id |-> Last(arriving[conn[l]])])]
    /\ arriving' = [arriving EXCEPT ![conn[l]] = <<>>]
    /\ Goto(l, "select")
    /\ UNCHANGED <<conn, since, cancelled, connState, listening, sent, breaks, pool>>

\* onChange is told the channel of the call, not that of the notification.
Receive(l) ==
    /\ lpc[l] = "wait" /\ connState[conn[l]] = "taken" /\ arriving[conn[l]] # <<>>
    /\ calls' = [calls EXCEPT ![l] =
            Append(@, [label |-> channel[l], id |-> Head(arriving[conn[l]])])]
    /\ arriving' = [arriving EXCEPT ![conn[l]] = Tail(@)]
    /\ Goto(l, "select")
    /\ UNCHANGED <<conn, since, cancelled, connState, listening, sent, breaks, pool>>

\* Nothing within 30 seconds: pgx wraps the error, so that neither comparison
\* recognises it; like any other error it is logged and slept over.
TimeOut(l) ==
    /\ lpc[l] = "wait" /\ connState[conn[l]] = "taken" /\ arriving[conn[l]] = <<>>
    /\ l \notin cancelled
    /\ Goto(l, "sleep")
    /\ UNCHANGED <<callVars, cancelled, connVars, sent, breaks, pool>>

\* A lost connection fails every wait; it is never replaced.
WaitFail(l) ==
    /\ lpc[l] = "wait" /\ connState[conn[l]] = "broken" /\ l \notin cancelled
    /\ Goto(l, "sleep")
    /\ UNCHANGED <<callVars, cancelled, connVars, sent, breaks, pool>>

WaitCancelled(l) == lpc[l] = "wait" /\ l \in cancelled /\ Return(l)

\* Mutant: a call that waits for its connection to recover never looks at its
\* context again.
WakeToWait(l) ==
    /\ lpc[l] = "sleep" /\ connState[conn[l]] # "broken" /\ Goto(l, "select")
    /\ UNCHANGED <<callVars, cancelled, connVars, sent, breaks, pool>>

\* Mutant: a wait that fails ends the call.
WakeAndReturn(l) == lpc[l] = "sleep" /\ Return(l)

Wake(l) ==
    /\ lpc[l] = "sleep" /\ Goto(l, "select")
    /\ UNCHANGED <<callVars, cancelled, connVars, sent, breaks, pool>>

-----------------------------------------------------------------------------
(* The program around the calls, and the database server.                   *)

Cancel(l) ==
    /\ l \notin cancelled /\ lpc[l] \notin {"idle", "done"}
    /\ cancelled' = cancelled \union {l}
    /\ UNCHANGED <<lpc, callVars, connVars, sent, breaks, pool>>

\* NOTIFY: the notification goes to every connection that listens to its channel.
Send(ch) ==
    /\ Len(sent) < MaxSent
    /\ sent' = Append(sent, ch)
    /\ arriving' = [c \in PoolConns |->
            IF ch \in listening[c] /\ connState[c] # "broken"
            THEN Append(arriving[c], Len(sent')) ELSE arriving[c]]
    /\ UNCHANGED <<lpc, callVars, cancelled, connState, listening, breaks, pool>>

\* The connection is lost.  One that is idle is found out and destroyed before
\* it is handed out again.
Break(c) ==
    /\ breaks < MaxBreaks /\ connState[c] \in {"idle", "taken"}
    /\ breaks' = breaks + 1
    /\ IF connState[c] = "idle" THEN Destroy({c})
       ELSE /\ connState' = [connState EXCEPT ![c] = "broken"]
            /\ listening' = [listening EXCEPT ![c] = {}]
            /\ arriving' = [arriving EXCEPT ![c] = <<>>]
    /\ UNCHANGED <<lpc, callVars, cancelled, sent, pool>>

\* The steps a call takes by itself.
ListenerStep(l) ==
    \/ Acquire(l) \/ AcquireFail(l) \/ Listen(l) \/ ListenFail(l)
    \/ SelectDone(l) \/ SelectDefault(l)
    \/ Receive(l) \/ TimeOut(l) \/ WaitFail(l) \/ WaitCancelled(l) \/ Wake(l)

NotifyNext ==
    \/ \E l \in Listeners : Call(l) \/ ListenerStep(l) \/ Cancel(l)
    \/ \E ch \in Channels : Send(ch)
    \/ \E c \in PoolConns : Break(c)
    \/ ClosePool \/ PoolClosed

NotifySpec == NotifyInit /\ [][NotifyNext]_notifyVars

\* A goroutine that can go on does; the waits and sleeps end.
NotifyFairness ==
    /\ \A l \in Listeners : WF_notifyVars(ListenerStep(l))
    /\ WF_notifyVars(PoolClosed)

-----------------------------------------------------------------------------

Looping(l) == lpc[l] \in {"select", "wait", "sleep"}
Lost(l) == Looping(l) /\ connState[conn[l]] = "broken"

\* The notifications of its channel since its LISTEN: all, and those handed on.
Relevant(l) == {i \in DOMAIN sent : i > since[l] /\ sent[i] = channel[l]}
Due(l) == Sift(Counting(Len(sent)), Relevant(l))
Told(l) == [i \in DOMAIN calls[l] |-> calls[l][i].id]
HandedOn(l) == Sift(Told(l), Relevant(l))

\* A call in its loop whose connection lives; what it was told, and after that
\* what is still to be read from the connection.
Current(l) == Looping(l) /\ connState[conn[l]] = "taken"
Owed(l) == Told(l) \o arriving[conn[l]]

\* A callback is told of a wrong channel only when an earlier call that
\* listened to the true one has left its connection to this call; two calls
\* that are in their loops never share one.  (The callback takes the label of
\* the call, and Release leaves the LISTEN in force.)
WrongLabelIsInherited ==
    /\ \A l \in Listeners : \A i \in DOMAIN calls[l] :
        LET true == sent[calls[l][i].id]
        IN  calls[l][i].label # true =>
                \E m \in Listeners \ {l} :
                    channel[m] = true /\ conn[m] = conn[l] /\ lpc[m] = "done"
    /\ \A l, m \in Listeners : l # m /\ Looping(l) /\ Looping(m) => conn[l] # conn[m]

\* Whatever timeouts and sleeps come between, no notification since LISTEN is
\* skipped, repeated or handed on out of order: while the connection lives, what
\* was handed on and what still waits on the connection are together all that
\* was sent; and what was handed on never has a gap, then or later.
NothingSkipped ==
    \A l \in Listeners :
        /\ Current(l) => Sift(Owed(l), Relevant(l)) = Due(l)
        /\ IsPrefix(HandedOn(l), Due(l))

\* What is sent to a call in its loop reaches its callback, unless the call is
\* cancelled or has lost its connection, which it never replaces.
NotificationDelivered ==
    \A l \in Listeners : \A n \in 1 .. MaxSent :
        (Looping(l) /\ n \in DOMAIN sent /\ n > since[l] /\ sent[n] = channel[l])
            ~> \/ \E i \in DOMAIN calls[l] : calls[l][i].id = n
               \/ l \in cancelled \/ Lost(l)

\* A cancelled call returns, on a lost connection too, and closing the pool
\* ends when every call is cancelled or has returned.
CloseReturns ==
    (/\ pool = "closing"
     /\ \A l \in Listeners : lpc[l] \notin {"idle", "done"} => l \in cancelled)
        ~> (pool = "closed")

=============================================================================
