----------------------------- MODULE NotifyProofs -----------------------------
(* Which callbacks may be told of a wrong channel, and that none is told too *)
(* little, for any number of calls, of connections and of notifications.     *)
EXTENDS Notify, SiftingProofs, SequenceTheorems, TLAPS

Holding == {"listen", "select", "wait", "sleep"}

\* Types, with the connection of each call that has one.
NotifyTypes ==
    /\ lpc \in [Listeners -> {"idle", "acquire", "done"} \union Holding]
    /\ conn \in [Listeners -> PoolConns \union {NoConn}]
    /\ calls \in [Listeners -> Seq([label : Channels, id : Nat])]
    /\ connState \in [PoolConns -> {"none", "idle", "taken", "broken"}]
    /\ listening \in [PoolConns -> SUBSET Channels]
    /\ arriving \in [PoolConns -> Seq(Nat)]
    /\ sent \in Seq(Channels)

\* A call that holds a connection holds it alone.
HoldingInv ==
    /\ \A l \in Listeners : lpc[l] \in Holding =>
            conn[l] \in PoolConns /\ connState[conn[l]] \in {"taken", "broken"}
    /\ \A l, m \in Listeners :
            l # m /\ lpc[l] \in Holding /\ lpc[m] \in Holding => conn[l] # conn[m]

\* A call to channel ch has executed LISTEN on connection c.
Heard(c, ch) ==
    \E m \in Listeners :
        channel[m] = ch /\ conn[m] = c /\ lpc[m] \in {"select", "wait", "sleep", "done"}

\* A connection listens only to channels that some call made it listen to, and
\* what arrives on it was sent to one of them.
HeardAt(c) ==
    /\ \A ch \in listening[c] : Heard(c, ch)
    /\ \A i \in DOMAIN arriving[c] :
            arriving[c][i] \in DOMAIN sent /\ Heard(c, sent[arriving[c][i]])
HeardInv == \A c \in PoolConns : HeardAt(c)

\* The label of a call of onChange is right, or was inherited.
LabelInv ==
    \A l \in Listeners : \A i \in DOMAIN calls[l] :
        /\ calls[l][i].id \in DOMAIN sent
        /\ calls[l][i].label # sent[calls[l][i].id] =>
                \E m \in Listeners \ {l} :
                    /\ channel[m] = sent[calls[l][i].id] /\ conn[m] = conn[l]
                    /\ lpc[m] = "done"

\* A call with something handed on has listened; before, it has no connection.
CallsInv == \A l \in Listeners : lpc[l] \in {"idle", "acquire", "listen"} => calls[l] = <<>>

NotifyInv == NotifyTypes /\ HoldingInv /\ HeardInv /\ LabelInv /\ CallsInv

-----------------------------------------------------------------------------

\* The steps of a call that leave connections and callbacks alone.
Passes(l) == AcquireFail(l) \/ SelectDefault(l) \/ TimeOut(l) \/ WaitFail(l) \/ Wake(l)

\* The steps by which a call gives its connection back.
Leaves(l) == ListenFail(l) \/ SelectDone(l) \/ WaitCancelled(l)

\* What these steps do to the calls, and to the connections: one connection is
\* released, or destroyed.
LEMMA LeavesEffect ==
  ASSUME NotifyTypes, HoldingInv, NEW l \in Listeners, Leaves(l)
  PROVE  /\ lpc[l] \in Holding /\ lpc' = [lpc EXCEPT ![l] = "done"]
         /\ UNCHANGED <<conn, calls, since, cancelled, sent, breaks, pool>>
         /\ connState' \in [PoolConns -> {"none", "idle", "taken", "broken"}]
         /\ \A c \in PoolConns : c # conn[l] => connState'[c] = connState[c]
         /\ \A c \in PoolConns : listening'[c] \in {listening[c], {}}
         /\ \A c \in PoolConns : arriving'[c] \in {arriving[c], <<>>}
         /\ \A c \in PoolConns : c # conn[l] => listening'[c] = listening[c] /\ arriving'[c] = arriving[c]
         /\ listening' \in [PoolConns -> SUBSET Channels] /\ arriving' \in [PoolConns -> Seq(Nat)]
  <1>1. /\ lpc[l] \in Holding /\ lpc' = [lpc EXCEPT ![l] = "done"]
        /\ UNCHANGED <<conn, calls, since, cancelled, sent, breaks, pool>>
        /\ Release(conn[l]) \/ Destroy({conn[l]})
    BY DEF Leaves, ListenFail, SelectDone, WaitCancelled, Return, Goto, callVars, Holding
  <1>2. conn[l] \in PoolConns
    BY <1>1 DEF HoldingInv
  <1>3. CASE Destroy({conn[l]})
    BY <1>1, <1>2, <1>3 DEF Destroy, NotifyTypes
  <1>4. CASE connState' = [connState EXCEPT ![conn[l]] = "idle"] /\ UNCHANGED <<listening, arriving>>
    BY <1>1, <1>2, <1>4 DEF NotifyTypes
  <1> QED BY <1>1, <1>3, <1>4 DEF Release

\* The invariant holds at the start.
LEMMA NotifyInitInv == NotifyInit => NotifyInv
  <1> SUFFICES ASSUME NotifyInit PROVE NotifyInv
    OBVIOUS
  <1>1. /\ calls \in [Listeners -> Seq([label : Channels, id : Nat])]
        /\ arriving \in [PoolConns -> Seq(Nat)] /\ sent \in Seq(Channels)
    BY DEF NotifyInit
  <1>2. NotifyTypes
    BY <1>1 DEF NotifyInit, NotifyTypes
  <1> QED
    BY <1>2 DEF NotifyInit, NotifyInv, HoldingInv, HeardInv, HeardAt, LabelInv, CallsInv, Holding

\* A callback adds one entry.
LEMMA ReceiveEffect ==
  ASSUME NotifyTypes, NEW l \in Listeners, Receive(l), conn[l] \in PoolConns
  PROVE  /\ arriving[conn[l]] # <<>>
         /\ calls' \in [Listeners -> Seq([label : Channels, id : Nat])]
         /\ \A m \in Listeners : m # l => calls'[m] = calls[m]
         /\ calls'[l] = Append(calls[l], [label |-> channel[l], id |-> arriving[conn[l]][1]])
         /\ \A i \in DOMAIN calls'[l] :
                \/ i \in DOMAIN calls[l] /\ calls'[l][i] = calls[l][i]
                \/ calls'[l][i] = [label |-> channel[l], id |-> arriving[conn[l]][1]]
         /\ arriving' \in [PoolConns -> Seq(Nat)]
         /\ \A c \in PoolConns : c # conn[l] => arriving'[c] = arriving[c]
         /\ \A i \in DOMAIN arriving'[conn[l]] :
                i + 1 \in DOMAIN arriving[conn[l]] /\ arriving'[conn[l]][i] = arriving[conn[l]][i + 1]
  <1> DEFINE R == [label : Channels, id : Nat]
             r == [label |-> channel[l], id |-> arriving[conn[l]][1]]
             a == arriving[conn[l]]
  <1>1. a \in Seq(Nat) /\ a # <<>> /\ calls[l] \in Seq(R)
    BY DEF Receive, NotifyTypes
  <1>2. r \in R
    BY <1>1 DEF Channels
  <1>3. calls' = [calls EXCEPT ![l] = Append(@, r)] /\ arriving' = [arriving EXCEPT ![conn[l]] = Tail(@)]
    BY DEF Receive
  <1>4. calls'[l] = Append(calls[l], r) /\ \A m \in Listeners : m # l => calls'[m] = calls[m]
    BY <1>3 DEF NotifyTypes
  <1>5. Append(calls[l], r) \in Seq(R) /\ \A i \in DOMAIN Append(calls[l], r) :
            (i \in DOMAIN calls[l] /\ Append(calls[l], r)[i] = calls[l][i]) \/ Append(calls[l], r)[i] = r
    <2> HIDE DEF R, r
    <2> QED BY <1>1, <1>2
  <1>6. calls' \in [Listeners -> Seq(R)]
    <2> HIDE DEF R, r
    <2>1. calls \in [Listeners -> Seq(R)]
      BY DEF NotifyTypes, R
    <2> QED BY <1>3, <1>5, <2>1
  <1>7. arriving'[conn[l]] = Tail(a) /\ \A c \in PoolConns : c # conn[l] => arriving'[c] = arriving[c]
    BY <1>3 DEF NotifyTypes
  <1>8. Tail(a) \in Seq(Nat) /\ \A i \in DOMAIN Tail(a) : i + 1 \in DOMAIN a /\ Tail(a)[i] = a[i + 1]
    <2> HIDE DEF a
    <2> QED BY <1>1
  <1>9. arriving' \in [PoolConns -> Seq(Nat)]
    BY <1>3, <1>8 DEF NotifyTypes
  <1> QED BY <1>1, <1>4, <1>5, <1>6, <1>7, <1>8, <1>9

\* Every step keeps the types, and that a connection is held by one call.
LEMMA TypesStep ==
  NotifyInv /\ [NotifyNext]_notifyVars => NotifyTypes' /\ HoldingInv' /\ CallsInv'
<1> SUFFICES ASSUME NotifyInv, [NotifyNext]_notifyVars
             PROVE  NotifyTypes' /\ HoldingInv' /\ CallsInv'
  OBVIOUS
<1> USE DEF callVars, connVars, Goto
<1>0. NotifyTypes /\ HoldingInv /\ CallsInv /\ HeardInv
  BY DEF NotifyInv
<1>1. ASSUME NEW l \in Listeners, Call(l) \/ Passes(l)
      PROVE  NotifyTypes' /\ HoldingInv' /\ CallsInv'
  <2>1. /\ UNCHANGED <<conn, calls, connState, listening, arriving, sent>>
        /\ \/ lpc[l] = "idle" /\ lpc' = [lpc EXCEPT ![l] = "acquire"]
           \/ lpc[l] = "acquire" /\ lpc' = [lpc EXCEPT ![l] = "done"]
           \/ /\ lpc[l] \in {"select", "wait", "sleep"}
              /\ \E to \in {"select", "wait", "sleep"} : lpc' = [lpc EXCEPT ![l] = to]
    BY <1>1 DEF Call, Passes, AcquireFail, SelectDefault, TimeOut, WaitFail, Wake
  <2>2. lpc' \in [Listeners -> {"idle", "acquire", "done"} \union Holding]
    BY <1>0, <2>1 DEF NotifyTypes, Holding
  <2>3. NotifyTypes'
    BY <1>0, <2>1, <2>2 DEF NotifyTypes
  <2>4. \A m \in Listeners :
            /\ lpc'[m] \in Holding => lpc[m] \in Holding
            /\ lpc'[m] \in {"idle", "acquire", "listen"} => lpc[m] \in {"idle", "acquire", "listen"}
    BY <1>0, <2>1 DEF NotifyTypes, Holding
  <2>5. HoldingInv' /\ CallsInv'
    BY <1>0, <2>1, <2>4 DEF HoldingInv, CallsInv
  <2> QED BY <2>3, <2>5
<1>2. ASSUME NEW l \in Listeners, Leaves(l)
      PROVE  NotifyTypes' /\ HoldingInv' /\ CallsInv'
  <2>1. NotifyTypes'
    BY <1>0, <1>2, LeavesEffect DEF NotifyTypes
  <2>2. HoldingInv'
    <3>1. /\ lpc[l] \in Holding /\ UNCHANGED conn
          /\ \A m \in Listeners : m # l => lpc'[m] = lpc[m]
          /\ lpc'[l] = "done"
          /\ \A c \in PoolConns : c # conn[l] => connState'[c] = connState[c]
      BY <1>0, <1>2, LeavesEffect DEF NotifyTypes
    <3>2. \A m \in Listeners : lpc'[m] \in Holding =>
            m # l /\ lpc[m] \in Holding /\ conn[m] \in PoolConns /\ conn[m] # conn[l]
      BY <1>0, <3>1 DEF HoldingInv, Holding
    <3> QED BY <1>0, <3>1, <3>2 DEF HoldingInv
  <2>3. CallsInv'
    BY <1>0, <1>2, LeavesEffect DEF NotifyTypes, CallsInv
  <2> QED BY <2>1, <2>2, <2>3
<1>3. ASSUME NEW l \in Listeners, Acquire(l)
      PROVE  NotifyTypes' /\ HoldingInv' /\ CallsInv'
  <2>1. PICK c \in Idle \union Unused :
            /\ conn' = [conn EXCEPT ![l] = c] /\ connState' = [connState EXCEPT ![c] = "taken"]
    BY <1>3 DEF Acquire
  <2>2. /\ lpc[l] = "acquire" /\ lpc' = [lpc EXCEPT ![l] = "listen"]
        /\ UNCHANGED <<calls, listening, arriving, sent>>
    BY <1>3 DEF Acquire
  <2>3. c \in PoolConns /\ connState[c] \in {"idle", "none"}
    BY <2>1 DEF Idle, Unused
  <2>4. NotifyTypes'
    BY <1>0, <2>1, <2>2, <2>3 DEF NotifyTypes, Holding
  <2>5. HoldingInv'
    BY <1>0, <2>1, <2>2, <2>3 DEF NotifyTypes, HoldingInv, Holding
  <2>6. CallsInv'
    BY <1>0, <2>2 DEF NotifyTypes, CallsInv
  <2> QED BY <2>4, <2>5, <2>6
<1>4. ASSUME NEW l \in Listeners, Listen(l)
      PROVE  NotifyTypes' /\ HoldingInv' /\ CallsInv'
  <2>1. /\ lpc[l] = "listen" /\ lpc' = [lpc EXCEPT ![l] = "select"]
        /\ UNCHANGED <<conn, calls, connState, arriving, sent>>
        /\ listening' = [listening EXCEPT ![conn[l]] = @ \union {channel[l]}]
    BY <1>4 DEF Listen
  <2>2. NotifyTypes'
    BY <1>0, <2>1 DEF NotifyTypes, Channels, Holding
  <2>3. \A m \in Listeners :
            /\ lpc'[m] \in Holding => lpc[m] \in Holding
            /\ lpc'[m] \in {"idle", "acquire", "listen"} => lpc[m] \in {"idle", "acquire", "listen"}
    BY <1>0, <2>1 DEF NotifyTypes, Holding
  <2>4. HoldingInv' /\ CallsInv'
    BY <1>0, <2>1, <2>3 DEF HoldingInv, CallsInv
  <2> QED BY <2>2, <2>4
<1>5. ASSUME NEW l \in Listeners, Receive(l)
      PROVE  NotifyTypes' /\ HoldingInv' /\ CallsInv'
  <2>1. /\ lpc[l] = "wait" /\ lpc' = [lpc EXCEPT ![l] = "select"]
        /\ UNCHANGED <<conn, connState, listening, sent>>
    BY <1>5 DEF Receive
  <2>2. conn[l] \in PoolConns
    BY <1>0, <2>1 DEF HoldingInv, Holding
  <2>3. NotifyTypes'
    BY <1>0, <1>5, <2>1, <2>2, ReceiveEffect DEF NotifyTypes, Holding
  <2>4. HoldingInv'
    BY <1>0, <2>1 DEF NotifyTypes, HoldingInv, Holding
  <2>5. CallsInv'
    BY <1>0, <1>5, <2>1, <2>2, ReceiveEffect DEF NotifyTypes, CallsInv
  <2> QED BY <2>3, <2>4, <2>5
<1>6. ASSUME NEW ch \in Channels, Send(ch)
      PROVE  NotifyTypes' /\ HoldingInv' /\ CallsInv'
  <2>1. /\ UNCHANGED <<lpc, conn, calls, connState, listening>>
        /\ sent' = Append(sent, ch)
        /\ arriving' = [c \in PoolConns |->
                IF ch \in listening[c] /\ connState[c] # "broken"
                THEN Append(arriving[c], Len(sent')) ELSE arriving[c]]
    BY <1>6 DEF Send
  <2>2. sent' \in Seq(Channels) /\ Len(sent') \in Nat
    BY <1>0, <2>1 DEF NotifyTypes
  <2>3. ASSUME NEW c \in PoolConns PROVE arriving'[c] \in Seq(Nat)
    BY <1>0, <2>1, <2>2 DEF NotifyTypes
  <2>4. arriving' \in [PoolConns -> Seq(Nat)]
    BY <2>1, <2>3
  <2> QED BY <1>0, <2>1, <2>2, <2>4 DEF NotifyTypes, HoldingInv, CallsInv
<1>7. ASSUME NEW cs \in SUBSET PoolConns, cs \subseteq Idle, Destroy(cs),
             UNCHANGED <<lpc, conn, calls, sent>>
      PROVE  NotifyTypes' /\ HoldingInv' /\ CallsInv'
  <2>0. /\ connState' \in [PoolConns -> {"none", "idle", "taken", "broken"}]
        /\ listening' \in [PoolConns -> SUBSET Channels]
    BY <1>0, <1>7 DEF NotifyTypes, Destroy
  <2>a. arriving' \in [PoolConns -> Seq(Nat)]
    <3>1. \A c \in PoolConns : arriving[c] \in Seq(Nat) /\ <<>> \in Seq(Nat)
      BY <1>0 DEF NotifyTypes
    <3> QED BY <1>7, <3>1, Zenon DEF Destroy
  <2>1. NotifyTypes'
    BY <1>0, <1>7, <2>0, <2>a DEF NotifyTypes
  <2> QED BY <1>0, <1>7, <2>1 DEF NotifyTypes, HoldingInv, CallsInv, Destroy, Idle
<1>8. ASSUME NEW c \in PoolConns, Break(c)
      PROVE  NotifyTypes' /\ HoldingInv' /\ CallsInv'
  <2>1. CASE connState[c] = "idle"
    BY <1>7, <1>8, <2>1 DEF Break, Idle
  <2>2. CASE connState[c] # "idle"
    <3>1. /\ UNCHANGED <<lpc, conn, calls, sent>>
          /\ connState' = [connState EXCEPT ![c] = "broken"]
          /\ listening' = [listening EXCEPT ![c] = {}]
          /\ arriving' = [arriving EXCEPT ![c] = <<>>]
      BY <1>8, <2>2 DEF Break
    <3>a. arriving' \in [PoolConns -> Seq(Nat)]
      <4>1. arriving \in [PoolConns -> Seq(Nat)] /\ <<>> \in Seq(Nat)
        BY <1>0 DEF NotifyTypes
      <4> QED BY <3>1, <4>1
    <3>b. /\ connState' \in [PoolConns -> {"none", "idle", "taken", "broken"}]
          /\ listening' \in [PoolConns -> SUBSET Channels]
      BY <1>0, <3>1 DEF NotifyTypes
    <3>2. NotifyTypes'
      BY <1>0, <3>1, <3>a, <3>b DEF NotifyTypes
    <3> QED BY <1>0, <3>1, <3>2 DEF NotifyTypes, HoldingInv, CallsInv
  <2> QED BY <2>1, <2>2
<1>9. CASE ClosePool
  BY <1>7, <1>9 DEF ClosePool, Idle
<1>10. ASSUME PoolClosed \/ (\E l \in Listeners : Cancel(l)) \/ UNCHANGED notifyVars
       PROVE  NotifyTypes' /\ HoldingInv' /\ CallsInv'
  <2>1. UNCHANGED <<lpc, conn, calls, connState, listening, arriving, sent>>
    BY <1>10 DEF PoolClosed, Cancel, notifyVars
  <2> QED BY <1>0, <2>1 DEF NotifyTypes, HoldingInv, CallsInv
<1> QED
  BY <1>1, <1>2, <1>3, <1>4, <1>5, <1>6, <1>8, <1>9, <1>10
     DEF NotifyNext, ListenerStep, Passes, Leaves

\* A call that has executed LISTEN keeps its connection and ends at most; what
\* was sent stays.
Forward ==
    /\ \A m \in Listeners :
            lpc[m] \in {"select", "wait", "sleep", "done"} =>
                /\ lpc'[m] \in {"select", "wait", "sleep", "done"} /\ conn'[m] = conn[m]
                /\ lpc[m] = "done" => lpc'[m] = "done"
    /\ \A n \in DOMAIN sent : n \in DOMAIN sent' /\ sent'[n] = sent[n]

LEMMA ForwardStep == NotifyInv /\ [NotifyNext]_notifyVars => Forward
<1> SUFFICES ASSUME NotifyInv, [NotifyNext]_notifyVars PROVE Forward
  OBVIOUS
<1> USE DEF callVars, connVars, Goto
<1>0. NotifyTypes /\ HoldingInv
  BY DEF NotifyInv
<1>1. ASSUME NEW l \in Listeners,
             \/ Call(l) \/ Passes(l) \/ Acquire(l) \/ Listen(l) \/ Receive(l) \/ Cancel(l)
      PROVE  Forward
  <2>1. /\ UNCHANGED sent
        /\ \A m \in Listeners : m # l => lpc'[m] = lpc[m] /\ conn'[m] = conn[m]
        /\ \/ lpc[l] \in {"idle", "acquire", "listen"}
           \/ UNCHANGED <<lpc, conn>>
           \/ /\ lpc[l] \in {"select", "wait", "sleep"} /\ lpc'[l] \in {"select", "wait", "sleep"}
              /\ UNCHANGED conn
    BY <1>0, <1>1 DEF NotifyTypes, Call, Passes, AcquireFail, SelectDefault, TimeOut, WaitFail, Wake,
       Acquire, Listen, Receive, Cancel
  <2> QED BY <2>1 DEF Forward
<1>2. ASSUME NEW l \in Listeners, Leaves(l) PROVE Forward
  BY <1>0, <1>2, LeavesEffect DEF NotifyTypes, Forward
<1>3. ASSUME NEW ch \in Channels, Send(ch) PROVE Forward
  <2>1. sent' = Append(sent, ch) /\ UNCHANGED <<lpc, conn>>
    BY <1>3 DEF Send
  <2> QED BY <1>0, <2>1 DEF NotifyTypes, Forward
<1>4. ASSUME ClosePool \/ PoolClosed \/ (\E c \in PoolConns : Break(c)) \/ UNCHANGED notifyVars
      PROVE  Forward
  <2>1. UNCHANGED <<lpc, conn, sent>>
    BY <1>4 DEF ClosePool, PoolClosed, Break, notifyVars
  <2> QED BY <2>1 DEF Forward
<1> QED
  BY <1>1, <1>2, <1>3, <1>4 DEF NotifyNext, ListenerStep, Passes, Leaves

\* Whoever made a connection listen to a channel is not forgotten.
LEMMA HeardStays ==
  ASSUME Forward, NEW c, NEW ch, Heard(c, ch)
  PROVE  Heard(c, ch)'
  BY DEF Forward, Heard

\* Every step keeps what is known of the connections.
LEMMA HeardStep == NotifyInv /\ [NotifyNext]_notifyVars => HeardInv'
<1> SUFFICES ASSUME NotifyInv, [NotifyNext]_notifyVars PROVE HeardInv'
  OBVIOUS
<1> USE DEF callVars, connVars, Goto
<1>0. NotifyTypes /\ HoldingInv /\ HeardInv /\ Forward
  BY ForwardStep DEF NotifyInv
\* What a connection listens to, and what arrives, may become less, or be what
\* was sent to a channel it listens to.
<1>a. ASSUME NEW c \in PoolConns,
             \A ch \in listening'[c] : Heard(c, ch) \/ Heard(c, ch)',
             \A i \in DOMAIN arriving'[c] :
                \/ \E j \in DOMAIN arriving[c] : arriving'[c][i] = arriving[c][j]
                \/ arriving'[c][i] \in DOMAIN sent' /\ Heard(c, sent'[arriving'[c][i]])
      PROVE  HeardAt(c)'
  <2>1. ASSUME NEW ch \in listening'[c] PROVE Heard(c, ch)'
    BY <1>0, <1>a, HeardStays
  <2>2. ASSUME NEW i \in DOMAIN arriving'[c], NEW n, n = arriving'[c][i],
               NEW ch, ch = sent'[n]
        PROVE  n \in DOMAIN sent' /\ Heard(c, ch)'
    <3>1. CASE n \in DOMAIN sent' /\ Heard(c, ch)
      BY <1>0, <3>1, HeardStays
    <3>2. ASSUME NEW j \in DOMAIN arriving[c], n = arriving[c][j]
          PROVE  n \in DOMAIN sent' /\ Heard(c, ch)'
      <4>1. n \in DOMAIN sent /\ Heard(c, sent[n])
        BY <1>0, <3>2 DEF HeardInv, HeardAt
      <4>2. n \in DOMAIN sent' /\ ch = sent[n]
        BY <1>0, <2>2, <4>1 DEF Forward
      <4> QED BY <1>0, <4>1, <4>2, HeardStays
    <3> QED BY <1>a, <2>2, <3>1, <3>2
  <2> QED BY <2>1, <2>2 DEF HeardAt
<1>b. ASSUME NEW c \in PoolConns, listening'[c] \in {listening[c], {}},
             arriving'[c] \in {arriving[c], <<>>}
      PROVE  HeardAt(c)'
  <2>1. \A ch \in listening'[c] : Heard(c, ch)
    BY <1>0, <1>b DEF HeardInv, HeardAt
  <2>2. \A i \in DOMAIN arriving'[c] : \E j \in DOMAIN arriving[c] : arriving'[c][i] = arriving[c][j]
    BY <1>b
  <2> QED BY <1>a, <2>1, <2>2
<1>1. ASSUME UNCHANGED <<listening, arriving>> PROVE HeardInv'
  BY <1>b, <1>1 DEF HeardInv
<1>2. ASSUME NEW l \in Listeners, Leaves(l) PROVE HeardInv'
  BY <1>0, <1>2, <1>b, LeavesEffect DEF HeardInv
<1>3. ASSUME NEW l \in Listeners, Listen(l) PROVE HeardInv'
  <2>1. /\ lpc[l] = "listen" /\ lpc'[l] = "select" /\ UNCHANGED <<conn, arriving>>
        /\ listening' = [listening EXCEPT ![conn[l]] = @ \union {channel[l]}]
    BY <1>0, <1>3 DEF Listen, NotifyTypes
  <2>2. Heard(conn[l], channel[l])'
    BY <2>1 DEF Heard
  <2>3. ASSUME NEW c \in PoolConns, NEW ch \in listening'[c] PROVE Heard(c, ch) \/ Heard(c, ch)'
    <3>1. CASE ch \in listening[c]
      BY <1>0, <3>1 DEF HeardInv, HeardAt
    <3>2. CASE c = conn[l] /\ ch = channel[l]
      BY <2>1, <2>2, <3>2 DEF Heard
    <3> QED BY <1>0, <2>1, <2>3, <3>1, <3>2 DEF NotifyTypes
  <2>4. \A c \in PoolConns : \A i \in DOMAIN arriving'[c] :
            \E j \in DOMAIN arriving[c] : arriving'[c][i] = arriving[c][j]
    BY <2>1
  <2> QED BY <1>a, <2>3, <2>4 DEF HeardInv
<1>4. ASSUME NEW l \in Listeners, Receive(l) PROVE HeardInv'
  <2>1. lpc[l] = "wait" /\ listening' = listening
    BY <1>4 DEF Receive
  <2>2. conn[l] \in PoolConns
    BY <1>0, <2>1 DEF HoldingInv, Holding
  <2>3. ASSUME NEW c \in PoolConns, NEW i \in DOMAIN arriving'[c]
        PROVE  \E j \in DOMAIN arriving[c] : arriving'[c][i] = arriving[c][j]
    <3>1. CASE c = conn[l]
      <4>1. i + 1 \in DOMAIN arriving[conn[l]] /\ arriving'[conn[l]][i] = arriving[conn[l]][i + 1]
        BY <1>0, <1>4, <2>2, <2>3, <3>1, ReceiveEffect
      <4> QED BY <3>1, <4>1
    <3>2. CASE c # conn[l]
      <4>1. arriving'[c] = arriving[c]
        BY <1>0, <1>4, <2>2, <3>2, ReceiveEffect
      <4> QED BY <2>3, <4>1
    <3> QED BY <3>1, <3>2
  <2>4. \A c \in PoolConns : \A ch \in listening'[c] : Heard(c, ch)
    BY <1>0, <2>1 DEF HeardInv, HeardAt
  <2> QED BY <1>a, <2>3, <2>4 DEF HeardInv
<1>5. ASSUME NEW ch \in Channels, Send(ch) PROVE HeardInv'
  <2>1. /\ listening' = listening /\ sent' = Append(sent, ch)
        /\ arriving' = [c \in PoolConns |->
                IF ch \in listening[c] /\ connState[c] # "broken"
                THEN Append(arriving[c], Len(sent')) ELSE arriving[c]]
    BY <1>5 DEF Send
  <2>2. Len(sent') \in DOMAIN sent' /\ sent'[Len(sent')] = ch
    BY <1>0, <2>1 DEF NotifyTypes
  <2>3. ASSUME NEW c \in PoolConns, NEW i \in DOMAIN arriving'[c]
        PROVE  \/ \E j \in DOMAIN arriving[c] : arriving'[c][i] = arriving[c][j]
               \/ arriving'[c][i] \in DOMAIN sent' /\ Heard(c, sent'[arriving'[c][i]])
    <3>1. CASE arriving'[c] = arriving[c]
      BY <3>1
    <3>2. CASE ch \in listening[c] /\ arriving'[c] = Append(arriving[c], Len(sent'))
      <4>1. arriving[c] \in Seq(Nat) /\ Heard(c, ch)
        BY <1>0, <3>2 DEF NotifyTypes, HeardInv, HeardAt
      <4>2. i \in DOMAIN arriving[c] \/ i = Len(arriving[c]) + 1
        BY <3>2, <4>1
      <4>3. CASE i \in DOMAIN arriving[c]
        BY <3>2, <4>1, <4>3
      <4>4. CASE i = Len(arriving[c]) + 1
        <5>1. arriving'[c][i] = Len(sent')
          BY <3>2, <4>1, <4>4
        <5> QED BY <2>2, <4>1, <5>1
      <4> QED BY <4>2, <4>3, <4>4
    <3> QED BY <2>1, <3>1, <3>2
  <2>4. \A c \in PoolConns : \A x \in listening'[c] : Heard(c, x)
    BY <1>0, <2>1 DEF HeardInv, HeardAt
  <2> QED BY <1>a, <2>3, <2>4 DEF HeardInv
<1>6. ASSUME ClosePool \/ \E c \in PoolConns : Break(c) PROVE HeardInv'
  <2>1. ASSUME NEW cs, Destroy(cs), NEW c \in PoolConns
        PROVE  listening'[c] \in {listening[c], {}} /\ arriving'[c] \in {arriving[c], <<>>}
    BY <2>1 DEF Destroy
  <2>2. ASSUME NEW b \in PoolConns, NEW c \in PoolConns, Break(b)
        PROVE  listening'[c] \in {listening[c], {}} /\ arriving'[c] \in {arriving[c], <<>>}
    BY <1>0, <2>1, <2>2 DEF Break, NotifyTypes
  <2> QED BY <1>6, <1>b, <2>1, <2>2 DEF ClosePool, HeardInv
<1>7. ASSUME NEW l \in Listeners, Call(l) \/ Passes(l) \/ Acquire(l) \/ Cancel(l)
      PROVE  UNCHANGED <<listening, arriving>>
  BY <1>7 DEF Call, Passes, AcquireFail, SelectDefault, TimeOut, WaitFail, Wake, Acquire, Cancel
<1>8. ASSUME PoolClosed \/ UNCHANGED notifyVars PROVE UNCHANGED <<listening, arriving>>
  BY <1>8 DEF PoolClosed, notifyVars
<1> QED
  BY <1>1, <1>2, <1>3, <1>4, <1>5, <1>6, <1>7, <1>8 DEF NotifyNext, ListenerStep, Passes, Leaves

\* Every step keeps the labels right or inherited.
LEMMA LabelStep == NotifyInv /\ [NotifyNext]_notifyVars => LabelInv'
<1> SUFFICES ASSUME NotifyInv, [NotifyNext]_notifyVars PROVE LabelInv'
  OBVIOUS
<1>0. NotifyTypes /\ HoldingInv /\ HeardInv /\ LabelInv /\ CallsInv /\ Forward
  BY ForwardStep DEF NotifyInv
<1> DEFINE Right(l, e) ==
        /\ e.id \in DOMAIN sent
        /\ e.label # sent[e.id] =>
                \E m \in Listeners \ {l} :
                    channel[m] = sent[e.id] /\ conn[m] = conn[l] /\ lpc[m] = "done"
\* What has been handed on stays right while its call keeps its connection.
<1>a. ASSUME NEW l \in Listeners, NEW e, Right(l, e), conn'[l] = conn[l]
      PROVE  Right(l, e)'
  BY <1>0, <1>a DEF Forward
<1>b. ASSUME NEW l \in Listeners, calls'[l] # <<>>, calls'[l] = calls[l] PROVE conn'[l] = conn[l]
  BY <1>0, <1>b DEF Forward, CallsInv, NotifyTypes, Holding
<1>c. ASSUME \A l \in Listeners : \A i \in DOMAIN calls'[l] : \A e :
                e = calls'[l][i] => Right(l, e)'
      PROVE  LabelInv'
  BY <1>c DEF LabelInv
<1>d. ASSUME NEW l \in Listeners, calls'[l] = calls[l], NEW i \in DOMAIN calls'[l],
             NEW e, e = calls'[l][i]
      PROVE  Right(l, e)'
  <2>1. calls'[l] # <<>>
    BY <1>d
  <2>2. Right(l, e)
    BY <1>0, <1>d DEF LabelInv
  <2> QED BY <1>a, <1>b, <1>d, <2>1, <2>2
<1> HIDE DEF Right
<1>1. ASSUME calls' = calls PROVE LabelInv'
  BY <1>1, <1>c, <1>d
<1>2. ASSUME NEW l \in Listeners, Receive(l) PROVE LabelInv'
  <2>1. lpc[l] = "wait" /\ UNCHANGED <<conn, sent>>
    BY <1>2 DEF Receive
  <2>2. conn[l] \in PoolConns /\ arriving[conn[l]] # <<>>
    BY <1>0, <1>2, <2>1 DEF HoldingInv, Holding, Receive
  <2> DEFINE n == arriving[conn[l]][1]
  <2>3. n \in DOMAIN sent /\ Heard(conn[l], sent[n])
    <3>1. 1 \in DOMAIN arriving[conn[l]]
      BY <1>0, <2>2 DEF NotifyTypes
    <3> QED BY <1>0, <2>2, <3>1 DEF HeardInv, HeardAt
  <2>4. ASSUME sent[n] # channel[l]
        PROVE  \E m \in Listeners \ {l} :
                    channel[m] = sent[n] /\ conn[m] = conn[l] /\ lpc[m] = "done"
    <3>1. PICK m \in Listeners :
            channel[m] = sent[n] /\ conn[m] = conn[l] /\ lpc[m] \in {"select", "wait", "sleep", "done"}
      BY <2>3 DEF Heard
    <3>2. m # l
      BY <2>4, <3>1
    <3>3. lpc[m] = "done"
      BY <1>0, <2>1, <3>1, <3>2 DEF HoldingInv, Holding
    <3> QED BY <3>1, <3>2, <3>3
  <2>5. ASSUME NEW e, e = [label |-> channel[l], id |-> n] PROVE Right(l, e)
    BY <2>3, <2>4, <2>5 DEF Right
  <2>6. ASSUME NEW k \in Listeners, NEW i \in DOMAIN calls'[k], NEW e, e = calls'[k][i]
        PROVE  Right(k, e)'
    <3>1. CASE k # l
      <4>1. calls'[k] = calls[k]
        BY <1>0, <1>2, <2>2, <3>1, ReceiveEffect
      <4> QED BY <1>d, <2>6, <4>1
    <3>2. CASE k = l /\ i \in DOMAIN calls[l] /\ e = calls[l][i]
      <4>1. Right(l, e)
        BY <1>0, <3>2 DEF Right, LabelInv
      <4> QED BY <1>a, <2>1, <3>2, <4>1
    <3>3. CASE k = l /\ e = [label |-> channel[l], id |-> n]
      <4>1. Right(l, e)
        BY <2>5, <3>3
      <4> QED BY <1>a, <2>1, <3>3, <4>1
    <3> QED BY <1>0, <1>2, <2>2, <2>6, <3>1, <3>2, <3>3, ReceiveEffect
  <2> QED BY <1>c, <2>6
<1>3. ASSUME NEW l \in Listeners,
             Call(l) \/ Passes(l) \/ Acquire(l) \/ Listen(l) \/ Cancel(l)
      PROVE  calls' = calls
  BY <1>3 DEF Call, Passes, AcquireFail, SelectDefault, TimeOut, WaitFail, Wake, Acquire, Listen,
     Cancel, callVars
<1>4. ASSUME NEW l \in Listeners, Leaves(l) PROVE calls' = calls
  BY <1>0, <1>4, LeavesEffect
<1>5. ASSUME \/ ClosePool \/ PoolClosed \/ (\E c \in PoolConns : Break(c))
             \/ (\E ch \in Channels : Send(ch)) \/ UNCHANGED notifyVars
      PROVE  calls' = calls
  BY <1>5 DEF ClosePool, PoolClosed, Break, Send, callVars, notifyVars
<1> QED
  BY <1>1, <1>2, <1>3, <1>4, <1>5 DEF NotifyNext, ListenerStep, Passes, Leaves

\* The invariant of the calls and their connections, in every behaviour.
LEMMA NotifyInvariant == NotifySpec => []NotifyInv
<1>1. NotifyInv /\ [NotifyNext]_notifyVars => NotifyInv'
  BY TypesStep, HeardStep, LabelStep DEF NotifyInv
<1> QED BY <1>1, NotifyInitInv, PTL DEF NotifySpec

\* A callback is told of a wrong channel only by a connection that an earlier
\* call has left listening, and two calls in their loops never share one
\* (ListenForNotifications, Release).
THEOREM WrongLabelsAreInherited == NotifySpec => []WrongLabelIsInherited
<1>1. NotifyInv => WrongLabelIsInherited
  BY DEF NotifyInv, LabelInv, HoldingInv, Holding, Looping, WrongLabelIsInherited
<1> QED BY <1>1, NotifyInvariant, PTL

-----------------------------------------------------------------------------
(* Nothing is skipped.  As long as a call in its loop has a connection, what   *)
(* its callback was told and what is still to be read are, between them and in *)
(* order, all that was sent since its LISTEN.                                  *)

OwedAll(l) == channel[l] \in listening[conn[l]] /\ Sift(Owed(l), Relevant(l)) = Due(l)
OwedInv == \A l \in Listeners : Current(l) => OwedAll(l)
ToldInOrder == \A l \in Listeners : IsPrefix(HandedOn(l), Due(l))

\* Every call has a place in the record of what had been sent at its LISTEN.
SinceDomain == DOMAIN since = Listeners

LEMMA SinceInvariant == NotifySpec => []SinceDomain
<1>1. NotifyInit => SinceDomain
  BY DEF NotifyInit, SinceDomain
<1>2. SinceDomain /\ [NotifyNext]_notifyVars => SinceDomain'
  BY DEF NotifyNext, ListenerStep, Call, Acquire, AcquireFail, Listen, ListenFail, SelectDone,
         SelectDefault, Receive, TimeOut, WaitFail, WaitCancelled, Wake, Return, Cancel, Send,
         Break, ClosePool, PoolClosed, callVars, notifyVars, SinceDomain
<1> QED BY <1>1, <1>2, PTL DEF NotifySpec

\* What a callback was told, as a sequence.
LEMMA ToldType ==
  ASSUME NotifyTypes, LabelInv, NEW l \in Listeners
  PROVE  /\ Told(l) \in Seq(Nat) /\ Range(Told(l)) \subseteq DOMAIN sent
         /\ Len(Told(l)) = Len(calls[l]) /\ \A i \in 1 .. Len(calls[l]) : Told(l)[i] = calls[l][i].id
  <1> DEFINE R == [label : Channels, id : Nat]
             t == Told(l)
  <1>1. calls[l] \in Seq(R)
    BY DEF NotifyTypes
  <1>2. \A r \in R : r.id \in Nat
    OBVIOUS
  <1> HIDE DEF R
  <1>3. /\ Len(calls[l]) \in Nat /\ DOMAIN calls[l] = 1 .. Len(calls[l])
        /\ \A i \in 1 .. Len(calls[l]) : calls[l][i].id \in Nat
    BY <1>1, <1>2, LenProperties
  <1>4. t \in [1 .. Len(calls[l]) -> Nat] /\ \A i \in 1 .. Len(calls[l]) : t[i] = calls[l][i].id
    BY <1>3 DEF Told
  <1> HIDE DEF t
  <1>5. t \in Seq(Nat)
    BY <1>3, <1>4
  <1>6. Len(t) \in Nat /\ 1 .. Len(t) = 1 .. Len(calls[l])
    BY <1>4, <1>5, LenProperties
  <1>7. Len(t) = Len(calls[l])
    BY <1>3, <1>6, SameEnd
  <1>8. Range(t) \subseteq DOMAIN sent
    BY <1>3, <1>4 DEF LabelInv, Range
  <1> QED BY <1>4, <1>5, <1>7, <1>8 DEF t

\* What arrives was sent.
LEMMA ArrivingType ==
  ASSUME NotifyTypes, HeardInv, NEW c \in PoolConns
  PROVE  arriving[c] \in Seq(Nat) /\ Range(arriving[c]) \subseteq DOMAIN sent
  BY DEF NotifyTypes, HeardInv, HeardAt, Range

\* What was sent, as numbers.
LEMMA SentType ==
  ASSUME NotifyTypes, NEW S
  PROVE  /\ Len(sent) \in Nat /\ DOMAIN sent = 1 .. Len(sent)
         /\ Sift(Counting(Len(sent)), S) \in Seq(Nat)
  <1>1. Len(sent) \in Nat /\ DOMAIN sent = 1 .. Len(sent)
    BY LenProperties DEF NotifyTypes
  <1> QED BY <1>1, SiftCounting

\* A step that sends nothing and tells a call nothing, and leaves it its connection.
LEMMA QuietStep ==
  ASSUME NEW l \in Listeners, UNCHANGED sent, calls'[l] = calls[l], since'[l] = since[l],
         Current(l)' => /\ Current(l) /\ conn'[l] = conn[l]
                        /\ listening[conn[l]] \subseteq listening'[conn[l]]
                        /\ arriving'[conn[l]] = arriving[conn[l]],
         Current(l) => OwedAll(l), IsPrefix(HandedOn(l), Due(l))
  PROVE  (Current(l)' => OwedAll(l)') /\ IsPrefix(HandedOn(l)', Due(l)')
  <1>1. Relevant(l)' = Relevant(l) /\ Told(l)' = Told(l)
    BY DEF Relevant, Told
  <1>2. HandedOn(l)' = HandedOn(l) /\ Due(l)' = Due(l)
    BY <1>1 DEF HandedOn, Due
  <1>3. Current(l)' => Owed(l)' = Owed(l)
    BY <1>1 DEF Owed
  <1> QED BY <1>1, <1>2, <1>3 DEF OwedAll

\* A call whose connection no other step touches.
LEMMA QuietConn ==
  ASSUME NotifyTypes, HoldingInv, OwedInv, ToldInOrder, NEW l \in Listeners,
         UNCHANGED <<sent, conn>>, calls'[l] = calls[l], since'[l] = since[l],
         Looping(l)' => Looping(l),
         NEW c, conn[l] # c,
         \A x \in PoolConns : x # c =>
            connState'[x] = connState[x] /\ listening'[x] = listening[x] /\ arriving'[x] = arriving[x]
  PROVE  (Current(l)' => OwedAll(l)') /\ IsPrefix(HandedOn(l)', Due(l)')
  <1>1. Looping(l) => conn[l] \in PoolConns
    BY DEF Looping, HoldingInv, Holding
  <1>2. Current(l)' => /\ Current(l) /\ conn'[l] = conn[l]
                       /\ listening[conn[l]] \subseteq listening'[conn[l]]
                       /\ arriving'[conn[l]] = arriving[conn[l]]
    BY <1>1 DEF Current
  <1> QED BY <1>2, QuietStep DEF OwedInv, ToldInOrder

\* The LISTEN of a call: nothing is due to it yet, and nothing that is still on
\* its connection counts.
LEMMA ListenOwed ==
  ASSUME NotifyInv, SinceDomain, NEW l \in Listeners, Listen(l)
  PROVE  OwedAll(l)' /\ IsPrefix(HandedOn(l)', Due(l)')
  <1>0. NotifyTypes /\ HoldingInv /\ HeardInv /\ LabelInv
    BY DEF NotifyInv
  <1>1. /\ lpc[l] = "listen" /\ UNCHANGED <<conn, calls, connState, arriving, sent>>
        /\ listening' = [listening EXCEPT ![conn[l]] = @ \union {channel[l]}]
        /\ since' = [since EXCEPT ![l] = Len(sent)]
    BY DEF Listen
  <1>2. conn[l] \in PoolConns
    BY <1>0, <1>1 DEF HoldingInv, Holding
  <1>3. Len(sent) \in Nat /\ DOMAIN sent = 1 .. Len(sent)
    BY <1>0, SentType
  <1>4. Relevant(l)' = {}
    <2>1. since'[l] = Len(sent)
      BY <1>1 DEF SinceDomain
    <2> QED BY <1>1, <1>3, <2>1 DEF Relevant
  <1>5. ASSUME NEW s \in Seq(Nat) PROVE Sift(s, {}) = <<>>
    <2>1. Sift(s, {}) \in Seq(Nat \intersect {})
      BY SiftType
    <2>2. Sift(s, {}) \in Seq({})
      BY <2>1
    <2>3. Len(Sift(s, {})) \notin Nat \ {0}
      BY <2>2, LenProperties
    <2> QED BY <2>2, <2>3, EmptySeq
  <1>6. Told(l)' = Told(l) /\ Owed(l)' = Owed(l) /\ Told(l) \in Seq(Nat)
    BY <1>0, <1>1, ToldType DEF Told, Owed
  <1>7. Owed(l) \in Seq(Nat)
    <2>1. arriving[conn[l]] \in Seq(Nat)
      BY <1>0, <1>2, ArrivingType
    <2> QED BY <1>6, <2>1, ConcatProperties DEF Owed
  <1>8. Due(l)' = <<>> /\ HandedOn(l)' = <<>> /\ Sift(Owed(l), Relevant(l))' = <<>>
    <2>1. Counting(Len(sent)) \in Seq(Nat)
      BY <1>3, CountingNext
    <2> QED BY <1>1, <1>4, <1>5, <1>6, <1>7, <2>1 DEF Due, HandedOn
  <1>9. channel[l] \in listening'[conn'[l]]
    BY <1>0, <1>1, <1>2 DEF NotifyTypes
  <1>10. IsPrefix(<<>>, <<>>)
    <2>1. Len(<<>>) = 0
      OBVIOUS
    <2> QED BY <2>1 DEF IsPrefix
  <1> QED BY <1>8, <1>9, <1>10 DEF OwedAll

\* A notification is taken from the connection and handed on.
LEMMA ReceiveOwed ==
  ASSUME NotifyInv, OwedInv, NEW l \in Listeners, Receive(l)
  PROVE  OwedAll(l)' /\ IsPrefix(HandedOn(l)', Due(l)')
  <1>0. NotifyTypes /\ HoldingInv /\ HeardInv /\ LabelInv
    BY DEF NotifyInv
  <1>1. /\ lpc[l] = "wait" /\ connState[conn[l]] = "taken"
        /\ UNCHANGED <<conn, since, listening, sent>>
    BY DEF Receive
  <1>2. conn[l] \in PoolConns
    BY <1>0, <1>1 DEF HoldingInv, Holding
  <1>3. OwedAll(l)
    BY <1>1 DEF OwedInv, Current, Looping
  <1> DEFINE a == arriving[conn[l]]
             h == a[1]
             S == Relevant(l)
  <1>4. a \in Seq(Nat) /\ a # <<>> /\ Told(l) \in Seq(Nat)
    BY <1>0, <1>2, ArrivingType, ToldType DEF Receive
  <1>5. arriving'[conn[l]] = Tail(a) /\ calls'[l] = Append(calls[l], [label |-> channel[l], id |-> h])
    BY <1>0, <1>2, ReceiveEffect DEF Receive, NotifyTypes
  <1>6. h \in Nat /\ Tail(a) \in Seq(Nat) /\ a = <<h>> \o Tail(a) /\ <<h>> \in Seq(Nat)
    <2> HIDE DEF a
    <2> QED BY <1>4
  <1>7. Told(l)' = Append(Told(l), h)
    <2> DEFINE R == [label : Channels, id : Nat]
               r == [label |-> channel[l], id |-> h]
    <2>1. calls[l] \in Seq(R) /\ r \in R /\ r.id = h
      BY <1>0, <1>6 DEF NotifyTypes, Channels
    <2> HIDE DEF R, r
    <2>2. calls'[l] = Append(calls[l], r)
      BY <1>5 DEF r
    <2>3. /\ calls'[l] \in Seq(R) /\ Len(calls'[l]) = Len(calls[l]) + 1
          /\ \A i \in 1 .. Len(calls[l]) : calls'[l][i] = calls[l][i]
          /\ calls'[l][Len(calls[l]) + 1] = r
      BY <2>1, <2>2, AppendProperties
    <2>4. Len(calls[l]) \in Nat /\ DOMAIN calls'[l] = 1 .. Len(calls[l]) + 1
      BY <2>1, <2>3, LenProperties
    <2> DEFINE t == Told(l)
               u == [i \in 1 .. Len(calls[l]) + 1 |-> calls'[l][i].id]
    <2>5. Told(l)' = u
      BY <2>4 DEF Told
    <2>6. /\ t \in Seq(Nat) /\ Len(t) = Len(calls[l])
          /\ \A i \in 1 .. Len(calls[l]) : t[i] = calls[l][i].id
      BY <1>0, ToldType
    <2>7. \A i \in 1 .. Len(calls[l]) + 1 : u[i] = IF i = Len(calls[l]) + 1 THEN h ELSE t[i]
      BY <2>1, <2>3, <2>4, <2>6
    <2>8. u \in [1 .. Len(calls[l]) + 1 -> Nat]
      <3>1. \A i \in 1 .. Len(calls[l]) : t[i] \in Nat
        BY <2>6, LenProperties
      <3>2. \A i \in 1 .. Len(calls[l]) + 1 : u[i] \in Nat
        <4> SUFFICES ASSUME NEW i \in 1 .. Len(calls[l]) + 1 PROVE u[i] \in Nat
          OBVIOUS
        <4>1. i # Len(calls[l]) + 1 => i \in 1 .. Len(calls[l])
          BY <2>4
        <4>2. u[i] = IF i = Len(calls[l]) + 1 THEN h ELSE t[i]
          BY <2>7
        <4> HIDE DEF u
        <4> QED BY <1>6, <3>1, <4>1, <4>2
      <3> QED BY <3>2
    <2> HIDE DEF t, u
    <2>9. u \in Seq(Nat) /\ Len(u) = Len(calls[l]) + 1
      <3>1. u \in Seq(Nat)
        BY <2>4, <2>8
      <3>2. Len(u) \in Nat /\ 1 .. Len(u) = 1 .. Len(calls[l]) + 1
        BY <2>8, <3>1, LenProperties
      <3>3. Len(calls[l]) + 1 \in Nat
        BY <2>4
      <3> QED BY <3>1, <3>2, <3>3, SameEnd
    <2>10. /\ Append(t, h) \in Seq(Nat) /\ Len(Append(t, h)) = Len(t) + 1
           /\ \A i \in 1 .. Len(t) : Append(t, h)[i] = t[i]
           /\ Append(t, h)[Len(t) + 1] = h
      <3>1. h \in Nat /\ t \in Seq(Nat)
        BY <1>6, <2>6
      <3> HIDE DEF h, a
      <3> QED BY <3>1, AppendProperties
    <2>11. \A i \in 1 .. Len(u) : u[i] = Append(t, h)[i]
      BY <2>4, <2>6, <2>7, <2>9, <2>10
    <2>12. u = Append(t, h)
      <3>1. Len(u) = Len(Append(t, h))
        BY <2>6, <2>9, <2>10
      <3> QED BY <2>9, <2>10, <2>11, <3>1, SeqEqual
    <2> QED BY <2>5, <2>12 DEF t
  <1> HIDE DEF a
  <1>8. Owed(l)' = Owed(l)
    <2> DEFINE t == Told(l)
    <2>1. t \in Seq(Nat)
      BY <1>4
    <2>2. Owed(l)' = Append(t, h) \o Tail(a) /\ Owed(l) = t \o a
      BY <1>1, <1>5, <1>7 DEF Owed, a
    <2> HIDE DEF t, h
    <2>3. Append(t, h) = t \o <<h>>
      BY <1>6, <2>1, AppendIsConcat
    <2>4. (t \o <<h>>) \o Tail(a) = t \o (<<h>> \o Tail(a))
      BY <1>6, <2>1, ConcatAssociative
    <2> QED BY <1>6, <2>2, <2>3, <2>4
  <1>9. S' = S /\ Due(l)' = Due(l)
    BY <1>1 DEF Relevant, Due
  <1>10. OwedAll(l)'
    BY <1>1, <1>3, <1>8, <1>9 DEF OwedAll
  <1>11. Told(l)' \in Seq(Nat)
    BY <1>4, <1>6, <1>7, AppendProperties
  <1>12. IsPrefix(HandedOn(l)', Due(l)')
    <2> DEFINE t == Told(l)'
               b == Tail(a)
               Q == Nat \intersect S
    <2>1. t \in Seq(Nat) /\ b \in Seq(Nat)
      BY <1>6, <1>11
    <2>2. Sift(t \o b, S) = Due(l)' /\ HandedOn(l)' = Sift(t, S)
      BY <1>1, <1>5, <1>9, <1>10 DEF OwedAll, Owed, HandedOn, a
    <2> HIDE DEF t, b, S
    <2>3. Sift(t \o b, S) = Sift(t, S) \o Sift(b, S)
      BY <2>1, SiftConcat
    <2>4. Sift(t, S) \in Seq(Q) /\ Sift(b, S) \in Seq(Q)
      BY <2>1, SiftType
    <2> HIDE DEF Q
    <2> QED BY <2>2, <2>3, <2>4, PrefixConcat
  <1> QED BY <1>10, <1>12

\* A notification is sent: to every call in its loop whose channel it is.
LEMMA SendOwed ==
  ASSUME NotifyInv, OwedInv, ToldInOrder, NEW ch \in Channels, Send(ch), NEW l \in Listeners
  PROVE  (Current(l)' => OwedAll(l)') /\ IsPrefix(HandedOn(l)', Due(l)')
  <1>0. NotifyTypes /\ HoldingInv /\ HeardInv /\ LabelInv
    BY DEF NotifyInv
  <1>1. /\ UNCHANGED <<lpc, conn, calls, since, connState, listening>>
        /\ sent' = Append(sent, ch)
        /\ arriving' = [c \in PoolConns |->
                IF ch \in listening[c] /\ connState[c] # "broken"
                THEN Append(arriving[c], Len(sent')) ELSE arriving[c]]
    BY DEF Send, callVars
  <1> DEFINE k == Len(sent)
             S == Relevant(l)
             Z == S'
             d == Due(l)
  <1>2. /\ k \in Nat /\ k + 1 \in Nat /\ DOMAIN sent = 1 .. k
        /\ sent' \in Seq(Channels) /\ Len(sent') = k + 1 /\ DOMAIN sent' = 1 .. k + 1
        /\ \A i \in 1 .. k : sent'[i] = sent[i]
        /\ sent'[k + 1] = ch
    <2>1. sent \in Seq(Channels)
      BY <1>0 DEF NotifyTypes
    <2>2. k \in Nat /\ DOMAIN sent = 1 .. k
      BY <2>1, LenProperties
    <2>3. /\ sent' \in Seq(Channels) /\ Len(sent') = k + 1
          /\ \A i \in 1 .. k : sent'[i] = sent[i]
          /\ sent'[k + 1] = ch
      BY <1>1, <2>1, AppendProperties
    <2>4. DOMAIN sent' = 1 .. k + 1
      BY <2>3, LenProperties
    <2> QED BY <2>2, <2>3, <2>4
  <1>3. /\ \A i \in 1 .. k : i \in S <=> i \in Z
        /\ k + 1 \notin S /\ (k + 1 \in Z => ch = channel[l])
    BY <1>1, <1>2 DEF Relevant
  <1>4. ASSUME NEW s \in Seq(Nat), Range(s) \subseteq 1 .. k PROVE Sift(s, Z) = Sift(s, S)
    <2>1. Range(s) \intersect Z = Range(s) \intersect S
      BY <1>3, <1>4
    <2> HIDE DEF Z, S
    <2> QED BY <1>4, <2>1, SiftSame
  <1>5. Due(l)' = Sift(Counting(k + 1), Z)
    BY <1>2 DEF Due
  <1>6. Counting(k) \in Seq(Nat) /\ Range(Counting(k)) \subseteq 1 .. k
    <2>1. Range(Counting(k)) \subseteq 1 .. k
      BY DEF Counting, Range
    <2> HIDE DEF k
    <2> QED BY <1>2, <2>1, CountingNext
  <1>7. d = Sift(Counting(k), S) /\ d \in Seq(Nat)
    BY <1>0, SentType DEF Due
  <1>8. Due(l)' = IF k + 1 \in Z THEN Append(d, k + 1) ELSE d
    <2>1. Sift(Counting(k), Z) = d
      BY <1>4, <1>6, <1>7
    <2> HIDE DEF k, Z, d
    <2>2. Sift(Counting(k + 1), Z) = IF k + 1 \in Z THEN Append(Sift(Counting(k), Z), k + 1)
                                                   ELSE Sift(Counting(k), Z)
      BY <1>2, SiftCounting
    <2> QED BY <1>5, <2>1, <2>2
  <1>9. /\ Told(l)' = Told(l) /\ Told(l) \in Seq(Nat) /\ Range(Told(l)) \subseteq 1 .. k
    BY <1>0, <1>1, <1>2, ToldType DEF Told
  <1>10. HandedOn(l)' = HandedOn(l) /\ HandedOn(l) \in Seq(Nat)
    <2>1. Sift(Told(l), Z) = Sift(Told(l), S)
      BY <1>4, <1>9
    <2>2. HandedOn(l)' = HandedOn(l)
      BY <1>9, <2>1 DEF HandedOn
    <2>3. Sift(Told(l), S) \in Seq(Nat \intersect S)
      BY <1>9, SiftType
    <2>4. Sift(Told(l), S) \in Seq(Nat)
      BY <2>3
    <2> QED BY <2>2, <2>4 DEF HandedOn
  <1>11. IsPrefix(HandedOn(l)', Due(l)')
    <2>1. IsPrefix(HandedOn(l), d)
      BY DEF ToldInOrder
    <2> HIDE DEF k, Z, d
    <2>2. IsPrefix(HandedOn(l), Append(d, k + 1))
      BY <1>2, <1>7, <1>10, <2>1, PrefixGrows
    <2> QED BY <1>8, <1>10, <2>1, <2>2
  <1>12. ASSUME Current(l)' PROVE OwedAll(l)'
    <2>1. Current(l) /\ conn[l] \in PoolConns /\ connState[conn[l]] # "broken"
      BY <1>0, <1>1, <1>12 DEF Current, Looping, HoldingInv, Holding
    <2>2. channel[l] \in listening[conn[l]] /\ Sift(Owed(l), S) = d
      BY <2>1 DEF OwedInv, OwedAll
    <2> DEFINE a == arriving[conn[l]]
    <2>3. a \in Seq(Nat) /\ Range(a) \subseteq 1 .. k
      BY <1>0, <1>2, <2>1, ArrivingType
    <2>4. arriving'[conn[l]] = IF ch \in listening[conn[l]] THEN Append(a, k + 1) ELSE a
      BY <1>1, <1>2, <2>1
    <2> DEFINE t == Told(l)
               o == t \o a
    <2>5. /\ t \in Seq(Nat) /\ o \in Seq(Nat) /\ Range(o) \subseteq 1 .. k
      <3>1. t \in Seq(Nat) /\ Range(t) \subseteq 1 .. k
        BY <1>9
      <3> HIDE DEF t, a, k
      <3>2. /\ o \in Seq(Nat) /\ Len(o) = Len(t) + Len(a)
            /\ \A x \in 1 .. Len(t) + Len(a) : o[x] = IF x <= Len(t) THEN t[x] ELSE a[x - Len(t)]
        BY <2>3, <3>1, ConcatProperties
      <3>3. /\ Len(t) \in Nat /\ Len(a) \in Nat /\ DOMAIN o = 1 .. Len(t) + Len(a)
            /\ DOMAIN t = 1 .. Len(t) /\ DOMAIN a = 1 .. Len(a)
        BY <2>3, <3>1, <3>2, LenProperties
      <3> HIDE DEF o
      <3>4. ASSUME NEW x \in DOMAIN o PROVE o[x] \in 1 .. k
        <4>1. CASE x <= Len(t)
          BY <3>1, <3>2, <3>3, <4>1 DEF Range
        <4>2. CASE ~ (x <= Len(t))
          <5>1. x - Len(t) \in DOMAIN a /\ o[x] = a[x - Len(t)]
            BY <3>2, <3>3, <4>2
          <5> QED BY <2>3, <5>1 DEF Range
        <4> QED BY <4>1, <4>2
      <3> QED BY <3>1, <3>2, <3>4 DEF Range
    <2>6. Owed(l) = o /\ Owed(l)' = t \o arriving'[conn[l]]
      BY <1>1, <1>9 DEF Owed
    <2>7. Sift(o, Z) = d
      BY <1>4, <2>2, <2>5, <2>6
    <2> HIDE DEF o, a, t, k, Z, d
    <2>8. CASE ch \in listening[conn[l]]
      <3>1. t \o Append(a, k + 1) = Append(o, k + 1)
        <4> DEFINE n == k + 1
        <4>1. n \in Nat /\ t \in Seq(Nat) /\ a \in Seq(Nat)
          BY <1>2, <2>3, <2>5
        <4> HIDE DEF n
        <4>2. t \o Append(a, n) = Append(t \o a, n)
          BY <4>1, ConcatAppend
        <4> QED BY <4>2 DEF n, o
      <3>2. Sift(Append(o, k + 1), Z) = IF k + 1 \in Z THEN Append(Sift(o, Z), k + 1) ELSE Sift(o, Z)
        <4> DEFINE n == k + 1
        <4>1. o \in Seq(Nat) /\ n \in Nat
          BY <1>2, <2>5
        <4> HIDE DEF n
        <4>2. Sift(Append(o, n), Z) = IF n \in Z THEN Append(Sift(o, Z), n) ELSE Sift(o, Z)
          BY <4>1, SiftAppend
        <4> QED BY <4>2 DEF n
      <3>3. Sift(Owed(l), S)' = Due(l)'
        BY <1>8, <2>4, <2>6, <2>7, <2>8, <3>1, <3>2 DEF Z
      <3> QED BY <1>1, <2>2, <3>3 DEF OwedAll
    <2>9. CASE ch \notin listening[conn[l]]
      <3>1. k + 1 \notin Z
        BY <1>3, <2>2, <2>9
      <3>2. Sift(Owed(l), S)' = Due(l)'
        BY <1>8, <2>4, <2>6, <2>7, <2>9, <3>1 DEF Z, o
      <3> QED BY <1>1, <2>2, <3>2 DEF OwedAll
    <2> QED BY <2>8, <2>9
  <1> QED BY <1>11, <1>12

LEMMA OwedStep ==
  /\ NotifyInv /\ SinceDomain /\ OwedInv /\ ToldInOrder /\ [NotifyNext]_notifyVars
  => OwedInv' /\ ToldInOrder'
<1> SUFFICES ASSUME NotifyInv, SinceDomain, OwedInv, ToldInOrder, [NotifyNext]_notifyVars, NEW m \in Listeners
             PROVE  (Current(m)' => OwedAll(m)') /\ IsPrefix(HandedOn(m)', Due(m)')
  BY DEF OwedInv, ToldInOrder
<1> USE DEF callVars, connVars, Goto
<1> DEFINE Keeps == (Current(m)' => OwedAll(m)') /\ IsPrefix(HandedOn(m)', Due(m)')
<1>0. NotifyTypes /\ HoldingInv /\ CallsInv
  BY DEF NotifyInv
<1>1. ASSUME UNCHANGED <<sent, conn, calls, since, connState, listening, arriving>>,
             Looping(m)' => Looping(m)
      PROVE  Keeps
  <2>1. Current(m)' => /\ Current(m) /\ conn'[m] = conn[m]
                       /\ listening[conn[m]] \subseteq listening'[conn[m]]
                       /\ arriving'[conn[m]] = arriving[conn[m]]
    BY <1>1 DEF Current
  <2> QED BY <1>1, <2>1, QuietStep DEF OwedInv, ToldInOrder
<1>2. ASSUME NEW l \in Listeners, Call(l) \/ Passes(l) PROVE Keeps
  <2>1. /\ UNCHANGED <<sent, conn, calls, since, connState, listening, arriving>>
        /\ \/ lpc' = [lpc EXCEPT ![l] = "acquire"] \/ lpc' = [lpc EXCEPT ![l] = "done"]
           \/ /\ lpc[l] \in {"select", "wait", "sleep"}
              /\ \E to \in {"select", "wait", "sleep"} : lpc' = [lpc EXCEPT ![l] = to]
    BY <1>2 DEF Call, Passes, AcquireFail, SelectDefault, TimeOut, WaitFail, Wake
  <2>2. Looping(m)' => Looping(m)
    BY <1>0, <2>1 DEF Looping, NotifyTypes
  <2> QED BY <1>1, <2>1, <2>2
<1>3. ASSUME PoolClosed \/ (\E l \in Listeners : Cancel(l)) \/ UNCHANGED notifyVars PROVE Keeps
  <2>1. UNCHANGED <<sent, conn, calls, since, connState, listening, arriving, lpc>>
    BY <1>3 DEF PoolClosed, Cancel, notifyVars
  <2>2. Looping(m)' => Looping(m)
    BY <2>1 DEF Looping
  <2> QED BY <1>1, <2>1, <2>2
<1>4. ASSUME NEW l \in Listeners, Leaves(l) PROVE Keeps
  <2>1. /\ lpc[l] \in Holding /\ lpc' = [lpc EXCEPT ![l] = "done"]
        /\ UNCHANGED <<sent, conn, calls, since>>
        /\ \A x \in PoolConns : x # conn[l] =>
              connState'[x] = connState[x] /\ listening'[x] = listening[x] /\ arriving'[x] = arriving[x]
    BY <1>0, <1>4, LeavesEffect
  <2>2. CASE m = l
    <3>1. ~ Looping(m)'
      BY <1>0, <2>1, <2>2 DEF Looping, NotifyTypes
    <3> QED BY <2>1, <3>1, QuietStep DEF Current, OwedInv, ToldInOrder
  <2>3. CASE m # l /\ ~ Looping(m)
    <3>1. ~ Looping(m)'
      BY <1>0, <2>1, <2>3 DEF Looping, NotifyTypes
    <3> QED BY <2>1, <3>1, QuietStep DEF Current, OwedInv, ToldInOrder
  <2>4. CASE m # l /\ Looping(m)
    <3>1. conn[m] # conn[l]
      BY <1>0, <2>1, <2>4 DEF HoldingInv, Holding, Looping
    <3> QED BY <1>0, <2>1, <2>4, <3>1, QuietConn
  <2> QED BY <2>2, <2>3, <2>4
<1>5. ASSUME NEW l \in Listeners, Acquire(l) PROVE Keeps
  <2>1. PICK c \in Idle \union Unused :
            /\ conn' = [conn EXCEPT ![l] = c] /\ connState' = [connState EXCEPT ![c] = "taken"]
    BY <1>5 DEF Acquire
  <2>2. /\ lpc[l] = "acquire" /\ lpc' = [lpc EXCEPT ![l] = "listen"]
        /\ UNCHANGED <<calls, since, listening, arriving, sent>>
    BY <1>5 DEF Acquire
  <2>3. c \in PoolConns /\ connState[c] \in {"idle", "none"}
    BY <2>1 DEF Idle, Unused
  <2>4. Looping(m)' => m # l /\ Looping(m)
    BY <1>0, <2>2 DEF Looping, NotifyTypes
  <2>5. Looping(m)' => conn'[m] = conn[m] /\ conn[m] # c /\ connState'[conn[m]] = connState[conn[m]]
    BY <1>0, <2>1, <2>3, <2>4 DEF Looping, HoldingInv, Holding, NotifyTypes
  <2>6. Current(m)' => /\ Current(m) /\ conn'[m] = conn[m]
                       /\ listening[conn[m]] \subseteq listening'[conn[m]]
                       /\ arriving'[conn[m]] = arriving[conn[m]]
    BY <2>2, <2>4, <2>5 DEF Current
  <2> QED BY <2>2, <2>6, QuietStep DEF OwedInv, ToldInOrder
<1>6. ASSUME NEW l \in Listeners, Listen(l) \/ Receive(l) PROVE Keeps
  <2>1. CASE m = l
    BY <1>6, <2>1, ListenOwed, ReceiveOwed
  <2>2. CASE m # l
    <3>1. /\ UNCHANGED <<sent, conn, connState>> /\ calls'[m] = calls[m] /\ since'[m] = since[m]
          /\ lpc'[m] = lpc[m] /\ lpc[l] \in Holding
          /\ \A x \in PoolConns : x # conn[l] => listening'[x] = listening[x] /\ arriving'[x] = arriving[x]
      <4>1. CASE Listen(l)
        BY <1>0, <2>2, <4>1 DEF Listen, NotifyTypes, Holding
      <4>2. CASE Receive(l)
        BY <1>0, <2>2, <4>2 DEF Receive, NotifyTypes, Holding
      <4> QED BY <1>6, <4>1, <4>2
    <3>2. Looping(m)' => Looping(m)
      BY <3>1 DEF Looping
    <3>3. CASE ~ Looping(m)
      BY <3>1, <3>2, <3>3, QuietStep DEF Current, OwedInv, ToldInOrder
    <3>4. CASE Looping(m)
      <4>1. conn[m] # conn[l]
        BY <1>0, <2>2, <3>1, <3>4 DEF HoldingInv, Holding, Looping
      <4> QED BY <1>0, <3>1, <3>4, <4>1, QuietConn
    <3> QED BY <3>3, <3>4
  <2> QED BY <2>1, <2>2
<1>7. ASSUME NEW ch \in Channels, Send(ch) PROVE Keeps
  BY <1>7, SendOwed
<1>8. ASSUME NEW cs, Destroy(cs), UNCHANGED <<lpc, conn, calls, since, sent>> PROVE Keeps
  <2>1. Current(m)' => Current(m) /\ conn[m] \in PoolConns /\ conn[m] \notin cs
    BY <1>0, <1>8 DEF Current, Looping, HoldingInv, Holding, Destroy
  <2>2. Current(m)' => /\ Current(m) /\ conn'[m] = conn[m]
                       /\ listening[conn[m]] \subseteq listening'[conn[m]]
                       /\ arriving'[conn[m]] = arriving[conn[m]]
    BY <1>8, <2>1 DEF Destroy
  <2> QED BY <1>8, <2>2, QuietStep DEF OwedInv, ToldInOrder
<1>9. ASSUME NEW c \in PoolConns, Break(c) PROVE Keeps
  <2>1. CASE connState[c] = "idle"
    BY <1>8, <1>9, <2>1 DEF Break
  <2>2. CASE connState[c] # "idle"
    <3>1. /\ UNCHANGED <<lpc, conn, calls, since, sent>>
          /\ connState' = [connState EXCEPT ![c] = "broken"]
          /\ listening' = [listening EXCEPT ![c] = {}]
          /\ arriving' = [arriving EXCEPT ![c] = <<>>]
      BY <1>9, <2>2 DEF Break
    <3>2. Current(m)' => conn[m] \in PoolConns /\ conn[m] # c /\ Looping(m)
      BY <1>0, <3>1 DEF Current, Looping, HoldingInv, Holding, NotifyTypes
    <3>3. Current(m)' => /\ Current(m) /\ conn'[m] = conn[m]
                         /\ listening[conn[m]] \subseteq listening'[conn[m]]
                         /\ arriving'[conn[m]] = arriving[conn[m]]
      BY <1>0, <3>1, <3>2 DEF Current, NotifyTypes
    <3> QED BY <3>1, <3>3, QuietStep DEF OwedInv, ToldInOrder
  <2> QED BY <2>1, <2>2
<1>10. CASE ClosePool
  BY <1>8, <1>10 DEF ClosePool
<1> QED
  BY <1>2, <1>3, <1>4, <1>5, <1>6, <1>7, <1>9, <1>10
     DEF NotifyNext, ListenerStep, Passes, Leaves

\* What a callback was told of its channel's notifications since LISTEN and what
\* still waits on its connection are, one after the other, all that was sent;
\* after the connection is gone, what it was told has no gap
\* (ListenForNotifications: timeouts, errors and sleeps only delay).
THEOREM NoneIsSkipped == NotifySpec => []NothingSkipped
<1>1. NotifyInit => OwedInv /\ ToldInOrder
  <2> SUFFICES ASSUME NotifyInit, NEW l \in Listeners
               PROVE  ~ Current(l) /\ IsPrefix(HandedOn(l), Due(l))
    BY DEF OwedInv, ToldInOrder
  <2>1. ~ Current(l)
    BY DEF NotifyInit, Current, Looping
  <2>2. sent = <<>> /\ Len(<<>>) = 0 /\ calls[l] = <<>>
    BY DEF NotifyInit
  <2>3. Told(l) = <<>>
    BY <2>2 DEF Told
  <2>4. HandedOn(l) = <<>> /\ Due(l) = <<>>
    BY <2>2, <2>3, SiftEmpty, SiftCounting DEF HandedOn, Due
  <2>5. IsPrefix(<<>>, <<>>)
    <3>1. Len(<<>>) = 0
      OBVIOUS
    <3> QED BY <3>1 DEF IsPrefix
  <2> QED BY <2>1, <2>4, <2>5
<1>2. NotifySpec => [](OwedInv /\ ToldInOrder)
  BY <1>1, OwedStep, NotifyInvariant, SinceInvariant, PTL DEF NotifySpec
<1>3. OwedInv /\ ToldInOrder => NothingSkipped
  BY DEF OwedInv, ToldInOrder, OwedAll, NothingSkipped
<1> QED BY <1>2, <1>3, PTL

===============================================================================
