---------------------------- MODULE ServerProofs ----------------------------
(* The writer table, the answers, the shutdown and the statistics, for every *)
(* number of connections, of days, of requests and of kinds of requests.     *)
EXTENDS Server, SiftingProofs, TLAPS, FiniteSetTheorems, SequenceTheorems

Kinds == {"write", "query"}
Codes == {"success", "error"}
Writing == {"group", "create", "append"}
Triples == Conns \X Nat \X Days

\* Types, without the bounds that need the rest of the invariant.
Types ==
    /\ mpc \in {"run", "stop", "unlisten", "close", "return", "exit"} /\ closing \subseteq Days
    /\ stopped \in BOOLEAN /\ listening \in BOOLEAN /\ apc \in {"select", "accept", "done"}
    /\ pc \in [Conns -> {"none", "backlog", "select", "read", "group", "create",
                         "append", "answer", "count", "closed"}]
    /\ reqs \in [Conns -> Seq(Requests)] /\ hungup \in [Conns -> BOOLEAN]
    /\ at \in [Conns -> Nat \ {0}] /\ groups \in [Conns -> SUBSET Days]
    /\ day \in [Conns -> Days] /\ code \in [Conns -> Codes]
    /\ replies \in [Conns -> Seq([n : Nat, code : Codes])] /\ cut \in [Conns -> BOOLEAN]
    /\ writers \in [Days -> {"none", "open", "closed"}]
    /\ disk \subseteq Triples /\ buffer \in [Days -> SUBSET Triples]
    /\ schema \in Nat /\ totals \in [Kinds -> Nat]
    /\ opens \in [Days -> Nat] /\ early \subseteq Triples /\ panicked \in BOOLEAN

\* A point is with a writer or on disk; every point of a request is.
Held(c, n, d) == <<c, n, d>> \in disk \union buffer[d]
Whole(c, n) == \A d \in reqs[c][n].days : Held(c, n, d)

\* A handler works on a request that was sent, and before it runs nothing is
\* answered.  (A process that is gone has handlers that stopped anywhere.)
PlaceInv(c) ==
    /\ at[c] <= Len(reqs[c]) + 1 /\ Len(reqs[c]) <= MaxRequests
    /\ pc[c] = "none" => replies[c] = <<>> /\ at[c] = 1
    /\ Running /\ pc[c] \in Writing \union {"answer"} => at[c] <= Len(reqs[c])

\* The days it has ticked off are held, and so is all of a write that is about
\* to be answered with success.
WorkInv(c) ==
    /\ Running /\ pc[c] \in Writing =>
            /\ Req(c).kind = "write"
            /\ \A d \in Req(c).days \ groups[c] : Held(c, at[c], d)
    /\ Running /\ pc[c] \in {"create", "append"} => day[c] \in groups[c]
    /\ Running /\ pc[c] = "append" => writers[day[c]] # "none"
    /\ Running /\ pc[c] = "answer" =>
            /\ Req(c).kind \in Kinds
            /\ Req(c).kind = "write" /\ code[c] = "success" => Whole(c, at[c])

\* So is all of a write that was.
AnsweredInv(c) ==
    \A x \in DOMAIN replies[c] :
        /\ replies[c][x].n \in DOMAIN reqs[c]
        /\ reqs[c][replies[c][x].n].kind = "write" /\ replies[c][x].code = "success" =>
                Whole(c, replies[c][x].n)

HandlerInv(c) == PlaceInv(c) /\ WorkInv(c) /\ AnsweredInv(c)

\* The table: a writer is there exactly when its file was opened, once; without
\* one there are no points, and nothing to close.
WriterInv ==
    \A d \in Days :
        /\ writers[d] = "none" <=> opens[d] = 0
        /\ opens[d] <= 1
        /\ writers[d] = "none" => buffer[d] = {} /\ d \notin closing

\* A point answered with success before Storage.Close: on disk, or with a writer
\* that will be closed.
Settled(p) ==
    \/ p \in disk
    \/ /\ p \in buffer[p[3]] /\ writers[p[3]] # "none"
       /\ \/ mpc \in {"run", "stop", "unlisten"}
          \/ mpc = "close" /\ p[3] \in closing
          \/ mpc = "exit" /\ panicked
EarlyInv == \A p \in early : Settled(p)

SafeInv == Types /\ (\A c \in Conns : HandlerInv(c)) /\ WriterInv /\ EarlyInv

-----------------------------------------------------------------------------

\* A request that is handled is one of Requests.
LEMMA ReqType ==
  ASSUME Types, NEW c \in Conns, at[c] <= Len(reqs[c])
  PROVE  Req(c) \in Requests /\ Req(c).days \subseteq Days /\ Req(c).fields \in Nat
  <1>1. at[c] \in DOMAIN reqs[c] /\ reqs[c] \in Seq(Requests)
    BY DEF Types
  <1>2. Req(c) \in Requests
    BY <1>1 DEF Req
  <1> QED BY <1>2, RequestAssumption DEF Request

\* An answer is one.
LEMMA RepliesType ==
  ASSUME Types, NEW c \in Conns, NEW lost \in BOOLEAN,
         replies' = [replies EXCEPT ![c] =
                        IF lost THEN @ ELSE Append(@, [n |-> at[c], code |-> code[c]])]
  PROVE  /\ replies' \in [Conns -> Seq([n : Nat, code : Codes])]
         /\ \A x \in DOMAIN replies'[c] :
                \/ x \in DOMAIN replies[c] /\ replies'[c][x] = replies[c][x]
                \/ /\ ~ lost /\ x = Len(replies[c]) + 1
                   /\ replies'[c][x] = [n |-> at[c], code |-> code[c]]
  <1> DEFINE r == [n |-> at[c], code |-> code[c]]
  <1>1. r \in [n : Nat, code : Codes] /\ replies[c] \in Seq([n : Nat, code : Codes])
    BY DEF Types
  <1>2. replies'[c] = IF lost THEN replies[c] ELSE Append(replies[c], r)
    BY DEF Types
  <1>3. replies'[c] \in Seq([n : Nat, code : Codes])
    <2> DEFINE R == [n : Nat, code : Codes]
    <2>1. r \in R /\ replies[c] \in Seq(R)
      BY <1>1
    <2> HIDE DEF R, r
    <2>2. Append(replies[c], r) \in Seq(R)
      BY <2>1
    <2>3. replies'[c] \in Seq(R)
      BY <2>1, <2>2, <1>2
    <2> QED BY <2>3 DEF R
  <1>4. replies' \in [Conns -> Seq([n : Nat, code : Codes])]
    BY <1>3 DEF Types
  <1>5. ASSUME NEW x \in DOMAIN replies'[c]
        PROVE  \/ x \in DOMAIN replies[c] /\ replies'[c][x] = replies[c][x]
               \/ ~ lost /\ x = Len(replies[c]) + 1 /\ replies'[c][x] = r
    BY <1>1, <1>2, <1>5
  <1> QED BY <1>4, <1>5

\* The invariant holds at the start.
LEMMA ServerInit == Init => SafeInv
  <1> SUFFICES ASSUME Init PROVE SafeInv
    OBVIOUS
  <1>1. (CHOOSE d \in Days : TRUE) \in Days
    BY RequestAssumption
  <1>2. Types
    <2>1. day \in [Conns -> Days]
      BY <1>1, Zenon DEF Init
    <2>2. reqs \in [Conns -> Seq(Requests)] /\ replies \in [Conns -> Seq([n : Nat, code : Codes])]
      BY DEF Init
    <2>3. totals \in [Kinds -> Nat] /\ opens \in [Days -> Nat] /\ at \in [Conns -> Nat \ {0}]
      BY DEF Init, Kinds
    <2> QED BY <2>1, <2>2, <2>3 DEF Init, Types, Codes, Triples
  <1>3. ASSUME NEW c \in Conns PROVE HandlerInv(c)
    BY RequestAssumption DEF Init, HandlerInv, PlaceInv, WorkInv, AnsweredInv, Writing
  <1>4. WriterInv /\ EarlyInv
    BY SMT DEF Init, WriterInv, EarlyInv
  <1> QED BY <1>2, <1>3, <1>4 DEF SafeInv

\* Every step keeps the types.
LEMMA TypesStep == SafeInv /\ [Next]_vars => Types'
  <1> SUFFICES ASSUME SafeInv, [Next]_vars PROVE Types'
    OBVIOUS
  <1> USE DEF Types, Kinds, Codes, Triples, mainVars, clientVars, handleVars, answerVars, storeVars, statVars
  <1>0. Types /\ \A c \in Conns : HandlerInv(c)
    BY DEF SafeInv
  <1>1. ASSUME NEW c \in Conns, Connect(c) PROVE Types'
    BY <1>0, <1>1 DEF Connect
  <1>2. ASSUME NEW c \in Conns, Hangup(c) PROVE Types'
    BY <1>0, <1>2 DEF Hangup
  <1>3. ASSUME NEW c \in Conns, Accept(c) PROVE Types'
    BY <1>0, <1>3 DEF Accept
  <1>4. ASSUME NEW c \in Conns, ReadFail(c) PROVE Types'
    BY <1>0, <1>4 DEF ReadFail, Leave
  <1>5. ASSUME NEW c \in Conns, Select(c) PROVE Types'
    BY <1>0, <1>5 DEF Select, Leave
  <1>6. ASSUME NEW c \in Conns, HandlePong(c) PROVE Types'
    BY <1>0, <1>6 DEF HandlePong
  <1>7. ASSUME NEW c \in Conns, HandleOther(c) PROVE Types'
    BY <1>0, <1>7 DEF HandleOther
  <1>8. ASSUME NEW c \in Conns, HandleWrite(c) PROVE Types'
    <2>1. at[c] <= Len(reqs[c])
      BY <1>8 DEF HandleWrite, Message
    <2>2. Req(c).days \subseteq Days /\ Req(c).fields \in Nat
      BY <1>0, <2>1, ReqType
    <2> QED BY <1>0, <1>8, <2>2 DEF HandleWrite, RegisterSchema
  <1>9. ASSUME NEW c \in Conns, Group(c) PROVE Types'
    <2>1. CASE groups[c] = {} /\ Written(c)
      BY <1>0, <1>9, <2>1 DEF Group, Written
    <2>2. ASSUME NEW d \in groups[c], Lookup(c, d) PROVE Types'
      <3>1. d \in Days /\ UNCHANGED <<mainVars, apc, clientVars, at, groups, answerVars, storeVars,
                                     statVars, early, panicked, code>>
        BY <1>0, <1>9, <2>2 DEF Group, Lookup
      <3>2. pc' \in [Conns -> {"none", "backlog", "select", "read", "group", "create",
                              "append", "answer", "count", "closed"}]
        BY <1>0, <2>2 DEF Lookup
      <3>3. day' \in [Conns -> Days]
        BY <1>0, <2>2, <3>1 DEF Lookup
      <3> QED BY <1>0, <3>1, <3>2, <3>3
    <2> QED BY <1>9, <2>1, <2>2 DEF Group
  <1>10. ASSUME NEW c \in Conns, Create(c) PROVE Types'
    <2>0. day[c] \in Days /\ opens[day[c]] \in Nat
      BY <1>0
    <2>1. writers' \in [Days -> {"none", "open", "closed"}] /\ opens' \in [Days -> Nat]
      <3>1. CASE UNCHANGED <<writers, opens>>
        BY <1>0, <3>1
      <3>2. CASE /\ writers' = [writers EXCEPT ![day[c]] = "open"]
                 /\ opens' = [opens EXCEPT ![day[c]] = @ + 1]
        BY <1>0, <2>0, <3>2
      <3> QED BY <1>10, <3>1, <3>2 DEF Create
    <2>2. /\ pc' \in [Conns -> {"none", "backlog", "select", "read", "group", "create",
                               "append", "answer", "count", "closed"}]
          /\ code' \in [Conns -> Codes]
      BY <1>0, <1>10 DEF Create
    <2>3. UNCHANGED <<mainVars, apc, clientVars, at, groups, day, answerVars, buffer, disk, schema,
                      statVars, early, panicked>>
      BY <1>10 DEF Create
    <2> QED BY <1>0, <2>1, <2>2, <2>3
  <1>11. ASSUME NEW c \in Conns, AppendPoints(c) PROVE Types'
    BY <1>0, <1>11 DEF AppendPoints
  <1>12. ASSUME NEW c \in Conns, Send(c) PROVE Types'
    <2>1. at[c] <= Len(reqs[c])
      BY <1>0, <1>12 DEF Send, HandlerInv, PlaceInv
    <2>2. Req(c).days \subseteq Days
      BY <1>0, <2>1, ReqType
    <2>3. Points(c) \subseteq Triples
      BY <1>0, <2>2 DEF Points
    <2>4. replies' \in [Conns -> Seq([n : Nat, code : Codes])] /\ cut' \in [Conns -> BOOLEAN]
      <3>1. PICK lost \in BOOLEAN :
                /\ cut' = [cut EXCEPT ![c] = lost]
                /\ replies' = [replies EXCEPT ![c] =
                        IF lost THEN @ ELSE Append(@, [n |-> at[c], code |-> code[c]])]
        BY <1>12 DEF Send
      <3>2. replies' \in [Conns -> Seq([n : Nat, code : Codes])]
        BY <1>0, <3>1, RepliesType
      <3> QED BY <1>0, <3>1, <3>2
    <2>5. early' \subseteq Triples
      <3>1. early' = early \/ early' = early \union Points(c)
        BY <1>12 DEF Send
      <3> QED BY <1>0, <2>3, <3>1
    <2>6. /\ at' \in [Conns -> Nat \ {0}]
          /\ pc' \in [Conns -> {"none", "backlog", "select", "read", "group", "create",
                               "append", "answer", "count", "closed"}]
          /\ UNCHANGED <<mainVars, apc, clientVars, groups, day, code, storeVars, statVars, panicked>>
      BY <1>0, <1>12 DEF Send
    <2> QED BY <1>0, <2>4, <2>5, <2>6
  <1>13. ASSUME NEW c \in Conns, Count(c) \/ SlowEmptyWrite(c) PROVE Types'
    <2>1. totals' \in [Kinds -> Nat]
      <3>1. ASSUME NEW k, totals' = [totals EXCEPT ![k] = IF code[c] = "success" THEN @ + 1 ELSE @]
            PROVE  totals' \in [Kinds -> Nat]
        <4>1. totals \in [Kinds -> Nat]
          BY <1>0
        <4>2. ASSUME NEW x \in Kinds PROVE totals'[x] \in Nat
          BY <3>1, <4>1, <4>2
        <4>3. totals' = [x \in Kinds |-> totals'[x]]
          BY <3>1, <4>1
        <4> HIDE DEF Kinds
        <4> QED BY <4>2, <4>3
      <3>2. CASE Count(c)
        BY <3>1, <3>2 DEF Count
      <3>3. CASE SlowEmptyWrite(c)
        BY <3>1, <3>3 DEF SlowEmptyWrite
      <3> QED BY <1>13, <3>2, <3>3
    <2>2. CASE Count(c)
      BY <1>0, <2>1, <2>2 DEF Count
    <2>3. CASE SlowEmptyWrite(c)
      BY <1>0, <2>1, <2>3 DEF SlowEmptyWrite
    <2> QED BY <1>13, <2>2, <2>3
  <1>14. ASSUME NEW d \in Days, Flush(d) PROVE Types'
    BY <1>0, <1>14 DEF Flush
  <1>15. CASE AcceptSelect \/ AcceptFail \/ Signal
    BY <1>0, <1>15 DEF AcceptSelect, AcceptFail, Signal
  <1>16. CASE StopChan \/ CloseListener \/ CloseReturns \/ Exit
    <2>1. CASE StopChan
      BY <1>0, <2>1 DEF StopChan
    <2>2. CASE CloseListener
      BY <1>0, <2>2 DEF CloseListener
    <2>3. CASE CloseReturns \/ Exit
      BY <1>0, <2>3 DEF CloseReturns, Exit
    <2> QED BY <1>16, <2>1, <2>2, <2>3
  <1>17. ASSUME NEW d \in Days, CloseWriter(d) PROVE Types'
    BY <1>0, <1>17 DEF CloseWriter
  <1>18. CASE UNCHANGED vars
    BY <1>0, <1>18 DEF vars
  <1> QED
    BY <1>1, <1>2, <1>3, <1>4, <1>5, <1>6, <1>7, <1>8, <1>9, <1>10, <1>11, <1>12, <1>13,
       <1>14, <1>15, <1>16, <1>17, <1>18 DEF Next, Handler, Shutdown

\* What is held stays held, a writer stays in the table, and a process that has
\* ended stays so.
StoreGrows ==
    /\ (Running' => Running) /\ disk \subseteq disk'
    /\ \A d \in Days : /\ disk \union buffer[d] \subseteq disk' \union buffer'[d]
                       /\ writers[d] # "none" => writers'[d] # "none"

LEMMA StoreStep == SafeInv /\ [Next]_vars => StoreGrows
  <1> SUFFICES ASSUME SafeInv, [Next]_vars PROVE StoreGrows
    OBVIOUS
  <1>0. buffer \in [Days -> SUBSET Triples] /\ writers \in [Days -> {"none", "open", "closed"}]
    BY DEF SafeInv, Types
  <1> USE DEF Running
  <1>1. CASE UNCHANGED <<writers, buffer, disk>> /\ (Running' => Running)
    BY <1>1 DEF StoreGrows
  <1>2. ASSUME NEW c \in Conns, Create(c) PROVE StoreGrows
    <2>1. /\ UNCHANGED <<buffer, disk, mpc>>
          /\ UNCHANGED writers \/ writers' = [writers EXCEPT ![day[c]] = "open"]
      BY <1>2 DEF Create, mainVars
    <2> QED BY <1>0, <2>1 DEF StoreGrows
  <1>3. ASSUME NEW c \in Conns, AppendPoints(c) PROVE StoreGrows
    BY <1>0, <1>3 DEF StoreGrows, AppendPoints, mainVars
  <1>4. ASSUME NEW d \in Days, Flush(d) PROVE StoreGrows
    BY <1>0, <1>4 DEF StoreGrows, Flush, mainVars
  <1>5. ASSUME NEW d \in Days, CloseWriter(d) PROVE StoreGrows
    BY <1>0, <1>5 DEF StoreGrows, CloseWriter
  <1>6. ASSUME NEW c \in Conns,
               \/ Connect(c) \/ Hangup(c) \/ Accept(c) \/ ReadFail(c) \/ Select(c) \/ HandlePong(c)
               \/ HandleOther(c) \/ HandleWrite(c) \/ Group(c) \/ Send(c) \/ Count(c) \/ SlowEmptyWrite(c)
        PROVE  UNCHANGED <<writers, buffer, disk>> /\ (Running' => Running)
    BY <1>6 DEF Connect, Hangup, Accept, ReadFail, Select, HandlePong, HandleOther, HandleWrite,
       Group, Send, Count, SlowEmptyWrite, storeVars, mainVars
  <1>7. ASSUME AcceptSelect \/ AcceptFail \/ Signal \/ StopChan \/ CloseListener
               \/ CloseReturns \/ Exit \/ UNCHANGED vars
        PROVE  UNCHANGED <<writers, buffer, disk>> /\ (Running' => Running)
    BY <1>7 DEF AcceptSelect, AcceptFail, Signal, StopChan, CloseListener, CloseReturns, Exit,
       storeVars, mainVars, vars
  <1> QED
    BY <1>1, <1>2, <1>3, <1>4, <1>5, <1>6, <1>7 DEF Next, Handler, Shutdown

\* The requests of a connection are of the kinds that clients send.
LEMMA ReqDays ==
  ASSUME Types, NEW c \in Conns, NEW n \in DOMAIN reqs[c]
  PROVE  reqs[c][n] \in Requests /\ reqs[c][n].days \subseteq Days
  <1>1. reqs[c][n] \in Requests
    BY DEF Types
  <1> QED BY <1>1, RequestAssumption DEF Request

\* A point that is held stays held.
LEMMA HeldStays ==
  ASSUME StoreGrows, NEW d \in Days, NEW p \in disk \union buffer[d]
  PROVE  p \in disk' \union buffer'[d]
  BY DEF StoreGrows

\* What is held in whole stays so.
LEMMA WholeStays ==
  ASSUME Types, StoreGrows, NEW c \in Conns, NEW n \in DOMAIN reqs[c], reqs'[c] = reqs[c],
         Whole(c, n)
  PROVE  Whole(c, n)'
  <1>1. reqs[c][n].days \subseteq Days
    BY ReqDays
  <1>2. ASSUME NEW d \in reqs[c][n].days PROVE Held(c, n, d)'
    BY <1>1, HeldStays DEF Whole, Held
  <1> QED BY <1>2 DEF Whole

\* A step that sends nothing keeps what was answered.
LEMMA AnsweredStays ==
  ASSUME Types, StoreGrows, NEW c \in Conns, AnsweredInv(c),
         reqs'[c] = reqs[c], replies'[c] = replies[c]
  PROVE  AnsweredInv(c)'
  <1> SUFFICES ASSUME NEW x \in DOMAIN replies[c]
               PROVE  /\ replies[c][x].n \in DOMAIN reqs[c]
                      /\ reqs[c][replies[c][x].n].kind = "write" /\ replies[c][x].code = "success" =>
                            Whole(c, replies[c][x].n)'
    BY DEF AnsweredInv, Whole
  <1>1. replies[c][x].n \in DOMAIN reqs[c]
    BY DEF AnsweredInv
  <1> QED BY <1>1, WholeStays DEF AnsweredInv

\* A step that leaves a handler alone keeps its part of the invariant.
LEMMA OthersKeep ==
  ASSUME Types, StoreGrows, NEW c \in Conns, HandlerInv(c),
         pc'[c] = pc[c], reqs'[c] = reqs[c], at'[c] = at[c], groups'[c] = groups[c],
         day'[c] = day[c], code'[c] = code[c], replies'[c] = replies[c]
  PROVE  HandlerInv(c)'
  <1>0. PlaceInv(c) /\ WorkInv(c) /\ AnsweredInv(c)
    BY DEF HandlerInv
  <1>r. Running' => Running
    BY DEF StoreGrows
  <1>1. PlaceInv(c)'
    BY <1>0, <1>r DEF PlaceInv
  <1>2. AnsweredInv(c)'
    BY <1>0, AnsweredStays
  <1>3. WorkInv(c)'
    <2>1. Req(c)' = Req(c)
      BY DEF Req
    <2>2. ASSUME Running, pc[c] \in Writing
          PROVE  /\ Req(c).kind = "write"
                 /\ \A d \in Req(c).days \ groups[c] : Held(c, at[c], d)'
      <3>1. Req(c).days \subseteq Days
        BY <1>0, <2>2, ReqType DEF PlaceInv
      <3>2. /\ Req(c).kind = "write"
            /\ \A d \in Req(c).days \ groups[c] : Held(c, at[c], d)
        BY <1>0, <2>2 DEF WorkInv
      <3>3. ASSUME NEW d \in Req(c).days \ groups[c] PROVE Held(c, at[c], d)'
        BY <3>1, <3>2, HeldStays DEF Held
      <3> QED BY <3>2, <3>3
    <2>3. ASSUME Running, pc[c] = "append" PROVE writers'[day[c]] # "none"
      <3>1. day[c] \in Days /\ writers[day[c]] # "none"
        BY <1>0, <2>3 DEF WorkInv, Types
      <3> QED BY <3>1 DEF StoreGrows
    <2>4. ASSUME Running, pc[c] = "answer"
          PROVE  /\ Req(c).kind \in Kinds
                 /\ Req(c).kind = "write" /\ code[c] = "success" => Whole(c, at[c])'
      <3>1. at[c] \in DOMAIN reqs[c]
        BY <1>0, <2>4 DEF PlaceInv, Types
      <3>2. ASSUME Whole(c, at[c]) PROVE Whole(c, at[c])'
        BY <3>1, <3>2, WholeStays DEF Whole, Held
      <3> QED BY <1>0, <2>4, <3>2 DEF WorkInv
    <2> QED BY <1>0, <1>r, <2>1, <2>2, <2>3, <2>4 DEF WorkInv, Held, Whole
  <1> QED BY <1>1, <1>2, <1>3 DEF HandlerInv

\* The number of requests sent is a number.
LEMMA SentFinite == ASSUME Types PROVE Sent \in Nat
  <1> DEFINE F(c) == {c} \X DOMAIN reqs[c]
             G == {F(c) : c \in Conns}
  <1>1. IsFiniteSet(G)
    <2> DEFINE f == [c \in Conns |-> F(c)]
    <2>1. f \in [Conns -> G] /\ \A t \in G : \E c \in Conns : f[c] = t
      OBVIOUS
    <2>2. f \in Surjection(Conns, G)
      BY <2>1, Zenon DEF Surjection
    <2> QED BY <2>2, RequestAssumption, FS_Surjection
  <1>2. ASSUME NEW c \in Conns PROVE IsFiniteSet(F(c))
    <2>1. DOMAIN reqs[c] = 1 .. Len(reqs[c]) /\ Len(reqs[c]) \in Nat
      BY DEF Types
    <2>2. IsFiniteSet(DOMAIN reqs[c])
      BY <2>1, FS_Interval
    <2> QED BY <2>2, FS_Singleton, FS_Product
  <1>3. IsFiniteSet(UNION G)
    BY <1>1, <1>2, FS_UNION
  <1> QED BY <1>3, FS_CardinalityType DEF Sent

\* An answer of success to a write is given when all of the write is held.
LEMMA AnswerAdded ==
  ASSUME Types, StoreGrows, NEW c \in Conns, AnsweredInv(c), reqs' = reqs,
         NEW lost \in BOOLEAN,
         at[c] \in DOMAIN reqs[c],
         Req(c).kind = "write" /\ code[c] = "success" => Whole(c, at[c]),
         replies' = [replies EXCEPT ![c] =
                        IF lost THEN @ ELSE Append(@, [n |-> at[c], code |-> code[c]])]
  PROVE  AnsweredInv(c)'
  <1>1. SUFFICES ASSUME NEW x \in DOMAIN replies'[c]
                 PROVE  /\ replies'[c][x].n \in DOMAIN reqs[c]
                        /\ reqs[c][replies'[c][x].n].kind = "write"
                           /\ replies'[c][x].code = "success" =>
                                    \A d \in reqs[c][replies'[c][x].n].days :
                                        <<c, replies'[c][x].n, d>> \in disk' \union buffer'[d]
    BY DEF AnsweredInv, Whole, Held
  <1>2. CASE x \in DOMAIN replies[c] /\ replies'[c][x] = replies[c][x]
    <2>1. replies[c][x].n \in DOMAIN reqs[c]
      BY <1>2 DEF AnsweredInv
    <2> QED BY <1>2, <2>1, ReqDays, HeldStays DEF AnsweredInv, Whole, Held
  <1>3. CASE replies'[c][x] = [n |-> at[c], code |-> code[c]]
    BY <1>3, ReqDays, HeldStays DEF Whole, Held, Req
  <1> QED BY <1>2, <1>3, RepliesType

\* Every step keeps the part of every handler.
LEMMA HandlersStep ==
  ASSUME SafeInv, [Next]_vars, NEW h \in Conns
  PROVE  HandlerInv(h)'
  <1>0. /\ Types /\ Types' /\ StoreGrows /\ WriterInv
        /\ HandlerInv(h) /\ PlaceInv(h) /\ WorkInv(h) /\ AnsweredInv(h)
    BY TypesStep, StoreStep DEF SafeInv, HandlerInv
  <1> DEFINE Alone == /\ pc'[h] = pc[h] /\ reqs'[h] = reqs[h] /\ at'[h] = at[h]
                      /\ groups'[h] = groups[h] /\ day'[h] = day[h] /\ code'[h] = code[h]
                      /\ replies'[h] = replies[h]
  <1>a. Alone => HandlerInv(h)'
    BY <1>0, OthersKeep
  <1> USE DEF mainVars, clientVars, handleVars, answerVars, storeVars, statVars
  \* A step of the handler that neither reads a request nor answers one.
  <1>b. ASSUME reqs'[h] = reqs[h], replies'[h] = replies[h], at'[h] = at[h], pc[h] # "none",
               pc'[h] \notin Writing \union {"answer", "none"}
        PROVE  HandlerInv(h)'
    <2>1. AnsweredInv(h)'
      BY <1>0, <1>b, AnsweredStays
    <2>2. PlaceInv(h)' /\ WorkInv(h)'
      BY <1>0, <1>b DEF PlaceInv, WorkInv, Writing
    <2> QED BY <2>1, <2>2 DEF HandlerInv
  <1> USE DEF Running
  <1>1. ASSUME NEW c \in Conns, Connect(c) PROVE HandlerInv(h)'
    <2>1. CASE c = h
      <3>1. PICK m \in 0 .. MaxRequests - Sent : \E s \in [1 .. m -> Requests] :
                reqs' = [reqs EXCEPT ![c] = s]
        BY <1>1 DEF Connect
      <3>2. Sent \in Nat
        BY <1>0, SentFinite
      <3>3. Len(reqs'[h]) <= MaxRequests
        BY <1>0, <2>1, <3>1, <3>2, RequestAssumption DEF Types
      <3>4. /\ pc[h] = "none" /\ pc'[h] = "backlog" /\ at' = at /\ replies' = replies
        BY <1>0, <1>1, <2>1 DEF Connect, Types
      <3>5. at[h] = 1 /\ replies[h] = <<>> /\ Len(reqs'[h]) \in Nat
        BY <1>0, <3>4 DEF PlaceInv, Types
      <3> QED BY <3>3, <3>4, <3>5 DEF HandlerInv, PlaceInv, WorkInv, AnsweredInv, Writing
    <2>2. CASE c # h
      BY <1>a, <1>0, <1>1, <2>2 DEF Connect, Types
    <2> QED BY <2>1, <2>2
  <1>2. ASSUME NEW c \in Conns, Hangup(c) PROVE HandlerInv(h)'
    BY <1>a, <1>2 DEF Hangup
  <1>3. ASSUME NEW c \in Conns, Accept(c) \/ ReadFail(c) \/ Select(c) PROVE HandlerInv(h)'
    <2>1. /\ UNCHANGED <<reqs, replies, at, groups, day, code>>
          /\ c # h => pc'[h] = pc[h]
          /\ c = h => pc[h] # "none" /\ pc'[h] \in {"select", "read", "closed"}
      BY <1>0, <1>3 DEF Accept, ReadFail, Select, Leave, Types
    <2> QED BY <1>a, <1>b, <2>1 DEF Writing
  <1>4. ASSUME NEW c \in Conns, HandlePong(c) PROVE HandlerInv(h)'
    <2>1. /\ UNCHANGED <<reqs, replies, groups, day, code>>
          /\ c # h => pc'[h] = pc[h] /\ at'[h] = at[h]
          /\ c = h => /\ at[h] <= Len(reqs[h]) /\ at'[h] = at[h] + 1 /\ pc'[h] = "select"
                      /\ pc[h] = "read"
      BY <1>0, <1>4 DEF HandlePong, Message, Types
    <2>2. CASE c = h
      <3>1. AnsweredInv(h)'
        BY <1>0, <2>1, AnsweredStays
      <3>2. PlaceInv(h)' /\ WorkInv(h)'
        BY <1>0, <2>1, <2>2 DEF PlaceInv, WorkInv, Writing, Types
      <3> QED BY <3>1, <3>2 DEF HandlerInv
    <2> QED BY <1>a, <2>1, <2>2
  <1>5. ASSUME NEW c \in Conns, HandleOther(c) PROVE HandlerInv(h)'
    <2>1. /\ UNCHANGED <<reqs, replies, groups, day, at>>
          /\ c # h => pc'[h] = pc[h] /\ code'[h] = code[h]
          /\ c = h => /\ at[h] <= Len(reqs[h]) /\ pc'[h] = "answer"
                      /\ Req(h).kind \in Kinds
                      /\ Req(h).kind = "write" => code'[h] = "error"
      BY <1>0, <1>5 DEF HandleOther, Message, Types, Kinds
    <2>2. CASE c = h
      <3>1. AnsweredInv(h)'
        BY <1>0, <2>1, AnsweredStays
      <3>2. PlaceInv(h)'
        BY <1>0, <2>1, <2>2 DEF PlaceInv
      <3>3. WorkInv(h)'
        BY <2>1, <2>2 DEF WorkInv, Writing, Req
      <3> QED BY <3>1, <3>2, <3>3 DEF HandlerInv
    <2> QED BY <1>a, <2>1, <2>2
  <1>6. ASSUME NEW c \in Conns, HandleWrite(c) PROVE HandlerInv(h)'
    <2>1. /\ UNCHANGED <<reqs, replies, code, day, at>>
          /\ c # h => pc'[h] = pc[h] /\ groups'[h] = groups[h]
          /\ c = h => /\ at[h] <= Len(reqs[h]) /\ pc'[h] = "group"
                      /\ Req(h).kind = "write" /\ groups'[h] = Req(h).days
      BY <1>0, <1>6 DEF HandleWrite, Message, Types
    <2>2. CASE c = h
      <3>1. AnsweredInv(h)'
        BY <1>0, <2>1, AnsweredStays
      <3>2. PlaceInv(h)'
        BY <1>0, <2>1, <2>2 DEF PlaceInv
      <3>3. WorkInv(h)'
        BY <2>1, <2>2 DEF WorkInv, Writing, Req
      <3> QED BY <3>1, <3>2, <3>3 DEF HandlerInv
    <2> QED BY <1>a, <2>1, <2>2
  <1>7. ASSUME NEW c \in Conns, Group(c) PROVE HandlerInv(h)'
    <2>1. /\ UNCHANGED <<reqs, replies, groups, at, writers, buffer, disk>>
          /\ c # h => pc'[h] = pc[h] /\ code'[h] = code[h] /\ day'[h] = day[h]
      BY <1>0, <1>7 DEF Group, Lookup, Written, Types
    <2>2. CASE c = h
      <3>1. AnsweredInv(h)'
        BY <1>0, <2>1, AnsweredStays
      <3>2. at[h] <= Len(reqs[h]) /\ Req(h).kind = "write"
            /\ \A d \in Req(h).days \ groups[h] : Held(h, at[h], d)
        BY <1>0, <1>7, <2>2 DEF Group, PlaceInv, WorkInv, Writing
      <3>3. CASE groups[h] = {} /\ Written(h)
        <4>1. pc'[h] = "answer" /\ code'[h] = "success"
          BY <1>0, <3>3 DEF Written, Types
        <4>2. PlaceInv(h)'
          BY <1>0, <2>1, <3>2, <4>1 DEF PlaceInv
        <4>3. Whole(h, at[h])
          BY <3>2, <3>3 DEF Whole, Req
        <4>4. WorkInv(h)'
          BY <2>1, <3>2, <4>1, <4>3 DEF WorkInv, Writing, Req, Whole, Held, Kinds
        <4> QED BY <3>1, <4>2, <4>4 DEF HandlerInv
      <3>4. ASSUME NEW d \in groups[h], Lookup(h, d) PROVE HandlerInv(h)'
        <4>1. /\ day'[h] = d
              /\ pc'[h] = IF writers[d] = "none" THEN "create" ELSE "append"
          BY <1>0, <3>4 DEF Lookup, Types
        <4>2. PlaceInv(h)'
          BY <1>0, <2>1, <3>2, <4>1 DEF PlaceInv
        <4>4. WorkInv(h)'
          BY <2>1, <3>2, <4>1 DEF WorkInv, Writing, Req, Held
        <4> QED BY <3>1, <4>2, <4>4 DEF HandlerInv
      <3> QED BY <1>7, <2>2, <3>3, <3>4 DEF Group
    <2> QED BY <1>a, <2>1, <2>2
  <1>8. ASSUME NEW c \in Conns, Create(c) PROVE HandlerInv(h)'
    <2>1. /\ UNCHANGED <<reqs, replies, groups, at, day, buffer, disk>>
          /\ c # h => pc'[h] = pc[h] /\ code'[h] = code[h]
          /\ c = h => \/ pc'[h] = "append" /\ writers'[day[h]] # "none"
                      \/ pc'[h] = "answer" /\ code'[h] = "error"
      BY <1>0, <1>8 DEF Create, Types
    <2>2. CASE c = h
      <3>1. AnsweredInv(h)'
        BY <1>0, <2>1, AnsweredStays
      <3>2. /\ at[h] <= Len(reqs[h]) /\ Req(h).kind = "write" /\ day[h] \in groups[h]
            /\ \A d \in Req(h).days \ groups[h] : Held(h, at[h], d)
        BY <1>0, <1>8, <2>2 DEF Create, PlaceInv, WorkInv, Writing
      <3>3. PlaceInv(h)'
        BY <1>0, <2>1, <2>2, <3>2 DEF PlaceInv
      <3>4. WorkInv(h)'
        BY <2>1, <2>2, <3>2 DEF WorkInv, Writing, Req, Held, Kinds
      <3> QED BY <3>1, <3>3, <3>4 DEF HandlerInv
    <2> QED BY <1>a, <2>1, <2>2
  <1>9. ASSUME NEW c \in Conns, AppendPoints(c) PROVE HandlerInv(h)'
    <2>1. /\ UNCHANGED <<reqs, replies, at, day, code, writers, disk>>
          /\ c # h => pc'[h] = pc[h] /\ groups'[h] = groups[h]
          /\ c = h => pc'[h] = "group" /\ groups'[h] = groups[h] \ {day[h]}
          /\ c = h => <<h, at[h], day[h]>> \in buffer'[day[h]]
      BY <1>0, <1>9 DEF AppendPoints, Types
    <2>2. CASE c = h
      <3>1. AnsweredInv(h)'
        BY <1>0, <2>1, AnsweredStays
      <3>2. /\ at[h] <= Len(reqs[h]) /\ Req(h).kind = "write"
            /\ \A d \in Req(h).days \ groups[h] : Held(h, at[h], d)
        BY <1>0, <1>9, <2>2 DEF AppendPoints, PlaceInv, WorkInv, Writing
      <3>3. PlaceInv(h)'
        BY <1>0, <2>1, <2>2, <3>2 DEF PlaceInv
      <3>4. Req(h).days \subseteq Days
        BY <1>0, <3>2, ReqType
      <3>5. ASSUME NEW d \in Req(h).days \ (groups[h] \ {day[h]})
            PROVE  <<h, at[h], d>> \in disk' \union buffer'[d]
        <4>1. CASE d = day[h]
          BY <2>1, <2>2, <4>1
        <4>2. CASE d # day[h]
          BY <1>0, <3>2, <3>4, <4>2, HeldStays DEF Held
        <4> QED BY <4>1, <4>2
      <3>6. WorkInv(h)'
        BY <2>1, <2>2, <3>2, <3>5 DEF WorkInv, Writing, Req, Held
      <3> QED BY <3>1, <3>3, <3>6 DEF HandlerInv
    <2> QED BY <1>a, <2>1, <2>2
  <1>10. ASSUME NEW c \in Conns, Send(c) PROVE HandlerInv(h)'
    <2>1. PICK lost \in BOOLEAN :
              replies' = [replies EXCEPT ![c] =
                        IF lost THEN @ ELSE Append(@, [n |-> at[c], code |-> code[c]])]
      BY <1>10 DEF Send
    <2>2. /\ UNCHANGED <<reqs, groups, day, code>>
          /\ c # h => pc'[h] = pc[h] /\ at'[h] = at[h] /\ replies'[h] = replies[h]
          /\ c = h => at'[h] = at[h] + 1 /\ pc'[h] = "count"
      BY <1>0, <1>10, <2>1 DEF Send, Types
    <2>3. CASE c = h
      <3>1. at[h] \in DOMAIN reqs[h]
        BY <1>0, <1>10, <2>3 DEF Send, PlaceInv, Types
      <3>2. Req(h).kind = "write" /\ code[h] = "success" => Whole(h, at[h])
        BY <1>0, <1>10, <2>3 DEF Send, WorkInv
      <3>3. AnsweredInv(h)'
        BY <1>0, <2>1, <2>2, <2>3, <3>1, <3>2, AnswerAdded
      <3>4. PlaceInv(h)' /\ WorkInv(h)'
        BY <1>0, <2>2, <2>3, <3>1 DEF PlaceInv, WorkInv, Writing, Types
      <3> QED BY <3>3, <3>4 DEF HandlerInv
    <2> QED BY <1>a, <2>2, <2>3
  <1>11. ASSUME NEW c \in Conns, Count(c) \/ SlowEmptyWrite(c) PROVE HandlerInv(h)'
    <2>1. CASE Count(c)
      <3>1. /\ UNCHANGED <<reqs, replies, at, groups, day, code>>
            /\ c # h => pc'[h] = pc[h]
            /\ c = h => pc[h] = "count" /\ pc'[h] = "select"
        BY <1>0, <2>1 DEF Count, Types
      <3> QED BY <1>a, <1>b, <3>1 DEF Writing
    <2>2. CASE SlowEmptyWrite(c)
      BY <1>a, <2>2 DEF SlowEmptyWrite
    <2> QED BY <1>11, <2>1, <2>2
  <1>12. ASSUME NEW d \in Days, Flush(d) \/ CloseWriter(d) PROVE HandlerInv(h)'
    BY <1>a, <1>12 DEF Flush, CloseWriter
  <1>13. CASE \/ AcceptSelect \/ AcceptFail \/ Signal \/ StopChan \/ CloseReturns \/ Exit
              \/ UNCHANGED vars
    BY <1>a, <1>13 DEF AcceptSelect, AcceptFail, Signal, StopChan, CloseReturns, Exit, vars
  <1>14. CASE CloseListener
    <2>1. /\ UNCHANGED <<reqs, replies, at, groups, day, code>>
          /\ pc'[h] = IF pc[h] = "backlog" THEN "closed" ELSE pc[h]
      BY <1>14 DEF CloseListener
    <2> QED BY <1>a, <1>b, <2>1 DEF Writing
  <1> QED
    BY <1>1, <1>2, <1>3, <1>4, <1>5, <1>6, <1>7, <1>8, <1>9, <1>10, <1>11, <1>12, <1>13, <1>14
       DEF Next, Handler, Shutdown

\* Every step keeps the table in order.
LEMMA WritersStep == SafeInv /\ [Next]_vars => WriterInv'
  <1> SUFFICES ASSUME SafeInv, [Next]_vars PROVE WriterInv'
    OBVIOUS
  <1>0. Types /\ WriterInv /\ \A c \in Conns : PlaceInv(c) /\ WorkInv(c)
    BY DEF SafeInv, HandlerInv
  <1>1. CASE UNCHANGED <<writers, buffer, opens, closing>>
    BY <1>0, <1>1 DEF WriterInv
  <1>2. ASSUME NEW c \in Conns, Create(c) PROVE WriterInv'
    <2>1. UNCHANGED <<buffer, closing>> /\ day[c] \in Days
      BY <1>0, <1>2 DEF Create, mainVars, Types
    <2>2. CASE UNCHANGED <<writers, opens>>
      BY <1>1, <2>1, <2>2
    <2>3. CASE /\ writers[day[c]] = "none"
               /\ writers' = [writers EXCEPT ![day[c]] = "open"]
               /\ opens' = [opens EXCEPT ![day[c]] = @ + 1]
      BY <1>0, <2>1, <2>3 DEF WriterInv, Types
    <2> QED BY <1>2, <2>2, <2>3 DEF Create
  <1>3. ASSUME NEW c \in Conns, AppendPoints(c) PROVE WriterInv'
    <2>1. day[c] \in Days /\ writers[day[c]] # "none"
      BY <1>0, <1>3 DEF AppendPoints, WorkInv, Types
    <2> QED BY <1>0, <1>3, <2>1 DEF AppendPoints, WriterInv, Types, mainVars
  <1>4. ASSUME NEW d \in Days, Flush(d) PROVE WriterInv'
    BY <1>0, <1>4 DEF Flush, WriterInv, Types, mainVars
  <1>5. ASSUME NEW d \in Days, CloseWriter(d) PROVE WriterInv'
    BY <1>0, <1>5 DEF CloseWriter, WriterInv, Types
  <1>6. CASE CloseListener
    BY <1>0, <1>6 DEF CloseListener, WriterInv, storeVars
  <1>7. ASSUME NEW c \in Conns,
               \/ Connect(c) \/ Hangup(c) \/ Accept(c) \/ ReadFail(c) \/ Select(c) \/ HandlePong(c)
               \/ HandleOther(c) \/ HandleWrite(c) \/ Group(c) \/ Send(c) \/ Count(c) \/ SlowEmptyWrite(c)
        PROVE  UNCHANGED <<writers, buffer, opens, closing>>
    BY <1>7 DEF Connect, Hangup, Accept, ReadFail, Select, HandlePong, HandleOther, HandleWrite,
       Group, Send, Count, SlowEmptyWrite, storeVars, mainVars
  <1>8. ASSUME AcceptSelect \/ AcceptFail \/ Signal \/ StopChan \/ CloseReturns \/ Exit
               \/ UNCHANGED vars
        PROVE  UNCHANGED <<writers, buffer, opens, closing>>
    BY <1>8 DEF AcceptSelect, AcceptFail, Signal, StopChan, CloseReturns, Exit, storeVars,
       mainVars, vars
  <1> QED
    BY <1>1, <1>2, <1>3, <1>4, <1>5, <1>6, <1>7, <1>8 DEF Next, Handler, Shutdown

\* Every step keeps what was answered before Storage.Close on its way to disk.
LEMMA EarlyStep == SafeInv /\ [Next]_vars => EarlyInv'
  <1> SUFFICES ASSUME SafeInv, [Next]_vars PROVE EarlyInv'
    OBVIOUS
  <1>0. /\ Types /\ WriterInv /\ EarlyInv /\ StoreGrows
        /\ \A c \in Conns : PlaceInv(c) /\ WorkInv(c)
    BY StoreStep DEF SafeInv, HandlerInv
  <1>a. ASSUME NEW p \in early
        PROVE  /\ p[3] \in Days /\ Settled(p) /\ p \in disk \union buffer[p[3]]
               /\ p \in disk' \union buffer'[p[3]]
               /\ p \in disk => p \in disk'
               /\ writers[p[3]] # "none" => writers'[p[3]] # "none"
    <2>1. p[3] \in Days /\ Settled(p)
      BY <1>0 DEF Types, Triples, EarlyInv
    <2>2. p \in disk \union buffer[p[3]]
      BY <2>1 DEF Settled
    <2> QED BY <1>0, <2>1, <2>2, HeldStays DEF StoreGrows
  <1>1. ASSUME UNCHANGED <<mpc, closing, panicked>>, NEW p \in early PROVE Settled(p)'
    BY <1>1, <1>a DEF Settled
  <1>2. ASSUME UNCHANGED <<mpc, closing, panicked, early>> PROVE EarlyInv'
    BY <1>1, <1>2 DEF EarlyInv
  <1>3. ASSUME NEW c \in Conns, Send(c) PROVE EarlyInv'
    <2>1. UNCHANGED <<mpc, closing, panicked, writers, buffer, disk>>
      BY <1>3 DEF Send, mainVars, storeVars
    <2>2. CASE early' = early
      BY <1>2, <2>1, <2>2
    <2>3. CASE /\ Req(c).kind = "write" /\ code[c] = "success" /\ mpc \in {"run", "stop", "unlisten"}
               /\ early' = early \union Points(c)
      <3>1. ASSUME NEW d \in Req(c).days, NEW p, p = <<c, at[c], d>> PROVE Settled(p)'
        <4>1. d \in Days /\ p[3] = d
          BY <1>0, <1>3, <3>1, ReqType DEF Send, PlaceInv
        <4>2. p \in disk \union buffer[d]
          BY <1>0, <1>3, <2>3, <3>1 DEF Send, WorkInv, Whole, Held, Req
        <4>3. writers[d] = "none" => buffer[d] = {}
          BY <1>0, <4>1 DEF WriterInv
        <4>4. \/ p \in disk
              \/ p \in buffer[p[3]] /\ writers[p[3]] # "none" /\ mpc \in {"run", "stop", "unlisten"}
          BY <2>3, <4>1, <4>2, <4>3
        <4> QED BY <2>1, <4>4 DEF Settled
      <3>2. ASSUME NEW p \in Points(c) PROVE Settled(p)'
        BY <3>1, <3>2 DEF Points
      <3>3. ASSUME NEW p \in early PROVE Settled(p)'
        BY <1>1, <2>1
      <3> QED BY <2>3, <3>2, <3>3 DEF EarlyInv
    <2> QED BY <1>3, <2>2, <2>3 DEF Send
  <1>4. ASSUME NEW c \in Conns, SlowEmptyWrite(c) PROVE EarlyInv'
    <2>1. mpc' = "exit" /\ panicked' = TRUE /\ UNCHANGED <<early, closing>>
      BY <1>4 DEF SlowEmptyWrite
    <2>2. UNCHANGED <<writers, buffer, disk>>
      BY <1>4 DEF SlowEmptyWrite, storeVars
    <2> QED BY <1>a, <2>1, <2>2 DEF EarlyInv, Settled
  <1>5. CASE Signal \/ StopChan
    BY <1>a, <1>5 DEF Signal, StopChan, EarlyInv, Settled, storeVars
  <1>6. CASE CloseListener
    BY <1>a, <1>6 DEF CloseListener, EarlyInv, Settled, storeVars
  <1>7. ASSUME NEW d \in Days, CloseWriter(d) PROVE EarlyInv'
    <2>1. /\ mpc = "close" /\ UNCHANGED <<mpc, early, panicked>>
          /\ disk' = disk \union buffer[d] /\ closing' = closing \ {d}
      BY <1>7 DEF CloseWriter
    <2>2. ASSUME NEW p \in early PROVE Settled(p)'
      <3>1. CASE p[3] = d
        BY <1>a, <2>1, <3>1 DEF Settled
      <3>2. CASE p[3] # d
        BY <1>a, <2>1, <3>2 DEF Settled
      <3> QED BY <3>1, <3>2
    <2> QED BY <2>1, <2>2 DEF EarlyInv
  <1>8. CASE CloseReturns \/ Exit
    BY <1>a, <1>8 DEF CloseReturns, Exit, EarlyInv, Settled, storeVars
  <1>9. ASSUME NEW c \in Conns,
               \/ Connect(c) \/ Hangup(c) \/ Accept(c) \/ ReadFail(c) \/ Select(c) \/ HandlePong(c)
               \/ HandleOther(c) \/ HandleWrite(c) \/ Group(c) \/ Create(c) \/ AppendPoints(c)
               \/ Count(c)
        PROVE  UNCHANGED <<mpc, closing, panicked, early>>
    BY <1>9 DEF Connect, Hangup, Accept, ReadFail, Select, HandlePong, HandleOther, HandleWrite,
       Group, Create, AppendPoints, Count, mainVars
  <1>10. ASSUME NEW d \in Days, Flush(d) PROVE UNCHANGED <<mpc, closing, panicked, early>>
    BY <1>10 DEF Flush, mainVars
  <1>11. ASSUME AcceptSelect \/ AcceptFail \/ UNCHANGED vars
         PROVE  UNCHANGED <<mpc, closing, panicked, early>>
    BY <1>11 DEF AcceptSelect, AcceptFail, mainVars, vars
  <1> QED
    BY <1>2, <1>3, <1>4, <1>5, <1>6, <1>7, <1>8, <1>9, <1>10, <1>11 DEF Next, Handler, Shutdown

\* The invariant of the server.
LEMMA SafeInvariant == Spec => []SafeInv
  <1>1. SafeInv /\ [Next]_vars => SafeInv'
    BY TypesStep, HandlersStep, WritersStep, EarlyStep DEF SafeInv
  <1> QED BY <1>1, ServerInit, PTL DEF Spec

\* A day's file is opened once in the life of the process, whichever handlers
\* meet over it (getOrCreateWriter).
THEOREM OneWriterEach == Spec => []OneWriter
  <1>1. SafeInv => OneWriter
    BY DEF SafeInv, WriterInv, OneWriter
  <1> QED BY <1>1, SafeInvariant, PTL

\* A success of a write covers each of its days (Storage.WriteBatch).
THEOREM SuccessCoversWrite == Spec => []SuccessIsWhole
  <1>1. SafeInv => SuccessIsWhole
    BY DEF SafeInv, HandlerInv, AnsweredInv, Whole, Held, SuccessIsWhole
  <1> QED BY <1>1, SafeInvariant, PTL

\* A success before Storage.Close is on disk when the process has ended, unless
\* it panicked (main, Storage.Close).
THEOREM SuccessSurvivesShutdown == Spec => []EarlyIsDurable
  <1>1. SafeInv => EarlyIsDurable
    BY DEF SafeInv, EarlyInv, Settled, EarlyIsDurable
  <1> QED BY <1>1, SafeInvariant, PTL

-----------------------------------------------------------------------------

\* The two halves of StatsAgree.
ActiveInv == activeConns = Cardinality(Live)
TotalsInv ==
    \A k \in Kinds : Cardinality(Successes(k)) <= totals[k] + Cardinality(Uncounted(k))

\* Both count the elements of finite sets.
LEMMA CountedFinite ==
  /\ IsFiniteSet(Live)
  /\ \A k : /\ IsFiniteSet(Successes(k)) /\ IsFiniteSet(Successes(k)')
           /\ IsFiniteSet(Uncounted(k)) /\ IsFiniteSet(Uncounted(k)')
  <1>1. IsFiniteSet(Conns) /\ IsFiniteSet(1 .. MaxRequests)
    BY RequestAssumption, FS_Interval
  <1>2. IsFiniteSet(Conns \X (1 .. MaxRequests))
    BY <1>1, FS_Product
  <1>3. Live \in SUBSET Conns /\ \A k : Uncounted(k) \subseteq Conns /\ Uncounted(k)' \subseteq Conns
    BY DEF Live, Uncounted
  <1>4. ASSUME NEW k
        PROVE  /\ Successes(k) \in SUBSET (Conns \X (1 .. MaxRequests))
               /\ Successes(k)' \in SUBSET (Conns \X (1 .. MaxRequests))
    BY DEF Successes
  <1> QED BY <1>1, <1>2, <1>3, <1>4, FS_Subset

\* Every step keeps the count of the open connections.
LEMMA ActiveStep == SafeInv /\ ActiveInv /\ [Next]_vars => ActiveInv'
  <1> SUFFICES ASSUME SafeInv, ActiveInv, [Next]_vars PROVE ActiveInv'
    OBVIOUS
  <1>0. Types
    BY DEF SafeInv
  <1> DEFINE Idle == {"none", "backlog", "closed"}
  <1>a. ASSUME UNCHANGED activeConns, \A c \in Conns : pc[c] \in Idle <=> pc'[c] \in Idle
        PROVE  ActiveInv'
    <2>1. Live' = Live
      BY <1>a DEF Live
    <2> QED BY <1>a, <2>1 DEF ActiveInv
  <1>b. ASSUME NEW c \in Conns, pc[c] \notin Idle, Leave(c) PROVE ActiveInv'
    <2>1. c \in Live /\ Live' = Live \ {c}
      BY <1>0, <1>b DEF Live, Leave, Types
    <2>2. Cardinality(Live') = Cardinality(Live) - 1
      BY <2>1, CountedFinite, FS_RemoveElement
    <2> QED BY <1>b, <2>2 DEF Leave, ActiveInv
  <1>1. ASSUME NEW c \in Conns, Accept(c) PROVE ActiveInv'
    <2>1. c \notin Live /\ Live' = Live \union {c}
      BY <1>0, <1>1 DEF Live, Accept, Types
    <2>2. Cardinality(Live') = Cardinality(Live) + 1
      BY <2>1, CountedFinite, FS_AddElement
    <2> QED BY <1>1, <2>2 DEF Accept, ActiveInv
  <1>2. ASSUME NEW c \in Conns, ReadFail(c) \/ Select(c) PROVE ActiveInv'
    <2>1. CASE Leave(c)
      BY <1>2, <1>b, <2>1 DEF ReadFail, Select
    <2>2. CASE pc[c] = "select" /\ pc' = [pc EXCEPT ![c] = "read"] /\ UNCHANGED activeConns
      BY <1>0, <1>a, <2>2 DEF Types
    <2> QED BY <1>2, <2>1, <2>2 DEF ReadFail, Select
  <1>3. ASSUME NEW c \in Conns,
               \/ Connect(c) \/ Hangup(c) \/ HandlePong(c) \/ HandleOther(c) \/ HandleWrite(c)
               \/ Group(c) \/ Create(c) \/ AppendPoints(c) \/ Send(c)
               \/ Count(c) \/ SlowEmptyWrite(c)
        PROVE  ActiveInv'
    <2>1. UNCHANGED activeConns
      BY <1>3 DEF Connect, Hangup, HandlePong, HandleOther, HandleWrite, Group, Create,
         AppendPoints, Send, Count, SlowEmptyWrite, statVars
    <2>2. \A x \in Conns : pc[x] \in Idle <=> pc'[x] \in Idle
      BY <1>0, <1>3 DEF Types, Connect, Hangup, HandlePong, HandleOther, HandleWrite, Group, Lookup,
         Written, Create, AppendPoints, Send, Count, SlowEmptyWrite, Message
    <2> QED BY <1>a, <2>1, <2>2
  <1>4. CASE CloseListener
    <2>1. UNCHANGED activeConns /\ \A x \in Conns : pc[x] \in Idle <=> pc'[x] \in Idle
      BY <1>4 DEF CloseListener, statVars
    <2> QED BY <1>a, <2>1
  <1>5. ASSUME NEW d \in Days, Flush(d) \/ CloseWriter(d) PROVE ActiveInv'
    BY <1>a, <1>5 DEF Flush, CloseWriter, statVars
  <1>6. CASE \/ AcceptSelect \/ AcceptFail \/ Signal \/ StopChan \/ CloseReturns \/ Exit
             \/ UNCHANGED vars
    BY <1>a, <1>6 DEF AcceptSelect, AcceptFail, Signal, StopChan, CloseReturns, Exit, statVars, vars
  <1> QED
    BY <1>1, <1>2, <1>3, <1>4, <1>5, <1>6 DEF Next, Handler, Shutdown

\* One element more is one more at most.
LEMMA OneMore ==
  ASSUME NEW S, IsFiniteSet(S), NEW x
  PROVE  /\ IsFiniteSet(S \union {x}) /\ Cardinality(S \union {x}) \in Nat
         /\ Cardinality(S) \in Nat
         /\ Cardinality(S \union {x}) <= Cardinality(S) + 1
         /\ x \notin S => Cardinality(S \union {x}) = Cardinality(S) + 1
  <1>1. Cardinality(S) \in Nat
    BY FS_CardinalityType
  <1>2. /\ IsFiniteSet(S \union {x})
        /\ Cardinality(S \union {x}) = IF x \in S THEN Cardinality(S) ELSE Cardinality(S) + 1
    BY FS_AddElement, Zenon
  <1> QED BY <1>1, <1>2

\* A success that has been sent is still to be counted.
LEMMA AnswerCounted ==
  ASSUME SafeInv, TotalsInv, NEW c \in Conns, Send(c)
  PROVE  TotalsInv'
  <1> SUFFICES ASSUME NEW k \in Kinds
               PROVE  Cardinality(Successes(k)') <= totals'[k] + Cardinality(Uncounted(k)')
    BY DEF TotalsInv
  <1> DEFINE new == <<c, Len(replies[c]) + 1>>
  <1>t. Types /\ PlaceInv(c)
    BY DEF SafeInv, HandlerInv
  <1>s. PICK lost \in BOOLEAN :
            replies' = [replies EXCEPT ![c] =
                        IF lost THEN @ ELSE Append(@, [n |-> at[c], code |-> code[c]])]
    BY DEF Send
  <1>u. /\ UNCHANGED <<reqs, code, totals>> /\ pc[c] = "answer"
        /\ at' = [at EXCEPT ![c] = @ + 1] /\ pc' = [pc EXCEPT ![c] = "count"]
    BY DEF Send, clientVars, statVars
  <1>0. /\ totals'[k] = totals[k] /\ totals[k] \in Nat
        /\ Cardinality(Successes(k)) <= totals[k] + Cardinality(Uncounted(k))
        /\ Cardinality(Successes(k)) \in Nat /\ Cardinality(Successes(k)') \in Nat
        /\ Cardinality(Uncounted(k)) \in Nat
        /\ IsFiniteSet(Successes(k)) /\ IsFiniteSet(Uncounted(k))
    BY <1>t, <1>u, CountedFinite, FS_CardinalityType DEF Types, TotalsInv
  <1>1. ASSUME NEW p \in Successes(k)'
        PROVE  p \in Successes(k) \/ (p = new /\ code[c] = "success" /\ Req(c).kind = k)
    <2>1. PICK e \in Conns, x \in 1 .. MaxRequests : p = <<e, x>>
      BY <1>1 DEF Successes
    <2>2. /\ x \in DOMAIN replies'[e] /\ replies'[e][x].code = "success"
          /\ reqs[e][replies'[e][x].n].kind = k
      BY <1>1, <1>u, <2>1 DEF Successes, SeenSuccess
    <2>3. CASE e # c
      <3>1. replies'[e] = replies[e]
        BY <1>t, <1>s, <2>3 DEF Types
      <3> QED BY <2>1, <2>2, <3>1 DEF Successes, SeenSuccess
    <2>4. CASE e = c
      <3>1. \/ x \in DOMAIN replies[c] /\ replies'[c][x] = replies[c][x]
            \/ x = Len(replies[c]) + 1 /\ replies'[c][x] = [n |-> at[c], code |-> code[c]]
        BY <1>t, <1>s, <2>2, <2>4, RepliesType
      <3>2. CASE x \in DOMAIN replies[c] /\ replies'[c][x] = replies[c][x]
        <4>1. SeenSuccess(c, x, k)
          BY <2>2, <2>4, <3>2 DEF SeenSuccess
        <4> QED BY <2>1, <2>4, <4>1 DEF Successes
      <3>3. CASE x = Len(replies[c]) + 1 /\ replies'[c][x] = [n |-> at[c], code |-> code[c]]
        BY <2>1, <2>2, <2>4, <3>3 DEF Req
      <3> QED BY <3>1, <3>2, <3>3
    <2> QED BY <2>3, <2>4
  <1>2. /\ c \notin Uncounted(k) /\ (code[c] = "success" /\ Req(c).kind = k => c \in Uncounted(k)')
        /\ \A x \in Conns \ {c} : x \in Uncounted(k)' <=> x \in Uncounted(k)
    <2>1. \A x \in Conns \ {c} : pc'[x] = pc[x] /\ at'[x] = at[x]
      BY <1>t, <1>u DEF Types
    <2>2. pc'[c] = "count" /\ at'[c] - 1 = at[c]
      BY <1>t, <1>u DEF Types
    <2> QED BY <1>u, <2>1, <2>2 DEF Uncounted, Done, Req
  <1>3. CASE code[c] = "success" /\ Req(c).kind = k
    <2>1. Successes(k)' \in SUBSET (Successes(k) \union {new})
      BY <1>1
    <2>2. Cardinality(Successes(k) \union {new}) <= Cardinality(Successes(k)) + 1
      BY <1>0, OneMore
    <2>3. IsFiniteSet(Successes(k) \union {new}) /\ Cardinality(Successes(k) \union {new}) \in Nat
      BY <1>0, OneMore
    <2>4. Cardinality(Successes(k)') <= Cardinality(Successes(k) \union {new})
      BY <2>1, <2>3, FS_Subset
    <2>5. Uncounted(k)' = Uncounted(k) \union {c}
      BY <1>2, <1>3 DEF Uncounted
    <2>6. Cardinality(Uncounted(k)') = Cardinality(Uncounted(k)) + 1
      BY <1>0, <1>2, <2>5, OneMore
    <2> QED BY <1>0, <2>2, <2>3, <2>4, <2>6
  <1>4. CASE ~ (code[c] = "success" /\ Req(c).kind = k)
    <2>1. Successes(k)' \in SUBSET Successes(k)
      BY <1>1, <1>4
    <2>2. Cardinality(Successes(k)') <= Cardinality(Successes(k))
      BY <1>0, <2>1, FS_Subset
    <2>3. Uncounted(k) \in SUBSET Uncounted(k)'
      BY <1>2 DEF Uncounted
    <2>4. Cardinality(Uncounted(k)) <= Cardinality(Uncounted(k)') /\ Cardinality(Uncounted(k)') \in Nat
      BY <2>3, CountedFinite, FS_Subset, FS_CardinalityType
    <2> QED BY <1>0, <2>2, <2>4
  <1> QED BY <1>3, <1>4

\* What was sent is counted.
LEMMA CountCounted ==
  ASSUME Types, TotalsInv, NEW c \in Conns, Count(c)
  PROVE  TotalsInv'
  <1> SUFFICES ASSUME NEW k \in Kinds
               PROVE  Cardinality(Successes(k)') <= totals'[k] + Cardinality(Uncounted(k)')
    BY DEF TotalsInv
  <1>1. /\ UNCHANGED <<reqs, replies, code, at>> /\ pc[c] = "count"
        /\ totals' = [totals EXCEPT ![Done(c).kind] = IF code[c] = "success" THEN @ + 1 ELSE @]
        /\ pc' = [pc EXCEPT ![c] = "select"]
    BY DEF Count, clientVars, answerVars, handleVars
  <1>2. Successes(k)' = Successes(k)
    BY <1>1 DEF Successes, SeenSuccess
  <1>3. /\ Cardinality(Successes(k)) <= totals[k] + Cardinality(Uncounted(k)) /\ totals[k] \in Nat
        /\ Cardinality(Successes(k)) \in Nat /\ Cardinality(Uncounted(k)) \in Nat
        /\ IsFiniteSet(Uncounted(k))
    BY CountedFinite, FS_CardinalityType DEF Types, TotalsInv
  <1>4. Uncounted(k)' = Uncounted(k) \ {c}
    BY <1>1 DEF Uncounted, Done, Types
  <1>5. CASE code[c] = "success" /\ Done(c).kind = k
    <2>1. totals'[k] = totals[k] + 1
      BY <1>1, <1>5 DEF Types
    <2>2. c \in Uncounted(k)
      BY <1>1, <1>5 DEF Uncounted
    <2>3. Cardinality(Uncounted(k)') = Cardinality(Uncounted(k)) - 1
      BY <1>3, <1>4, <2>2, FS_RemoveElement
    <2> QED BY <1>2, <1>3, <2>1, <2>3
  <1>6. CASE ~ (code[c] = "success" /\ Done(c).kind = k)
    <2>1. totals'[k] = totals[k]
      BY <1>1, <1>6 DEF Types
    <2>2. Uncounted(k)' = Uncounted(k)
      BY <1>4, <1>6 DEF Uncounted
    <2> QED BY <1>2, <1>3, <2>1, <2>2
  <1> QED BY <1>5, <1>6

\* Every step keeps the counts of the successes.
LEMMA TotalsStep == SafeInv /\ TotalsInv /\ [Next]_vars => TotalsInv'
  <1> SUFFICES ASSUME SafeInv, TotalsInv, [Next]_vars PROVE TotalsInv'
    OBVIOUS
  <1>0. Types /\ \A c \in Conns : PlaceInv(c) /\ WorkInv(c) /\ AnsweredInv(c)
    BY DEF SafeInv, HandlerInv
  <1>1. ASSUME UNCHANGED <<reqs, replies, totals>>,
               \A c \in Conns : /\ pc'[c] = "count" <=> pc[c] = "count"
                                /\ pc[c] = "count" => code'[c] = code[c] /\ at'[c] = at[c]
        PROVE  TotalsInv'
    <2>1. \A k : Uncounted(k)' = Uncounted(k)
      BY <1>1 DEF Uncounted, Done
    <2> QED BY <1>1, <2>1 DEF TotalsInv, Successes, SeenSuccess
  <1>2. ASSUME NEW c \in Conns, Send(c) PROVE TotalsInv'
    BY <1>2, AnswerCounted
  <1>3. ASSUME NEW c \in Conns, SlowEmptyWrite(c) PROVE TotalsInv'
    <2>1. /\ totals' = [totals EXCEPT !["write"] = @ + 1]
          /\ UNCHANGED <<reqs, replies, pc, code, at>>
      BY <1>3 DEF SlowEmptyWrite, clientVars, answerVars, handleVars
    <2>2. \A k : Uncounted(k)' = Uncounted(k) /\ Successes(k)' = Successes(k)
      BY <2>1 DEF Uncounted, Done, Successes, SeenSuccess
    <2>3. ASSUME NEW k \in Kinds
          PROVE  Cardinality(Successes(k)') <= totals'[k] + Cardinality(Uncounted(k)')
      <3>1. totals[k] \in Nat /\ (totals'[k] = totals[k] \/ totals'[k] = totals[k] + 1)
        BY <1>0, <2>1, <2>3 DEF Types, Kinds
      <3>2. Cardinality(Successes(k)) <= totals[k] + Cardinality(Uncounted(k))
        BY <2>3 DEF TotalsInv
      <3>3. Cardinality(Successes(k)) \in Nat /\ Cardinality(Uncounted(k)) \in Nat
        BY CountedFinite, FS_CardinalityType
      <3> QED BY <2>2, <3>1, <3>2, <3>3
    <2> QED BY <2>3 DEF TotalsInv
  <1>4. ASSUME NEW c \in Conns, Connect(c) PROVE TotalsInv'
    <2>1. /\ replies[c] = <<>> /\ UNCHANGED <<replies, totals, code, at>>
          /\ pc[c] = "none" /\ pc' = [pc EXCEPT ![c] = "backlog"]
      BY <1>0, <1>4 DEF Connect, PlaceInv, statVars, answerVars, handleVars
    <2>2. \A e \in Conns : e # c => reqs'[e] = reqs[e]
      BY <1>0, <1>4 DEF Connect, Types
    <2>3. ASSUME NEW k, NEW e \in Conns, NEW x
          PROVE  SeenSuccess(e, x, k)' <=> SeenSuccess(e, x, k)
      BY <2>1, <2>2 DEF SeenSuccess
    <2>4. \A k : Successes(k)' = Successes(k)
      BY <2>3 DEF Successes
    <2>5. \A k : Uncounted(k)' = Uncounted(k)
      BY <1>0, <2>1, <2>2 DEF Uncounted, Done, Types
    <2> QED BY <2>1, <2>4, <2>5 DEF TotalsInv
  <1>5. ASSUME NEW c \in Conns,
               \/ Hangup(c) \/ Accept(c) \/ ReadFail(c) \/ Select(c) \/ HandlePong(c)
               \/ HandleOther(c) \/ HandleWrite(c) \/ Group(c) \/ Create(c) \/ AppendPoints(c)
        PROVE  TotalsInv'
    <2>1. UNCHANGED <<reqs, replies, totals>>
      BY <1>5 DEF Hangup, Accept, ReadFail, Select, HandlePong, HandleOther, HandleWrite, Group,
         Create, AppendPoints, clientVars, statVars, answerVars
    <2>2. /\ \A x \in Conns : pc'[x] = "count" <=> pc[x] = "count"
          /\ pc[c] = "count" => UNCHANGED <<code, at>>
      BY <1>0, <1>5 DEF Types, Hangup, Accept, ReadFail, Select, Leave, HandlePong, HandleOther,
         HandleWrite, Group, Lookup, Written, Create, AppendPoints, Message, handleVars
    <2>3. \A x \in Conns \ {c} : code'[x] = code[x] /\ at'[x] = at[x]
      BY <1>0, <1>5 DEF Types, Hangup, Accept, ReadFail, Select, HandlePong, HandleOther,
         HandleWrite, Group, Lookup, Written, Create, AppendPoints, handleVars
    <2> QED BY <1>1, <2>1, <2>2, <2>3
  <1>6. ASSUME NEW d \in Days, Flush(d) \/ CloseWriter(d) PROVE TotalsInv'
    BY <1>1, <1>6 DEF Flush, CloseWriter, clientVars, statVars, answerVars, handleVars
  <1>7. CASE \/ AcceptSelect \/ AcceptFail \/ Signal \/ StopChan
             \/ CloseReturns \/ Exit \/ UNCHANGED vars
    BY <1>1, <1>7 DEF AcceptSelect, AcceptFail, Signal, StopChan, CloseReturns, Exit,
       clientVars, statVars, answerVars, handleVars, vars
  <1>8. CASE CloseListener
    <2>1. /\ UNCHANGED <<reqs, replies, totals, code, at>>
          /\ pc' = [x \in Conns |-> IF pc[x] = "backlog" THEN "closed" ELSE pc[x]]
      BY <1>8 DEF CloseListener, clientVars, statVars, answerVars, handleVars
    <2>2. \A x \in Conns : pc'[x] = "count" <=> pc[x] = "count"
      BY <2>1
    <2> QED BY <1>1, <2>1, <2>2
  <1>9. ASSUME NEW c \in Conns, Count(c) PROVE TotalsInv'
    BY <1>0, <1>9, CountCounted
  <1> QED
    BY <1>2, <1>3, <1>4, <1>5, <1>6, <1>7, <1>8, <1>9 DEF Next, Handler, Shutdown

\* The counts hold from the start.
LEMMA CountsInvariant == Spec => [](ActiveInv /\ TotalsInv)
  <1>1. Init => ActiveInv /\ TotalsInv
    <2> SUFFICES ASSUME Init PROVE ActiveInv /\ TotalsInv
      OBVIOUS
    <2>1. Live = {} /\ \A k : Successes(k) = {} /\ Uncounted(k) = {}
      BY DEF Init, Live, Successes, SeenSuccess, Uncounted
    <2>2. Cardinality(Live) = 0 /\ \A k : Cardinality(Successes(k)) = 0 /\ Cardinality(Uncounted(k)) = 0
      BY <2>1, FS_EmptySet, Zenon
    <2>3. activeConns = 0 /\ \A k \in Kinds : totals[k] = 0
      BY DEF Init, Kinds
    <2> QED BY <2>2, <2>3 DEF ActiveInv, TotalsInv
  <1> QED BY <1>1, SafeInvariant, ActiveStep, TotalsStep, PTL DEF Spec

\* The number of open connections is that of the running handlers, and a success
\* a client has seen is counted (handleConnection, Leave by every way out).
THEOREM StatisticsAgree == Spec => []StatsAgree
  <1>1. ActiveInv /\ TotalsInv => StatsAgree
    BY DEF ActiveInv, TotalsInv, StatsAgree, Kinds
  <1> QED BY <1>1, CountsInvariant, PTL

\* The types: requests are numbered within what was sent, and no counter is
\* negative.
THEOREM TypeCorrect == Spec => []TypeOK
  <1>1. SafeInv /\ ActiveInv => TypeOK
    <2> SUFFICES ASSUME SafeInv, ActiveInv PROVE TypeOK
      OBVIOUS
    <2>1. Types /\ \A c \in Conns : PlaceInv(c)
      BY DEF SafeInv, HandlerInv
    <2>2. activeConns \in Nat
      BY CountedFinite, FS_CardinalityType DEF ActiveInv
    <2>3. ASSUME NEW c \in Conns PROVE at[c] \in 1 .. MaxRequests + 1
      BY <2>1, RequestAssumption DEF Types, PlaceInv
    <2>4. at \in [Conns -> 1 .. MaxRequests + 1]
      BY <2>1, <2>3 DEF Types
    <2> QED BY <2>1, <2>2, <2>4 DEF Types, TypeOK, Kinds, Codes, Triples
  <1> QED BY <1>1, SafeInvariant, CountsInvariant, PTL

-----------------------------------------------------------------------------
(* The order of the answers.  What is due grows by a number at its end when a  *)
(* handler is done with a write or a query, and stays when it is done with     *)
(* anything else; the replies are all of it, or a part of its beginning when   *)
(* the client has gone.                                                        *)

OrderInv(c) ==
    /\ Len(replies[c]) <= Len(Due(c))
    /\ \A x \in 1 .. Len(replies[c]) : replies[c][x].n = Due(c)[x]
    /\ ~ cut[c] => Len(replies[c]) = Len(Due(c))

\* What is due to a connection whose requests stand still.
LEMMA DueType ==
  ASSUME Types, NEW c \in Conns
  PROVE  Due(c) \in Seq(Nat) /\ Len(Due(c)) \in Nat
  <1>1. at[c] - 1 \in Nat
    BY DEF Types
  <1>2. Due(c) \in Seq(Nat)
    BY <1>1, SiftCounting DEF Due
  <1> QED BY <1>2, LenProperties

\* A handler that leaves its place and its replies alone.
LEMMA OrderStays ==
  ASSUME NEW c \in Conns, OrderInv(c), at'[c] = at[c], reqs'[c] = reqs[c],
         replies'[c] = replies[c], cut[c] => cut'[c]
  PROVE  OrderInv(c)'
  <1>1. Due(c)' = Due(c)
    BY DEF Due, Owing
  <1> QED BY <1>1 DEF OrderInv

\* An answer to the request in hand, sent or lost.
LEMMA OrderAnswer ==
  ASSUME SafeInv, NEW c \in Conns, OrderInv(c), Running, pc[c] = "answer",
         UNCHANGED reqs, at' = [at EXCEPT ![c] = @ + 1],
         NEW lost \in BOOLEAN, cut[c] => lost, cut' = [cut EXCEPT ![c] = lost],
         replies' = [replies EXCEPT ![c] =
                        IF lost THEN @ ELSE Append(@, [n |-> at[c], code |-> code[c]])]
  PROVE  OrderInv(c)'
  <1> DEFINE R == [n : Nat, code : Codes]
             e == [n |-> at[c], code |-> code[c]]
             s == replies[c]
             u == Due(c)
  <1>1. Types /\ PlaceInv(c) /\ WorkInv(c)
    BY DEF SafeInv, HandlerInv
  <1>2. /\ at[c] \in Nat /\ at[c] - 1 \in Nat /\ at'[c] = at[c] + 1
        /\ e \in R /\ e.n = at[c] /\ s \in Seq(R)
        /\ reqs[c] \in Seq(Requests)
        /\ replies'[c] = IF lost THEN s ELSE Append(s, e)
    <2>1. at[c] \in Nat /\ at[c] - 1 \in Nat /\ at'[c] = at[c] + 1 /\ code[c] \in Codes
      BY <1>1 DEF Types
    <2>2. s \in Seq(R) /\ reqs[c] \in Seq(Requests)
      BY <1>1 DEF Types
    <2>3. replies'[c] = IF lost THEN s ELSE Append(s, e)
      BY <1>1 DEF Types
    <2> QED BY <2>1, <2>2, <2>3
  <1>3. at[c] \in Owing(c)
    BY <1>1, <1>2 DEF Owing, PlaceInv, WorkInv, Kinds, Req
  <1>4. Owing(c)' = Owing(c)
    BY DEF Owing
  <1>5. Due(c)' = Sift(Counting(at[c]), Owing(c))
    <2>1. at'[c] - 1 = at[c]
      BY <1>2
    <2> QED BY <1>4, <2>1 DEF Due
  <1>6. u \in Seq(Nat) /\ Len(u) \in Nat /\ Len(s) \in Nat
    BY <1>1, <1>2, DueType, LenProperties
  <1>7. Due(c)' = Append(u, at[c])
    <2> DEFINE k == at[c] - 1
    <2>1. k \in Nat /\ k + 1 = at[c]
      BY <1>2
    <2>2. u = Sift(Counting(k), Owing(c))
      BY DEF Due
    <2> HIDE DEF k, u
    <2>3. Sift(Counting(k + 1), Owing(c)) = Append(Sift(Counting(k), Owing(c)), k + 1)
      <3> DEFINE owing == Owing(c)
      <3>1. k + 1 \in owing
        BY <2>1, <1>3
      <3> HIDE DEF owing
      <3>2. Sift(Counting(k + 1), owing) = Append(Sift(Counting(k), owing), k + 1)
        BY <2>1, <3>1, SiftCounting
      <3> QED BY <3>2 DEF owing
    <2> QED BY <1>5, <2>1, <2>2, <2>3
  <1>8. /\ Len(s) <= Len(u) /\ (~ lost => Len(s) = Len(u))
        /\ \A x \in 1 .. Len(s) : s[x].n = u[x]
    BY DEF OrderInv
  <1> HIDE DEF R, e, s, u
  <1>9. /\ Len(Append(u, at[c])) = Len(u) + 1
        /\ \A x \in 1 .. Len(u) : Append(u, at[c])[x] = u[x]
        /\ Append(u, at[c])[Len(u) + 1] = at[c]
    BY <1>2, <1>6, AppendProperties
  <1>10. CASE lost
    <2>1. replies'[c] = s /\ cut'[c]
      BY <1>1, <1>2, <1>10 DEF Types
    <2> QED BY <1>6, <1>7, <1>8, <1>9, <2>1 DEF OrderInv
  <1>11. CASE ~ lost
    <2>1. replies'[c] = Append(s, e)
      BY <1>2, <1>11
    <2>2. /\ Len(Append(s, e)) = Len(s) + 1
          /\ \A x \in 1 .. Len(s) : Append(s, e)[x] = s[x]
          /\ Append(s, e)[Len(s) + 1] = e
      BY <1>2, AppendProperties
    <2>3. Len(replies'[c]) = Len(Due(c)')
      BY <1>7, <1>8, <1>9, <1>11, <2>1, <2>2
    <2>4. ASSUME NEW x \in 1 .. Len(replies'[c]) PROVE replies'[c][x].n = Due(c)'[x]
      <3>1. CASE x \in 1 .. Len(s)
        BY <1>6, <1>7, <1>8, <1>9, <1>11, <2>1, <2>2, <3>1
      <3>2. CASE x = Len(s) + 1
        BY <1>2, <1>7, <1>8, <1>9, <1>11, <2>1, <2>2, <3>2
      <3>3. x \in 1 .. Len(s) \/ x = Len(s) + 1
        BY <1>6, <2>1, <2>2
      <3> QED BY <3>1, <3>2, <3>3
    <2>5. Len(Due(c)') \in Nat
      BY <1>6, <1>7, <1>9
    <2> QED BY <2>3, <2>4, <2>5 DEF OrderInv
  <1> QED BY <1>10, <1>11

LEMMA OrderStep == ASSUME SafeInv, [Next]_vars, NEW h \in Conns, OrderInv(h) PROVE OrderInv(h)'
  <1> USE DEF mainVars, clientVars, handleVars, answerVars, storeVars, statVars
  <1>0. Types /\ PlaceInv(h)
    BY DEF SafeInv, HandlerInv
  <1>1. ASSUME NEW c \in Conns, Connect(c) PROVE OrderInv(h)'
    <2>1. CASE h # c
      BY <1>0, <1>1, <2>1, OrderStays DEF Connect, Types
    <2>2. CASE h = c
      <3>1. at'[h] = 1 /\ replies'[h] = <<>>
        BY <1>0, <1>1, <2>2 DEF Connect, PlaceInv
      <3>2. Due(h)' = <<>>
        <4>1. at'[h] - 1 = 0
          BY <3>1
        <4> QED BY <4>1, SiftCounting DEF Due
      <3>3. Len(<<>>) = 0
        OBVIOUS
      <3> QED BY <3>1, <3>2, <3>3 DEF OrderInv
    <2> QED BY <2>1, <2>2
  <1>2. ASSUME NEW c \in Conns, Hangup(c) PROVE OrderInv(h)'
    BY <1>0, <1>2, OrderStays DEF Hangup, Types
  <1>3. ASSUME NEW c \in Conns, HandlePong(c) PROVE OrderInv(h)'
    <2>1. CASE h # c
      BY <1>0, <1>3, <2>1, OrderStays DEF HandlePong, Types
    <2>2. CASE h = c
      <3> DEFINE k == at[h] - 1
      <3>1. k \in Nat /\ k + 1 = at[h] /\ at'[h] = at[h] + 1 /\ UNCHANGED <<reqs, replies, cut>>
        BY <1>0, <1>3, <2>2 DEF HandlePong, Types
      <3>2. at[h] \notin Owing(h)
        BY <1>3, <2>2 DEF HandlePong, Owing, Req
      <3>3. Owing(h)' = Owing(h) /\ at'[h] - 1 = k + 1
        BY <3>1 DEF Owing
      <3>4. Due(h) = Sift(Counting(k), Owing(h)) /\ Due(h)' = Sift(Counting(k + 1), Owing(h))
        BY <3>3 DEF Due
      <3> HIDE DEF k
      <3>5. Due(h)' = Due(h)
        BY <3>1, <3>2, <3>4, SiftCounting
      <3> QED BY <3>1, <3>5 DEF OrderInv
    <2> QED BY <2>1, <2>2
  <1>4. ASSUME NEW c \in Conns, Send(c) PROVE OrderInv(h)'
    <2>1. PICK lost \in BOOLEAN :
            /\ cut[c] => lost
            /\ cut' = [cut EXCEPT ![c] = lost]
            /\ replies' = [replies EXCEPT ![c] =
                        IF lost THEN @ ELSE Append(@, [n |-> at[c], code |-> code[c]])]
      BY <1>4 DEF Send
    <2>2. Running /\ pc[c] = "answer" /\ UNCHANGED reqs /\ at' = [at EXCEPT ![c] = @ + 1]
      BY <1>4 DEF Send
    <2>3. CASE h # c
      BY <1>0, <2>1, <2>2, <2>3, OrderStays DEF Types
    <2>4. CASE h = c
      BY <2>1, <2>2, <2>4, OrderAnswer
    <2> QED BY <2>3, <2>4
  <1>5. ASSUME UNCHANGED <<reqs, cut, at, replies>> PROVE OrderInv(h)'
    BY <1>5, OrderStays
  <1>6. ASSUME NEW c \in Conns,
               \/ Accept(c) \/ ReadFail(c) \/ Select(c) \/ HandleOther(c) \/ HandleWrite(c)
               \/ Group(c) \/ Create(c) \/ AppendPoints(c) \/ Count(c) \/ SlowEmptyWrite(c)
        PROVE  UNCHANGED <<reqs, cut, at, replies>>
    BY <1>6 DEF Accept, ReadFail, Select, HandleOther, HandleWrite, Group, Create, AppendPoints,
       Count, SlowEmptyWrite
  <1>7. ASSUME NEW d \in Days, Flush(d) \/ CloseWriter(d)
        PROVE  UNCHANGED <<reqs, cut, at, replies>>
    BY <1>7 DEF Flush, CloseWriter
  <1>8. ASSUME \/ AcceptSelect \/ AcceptFail \/ Signal \/ StopChan \/ CloseListener
               \/ CloseReturns \/ Exit \/ UNCHANGED vars
        PROVE  UNCHANGED <<reqs, cut, at, replies>>
    BY <1>8 DEF AcceptSelect, AcceptFail, Signal, StopChan, CloseListener, CloseReturns, Exit, vars
  <1> QED
    BY <1>1, <1>2, <1>3, <1>4, <1>5, <1>6, <1>7, <1>8 DEF Next, Handler, Shutdown

\* The numbers of the replies are what is due, from the start and in order.
LEMMA OrderFound == ASSUME Types, NEW c \in Conns, OrderInv(c)
                    PROVE  IF cut[c] THEN IsPrefix(Answered(c), Due(c)) ELSE Answered(c) = Due(c)
  <1> DEFINE R == [n : Nat, code : Codes]
             a == Answered(c)
             u == Due(c)
  <1>1. /\ replies[c] \in Seq(R) /\ Len(replies[c]) \in Nat
        /\ DOMAIN replies[c] = 1 .. Len(replies[c])
        /\ \A x \in 1 .. Len(replies[c]) : replies[c][x].n \in Nat
    <2>1. replies[c] \in Seq(R)
      BY DEF Types
    <2>2. \A r \in R : r.n \in Nat
      OBVIOUS
    <2> HIDE DEF R
    <2> QED BY <2>1, <2>2, LenProperties
  <1>2. u \in Seq(Nat) /\ Len(u) \in Nat
    BY DueType
  <1>3. /\ a \in [1 .. Len(replies[c]) -> Nat]
        /\ \A x \in 1 .. Len(replies[c]) : a[x] = u[x]
    BY <1>1 DEF Answered, OrderInv
  <1>4. Len(replies[c]) <= Len(u) /\ (~ cut[c] => Len(replies[c]) = Len(u))
    BY DEF OrderInv
  <1> HIDE DEF R, a, u
  <1>5. a \in Seq(Nat)
    BY <1>1, <1>3, IsASeq
  <1>6. Len(a) = Len(replies[c])
    <2>1. DOMAIN a = 1 .. Len(a) /\ DOMAIN a = 1 .. Len(replies[c]) /\ Len(a) \in Nat
      BY <1>3, <1>5, LenProperties
    <2> QED BY <1>1, <2>1, SameEnd
  <1>7. CASE ~ cut[c]
    <2>1. a = u
      BY <1>2, <1>3, <1>4, <1>5, <1>6, <1>7, SeqEqual
    <2> QED BY <1>7, <2>1 DEF a, u
  <1>8. CASE cut[c]
    <2>1. IsPrefix(a, u)
      BY <1>2, <1>3, <1>4, <1>5, <1>6, PrefixElements
    <2> QED BY <1>8, <2>1 DEF a, u
  <1> QED BY <1>7, <1>8

\* Every write and query is answered once, in the order of the requests, and
\* nothing else is answered, whatever else the handlers and main do meanwhile.
THEOREM AnswersOrdered == Spec => []AnswersInOrder
  <1> DEFINE Inv == \A c \in Conns : OrderInv(c)
  <1>1. Init => Inv
    <2> SUFFICES ASSUME Init, NEW c \in Conns PROVE OrderInv(c)
      OBVIOUS
    <2>1. replies[c] = <<>> /\ at[c] - 1 = 0 /\ Len(<<>>) = 0
      BY DEF Init
    <2>2. Due(c) = <<>>
      BY <2>1, SiftCounting DEF Due
    <2> QED BY <2>1, <2>2 DEF OrderInv
  <1>2. SafeInv /\ Inv /\ [Next]_vars => Inv'
    BY OrderStep
  <1>3. SafeInv /\ Inv => AnswersInOrder
    BY OrderFound DEF SafeInv, AnswersInOrder
  <1> HIDE DEF Inv
  <1> QED BY <1>1, <1>2, <1>3, SafeInvariant, PTL DEF Spec

=============================================================================
