---------------------------- MODULE LateLineProofs ----------------------------
(***************************************************************************)
(* The line that a closed session still handles comes before everything    *)
(* that the next session of its role does.                                 *)
(*                                                                         *)
(* LateLineFirst is inductive together with IInv.  The argument is about   *)
(* the order of `ready`: the handler that closes a session, a failed       *)
(* write, is at the front, so no other session of the role can have a late *)
(* line (it would be queued before the front) and none is open (the closed *)
(* session held the slot).  A session that takes the slot afterwards has   *)
(* no completed operation at that moment, and operations complete at the   *)
(* back of the queue.                                                      *)
(***************************************************************************)
EXTENDS AccelServerProofs

\* In q, c comes before everything of session t.
Ahead(q, c, t) == \A i, j \in DOMAIN q : q[i] = c /\ q[j].session = t => i < j

LEMMA AheadOfTail ==
    ASSUME NEW q \in Seq(Completions), q # <<>>, NEW c, NEW t, Ahead(q, c, t)
    PROVE  Ahead(Tail(q), c, t)
  <1>1. /\ DOMAIN q = 1..Len(q) /\ Len(q) \in Nat
        /\ DOMAIN Tail(q) = 1..(Len(q) - 1)
        /\ \A i \in 1..(Len(q) - 1) : Tail(q)[i] = q[i + 1]
    BY HeadTailProperties
  <1> DEFINE r == Tail(q)
  <1> HIDE DEF r, Completions
  <1>2. ASSUME NEW i \in 1..(Len(q) - 1), NEW j \in 1..(Len(q) - 1),
               r[i] = c, r[j].session = t
        PROVE  i < j
    <2>1. /\ i + 1 \in DOMAIN q /\ j + 1 \in DOMAIN q
          /\ q[i + 1] = c /\ q[j + 1].session = t
      BY <1>1, <1>2 DEF r
    <2>2. i + 1 < j + 1
      BY <2>1 DEF Ahead
    <2> QED
      BY <2>2, <1>1
  <1> QED
    BY <1>1, <1>2 DEF Ahead, r

LEMMA AheadOfAppended ==
    ASSUME NEW q \in Seq(Completions), NEW d \in Completions, NEW c, NEW t,
           Ahead(q, c, t), d # c
    PROVE  Ahead(Append(q, d), c, t)
  <1>1. /\ DOMAIN q = 1..Len(q) /\ Len(q) \in Nat
        /\ DOMAIN Append(q, d) = 1..(Len(q) + 1)
        /\ \A i \in 1..Len(q) : Append(q, d)[i] = q[i]
        /\ Append(q, d)[Len(q) + 1] = d
    BY AppendProperties
  <1> DEFINE r == Append(q, d)
  <1> HIDE DEF r, Completions
  <1>2. ASSUME NEW i \in 1..(Len(q) + 1), NEW j \in 1..(Len(q) + 1),
               r[i] = c, r[j].session = t
        PROVE  i < j
    <2>1. i \in DOMAIN q /\ q[i] = c
      BY <1>1, <1>2 DEF r
    <2>2. CASE j = Len(q) + 1
      BY <2>1, <2>2, <1>1
    <2>3. CASE j \in DOMAIN q
      <3>1. q[j].session = t
        BY <1>1, <1>2, <2>3 DEF r
      <3> QED
        BY <2>1, <2>3, <3>1 DEF Ahead
    <2> QED
      BY <2>2, <2>3, <1>1
  <1> QED
    BY <1>1, <1>2 DEF Ahead, r

\* What no step may do to the order of the completed operations.
OrderKept ==
    \A s, t \in Session :
        HasLateLine(s)' /\ Ahead(ready, Completion("read", s), t)
        => Ahead(ready', Completion("read", s), t)

LEMMA OrderKeptUnchanged ==
    ASSUME ready' = ready
    PROVE  OrderKept
  BY DEF OrderKept

LEMMA OrderKeptByTail ==
    ASSUME ready \in Seq(Completions), ready # <<>>, ready' = Tail(ready)
    PROVE  OrderKept
  BY AheadOfTail DEF OrderKept

LEMMA OrderKeptByAppend ==
    ASSUME ready \in Seq(Completions),
           NEW op \in {"read", "write", "accept"}, NEW x \in Session,
           \/ ready' = Append(ready, Completion(op, x))
           \/ ready # <<>> /\ ready' = Tail(ready) \o <<Completion(op, x)>>,
           op = "read" => ~ HasLateLine(x)'
    PROVE  OrderKept
  <1> DEFINE d == Completion(op, x)
  <1>1. SUFFICES ASSUME NEW s \in Session, NEW t \in Session, HasLateLine(s)',
                        Ahead(ready, Completion("read", s), t)
                 PROVE  Ahead(ready', Completion("read", s), t)
    BY DEF OrderKept
  <1>2. d \in Completions /\ d # Completion("read", s)
    BY <1>1, CompletionTypes
  <1> HIDE DEF d
  <1>3. CASE ready' = Append(ready, d)
    BY <1>1, <1>2, <1>3, AheadOfAppended
  <1>4. CASE ready # <<>> /\ ready' = Tail(ready) \o <<d>>
    <2>1. Tail(ready) \in Seq(Completions)
      BY <1>4, HeadTailProperties
    <2>2. ready' = Append(Tail(ready), d)
      BY <1>2, <1>4, <2>1, AppendIsConcat
    <2>3. Ahead(Tail(ready), Completion("read", s), t)
      BY <1>1, <1>4, AheadOfTail
    <2> QED
      BY <1>2, <2>1, <2>2, <2>3, AheadOfAppended
  <1> QED
    BY <1>3, <1>4 DEF d

------------------------------------------------------------------------------
(* The steps.                                                              *)

\* A step that makes no line late and keeps the order keeps LateLineFirst, if
\* a session that is newly open in a role has no completed operation.
LEMMA LateKept ==
    ASSUME LateLineFirst, OrderKept,
           \A s \in Session : HasLateLine(s)' =>
              HasLateLine(s) /\ role'[s] = role[s],
           \A s, t \in Session :
              HasLateLine(s)' /\ state'[t] = "open" /\ role'[t] = role[s] =>
                 \/ state[t] = "open" /\ role[t] = role[s]
                 \/ \A j \in DOMAIN ready' : ready'[j].session # t
    PROVE  LateLineFirst'
  <1>1. SUFFICES ASSUME NEW s \in Session, NEW t \in Session,
                        HasLateLine(s)', role'[t] = role'[s], t # s
                 PROVE  /\ ~ HasLateLine(t)'
                        /\ state'[t] = "open" =>
                              Ahead(ready', Completion("read", s), t)
    BY DEF LateLineFirst, Ahead, Completion
  <1>2. HasLateLine(s) /\ role'[s] = role[s]
    BY <1>1
  <1>3. ~ HasLateLine(t)'
    BY <1>1, <1>2 DEF LateLineFirst
  <1>4. ASSUME state'[t] = "open"
        PROVE  Ahead(ready', Completion("read", s), t)
    <2>1. CASE state[t] = "open" /\ role[t] = role[s]
      <3>1. Ahead(ready, Completion("read", s), t)
        BY <1>1, <1>2, <2>1 DEF LateLineFirst, Ahead
      <3> QED
        BY <1>1, <3>1 DEF OrderKept
    <2>2. CASE \A j \in DOMAIN ready' : ready'[j].session # t
      BY <2>2 DEF Ahead
    <2> QED
      BY <1>1, <1>2, <1>4, <2>1, <2>2
  <1> QED
    BY <1>3, <1>4

\* A failed write closes a session: nothing of its role is late already, and
\* no other session of its role is open.
LEMMA WriteFailsLate ==
    ASSUME IInv, LateLineFirst, NEW x \in Session, WriteFails(x)
    PROVE  LateLineFirst'
  <1> USE DEF IInv
  <1>1. /\ ready \in Seq(Completions) /\ ready # <<>>
        /\ Head(ready) = Completion("write", x)
        /\ role' = role
        /\ state' = [state EXCEPT ![x] = "closed"]
        /\ rd' = [rd EXCEPT ![x] = Cancelled(@)]
        /\ state \in [Session -> {"none", "accepting", "open", "closed"}]
        /\ rd \in [Session -> OpState]
    BY DEF WriteFails, Handler, Close, TypeOK
  <1>2. OrderKept
    <2>1. CASE rd[x] = "pending"
      <3>1. ready' = Tail(ready) \o <<Completion("read", x)>>
        BY <2>1 DEF WriteFails, Close
      <3>2. ~ HasLateLine(x)'
        BY <1>1, <2>1 DEF HasLateLine, Cancelled
      <3> QED
        BY <1>1, <3>1, <3>2, OrderKeptByAppend
    <2>2. CASE rd[x] # "pending"
      <3>1. Tail(ready) \in Seq(Completions)
        BY <1>1, HeadTailProperties
      <3>2. ready' = Tail(ready)
        BY <2>2, <3>1 DEF WriteFails, Close
      <3> QED
        BY <1>1, <3>2, OrderKeptByTail
    <2> QED
      BY <2>1, <2>2
  <1>3. \A s \in Session : s # x => (HasLateLine(s)' <=> HasLateLine(s))
    BY <1>1 DEF HasLateLine
  <1>4. CASE state[x] = "closed"
    <2>1. HasLateLine(x)' => HasLateLine(x)
      BY <1>1, <1>4 DEF HasLateLine, Cancelled
    <2> QED
      BY <1>1, <1>2, <1>3, <1>4, <2>1, LateKept
  <1>5. CASE state[x] = "open"
    <2>1. ASSUME NEW s \in Session, s # x, HasLateLine(s), role[s] = role[x]
          PROVE  FALSE
      <3>1. Queued("read", s)
        BY <2>1 DEF HandlersMatchOperations, HasLateLine
      <3>2. PICK i \in DOMAIN ready : ready[i] = Completion("read", s)
        BY <3>1 DEF Queued
      <3>3. 1 \in DOMAIN ready /\ ready[1] = Completion("write", x)
        BY <1>1, HeadTailProperties
      <3>4. i < 1
        BY <1>5, <2>1, <3>2, <3>3 DEF LateLineFirst, Completion
      <3>5. DOMAIN ready = 1..Len(ready) /\ Len(ready) \in Nat
        BY <1>1, LenProperties
      <3> QED
        BY <3>2, <3>4, <3>5
    <2>2. ASSUME NEW t \in Session, t # x, state[t] = "open", role[t] = role[x]
          PROVE  FALSE
      <3>1. wr[x] = "failed"
        BY DEF WriteFails
      <3>2. role[x] \in Role
        <4>1. role[x] # NoRole /\ role[x] \in Role \cup {NoRole}
          BY <3>1 DEF SessionLifecycle, TypeOK
        <4> QED
          BY <4>1
      <3> QED
        BY <1>5, <2>2, <3>2 DEF RegistryAgreement
    <2>3. SUFFICES ASSUME NEW s \in Session, NEW t \in Session,
                          HasLateLine(s)', role[t] = role[s], t # s
                   PROVE  /\ ~ HasLateLine(t)'
                          /\ state'[t] = "open" =>
                                Ahead(ready', Completion("read", s), t)
      BY <1>1 DEF LateLineFirst, Ahead, Completion
    <2>4. t # x
      BY <1>3, <2>1, <2>3
    <2>5. state'[t] = state[t] /\ (HasLateLine(t)' <=> HasLateLine(t))
      BY <1>1, <1>3, <2>4
    <2>6. CASE s = x
      <3>1. ~ HasLateLine(t)' /\ state[t] # "open"
        BY <2>1, <2>2, <2>3, <2>4, <2>5, <2>6
      <3> QED
        BY <2>5, <3>1
    <2>7. CASE s # x
      <3>1. HasLateLine(s)
        BY <1>3, <2>3, <2>7
      <3>2. ~ HasLateLine(t)'
        BY <2>3, <2>5, <3>1 DEF LateLineFirst
      <3>3. state[t] = "open" => Ahead(ready, Completion("read", s), t)
        BY <2>3, <3>1 DEF LateLineFirst, Ahead
      <3> QED
        BY <1>2, <2>3, <2>5, <3>2, <3>3 DEF OrderKept
    <2> QED
      BY <2>6, <2>7
  <1>6. state[x] \in {"open", "closed"}
    <2>1. wr[x] = "failed"
      BY DEF WriteFails
    <2> QED
      BY <2>1 DEF SessionLifecycle, TypeOK
  <1> QED
    BY <1>4, <1>5, <1>6

\* A handled line ends a late line and makes none; a session that registers
\* has its read pending and no write, so nothing of it is queued.
LEMMA HandleLineLate ==
    ASSUME IInv, LateLineFirst, NEW x \in Session, NEW l \in Line,
           HandleLine(x, l),
           \/ role' = role
           \/ /\ role[x] = NoRole
              /\ role' = [role EXCEPT ![x] = l.role]
    PROVE  LateLineFirst'
  <1>0. LineEffect(x)
    BY LineHandled
  <1> USE DEF IInv
  <1>1. OrderKept
    BY OrderKeptByTail DEF HandleLine, Handler, TypeOK
  <1>2. ASSUME NEW s \in Session, HasLateLine(s)'
        PROVE  HasLateLine(s) /\ s # x
    BY <1>0, <1>2 DEF LineEffect, HasLateLine, TypeOK
  <1>3. \A s \in Session : s # x => role'[s] = role[s]
    BY DEF TypeOK
  <1>4. ASSUME role[x] = NoRole
        PROVE  \A j \in DOMAIN ready' : ready'[j].session # x
    <2>1. wr[x] = "none" /\ state[x] = "open"
      BY <1>0, <1>4 DEF SessionLifecycle, LineEffect
    <2>2. /\ \A op \in {"accept", "read", "write"} : ~ Queued(op, x)'
      BY <1>0, <2>1 DEF LineEffect, HandlersMatchOperations
    <2>3. /\ ready' \in Seq(Completions)
          /\ \A j \in DOMAIN ready' : ready'[j] \in Completions
      BY <1>0 DEF LineEffect
    <2>4. ASSUME NEW j \in DOMAIN ready', ready'[j].session = x PROVE FALSE
      <3>1. ready'[j].op \in {"accept", "read", "write"}
        BY <2>3 DEF Completions
      <3>2. ready'[j] = Completion(ready'[j].op, x)
        BY <2>3, <2>4 DEF Completions, Completion
      <3> QED
        BY <2>2, <3>1, <3>2 DEF Queued, Completion
    <2> QED
      BY <2>4
  <1>5. \A s, t \in Session :
           HasLateLine(s)' /\ state'[t] = "open" /\ role'[t] = role[s] =>
              \/ state[t] = "open" /\ role[t] = role[s]
              \/ \A j \in DOMAIN ready' : ready'[j].session # t
    BY <1>0, <1>3, <1>4 DEF LineEffect
  <1>6. \A s \in Session : HasLateLine(s)' => HasLateLine(s) /\ role'[s] = role[s]
    BY <1>2, <1>3
  <1> QED
    BY <1>1, <1>5, <1>6, LateKept

LEMMA HandlerLate ==
    ASSUME IInv, LateLineFirst, NEW x \in Session, RunHandler(x)
    PROVE  LateLineFirst'
  <1>1. CASE StartSession(x)
    <2>1. /\ OrderKept /\ role' = role
          /\ Queued("accept", x)
      <3>1. /\ ready \in Seq(Completions) /\ ready # <<>> /\ ready' = Tail(ready)
            /\ IsInjective(ready) /\ Handler("accept", x) /\ role' = role
        BY <1>1 DEF IInv, TypeOK, HandlersMatchOperations, StartSession, Handler
      <3> QED
        BY <3>1, OrderKeptByTail, HandlerTakes
    <2>2. /\ role[x] = NoRole /\ state[x] = "accepting"
          /\ \A s \in Session : HasLateLine(s) => role[s] # NoRole
      BY <2>1 DEF IInv, HandlersMatchOperations, SessionLifecycle, HasLateLine
    <2>3. /\ \A s \in Session : HasLateLine(s)' => HasLateLine(s)
          /\ \A t \in Session : t # x => state'[t] = state[t]
      BY <1>1 DEF StartSession, HasLateLine, IInv, TypeOK
    <2> QED
      BY <2>1, <2>2, <2>3, LateKept
  <1>2. CASE ReadFails(x)
    <2>1. /\ ready \in Seq(Completions) /\ ready # <<>> /\ role' = role
          /\ Tail(ready) \in Seq(Completions)
          /\ IsInjective(ready) /\ Handler("read", x)
      BY <1>2, QueueTail DEF IInv, TypeOK, HandlersMatchOperations, ReadFails, Handler
    <2>2. OrderKept
      <3>1. CASE wr[x] = "pending"
        BY <1>2, <2>1, <3>1, OrderKeptByAppend DEF ReadFails, Close
      <3>2. CASE wr[x] # "pending"
        BY <1>2, <2>1, <3>2, OrderKeptByTail DEF ReadFails, Close
      <3> QED
        BY <3>1, <3>2
    <2>3. /\ \A s \in Session : HasLateLine(s)' => HasLateLine(s)
          /\ \A t \in Session : state'[t] = "open" => state[t] = "open"
      BY <1>2 DEF ReadFails, Close, HasLateLine, IInv, TypeOK
    <2> QED
      BY <2>1, <2>2, <2>3, LateKept
  <1>3. CASE WriteFails(x)
    BY <1>3, WriteFailsLate
  <1>4. CASE WriteSucceeds(x)
    <2>1. OrderKept
      BY <1>4, OrderKeptByTail DEF WriteSucceeds, Handler, IInv, TypeOK
    <2> QED
      BY <1>4, <2>1, LateKept DEF WriteSucceeds, HasLateLine
  <1>5. CASE Register(x) \/ AcceptPacket(x) \/ ReturnModule(x) \/ DropLine(x)
    <2>1. PICK l \in Line :
             /\ HandleLine(x, l)
             /\ \/ role' = role
                \/ role[x] = NoRole /\ role' = [role EXCEPT ![x] = l.role]
      BY <1>5 DEF Register, Registers, AcceptPacket, ReturnModule, DropLine
    <2> QED
      BY <2>1, HandleLineLate
  <1> QED
    BY <1>1, <1>2, <1>3, <1>4, <1>5 DEF RunHandler

LEMMA NextLate == IInv /\ LateLineFirst /\ [Next]_vars => LateLineFirst'
  <1> SUFFICES ASSUME IInv, LateLineFirst, [Next]_vars PROVE LateLineFirst'
    OBVIOUS
  <1>0. ready \in Seq(Completions)
    BY DEF IInv, TypeOK
  <1>1. ASSUME NEW x \in Session, AcceptCompletes(x) PROVE LateLineFirst'
    <2>1. OrderKept
      BY <1>0, <1>1, OrderKeptByAppend DEF AcceptCompletes
    <2> QED
      BY <1>1, <2>1, LateKept
         DEF AcceptCompletes, HasLateLine, IInv, TypeOK
  <1>2. ASSUME NEW x \in Session, ReadCompletes(x) PROVE LateLineFirst'
    <2>1. state[x] # "closed" /\ state' = state /\ role' = role
      BY <1>2 DEF ReadCompletes, IInv, SessionLifecycle
    <2>2. OrderKept
      <3>1. ~ HasLateLine(x)'
        BY <2>1 DEF HasLateLine
      <3> QED
        BY <1>0, <1>2, <3>1, OrderKeptByAppend DEF ReadCompletes
    <2>3. \A s \in Session : HasLateLine(s)' => HasLateLine(s)
      BY <1>2, <2>1 DEF ReadCompletes, HasLateLine, IInv, TypeOK
    <2> QED
      BY <2>1, <2>2, <2>3, LateKept
  <1>3. ASSUME NEW x \in Session, WriteCompletes(x) PROVE LateLineFirst'
    <2>1. OrderKept
      BY <1>0, <1>3, OrderKeptByAppend DEF WriteCompletes
    <2> QED
      BY <1>3, <2>1, LateKept DEF WriteCompletes, HasLateLine
  <1>4. CASE ServerExits
    BY <1>4 DEF ServerExits, LateLineFirst, HasLateLine
  <1>5. ASSUME UNCHANGED <<sessionVars, ready>> PROVE LateLineFirst'
    BY <1>5, LateKept, OrderKeptUnchanged DEF sessionVars, HasLateLine
  <1>6. ASSUME NEW x \in Session, ClientStep(x) PROVE LateLineFirst'
    BY <1>5, <1>6 DEF ClientStep, Connect, ClientWrites, ClientReads,
                      ClientCloses, clientFrame
  <1>7. CASE ServerStarts
    BY <1>5, <1>7 DEF ServerStarts
  <1>8. CASE UNCHANGED vars
    BY <1>5, <1>8 DEF vars
  <1> QED
    BY <1>1, <1>2, <1>3, <1>4, <1>6, <1>7, <1>8, HandlerLate DEF Next, ServerStep

\* The line that a closed session still handles is handled before anything
\* that the next session of its role has completed, whatever the clients do
\* (client_session.cpp:53-93, 164-216, 386-432).
THEOREM LateLineIsFirst == Spec => []LateLineFirst
  <1>1. Init => LateLineFirst
    BY DEF Init, LateLineFirst, HasLateLine
  <1> QED
    BY <1>1, NextLate, InvariantHolds, PTL DEF Spec
==============================================================================
