-------------------------- MODULE AccelServerProofs --------------------------
(***************************************************************************)
(* Proofs about the routing server, for any number of sessions, packets    *)
(* and modules and any size of the socket buffers.                         *)
(*                                                                         *)
(* IInv is inductive: the safety invariants of AccelServer support each    *)
(* other, with SessionLifecycle as the glue.  A registration is sound      *)
(* because only a session without a role registers, a closed session that  *)
(* still handles a line has one (SessionLifecycle), and the holder of a    *)
(* slot is open and hence alive (RegistryAgreement, ReadLoopAlive).        *)
(***************************************************************************)
EXTENDS AccelServer, SequenceTheorems, TLAPS

IInv ==
    /\ TypeOK
    /\ SessionLifecycle
    /\ RegistryAgreement
    /\ OneWriteInFlight
    /\ ReadLoopAlive
    /\ RightRecipient
    /\ HandlersMatchOperations

------------------------------------------------------------------------------
(* The duplicate filter.                                                   *)

Near(v, w) == v - w < Step /\ w - v < Step

\* A packet that the filter drops differs from the last accepted one by less
\* than one step of the grid in every axis: no movement of a millimetre per
\* second squared is lost (accel_packet.hpp:17-28).
THEOREM DuplicatesAreNear ==
    \A p, q \in AccelPackets : IsDuplicate(p, q) =>
        Near(p.x, q.x) /\ Near(p.y, q.y) /\ Near(p.z, q.z)
  <1>1. ASSUME NEW v \in Int, NEW w \in Int, RoundAxisValue(v) = RoundAxisValue(w)
        PROVE  Near(v, w)
    BY <1>1, SMT DEF RoundAxisValue, Near, Step
  <1> QED
    BY <1>1 DEF IsDuplicate, AccelPackets

------------------------------------------------------------------------------
(* The queue of completed operations.                                      *)

Has(q, c) == \E i \in DOMAIN q : q[i] = c

\* Queuing a completion that is not queued adds it and repeats none.
LEMMA QueueAppend ==
    ASSUME NEW q \in Seq(Completions), NEW c \in Completions,
           IsInjective(q), ~ Has(q, c)
    PROVE  /\ Append(q, c) \in Seq(Completions)
           /\ IsInjective(Append(q, c))
           /\ \A d : Has(Append(q, c), d) <=> (Has(q, d) \/ d = c)
  <1>1. /\ Append(q, c) \in Seq(Completions)
        /\ DOMAIN q = 1..Len(q)
        /\ DOMAIN Append(q, c) = 1..(Len(q) + 1)
        /\ Len(q) \in Nat
        /\ \A i \in 1..Len(q) : Append(q, c)[i] = q[i]
        /\ Append(q, c)[Len(q) + 1] = c
    BY AppendProperties
  <1> HIDE DEF Completions
  <1> DEFINE a == Append(q, c)
  <1> HIDE DEF a
  <1>2. IsInjective(a)
    BY <1>1, SMT DEF IsInjective, Has, a
  <1>3. ASSUME NEW d PROVE Has(a, d) <=> (Has(q, d) \/ d = c)
    BY <1>1, SMT DEF Has, a
  <1> QED
    BY <1>1, <1>2, <1>3 DEF a

\* Taking the front of the queue removes exactly that completion.
LEMMA QueueTail ==
    ASSUME NEW q \in Seq(Completions), q # <<>>, IsInjective(q)
    PROVE  /\ Tail(q) \in Seq(Completions)
           /\ Head(q) \in Completions
           /\ Has(q, Head(q))
           /\ IsInjective(Tail(q))
           /\ \A d : Has(Tail(q), d) <=> (Has(q, d) /\ d # Head(q))
  <1>1. /\ Tail(q) \in Seq(Completions)
        /\ Head(q) \in Completions
        /\ Head(q) = q[1]
        /\ DOMAIN q = 1..Len(q)
        /\ DOMAIN Tail(q) = 1..(Len(q) - 1)
        /\ Len(q) \in Nat /\ Len(q) > 0
        /\ \A i \in 1..(Len(q) - 1) : Tail(q)[i] = q[i + 1]
    BY HeadTailProperties
  <1> DEFINE t == Tail(q)
             h == Head(q)
  <1> HIDE DEF t, h
  <1>2. IsInjective(t)
    BY <1>1, SMT DEF IsInjective, t
  <1>3. Has(q, h)
    BY <1>1, SMT DEF Has, h
  <1>4. ASSUME NEW d PROVE Has(t, d) <=> (Has(q, d) /\ d # h)
    <2>1. ASSUME Has(t, d) PROVE Has(q, d) /\ d # h
      BY <1>1, <2>1, SMT DEF Has, IsInjective, t, h
    <2>2. ASSUME Has(q, d), d # h PROVE Has(t, d)
      <3>1. PICK i \in 1..Len(q) : q[i] = d
        BY <1>1, <2>2 DEF Has
      <3>2. i # 1
        BY <3>1, <2>2, <1>1 DEF h
      <3>3. i - 1 \in 1..(Len(q) - 1) /\ (i - 1) + 1 = i
        BY <3>2, <1>1
      <3>4. t[i - 1] = d
        BY <3>3, <3>1, <1>1 DEF t
      <3> QED
        BY <3>3, <3>4, <1>1 DEF Has, t
    <2> QED
      BY <2>1, <2>2
  <1> QED
    BY <1>1, <1>2, <1>3, <1>4 DEF t, h
------------------------------------------------------------------------------
(* What one handler does to the queue, in terms of Queued.                 *)

\* Types of the constants and of a completion.
LEMMA CompletionTypes ==
    /\ \A op \in {"accept", "read", "write"}, s \in Session :
          Completion(op, s) \in Completions
    /\ \A op, op2, s, s2 :
          Completion(op, s) = Completion(op2, s2) <=> op = op2 /\ s = s2
  BY DEF Completion, Completions

\* An operation completes.
LEMMA Completes ==
    ASSUME ready \in Seq(Completions), IsInjective(ready),
           NEW op \in {"accept", "read", "write"}, NEW s \in Session,
           ~ Queued(op, s),
           ready' = Append(ready, Completion(op, s))
    PROVE  /\ ready' \in Seq(Completions)
           /\ IsInjective(ready')
           /\ \A o, t : Queued(o, t)' <=> Queued(o, t) \/ (o = op /\ t = s)
  <1>1. Completion(op, s) \in Completions /\ ~ Has(ready, Completion(op, s))
    BY CompletionTypes DEF Queued, Has
  <1>2. \A d : Has(ready', d) <=> (Has(ready, d) \/ d = Completion(op, s))
    BY <1>1, QueueAppend
  <1>3. ready' \in Seq(Completions) /\ IsInjective(ready')
    BY <1>1, QueueAppend
  <1>4. ASSUME NEW o, NEW t
        PROVE  Queued(o, t)' <=> Queued(o, t) \/ (o = op /\ t = s)
    <2>1. /\ Queued(o, t)' <=> Has(ready', Completion(o, t))
          /\ Queued(o, t) <=> Has(ready, Completion(o, t))
      BY DEF Queued, Has, Completion
    <2> QED
      BY <2>1, <1>2, CompletionTypes
  <1> QED
    BY <1>3, <1>4

\* The handler at the front runs and queues nothing.
LEMMA HandlerTakes ==
    ASSUME ready \in Seq(Completions), IsInjective(ready),
           NEW op, NEW s, Handler(op, s),
           ready' = Tail(ready)
    PROVE  /\ ready' \in Seq(Completions)
           /\ IsInjective(ready')
           /\ Queued(op, s)
           /\ \A o, t : Queued(o, t)' <=> Queued(o, t) /\ ~ (o = op /\ t = s)
  <1>1. /\ ready' \in Seq(Completions)
        /\ IsInjective(ready')
        /\ Has(ready, Completion(op, s))
        /\ \A d : Has(ready', d) <=> (Has(ready, d) /\ d # Completion(op, s))
    BY QueueTail DEF Handler
  <1>2. ASSUME NEW o, NEW t
        PROVE  /\ Queued(o, t)' <=> Has(ready', Completion(o, t))
               /\ Queued(o, t) <=> Has(ready, Completion(o, t))
    BY DEF Queued, Has, Completion
  <1> QED
    BY <1>1, <1>2, CompletionTypes

\* The handler at the front closes the session, which completes `other`.
LEMMA HandlerCloses ==
    ASSUME ready \in Seq(Completions), IsInjective(ready),
           NEW op, NEW s \in Session, Handler(op, s),
           NEW other \in {"read", "write"}, other # op, ~ Queued(other, s),
           ready' = Tail(ready) \o <<Completion(other, s)>>
    PROVE  /\ ready' \in Seq(Completions)
           /\ IsInjective(ready')
           /\ Queued(op, s)
           /\ \A o, t : Queued(o, t)' <=> \/ Queued(o, t) /\ ~ (o = op /\ t = s)
                                          \/ o = other /\ t = s
  <1> DEFINE c == Completion(other, s)
             q == Tail(ready)
  <1>1. /\ q \in Seq(Completions)
        /\ IsInjective(q)
        /\ Has(ready, Completion(op, s))
        /\ \A d : Has(q, d) <=> (Has(ready, d) /\ d # Completion(op, s))
    BY QueueTail DEF Handler
  <1>2. c \in Completions /\ ~ Has(q, c)
    BY <1>1, CompletionTypes DEF Queued, Has
  <1>3. ready' = Append(q, c)
    BY <1>1, <1>2, AppendIsConcat
  <1> HIDE DEF q, c
  <1>4. /\ Append(q, c) \in Seq(Completions)
        /\ IsInjective(Append(q, c))
        /\ \A d : Has(Append(q, c), d) <=> (Has(q, d) \/ d = c)
    BY <1>1, <1>2, QueueAppend
  <1>5. ASSUME NEW o, NEW t
        PROVE  /\ Queued(o, t)' <=> Has(ready', Completion(o, t))
               /\ Queued(o, t) <=> Has(ready, Completion(o, t))
    BY DEF Queued, Has, Completion
  <1>6. \A o, t : Completion(o, t) = c <=> o = other /\ t = s
    BY CompletionTypes DEF c
  <1>7. \A o, t : Completion(o, t) = Completion(op, s) <=> o = op /\ t = s
    BY CompletionTypes
  <1>8. Queued(op, s)
    BY <1>1, <1>5
  <1> QED
    BY <1>1, <1>3, <1>4, <1>5, <1>6, <1>7, <1>8
------------------------------------------------------------------------------
(* Each action preserves the inductive invariant.                          *)

\* The acceptor.
LEMMA AcceptCompletesInv ==
    ASSUME IInv, NEW s \in Session, AcceptCompletes(s)
    PROVE  IInv'
  <1> USE DEF IInv
  <1>1. /\ ready' \in Seq(Completions)
        /\ HandlersMatchOperations'
    <2>1. /\ ready \in Seq(Completions) /\ IsInjective(ready)
          /\ ~ Queued("accept", s)
          /\ ready' = Append(ready, Completion("accept", s))
      BY DEF TypeOK, HandlersMatchOperations, AcceptCompletes
    <2>2. /\ ready' \in Seq(Completions)
          /\ IsInjective(ready')
          /\ \A o, t : Queued(o, t)' <=> Queued(o, t) \/ (o = "accept" /\ t = s)
      BY <2>1, Completes
    <2> QED
      BY <2>2 DEF HandlersMatchOperations, AcceptCompletes, TypeOK
  <1>2. TypeOK'
    BY <1>1 DEF TypeOK, AcceptCompletes, tcpVars
  <1>3. SessionLifecycle'
    BY DEF SessionLifecycle, TypeOK, AcceptCompletes, tcpVars
  <1>4. RegistryAgreement' /\ OneWriteInFlight' /\ ReadLoopAlive'
    BY DEF RegistryAgreement, OneWriteInFlight, ReadLoopAlive, TypeOK, AcceptCompletes, tcpVars
  <1>5. RightRecipient'
    BY DEF RightRecipient, AcceptCompletes, tcpVars
  <1> QED
    BY <1>1, <1>2, <1>3, <1>4, <1>5

LEMMA StartSessionInv ==
    ASSUME IInv, NEW s \in Session, StartSession(s)
    PROVE  IInv'
  <1> USE DEF IInv
  <1>1. /\ ready' \in Seq(Completions)
        /\ IsInjective(ready')
        /\ Queued("accept", s)
        /\ \A o, t : Queued(o, t)' <=> Queued(o, t) /\ ~ (o = "accept" /\ t = s)
    <2>1. ready \in Seq(Completions) /\ IsInjective(ready)
      BY DEF TypeOK, HandlersMatchOperations
    <2> QED
      BY <2>1, HandlerTakes DEF StartSession
  <1>2. state[s] = "accepting"
    BY <1>1 DEF HandlersMatchOperations
  <1>3. HandlersMatchOperations'
    BY <1>1, <1>2 DEF HandlersMatchOperations, StartSession, TypeOK, SessionLifecycle
  <1>4. TypeOK'
    BY <1>1 DEF TypeOK, StartSession, tcpVars, OpState
  <1>5. SessionLifecycle'
    BY <1>2 DEF SessionLifecycle, TypeOK, StartSession, tcpVars
  <1>6. RegistryAgreement'
    <2>1. role[s] \notin Role
      BY <1>2 DEF SessionLifecycle, Role, NoRole
    <2> QED
      BY <1>2, <2>1 DEF RegistryAgreement, TypeOK, StartSession
  <1>7. OneWriteInFlight' /\ ReadLoopAlive'
    BY <1>2 DEF OneWriteInFlight, ReadLoopAlive, SessionLifecycle, TypeOK, StartSession
  <1>8. RightRecipient'
    BY DEF RightRecipient, StartSession, tcpVars
  <1> QED
    BY <1>1, <1>3, <1>4, <1>5, <1>6, <1>7, <1>8

\* A read completes.
LEMMA ReadCompletesInv ==
    ASSUME IInv, NEW s \in Session, ReadCompletes(s)
    PROVE  IInv'
  <1> USE DEF IInv
  <1>1. /\ ready' \in Seq(Completions)
        /\ IsInjective(ready')
        /\ \A o, t : Queued(o, t)' <=> Queued(o, t) \/ (o = "read" /\ t = s)
    <2>1. /\ ready \in Seq(Completions) /\ IsInjective(ready)
          /\ ~ Queued("read", s)
          /\ ready' = Append(ready, Completion("read", s))
      BY DEF TypeOK, HandlersMatchOperations, ReadCompletes
    <2> QED
      BY <2>1, Completes
  <1>2. HandlersMatchOperations'
    BY <1>1 DEF HandlersMatchOperations, ReadCompletes, TypeOK
  <1>3. TypeOK'
    BY <1>1 DEF TypeOK, ReadCompletes, tcpVars, OpState
  <1>4. SessionLifecycle'
    BY DEF SessionLifecycle, TypeOK, ReadCompletes, tcpVars
  <1>5. RegistryAgreement' /\ OneWriteInFlight' /\ ReadLoopAlive'
    BY DEF RegistryAgreement, OneWriteInFlight, ReadLoopAlive, TypeOK, ReadCompletes
  <1>6. RightRecipient'
    BY DEF RightRecipient, ReadCompletes, tcpVars
  <1> QED
    BY <1>1, <1>2, <1>3, <1>4, <1>5, <1>6

\* A write completes: its line has the recipient's kind, as the queue has.
LEMMA WriteCompletesInv ==
    ASSUME IInv, NEW s \in Session, WriteCompletes(s)
    PROVE  IInv'
  <1> USE DEF IInv
  <1>1. /\ ready' \in Seq(Completions)
        /\ IsInjective(ready')
        /\ \A o, t : Queued(o, t)' <=> Queued(o, t) \/ (o = "write" /\ t = s)
    <2>1. /\ ready \in Seq(Completions) /\ IsInjective(ready)
          /\ ~ Queued("write", s)
          /\ ready' = Append(ready, Completion("write", s))
      BY DEF TypeOK, HandlersMatchOperations, WriteCompletes
    <2> QED
      BY <2>1, Completes
  <1>2. /\ writeQueue[s] \in Seq(Line) /\ writeQueue[s] # <<>>
        /\ wr' \in [Session -> OpState]
        /\ wr'[s] \in {"done", "failed"}
        /\ \A t \in Session : t # s => wr'[t] = wr[t]
    <2>1. writeQueue[s] \in Seq(Line)
      BY DEF TypeOK
    <2>2. wr[s] = "pending"
      BY DEF WriteCompletes
    <2>3. writeQueue[s] # <<>>
      BY <2>2 DEF SessionLifecycle
    <2>4. PICK result \in {"done", "failed"} : wr' = [wr EXCEPT ![s] = result]
      BY DEF WriteCompletes
    <2>5. wr \in [Session -> OpState] /\ result \in OpState
      BY DEF TypeOK, OpState
    <2>6. /\ wr' \in [Session -> OpState]
          /\ wr'[s] = result
          /\ \A t \in Session : t # s => wr'[t] = wr[t]
      BY <2>4, <2>5
    <2> QED
      BY <2>1, <2>3, <2>4, <2>6
  <1>3. HandlersMatchOperations'
    BY <1>1, <1>2 DEF HandlersMatchOperations, WriteCompletes, TypeOK
  <1>4. /\ Head(writeQueue[s]) \in Line
        /\ Head(writeQueue[s]) = writeQueue[s][1]
        /\ 1 \in DOMAIN writeQueue[s]
    BY <1>2, HeadTailProperties
  <1>5. toClient' \in [Session -> Seq(Line)]
    <2>1. Append(toClient[s], Head(writeQueue[s])) \in Seq(Line)
      BY <1>4, AppendProperties DEF TypeOK
    <2> QED
      BY <2>1 DEF TypeOK, WriteCompletes
  <1>6. TypeOK'
    BY <1>1, <1>2, <1>5 DEF TypeOK, WriteCompletes, tcpVars
  <1>7. SessionLifecycle'
    BY <1>2 DEF SessionLifecycle, TypeOK, WriteCompletes
  <1>8. RegistryAgreement' /\ OneWriteInFlight' /\ ReadLoopAlive'
    BY <1>2 DEF RegistryAgreement, OneWriteInFlight, ReadLoopAlive, TypeOK, WriteCompletes
  <1>9. RightRecipient'
    <2>1. ASSUME NEW t \in Session, NEW i \in DOMAIN toClient'[t]
          PROVE  \/ toClient'[t][i].type = "accel"  /\ role[t] = "B"
                 \/ toClient'[t][i].type = "module" /\ role[t] = "A"
      <3>1. CASE toClient'[t] = toClient[t]
        BY <3>1, <2>1 DEF RightRecipient
      <3>2. CASE t = s /\ toClient'[s] = Append(toClient[s], Head(writeQueue[s]))
        <4>1. \/ i \in DOMAIN toClient[s] /\ toClient'[s][i] = toClient[s][i]
              \/ toClient'[s][i] = writeQueue[s][1]
          BY <3>2, <2>1, <1>4, AppendProperties DEF TypeOK
        <4> QED
          BY <4>1, <3>2, <1>4 DEF RightRecipient
      <3> QED
        BY <3>1, <3>2 DEF WriteCompletes, TypeOK
    <2> QED
      BY <2>1 DEF RightRecipient, WriteCompletes
  <1> QED
    BY <1>1, <1>3, <1>6, <1>7, <1>8, <1>9

------------------------------------------------------------------------------
(* Closing a session.                                                      *)

\* A session gives up its role with the close and no other session's role
\* changes: the handler that closes it keeps it alive, so its weak_ptr can
\* still be locked.
LEMMA CloseKeepsRegistry ==
    ASSUME IInv, NEW s \in Session, NEW op, NEW pend,
           Close(s, op, pend), Alive(s), role' = role
    PROVE  /\ state' = [state EXCEPT ![s] = "closed"]
           /\ node' \in [Role -> Session \cup {NoSession}]
           /\ RegistryAgreement'
           /\ \A r \in Role : node'[r] \in {node[r], NoSession}
  <1> USE DEF IInv
  <1>1. state' = [state EXCEPT ![s] = "closed"]
    BY DEF Close, TypeOK
  <1>2. CASE state[s] = "closed" /\ UNCHANGED <<state, node>>
    BY <1>1, <1>2 DEF TypeOK, RegistryAgreement
  <1>3. CASE state[s] # "closed" /\ node' = NodeWithout(s)
    <2>1. \A r \in Role : Lock(r) = s <=> node[r] = s
      BY ServerAssumption DEF Lock
    <2>2. node' = [r \in Role |-> IF node[r] = s THEN NoSession ELSE node[r]]
      BY <1>3, <2>1 DEF NodeWithout
    <2>3. /\ node' \in [Role -> Session \cup {NoSession}]
          /\ \A r \in Role : node'[r] \in {node[r], NoSession}
      BY <2>2 DEF TypeOK
    <2>4. RegistryAgreement'
      BY <1>1, <2>2, ServerAssumption DEF RegistryAgreement, TypeOK
    <2> QED
      BY <1>1, <2>3, <2>4
  <1> QED
    BY <1>2, <1>3 DEF Close

LEMMA ReadFailsInv ==
    ASSUME IInv, NEW s \in Session, ReadFails(s)
    PROVE  IInv'
  <1> USE DEF IInv
  <1>1. /\ state' = [state EXCEPT ![s] = "closed"]
        /\ node' \in [Role -> Session \cup {NoSession}]
        /\ RegistryAgreement'
    <2>1. Close(s, "write", wr[s]) /\ Alive(s) /\ role' = role
      BY DEF ReadFails, Alive
    <2> QED
      BY <2>1, CloseKeepsRegistry
  <1>2. /\ ready \in Seq(Completions) /\ IsInjective(ready)
        /\ Handler("read", s)
    BY DEF TypeOK, HandlersMatchOperations, ReadFails
  <1>3. /\ ready' \in Seq(Completions)
        /\ IsInjective(ready')
        /\ Queued("read", s)
        /\ \A o, t : Queued(o, t)' <=>
              \/ Queued(o, t) /\ ~ (o = "read" /\ t = s)
              \/ wr[s] = "pending" /\ o = "write" /\ t = s
    <2>1. CASE wr[s] = "pending"
      <3>1. ~ Queued("write", s)
        BY <2>1 DEF HandlersMatchOperations
      <3>2. ready' = Tail(ready) \o <<Completion("write", s)>>
        BY <2>1 DEF ReadFails, Close
      <3>3. /\ ready' \in Seq(Completions)
            /\ IsInjective(ready')
            /\ Queued("read", s)
            /\ \A o, t : Queued(o, t)' <=>
                  \/ Queued(o, t) /\ ~ (o = "read" /\ t = s)
                  \/ o = "write" /\ t = s
        BY <1>2, <3>1, <3>2, HandlerCloses
      <3> QED
        BY <2>1, <3>3
    <2>2. CASE wr[s] # "pending"
      <3>1. ready' = Tail(ready)
        <4>1. Tail(ready) \in Seq(Completions)
          BY <1>2, QueueTail DEF Handler
        <4> QED
          BY <2>2, <4>1 DEF ReadFails, Close
      <3> QED
        BY <1>2, <2>2, <3>1, HandlerTakes
    <2> QED
      BY <2>1, <2>2
  <1>4. state[s] \in {"open", "closed"}
    BY DEF ReadFails, SessionLifecycle, TypeOK
  <1>5. HandlersMatchOperations'
    BY <1>1, <1>3, <1>4 DEF HandlersMatchOperations, ReadFails, Cancelled, TypeOK
  <1>6. TypeOK'
    BY <1>1, <1>3 DEF TypeOK, ReadFails, Cancelled, OpState, tcpVars
  <1>7. SessionLifecycle'
    BY <1>1 DEF SessionLifecycle, ReadFails, Cancelled, TypeOK, tcpVars
  <1>8. OneWriteInFlight' /\ ReadLoopAlive'
    BY <1>1 DEF OneWriteInFlight, ReadLoopAlive, ReadFails, TypeOK
  <1>9. RightRecipient'
    BY DEF RightRecipient, ReadFails, tcpVars
  <1> QED
    BY <1>1, <1>3, <1>5, <1>6, <1>7, <1>8, <1>9

\* Only a session that has written can fail to, so it has a role.
LEMMA WriteFailsInv ==
    ASSUME IInv, NEW s \in Session, WriteFails(s)
    PROVE  IInv'
  <1> USE DEF IInv
  <1>1. /\ state' = [state EXCEPT ![s] = "closed"]
        /\ node' \in [Role -> Session \cup {NoSession}]
        /\ RegistryAgreement'
    <2>1. Close(s, "read", rd[s]) /\ Alive(s) /\ role' = role
      BY DEF WriteFails, Alive
    <2> QED
      BY <2>1, CloseKeepsRegistry
  <1>2. /\ ready \in Seq(Completions) /\ IsInjective(ready)
        /\ Handler("write", s)
    BY DEF TypeOK, HandlersMatchOperations, WriteFails
  <1>3. /\ ready' \in Seq(Completions)
        /\ IsInjective(ready')
        /\ Queued("write", s)
        /\ \A o, t : Queued(o, t)' <=>
              \/ Queued(o, t) /\ ~ (o = "write" /\ t = s)
              \/ rd[s] = "pending" /\ o = "read" /\ t = s
    <2>1. CASE rd[s] = "pending"
      <3>1. ~ Queued("read", s)
        BY <2>1 DEF HandlersMatchOperations
      <3>2. ready' = Tail(ready) \o <<Completion("read", s)>>
        BY <2>1 DEF WriteFails, Close
      <3>3. /\ ready' \in Seq(Completions)
            /\ IsInjective(ready')
            /\ Queued("write", s)
            /\ \A o, t : Queued(o, t)' <=>
                  \/ Queued(o, t) /\ ~ (o = "write" /\ t = s)
                  \/ o = "read" /\ t = s
        BY <1>2, <3>1, <3>2, HandlerCloses
      <3> QED
        BY <2>1, <3>3
    <2>2. CASE rd[s] # "pending"
      <3>1. ready' = Tail(ready)
        <4>1. Tail(ready) \in Seq(Completions)
          BY <1>2, QueueTail DEF Handler
        <4> QED
          BY <2>2, <4>1 DEF WriteFails, Close
      <3> QED
        BY <1>2, <2>2, <3>1, HandlerTakes
    <2> QED
      BY <2>1, <2>2
  <1>4. state[s] \in {"open", "closed"} /\ role[s] # NoRole
    BY DEF WriteFails, SessionLifecycle, TypeOK
  <1>5. HandlersMatchOperations'
    BY <1>1, <1>3, <1>4 DEF HandlersMatchOperations, WriteFails, Cancelled, TypeOK
  <1>6. TypeOK'
    BY <1>1, <1>3 DEF TypeOK, WriteFails, Cancelled, OpState, tcpVars
  <1>7. SessionLifecycle'
    BY <1>1, <1>4 DEF SessionLifecycle, WriteFails, Cancelled, TypeOK, tcpVars
  <1>8. OneWriteInFlight' /\ ReadLoopAlive'
    BY <1>1 DEF OneWriteInFlight, ReadLoopAlive, WriteFails, TypeOK
  <1>9. RightRecipient'
    BY DEF RightRecipient, WriteFails, tcpVars, TypeOK
  <1> QED
    BY <1>1, <1>3, <1>5, <1>6, <1>7, <1>8, <1>9

LEMMA WriteSucceedsInv ==
    ASSUME IInv, NEW s \in Session, WriteSucceeds(s)
    PROVE  IInv'
  <1> USE DEF IInv
  <1>1. /\ ready' \in Seq(Completions)
        /\ IsInjective(ready')
        /\ \A o, t : Queued(o, t)' <=> Queued(o, t) /\ ~ (o = "write" /\ t = s)
    <2>1. ready \in Seq(Completions) /\ IsInjective(ready)
      BY DEF TypeOK, HandlersMatchOperations
    <2> QED
      BY <2>1, HandlerTakes DEF WriteSucceeds
  <1> DEFINE q == Tail(writeQueue[s])
  <1>2. /\ writeQueue[s] \in Seq(Line) /\ writeQueue[s] # <<>>
        /\ q \in Seq(Line)
        /\ \A i \in DOMAIN q : /\ i + 1 \in DOMAIN writeQueue[s]
                               /\ q[i] = writeQueue[s][i + 1]
    <2>1. writeQueue[s] \in Seq(Line) /\ writeQueue[s] # <<>>
      BY DEF TypeOK, SessionLifecycle, WriteSucceeds
    <2> QED
      BY <2>1, HeadTailProperties
  <1>3. /\ writeQueue' = [writeQueue EXCEPT ![s] = q]
        /\ wr' = [wr EXCEPT ![s] = IF state[s] = "open" /\ q # <<>>
                                   THEN "pending" ELSE "none"]
    BY DEF WriteSucceeds
  <1> HIDE DEF q
  <1>4. HandlersMatchOperations'
    BY <1>1, <1>3 DEF HandlersMatchOperations, WriteSucceeds, TypeOK
  <1>5. TypeOK'
    BY <1>1, <1>2, <1>3 DEF TypeOK, WriteSucceeds, OpState, tcpVars
  <1>6. SessionLifecycle'
    BY <1>3 DEF SessionLifecycle, WriteSucceeds, TypeOK, tcpVars
  <1>7. RegistryAgreement' /\ OneWriteInFlight' /\ ReadLoopAlive'
    BY <1>3 DEF RegistryAgreement, OneWriteInFlight, ReadLoopAlive, WriteSucceeds, TypeOK
  <1>8. RightRecipient'
    <2>1. /\ toClient' = toClient /\ role' = role
          /\ writeQueue'[s] = q
          /\ \A t \in Session : t # s => writeQueue'[t] = writeQueue[t]
      BY <1>3 DEF WriteSucceeds, TypeOK, tcpVars
    <2>2. \A i \in DOMAIN q : \/ q[i].type = "accel"  /\ role[s] = "B"
                              \/ q[i].type = "module" /\ role[s] = "A"
      BY <1>2 DEF RightRecipient
    <2> QED
      BY <2>1, <2>2 DEF RightRecipient
  <1> QED
    BY <1>1, <1>4, <1>5, <1>6, <1>7, <1>8

------------------------------------------------------------------------------
(* Handling a line.                                                        *)

\* What every handled line does, whatever it says.
LineEffect(s) ==
    /\ rd[s] = "done"
    /\ state[s] \in {"open", "closed"}
    /\ ready' \in Seq(Completions)
    /\ IsInjective(ready')
    /\ \A o, t : Queued(o, t)' <=> Queued(o, t) /\ ~ (o = "read" /\ t = s)
    /\ toServer' \in [Session -> Seq(Line)]
    /\ \A t \in Session : t # s => toServer'[t] = toServer[t]
    /\ rd' = [rd EXCEPT ![s] = IF state[s] = "closed" THEN "none" ELSE "pending"]
    /\ UNCHANGED <<running, peer, sent, toClient, state>>

LEMMA LineHandled ==
    ASSUME IInv, NEW s \in Session, NEW l \in Line, HandleLine(s, l)
    PROVE  LineEffect(s)
  <1> USE DEF IInv
  <1>1. /\ rd[s] = "done" /\ Handler("read", s) /\ ready' = Tail(ready)
        /\ toServer' = [toServer EXCEPT ![s] = Tail(@)]
        /\ rd' = [rd EXCEPT ![s] = IF state[s] = "closed" THEN "none"
                                                          ELSE "pending"]
        /\ UNCHANGED <<running, peer, sent, toClient, state>>
    BY DEF HandleLine
  <1>2. /\ ready' \in Seq(Completions)
        /\ IsInjective(ready')
        /\ \A o, t : Queued(o, t)' <=> Queued(o, t) /\ ~ (o = "read" /\ t = s)
    <2>1. ready \in Seq(Completions) /\ IsInjective(ready)
      BY DEF TypeOK, HandlersMatchOperations
    <2> QED
      BY <1>1, <2>1, HandlerTakes
  <1>3. state[s] \in {"open", "closed"}
    BY <1>1 DEF SessionLifecycle, TypeOK
  <1>4. /\ toServer' \in [Session -> Seq(Line)]
        /\ \A t \in Session : t # s => toServer'[t] = toServer[t]
    <2>1. toServer[s] \in Seq(Line) /\ toServer[s] # <<>>
      BY <1>1 DEF SessionLifecycle, TypeOK
    <2>2. Tail(toServer[s]) \in Seq(Line)
      BY <2>1, HeadTailProperties
    <2> QED
      BY <1>1, <2>2 DEF TypeOK
  <1> QED
    BY <1>1, <1>2, <1>3, <1>4 DEF LineEffect

\* An open session without a role finds the slot of the role it asks for
\* empty: the slot's holder would be open, alive and another session.
LEMMA RegisterInv ==
    ASSUME IInv, NEW s \in Session, NEW l \in Line,
           HandleLine(s, l), Registers(s, l),
           node' = [node EXCEPT ![l.role] = s],
           role' = [role EXCEPT ![s] = l.role],
           UNCHANGED <<last, writeQueue, wr>>
    PROVE  /\ IInv'
           /\ node[l.role] = NoSession
  <1>0. LineEffect(s)
    BY LineHandled
  <1> USE DEF IInv
  <1>1. l.role \in Role
    BY DEF Registers, Line, HelloLine, AccelLine, ModuleLine, InvalidLine
  <1>2. state[s] = "open" /\ role[s] = NoRole
    BY <1>0 DEF LineEffect, SessionLifecycle, Registers
  <1>3. node[l.role] = NoSession
    <2>1. SUFFICES ASSUME node[l.role] \in Session PROVE FALSE
      BY <1>1 DEF TypeOK
    <2>2. state[node[l.role]] = "open" /\ role[node[l.role]] = l.role
      BY <1>1, <2>1 DEF RegistryAgreement
    <2>3. Lock(l.role) = node[l.role]
      BY <2>1, <2>2, ServerAssumption DEF Lock, Alive, ReadLoopAlive
    <2>4. node[l.role] = s
      BY <2>1, <2>3, ServerAssumption DEF Registers, SetNodeAllowed
    <2> QED
      BY <1>1, <1>2, <2>2, <2>4 DEF Role, NoRole
  <1>4. HandlersMatchOperations'
    BY <1>0 DEF LineEffect, HandlersMatchOperations, TypeOK
  <1>5. TypeOK'
    BY <1>1, <1>0 DEF LineEffect, TypeOK, OpState
  <1>6. SessionLifecycle'
    BY <1>1, <1>2, <1>0 DEF LineEffect, SessionLifecycle, TypeOK
  <1>7. RegistryAgreement'
    <2>1. state' = state
      BY <1>0 DEF LineEffect
    <2>2. ASSUME NEW r \in Role, NEW t \in Session
          PROVE  node'[r] = t <=> state[t] = "open" /\ role'[t] = r
      <3>1. CASE t # s
        <4>1. role'[t] = role[t]
          BY <3>1 DEF TypeOK
        <4>2. node'[r] = t <=> node[r] = t
          BY <1>1, <1>3, <3>1, ServerAssumption DEF TypeOK
        <4> QED
          BY <4>1, <4>2 DEF RegistryAgreement
      <3>2. CASE t = s
        <4>1. role'[s] = l.role /\ node[r] # s
          <5>1. role'[s] = l.role
            BY DEF TypeOK
          <5>2. node[r] = s => role[s] = r
            BY DEF RegistryAgreement
          <5>3. role[s] # r
            BY <1>2 DEF Role, NoRole
          <5> QED
            BY <5>1, <5>2, <5>3
        <4>2. node'[r] = s <=> r = l.role
          BY <1>1, <4>1 DEF TypeOK
        <4> QED
          BY <1>2, <3>2, <4>1, <4>2
      <3> QED
        BY <3>1, <3>2
    <2> QED
      BY <2>1, <2>2 DEF RegistryAgreement
  <1>8. OneWriteInFlight' /\ ReadLoopAlive'
    BY <1>0 DEF LineEffect, OneWriteInFlight, ReadLoopAlive, TypeOK
  <1>9. RightRecipient'
    <2>1. toClient' = toClient /\ writeQueue' = writeQueue
      BY <1>0 DEF LineEffect
    <2>2. \A t \in Session : t # s => role'[t] = role[t]
      BY DEF TypeOK
    <2>3. \A queue \in {writeQueue[s], toClient[s]} : \A i \in DOMAIN queue :
             FALSE
      BY <1>2 DEF RightRecipient, NoRole
    <2> QED
      BY <2>1, <2>2, <2>3 DEF RightRecipient
  <1> QED
    BY <1>3, <1>4, <1>5, <1>6, <1>7, <1>8, <1>9, <1>0

\* A line is queued for the open session that holds the role, if any.
LEMMA ForwardEffect ==
    ASSUME IInv, NEW r \in Role, NEW l \in Line, Forward(r, l)
    PROVE  \/ UNCHANGED <<writeQueue, wr>>
           \/ \E t \in Session :
                 /\ state[t] = "open" /\ role[t] = r
                 /\ writeQueue' = [writeQueue EXCEPT ![t] = Append(@, l)]
                 /\ wr' = IF writeQueue[t] = <<>>
                          THEN [wr EXCEPT ![t] = "pending"] ELSE wr
  <1> USE DEF IInv
  <1> DEFINE t == Lock(r)
  <1>1. CASE t = NoSession \/ state[t] # "open"
    BY <1>1 DEF Forward
  <1>2. CASE t # NoSession /\ state[t] = "open"
    <2>1. t = node[r]
      BY <1>2 DEF Lock
    <2>2. t \in Session
      BY <1>2, <2>1 DEF TypeOK
    <2>3. role[t] = r
      BY <2>1, <2>2 DEF RegistryAgreement
    <2>4. /\ writeQueue' = [writeQueue EXCEPT ![t] = Append(@, l)]
          /\ wr' = IF writeQueue[t] = <<>>
                   THEN [wr EXCEPT ![t] = "pending"] ELSE wr
      BY <1>2 DEF Forward
    <2> QED
      BY <1>2, <2>2, <2>3, <2>4
  <1> QED
    BY <1>1, <1>2

\* The handlers that forward a line: of type ty, to role r.
LEMMA ForwardInv ==
    ASSUME IInv, NEW s \in Session, NEW l \in Line, HandleLine(s, l),
           NEW r \in Role, Forward(r, l),
           \/ l.type = "accel"  /\ r = "B"
           \/ l.type = "module" /\ r = "A",
           last' \in [Session -> Packet \cup {NoPacket}],
           UNCHANGED <<role, node>>
    PROVE  IInv'
  <1>0. LineEffect(s)
    BY LineHandled
  <1> USE DEF IInv
  <1>1. CASE UNCHANGED <<writeQueue, wr>>
    <2>1. HandlersMatchOperations'
      BY <1>1, <1>0 DEF LineEffect, HandlersMatchOperations, TypeOK
    <2>2. TypeOK'
      BY <1>1, <1>0 DEF LineEffect, TypeOK, OpState
    <2>3. SessionLifecycle'
      BY <1>1, <1>0 DEF LineEffect, SessionLifecycle, TypeOK
    <2>4. RegistryAgreement' /\ OneWriteInFlight' /\ ReadLoopAlive'
      BY <1>1, <1>0
         DEF LineEffect, RegistryAgreement, OneWriteInFlight, ReadLoopAlive, TypeOK
    <2>5. RightRecipient'
      BY <1>1, <1>0 DEF LineEffect, RightRecipient
    <2> QED
      BY <2>1, <2>2, <2>3, <2>4, <2>5
  <1>2. ASSUME NEW t \in Session,
               state[t] = "open", role[t] = r,
               writeQueue' = [writeQueue EXCEPT ![t] = Append(@, l)],
               wr' = IF writeQueue[t] = <<>>
                     THEN [wr EXCEPT ![t] = "pending"] ELSE wr
        PROVE  IInv'
    <2> DEFINE q == Append(writeQueue[t], l)
    <2>1. /\ q \in Seq(Line) /\ q # <<>>
          /\ \A i \in DOMAIN q :
                \/ i \in DOMAIN writeQueue[t] /\ q[i] = writeQueue[t][i]
                \/ q[i] = l
      <3>1. writeQueue[t] \in Seq(Line)
        BY DEF TypeOK
      <3> HIDE DEF IInv
      <3> QED
        BY <3>1, AppendProperties
    <2>2. writeQueue' = [writeQueue EXCEPT ![t] = q]
      BY <1>2
    <2> HIDE DEF q
    <2>3. \/ wr' = wr /\ wr[t] # "none"
          \/ wr' = [wr EXCEPT ![t] = "pending"] /\ wr[t] = "none"
      BY <1>2 DEF OneWriteInFlight
    <2>4. HandlersMatchOperations'
      BY <2>3, <1>0 DEF LineEffect, HandlersMatchOperations, TypeOK
    <2>5. TypeOK'
      BY <2>1, <2>2, <2>3, <1>0 DEF LineEffect, TypeOK, OpState
    <2>6. role[t] # NoRole
      BY <1>2 DEF Role, NoRole
    <2>7. SessionLifecycle'
      <3>1. /\ peer' = peer /\ state' = state /\ role' = role
            /\ rd'[s] \in {"none", "pending"}
            /\ state[s] = "closed" => rd'[s] = "none"
            /\ state[s] \in {"open", "closed"}
            /\ \A u \in Session :
                  u # s => rd'[u] = rd[u] /\ toServer'[u] = toServer[u]
        BY <1>0 DEF LineEffect, TypeOK
      <3>2. /\ writeQueue'[t] # <<>>
            /\ wr'[t] # "none"
            /\ \A u \in Session :
                  u # t => wr'[u] = wr[u] /\ writeQueue'[u] = writeQueue[u]
        BY <2>1, <2>2, <2>3 DEF TypeOK
      <3> QED
        BY <1>2, <2>6, <3>1, <3>2 DEF SessionLifecycle
    <2>8. RegistryAgreement' /\ ReadLoopAlive'
      BY <1>0 DEF LineEffect, RegistryAgreement, ReadLoopAlive, TypeOK
    <2>9. OneWriteInFlight'
      <3>1. /\ state' = state
            /\ writeQueue'[t] # <<>> /\ wr'[t] # "none"
            /\ \A u \in Session :
                  u # t => wr'[u] = wr[u] /\ writeQueue'[u] = writeQueue[u]
        BY <2>1, <2>2, <2>3, <1>0 DEF LineEffect, TypeOK
      <3> QED
        BY <3>1 DEF OneWriteInFlight
    <2>10. RightRecipient'
      <3>1. /\ toClient' = toClient /\ role' = role
            /\ writeQueue'[t] = q
            /\ \A u \in Session : u # t => writeQueue'[u] = writeQueue[u]
        BY <2>2, <1>0 DEF LineEffect, TypeOK
      <3>2. \A i \in DOMAIN q : \/ q[i].type = "accel"  /\ role[t] = "B"
                                \/ q[i].type = "module" /\ role[t] = "A"
        BY <1>2, <2>1 DEF RightRecipient
      <3> QED
        BY <3>1, <3>2 DEF RightRecipient
    <2> QED
      BY <2>4, <2>5, <2>7, <2>8, <2>9, <2>10
  <1> QED
    BY <1>1, <1>2, ForwardEffect

LEMMA DropLineInv ==
    ASSUME IInv, NEW s \in Session, NEW l \in Line, HandleLine(s, l),
           UNCHANGED <<role, last, writeQueue, wr, node>>
    PROVE  IInv'
  <1>0. LineEffect(s)
    BY LineHandled
  <1> USE DEF IInv
  <1>1. HandlersMatchOperations'
    BY <1>0 DEF LineEffect, HandlersMatchOperations, TypeOK
  <1>2. TypeOK'
    BY <1>0 DEF LineEffect, TypeOK, OpState
  <1>3. SessionLifecycle'
    BY <1>0 DEF LineEffect, SessionLifecycle, TypeOK
  <1>4. RegistryAgreement' /\ OneWriteInFlight' /\ ReadLoopAlive'
    BY <1>0 DEF LineEffect, RegistryAgreement, OneWriteInFlight, ReadLoopAlive, TypeOK
  <1>5. RightRecipient'
    BY <1>0 DEF LineEffect, RightRecipient
  <1> QED
    BY <1>1, <1>2, <1>3, <1>4, <1>5

------------------------------------------------------------------------------
(* The process and the clients.                                            *)

LEMMA ServerExitsInv ==
    ASSUME IInv, ServerExits
    PROVE  IInv'
  <1> USE DEF IInv
  <1>1. \A s \in Session : state'[s] \in {"none", "accepting", "closed"}
                        /\ (state'[s] = "accepting" => FALSE)
    BY DEF ServerExits, SessionLifecycle, TypeOK
  <1>2. \A s \in Session : state'[s] = "none" =>
           state[s] = "none" /\ role[s] = NoRole
    BY DEF ServerExits, SessionLifecycle, TypeOK
  <1>3. TypeOK'
    <2>1. /\ state' \in [Session -> {"none", "accepting", "open", "closed"}]
          /\ rd' \in [Session -> OpState] /\ wr' \in [Session -> OpState]
          /\ node' \in [Role -> Session \cup {NoSession}]
      BY DEF ServerExits, TypeOK, OpState
    <2>2. /\ last' \in [Session -> Packet \cup {NoPacket}]
          /\ writeQueue' \in [Session -> Seq(Line)]
          /\ ready' \in Seq(Completions)
      BY DEF ServerExits
    <2> QED
      BY <2>1, <2>2 DEF ServerExits, TypeOK, tcpVars
  <1>4. SessionLifecycle'
    BY <1>2 DEF ServerExits, SessionLifecycle, TypeOK, tcpVars
  <1>5. RegistryAgreement' /\ OneWriteInFlight' /\ ReadLoopAlive'
    BY <1>1, ServerAssumption
       DEF ServerExits, RegistryAgreement, OneWriteInFlight, ReadLoopAlive
  <1>6. RightRecipient'
    <2>1. \A s \in Session : writeQueue'[s] = <<>> /\ toClient'[s] = toClient[s]
      BY DEF ServerExits, tcpVars
    <2> QED
      BY <2>1 DEF RightRecipient, ServerExits
  <1>7. HandlersMatchOperations'
    <2>1. ready' = <<>>
      BY DEF ServerExits
    <2>2. IsInjective(ready') /\ \A o, t : ~ Queued(o, t)'
      BY <2>1 DEF IsInjective, Queued
    <2> QED
      BY <1>1, <2>2 DEF HandlersMatchOperations, ServerExits
  <1> QED
    BY <1>3, <1>4, <1>5, <1>6, <1>7

\* A step that leaves the server's own state alone.
LEMMA ServerFrame ==
    ASSUME IInv, TypeOK', SessionLifecycle', RightRecipient',
           UNCHANGED <<state, role, writeQueue, rd, wr, node, ready>>
    PROVE  IInv'
  BY DEF IInv, RegistryAgreement, OneWriteInFlight, ReadLoopAlive,
         HandlersMatchOperations, Queued, Completion

LEMMA ServerStartsInv ==
    ASSUME IInv, ServerStarts
    PROVE  IInv'
  <1>1. TypeOK' /\ SessionLifecycle' /\ RightRecipient'
    BY DEF IInv, ServerStarts, TypeOK, SessionLifecycle, RightRecipient,
           tcpVars, sessionVars
  <1> QED
    BY <1>1, ServerFrame DEF ServerStarts, sessionVars

LEMMA ClientStepInv ==
    ASSUME IInv, NEW s \in Session, ClientStep(s)
    PROVE  IInv'
  <1> USE DEF IInv
  <1>1. CASE Connect(s)
    <2>1. TypeOK' /\ SessionLifecycle' /\ RightRecipient'
      BY <1>1 DEF Connect, TypeOK, SessionLifecycle, RightRecipient,
                  clientFrame, sessionVars
    <2> QED
      BY <1>1, <2>1, ServerFrame DEF Connect, clientFrame, sessionVars
  <1>2. ASSUME NEW l \in Line, ClientWrites(s, l) PROVE IInv'
    <2>1. /\ toServer' \in [Session -> Seq(Line)]
          /\ \A t \in Session : toServer[t] # <<>> => toServer'[t] # <<>>
      <3>1. /\ toServer[s] \in Seq(Line)
            /\ Append(toServer[s], l) \in Seq(Line)
            /\ Append(toServer[s], l) # <<>>
        <4>1. toServer[s] \in Seq(Line)
          BY DEF TypeOK
        <4> HIDE DEF IInv
        <4> QED
          BY <4>1, AppendProperties
      <3> QED
        BY <1>2, <3>1 DEF ClientWrites, TypeOK
    <2>2. sent' \in [Session -> 0..MaxSent]
      BY <1>2, ServerAssumption DEF ClientWrites, TypeOK
    <2>3. TypeOK'
      BY <1>2, <2>1, <2>2 DEF ClientWrites, TypeOK, clientFrame, sessionVars
    <2>4. SessionLifecycle' /\ RightRecipient'
      BY <1>2, <2>1 DEF ClientWrites, SessionLifecycle, RightRecipient,
                        clientFrame, sessionVars
    <2> QED
      BY <1>2, <2>3, <2>4, ServerFrame DEF ClientWrites, clientFrame, sessionVars
  <1>3. CASE ClientReads(s)
    <2> DEFINE q == Tail(toClient[s])
    <2>1. /\ toClient[s] \in Seq(Line)
          /\ q \in Seq(Line)
          /\ \A i \in DOMAIN q : /\ i + 1 \in DOMAIN toClient[s]
                                 /\ q[i] = toClient[s][i + 1]
      <3>1. toClient[s] \in Seq(Line) /\ toClient[s] # <<>>
        BY <1>3 DEF ClientReads, TypeOK
      <3> QED
        BY <3>1, HeadTailProperties
    <2>2. toClient' = [toClient EXCEPT ![s] = q]
      BY <1>3 DEF ClientReads
    <2> HIDE DEF q
    <2>3. TypeOK' /\ SessionLifecycle'
      BY <1>3, <2>1, <2>2 DEF ClientReads, TypeOK, SessionLifecycle,
                              clientFrame, sessionVars
    <2>4. RightRecipient'
      <3>1. /\ writeQueue' = writeQueue /\ role' = role
            /\ toClient'[s] = q
            /\ \A t \in Session : t # s => toClient'[t] = toClient[t]
        BY <1>3, <2>2 DEF ClientReads, TypeOK, clientFrame, sessionVars
      <3>2. \A i \in DOMAIN q : \/ q[i].type = "accel"  /\ role[s] = "B"
                                \/ q[i].type = "module" /\ role[s] = "A"
        BY <2>1 DEF RightRecipient
      <3> QED
        BY <3>1, <3>2 DEF RightRecipient
    <2> QED
      BY <1>3, <2>3, <2>4, ServerFrame DEF ClientReads, clientFrame, sessionVars
  <1>4. CASE ClientCloses(s)
    <2>1. TypeOK' /\ SessionLifecycle'
      BY <1>4 DEF ClientCloses, TypeOK, SessionLifecycle, clientFrame, sessionVars
    <2>2. RightRecipient'
      <3>1. /\ writeQueue' = writeQueue /\ role' = role
            /\ toClient'[s] = <<>>
            /\ \A t \in Session : t # s => toClient'[t] = toClient[t]
        BY <1>4 DEF ClientCloses, TypeOK, clientFrame, sessionVars
      <3> QED
        BY <3>1 DEF RightRecipient
    <2> QED
      BY <1>4, <2>1, <2>2, ServerFrame
         DEF ClientCloses, clientFrame, sessionVars
  <1> QED
    BY <1>1, <1>2, <1>3, <1>4 DEF ClientStep

------------------------------------------------------------------------------
(* The theorems.                                                           *)

LEMMA InitInv == Init => IInv
  <1> SUFFICES ASSUME Init PROVE IInv
    OBVIOUS
  <1>1. TypeOK
    BY ServerAssumption DEF Init, TypeOK, OpState, Completions
  <1>2. SessionLifecycle /\ RegistryAgreement
    BY ServerAssumption DEF Init, SessionLifecycle, RegistryAgreement
  <1>3. OneWriteInFlight /\ ReadLoopAlive /\ RightRecipient
    BY DEF Init, OneWriteInFlight, ReadLoopAlive, RightRecipient
  <1>4. HandlersMatchOperations
    <2>1. ready = <<>>
      BY DEF Init
    <2>2. IsInjective(ready) /\ \A o, t : ~ Queued(o, t)
      BY <2>1 DEF IsInjective, Queued
    <2> QED
      BY <2>2 DEF Init, HandlersMatchOperations
  <1> QED
    BY <1>1, <1>2, <1>3, <1>4 DEF IInv

LEMMA HandlerInv ==
    ASSUME IInv, NEW s \in Session, RunHandler(s)
    PROVE  IInv'
  <1>1. CASE StartSession(s)
    BY <1>1, StartSessionInv
  <1>2. CASE ReadFails(s)
    BY <1>2, ReadFailsInv
  <1>3. CASE WriteFails(s)
    BY <1>3, WriteFailsInv
  <1>4. CASE WriteSucceeds(s)
    BY <1>4, WriteSucceedsInv
  <1>5. CASE Register(s)
    BY <1>5, RegisterInv DEF Register
  <1>6. CASE AcceptPacket(s)
    <2>1. PICK l \in Line : /\ HandleLine(s, l)
                            /\ Accepts(s, l)
                            /\ last' = [last EXCEPT ![s] = l.packet]
                            /\ Forward("B", l)
                            /\ UNCHANGED <<role, node>>
      BY <1>6 DEF AcceptPacket
    <2>2. l.type = "accel" /\ l.packet \in Packet
      BY <2>1 DEF Accepts, Line, HelloLine, AccelLine, ModuleLine, InvalidLine
    <2>3. last' \in [Session -> Packet \cup {NoPacket}]
      BY <2>1, <2>2 DEF IInv, TypeOK
    <2> QED
      BY <2>1, <2>2, <2>3, ForwardInv DEF Role
  <1>7. CASE ReturnModule(s)
    <2>1. PICK l \in Line : /\ HandleLine(s, l)
                            /\ Returns(s, l)
                            /\ Forward("A", l)
                            /\ UNCHANGED <<role, last, node>>
      BY <1>7 DEF ReturnModule
    <2>2. l.type = "module"
      BY <2>1 DEF Returns
    <2>3. last' \in [Session -> Packet \cup {NoPacket}]
      BY <2>1 DEF IInv, TypeOK
    <2> QED
      BY <2>1, <2>2, <2>3, ForwardInv DEF Role
  <1>8. CASE DropLine(s)
    BY <1>8, DropLineInv DEF DropLine
  <1> QED
    BY <1>1, <1>2, <1>3, <1>4, <1>5, <1>6, <1>7, <1>8 DEF RunHandler

LEMMA NextInv == IInv /\ [Next]_vars => IInv'
  <1> SUFFICES ASSUME IInv, [Next]_vars PROVE IInv'
    OBVIOUS
  <1>1. ASSUME NEW s \in Session, ServerStep(s) PROVE IInv'
    BY <1>1, AcceptCompletesInv, ReadCompletesInv, WriteCompletesInv, HandlerInv
       DEF ServerStep
  <1>2. ASSUME NEW s \in Session, ClientStep(s) PROVE IInv'
    BY <1>2, ClientStepInv
  <1>3. CASE ServerExits
    BY <1>3, ServerExitsInv
  <1>4. CASE ServerStarts
    BY <1>4, ServerStartsInv
  <1>5. CASE UNCHANGED vars
    <2>1. TypeOK' /\ SessionLifecycle' /\ RightRecipient'
      BY <1>5 DEF IInv, TypeOK, SessionLifecycle, RightRecipient,
                  vars, tcpVars, sessionVars
    <2> QED
      BY <1>5, <2>1, ServerFrame DEF vars, sessionVars
  <1> QED
    BY <1>1, <1>2, <1>3, <1>4, <1>5 DEF Next

LEMMA InvariantHolds == Spec => []IInv
  BY InitInv, NextInv, PTL DEF Spec

\* The server's state has its type in every behavior.
THEOREM TypeCorrect == Spec => []TypeOK
  <1>1. IInv => TypeOK
    BY DEF IInv
  <1> QED
    BY <1>1, InvariantHolds, PTL

\* ServerState and the sessions' role_ agree whatever the clients do and
\* whenever sessions close: at most one open session has a role, and a slot
\* never keeps a closed session (client_session.cpp, server_state.cpp).
THEOREM RegistryAgrees == Spec => []RegistryAgreement
  <1>1. IInv => RegistryAgreement
    BY DEF IInv
  <1> QED
    BY <1>1, InvariantHolds, PTL

\* Writes on one session never overlap, and its queue never waits for a write
\* that nobody starts (client_session.cpp:23-44, 375-404).
THEOREM OneWriteAtATime == Spec => []OneWriteInFlight
  <1>1. IInv => OneWriteInFlight
    BY DEF IInv
  <1> QED
    BY <1>1, InvariantHolds, PTL

\* Each completed operation has one handler queued, and an open session reads.
THEOREM HandlersMatch == Spec => [](HandlersMatchOperations /\ ReadLoopAlive)
  <1>1. IInv => HandlersMatchOperations /\ ReadLoopAlive
    BY DEF IInv
  <1> QED
    BY <1>1, InvariantHolds, PTL

\* Packets reach registered Node B sessions only, modules Node A sessions only
\* (client_session.cpp:218-372).
THEOREM RecipientsAreRight == Spec => []RightRecipient
  <1>1. IInv => RightRecipient
    BY DEF IInv
  <1> QED
    BY <1>1, InvariantHolds, PTL

\* What the handlers rely on at each stage of a session's life: a session that
\* is not started has no operation, a closed one starts none, and only one with
\* a role still has a line to handle then (client_session.cpp:47-93, 406-432).
THEOREM LifecycleHolds == Spec => []SessionLifecycle
  <1>1. IInv => SessionLifecycle
    BY DEF IInv
  <1> QED
    BY <1>1, InvariantHolds, PTL

\* An open session reads, whichever line it has handled and however
\* (client_session.cpp:53-93).
THEOREM ReadingGoesOn == Spec => []ReadLoopAlive
  <1>1. IInv => ReadLoopAlive
    BY DEF IInv
  <1> QED
    BY <1>1, InvariantHolds, PTL

\* A session of a server with nothing to do has no operation that has completed.
LEMMA NothingCompleted ==
    ASSUME IInv, ServerWaits, NEW s \in Session
    PROVE  /\ state[s] # "accepting"
           /\ rd[s] \in {"none", "pending"}
           /\ wr[s] \in {"none", "pending"}
  <1>1. \A op : ~ Queued(op, s)
    BY DEF ServerWaits, Queued
  <1>2. rd[s] \in OpState /\ wr[s] \in OpState
    BY DEF IInv, TypeOK
  <1> QED
    BY <1>1, <1>2 DEF IInv, HandlersMatchOperations, OpState

\* Such a server has read everything that was sent to an open session, whose
\* queue waits for a client that does not read.
LEMMA OpenWaits ==
    ASSUME IInv, ServerWaits, NEW s \in Session, state[s] = "open"
    PROVE  /\ toServer[s] = <<>> /\ peer[s] # "closed"
           /\ writeQueue[s] # <<>> => Len(toClient[s]) >= SocketBuffer
  <1>1. rd[s] = "pending"
    BY NothingCompleted DEF IInv, ReadLoopAlive
  <1>2. writeQueue[s] # <<>> => wr[s] = "pending"
    BY NothingCompleted DEF IInv, OneWriteInFlight
  <1> QED
    BY <1>1, <1>2 DEF ServerWaits

\* In such a server every session of a connection is open or over.
LEMMA WaitingSession ==
    ASSUME IInv, ServerWaits, NEW s \in Session, peer[s] # "none"
    PROVE  state[s] \in {"open", "closed"}
  BY NothingCompleted DEF ServerWaits, IInv, TypeOK

\* A server with nothing to do has released every session whose client has
\* gone, and owes nothing to the others, for any number of sessions and lines
\* (client_session.cpp:23-93, 375-432).
THEOREM NothingIsForgotten == Spec => []NothingForgotten
  <1>1. IInv => NothingForgotten
    <2> SUFFICES ASSUME IInv, ServerWaits, NEW s \in Session, peer[s] = "closed"
                 PROVE  /\ state[s] = "closed" /\ ~ Alive(s)
                        /\ \A r \in Role : node[r] # s
      BY OpenWaits DEF NothingForgotten
    <2>1. state[s] = "closed"
      BY OpenWaits, WaitingSession
    <2>2. rd[s] = "none" /\ wr[s] = "none"
      BY <2>1, NothingCompleted DEF IInv, SessionLifecycle
    <2>3. \A r \in Role : node[r] # s
      BY <2>1 DEF IInv, RegistryAgreement
    <2> QED
      BY <2>1, <2>2, <2>3 DEF Alive
  <1> QED
    BY <1>1, InvariantHolds, PTL

\* No step hands a role from one session to another: SetNodeA and SetNodeB
\* only ever fill an empty slot (server_state.cpp:7-37).
THEOREM HoldersKeepRoles == Spec => HolderNeverDisplaced
  <1> DEFINE Kept == \A r \in Role :
                        node[r] # NoSession => node'[r] \in {node[r], NoSession}
  <1>1. IInv /\ [Next]_vars => [Kept]_vars
    <2> SUFFICES ASSUME IInv, Next PROVE Kept
      BY DEF vars
    <2>1. ASSUME NEW s \in Session, RunHandler(s) PROVE Kept
      <3>1. CASE StartSession(s)
        BY <3>1 DEF StartSession
      <3>2. CASE ReadFails(s)
        <4>1. Close(s, "write", wr[s]) /\ Alive(s) /\ role' = role
          BY <3>2 DEF ReadFails, Alive
        <4> QED
          BY <4>1, CloseKeepsRegistry
      <3>3. CASE WriteFails(s)
        <4>1. Close(s, "read", rd[s]) /\ Alive(s) /\ role' = role
          BY <3>3 DEF WriteFails, Alive
        <4> QED
          BY <4>1, CloseKeepsRegistry
      <3>4. CASE WriteSucceeds(s)
        BY <3>4 DEF WriteSucceeds
      <3>5. CASE Register(s)
        <4>1. PICK l \in Line : /\ node[l.role] = NoSession
                                /\ node' = [node EXCEPT ![l.role] = s]
          BY <3>5, RegisterInv DEF Register
        <4> QED
          BY <4>1 DEF IInv, TypeOK
      <3>6. CASE AcceptPacket(s) \/ ReturnModule(s) \/ DropLine(s)
        BY <3>6 DEF AcceptPacket, ReturnModule, DropLine
      <3> QED
        BY <2>1, <3>1, <3>2, <3>3, <3>4, <3>5, <3>6 DEF RunHandler
    <2>2. ASSUME NEW s \in Session,
                 AcceptCompletes(s) \/ ReadCompletes(s) \/ WriteCompletes(s)
          PROVE  Kept
      BY <2>2 DEF AcceptCompletes, ReadCompletes, WriteCompletes
    <2>3. ASSUME NEW s \in Session, ClientStep(s) PROVE Kept
      BY <2>3 DEF ClientStep, Connect, ClientWrites, ClientReads, ClientCloses,
                  clientFrame
    <2>4. CASE ServerExits
      BY <2>4 DEF ServerExits
    <2>5. CASE ServerStarts
      BY <2>5 DEF ServerStarts
    <2> QED
      BY <2>1, <2>2, <2>3, <2>4, <2>5 DEF Next, ServerStep
  <1> QED
    BY <1>1, InvariantHolds, PTL DEF Spec, HolderNeverDisplaced
==============================================================================
