---------------------------- MODULE PipelineProofs ----------------------------
(***************************************************************************)
(* The way of a packet through the accelerometer system, as a pipeline.    *)
(*                                                                         *)
(* A packet goes, as a line, from Node A's connection through the queue of *)
(* Node B's session to Node B, which turns it into a module, and through   *)
(* the queue of Node A's session to the log.  These queues are the stages  *)
(* of a pipeline; every run of Node A has an entrance of its own, its      *)
(* connection, and the other stages are shared.                            *)
(*                                                                         *)
(* An order is given by the pairs of packets that it does not allow to     *)
(* come one before the other.  Every step of the system keeps whatever     *)
(* order the pipeline is in (PipeKept): it moves the first line of a stage *)
(* to the end of an earlier one, and finds nothing in the stages between,  *)
(* or it loses lines.  Two steps are exceptions: Node A adds a packet to   *)
(* the history and to its entrance, and the server takes one from an       *)
(* entrance into the shared stages (Enters).                               *)
(*                                                                         *)
(* One stage is not a queue: the line that a closed session of Node B      *)
(* still handles.  That it goes ahead of all that the next session sends   *)
(* is LateLineFirst.  Content says which lines can be in which queue.      *)
(***************************************************************************)
EXTENDS AccelSystemProofs, LateLineProofs

IsData(l) == l.type \in {"accel", "module"}

\* The number of the packet that a line carries.
Stamp(l) == IF l.type = "accel" THEN l.packet.timestamp ELSE l.module.timestamp

\* The order R does not forbid that packet x comes before packet y.
Before(R, x, y) == <<x, y>> \notin R

InOrder(R, q) ==
    \A i, j \in DOMAIN q :
        i < j /\ IsData(q[i]) /\ IsData(q[j]) => Before(R, Stamp(q[i]), Stamp(q[j]))

Precedes(R, q, r) ==
    \A i \in DOMAIN q, j \in DOMAIN r :
        IsData(q[i]) /\ IsData(r[j]) => Before(R, Stamp(q[i]), Stamp(r[j]))

\* Stages of a pipeline, the last one first: 9 is the entrance, 1 the end.
Stage == 1..9

Sorted(R, P) ==
    /\ \A k \in Stage : InOrder(R, P[k])
    /\ \A m, n \in Stage : m < n => Precedes(R, P[m], P[n])

\* The data lines of r are lines of q in the same order.
Thins(r, q) ==
    /\ \A i \in DOMAIN r : IsData(r[i]) => \E a \in DOMAIN q : q[a] = r[i]
    /\ \A i, j \in DOMAIN r : i < j /\ IsData(r[i]) /\ IsData(r[j]) =>
          \E a, b \in DOMAIN q : a < b /\ q[a] = r[i] /\ q[b] = r[j]

NoData(q) == \A i \in DOMAIN q : ~ IsData(q[i])

\* The queue has a line of packet p.
Carries(q, p) == \E i \in DOMAIN q : IsData(q[i]) /\ Stamp(q[i]) = p

LEMMA ThinsSelf == ASSUME NEW q PROVE Thins(q, q)
  BY DEF Thins

LEMMA ThinsTransitive ==
    ASSUME NEW p, NEW q, NEW r, Thins(r, q), Thins(q, p)
    PROVE  Thins(r, p)
  <1>1. ASSUME NEW i \in DOMAIN r, IsData(r[i])
        PROVE  \E a \in DOMAIN p : p[a] = r[i]
    <2>1. PICK a \in DOMAIN q : q[a] = r[i]
      BY <1>1 DEF Thins
    <2> QED
      BY <1>1, <2>1 DEF Thins
  <1>2. ASSUME NEW i \in DOMAIN r, NEW j \in DOMAIN r,
               i < j, IsData(r[i]), IsData(r[j])
        PROVE  \E a, b \in DOMAIN p : a < b /\ p[a] = r[i] /\ p[b] = r[j]
    <2>1. PICK a, b \in DOMAIN q : a < b /\ q[a] = r[i] /\ q[b] = r[j]
      BY <1>2 DEF Thins
    <2> QED
      BY <1>2, <2>1 DEF Thins
  <1> QED
    BY <1>1, <1>2 DEF Thins

LEMMA ThinsNoData == ASSUME NEW q, NEW r, NoData(r) PROVE Thins(r, q)
  BY DEF Thins, NoData

LEMMA EmptyHasNoData == NoData(<<>>)
  BY DEF NoData

LEMMA ThinsTail ==
    ASSUME NEW q \in Seq(Line), q # <<>>
    PROVE  Thins(Tail(q), q)
  <1>1. /\ DOMAIN q = 1..Len(q) /\ Len(q) \in Nat
        /\ DOMAIN Tail(q) = 1..(Len(q) - 1)
        /\ \A i \in 1..(Len(q) - 1) : Tail(q)[i] = q[i + 1]
    BY HeadTailProperties
  <1> DEFINE t == Tail(q)
  <1> HIDE DEF t, Line
  <1>2. ASSUME NEW i \in DOMAIN t
        PROVE  i \in Int /\ i + 1 \in DOMAIN q /\ q[i + 1] = t[i]
    BY <1>1 DEF t
  <1>3. ASSUME NEW i \in DOMAIN t, NEW j \in DOMAIN t, i < j
        PROVE  \E a, b \in DOMAIN q : a < b /\ q[a] = t[i] /\ q[b] = t[j]
    <2>1. /\ i + 1 \in DOMAIN q /\ q[i + 1] = t[i]
          /\ j + 1 \in DOMAIN q /\ q[j + 1] = t[j]
          /\ i + 1 < j + 1
      BY <1>2, <1>3
    <2> QED
      BY <2>1
  <1> QED
    BY <1>2, <1>3 DEF Thins, t

LEMMA ThinsAppend ==
    ASSUME NEW q \in Seq(Line), NEW l \in Line, ~ IsData(l)
    PROVE  Thins(Append(q, l), q)
  <1>1. /\ DOMAIN q = 1..Len(q) /\ Len(q) \in Nat
        /\ DOMAIN Append(q, l) = 1..(Len(q) + 1)
        /\ \A i \in 1..Len(q) : Append(q, l)[i] = q[i]
        /\ Append(q, l)[Len(q) + 1] = l
    BY AppendProperties
  <1> DEFINE t == Append(q, l)
  <1> HIDE DEF t, Line
  <1>2. ASSUME NEW i \in DOMAIN t, IsData(t[i])
        PROVE  i \in DOMAIN q /\ q[i] = t[i]
    BY <1>1, <1>2 DEF t
  <1> QED
    BY <1>2 DEF Thins, t

LEMMA InOrderThins ==
    ASSUME NEW R, NEW q, NEW r, InOrder(R, q), Thins(r, q)
    PROVE  InOrder(R, r)
  <1> SUFFICES ASSUME NEW i \in DOMAIN r, NEW j \in DOMAIN r,
                      i < j, IsData(r[i]), IsData(r[j])
               PROVE  Before(R, Stamp(r[i]), Stamp(r[j]))
    BY DEF InOrder
  <1>1. PICK a, b \in DOMAIN q : a < b /\ q[a] = r[i] /\ q[b] = r[j]
    BY DEF Thins
  <1> QED
    BY <1>1 DEF InOrder

LEMMA PrecedesThins ==
    ASSUME NEW R, NEW q, NEW r, NEW q2, NEW r2,
           Precedes(R, q, r), Thins(q2, q), Thins(r2, r)
    PROVE  Precedes(R, q2, r2)
  BY DEF Precedes, Thins

\* Lines that get lost keep the order.
LEMMA SortedThins ==
    ASSUME NEW R, NEW P, NEW Q, Sorted(R, P),
           \A k \in Stage : Thins(Q[k], P[k])
    PROVE  Sorted(R, Q)
  BY InOrderThins, PrecedesThins DEF Sorted

\* A line may join stage m if it belongs there.
LEMMA SortedInsert ==
    ASSUME NEW R, NEW P, NEW Q, Sorted(R, P),
           NEW m \in Stage, NEW l \in Line,
           P[m] \in Seq(Line), Q[m] = Append(P[m], l),
           \A k \in Stage : k # m => Thins(Q[k], P[k]),
           \A k \in Stage : k <= m => Precedes(R, P[k], <<l>>),
           \A k \in Stage : k > m => Precedes(R, <<l>>, Q[k])
    PROVE  Sorted(R, Q)
  <1>1. /\ DOMAIN P[m] = 1..Len(P[m]) /\ Len(P[m]) \in Nat
        /\ DOMAIN Q[m] = 1..(Len(P[m]) + 1)
        /\ \A i \in 1..Len(P[m]) : Q[m][i] = P[m][i]
        /\ Q[m][Len(P[m]) + 1] = l
    BY AppendProperties
  <1> DEFINE one == <<l>>
  <1>2. DOMAIN one = {1} /\ one[1] = l
    OBVIOUS
  <1> HIDE DEF one, Line
  <1>3. \A k \in Stage : k <= m => Precedes(R, P[k], one)
    BY DEF one
  <1>4. \A k \in Stage : k > m => Precedes(R, one, Q[k])
    BY DEF one
  <1>5. ASSUME NEW i \in DOMAIN Q[m]
        PROVE  \/ i \in DOMAIN P[m] /\ Q[m][i] = P[m][i]
               \/ i = Len(P[m]) + 1 /\ Q[m][i] = l
    BY <1>1
  <1>6. InOrder(R, Q[m])
    <2> SUFFICES ASSUME NEW i \in DOMAIN Q[m], NEW j \in DOMAIN Q[m],
                        i < j, IsData(Q[m][i]), IsData(Q[m][j])
                 PROVE  Before(R, Stamp(Q[m][i]), Stamp(Q[m][j]))
      BY DEF InOrder
    <2>1. i \in DOMAIN P[m] /\ Q[m][i] = P[m][i]
      BY <1>1
    <2>2. CASE j \in DOMAIN P[m] /\ Q[m][j] = P[m][j]
      BY <2>1, <2>2 DEF Sorted, InOrder
    <2>3. CASE Q[m][j] = l
      <3>1. Precedes(R, P[m], one)
        BY <1>3 DEF Stage
      <3> QED
        BY <1>2, <2>1, <2>3, <3>1 DEF Precedes
    <2> QED
      BY <1>5, <2>2, <2>3
  <1>7. ASSUME NEW k \in Stage, k < m PROVE Precedes(R, Q[k], Q[m])
    <2>1. Thins(Q[k], P[k]) /\ Precedes(R, P[k], P[m]) /\ Precedes(R, P[k], one)
      BY <1>3, <1>7 DEF Sorted, Stage
    <2>2. Precedes(R, Q[k], P[m]) /\ Precedes(R, Q[k], one)
      BY <2>1, PrecedesThins, ThinsSelf
    <2> QED
      BY <1>2, <1>5, <2>2 DEF Precedes
  <1>8. ASSUME NEW k \in Stage, k > m PROVE Precedes(R, Q[m], Q[k])
    <2>1. Thins(Q[k], P[k]) /\ Precedes(R, P[m], P[k]) /\ Precedes(R, one, Q[k])
      BY <1>4, <1>8 DEF Sorted, Stage
    <2>2. Precedes(R, P[m], Q[k])
      BY <2>1, PrecedesThins, ThinsSelf
    <2> QED
      BY <1>2, <1>5, <2>1, <2>2 DEF Precedes
  <1>9. \A k \in Stage : InOrder(R, Q[k])
    BY <1>6, InOrderThins DEF Sorted
  <1>10. \A a, b \in Stage : a < b => Precedes(R, Q[a], Q[b])
    <2> SUFFICES ASSUME NEW a \in Stage, NEW b \in Stage, a < b
                 PROVE  Precedes(R, Q[a], Q[b])
      OBVIOUS
    <2>1. CASE a # m /\ b # m
      BY <2>1, PrecedesThins DEF Sorted
    <2>2. CASE a = m
      BY <1>8, <2>2 DEF Stage
    <2>3. CASE b = m
      BY <1>7, <2>3 DEF Stage
    <2> QED
      BY <2>1, <2>2, <2>3
  <1> QED
    BY <1>9, <1>10 DEF Sorted

LEMMA StageOrder ==
    ASSUME NEW k \in Stage, NEW m \in Stage, NEW n \in Stage, k <= m, m < n
    PROVE  k < n
  BY DEF Stage

SamePacket(l, h) == IsData(l) => IsData(h) /\ Stamp(h) = Stamp(l)

\* The first line of stage n becomes the last one of an earlier stage m, as
\* the line l: the same packet, or its module.
LEMMA SortedMove ==
    ASSUME NEW R, NEW P, NEW Q, Sorted(R, P),
           NEW m \in Stage, NEW n \in Stage, m < n,
           P[m] \in Seq(Line), P[n] \in Seq(Line), P[n] # <<>>,
           NEW l \in Line, SamePacket(l, Head(P[n])),
           Q[m] = Append(P[m], l),
           \A k \in Stage : k # m => Thins(Q[k], P[k]),
           Thins(Q[n], Tail(P[n])),
           \A k \in Stage : m < k /\ k < n => NoData(Q[k])
    PROVE  Sorted(R, Q)
  <1> DEFINE one == <<l>>
             t == Tail(P[n])
  <1>1. /\ 1 \in DOMAIN P[n] /\ SamePacket(l, P[n][1])
        /\ DOMAIN P[n] = 1..Len(P[n]) /\ Len(P[n]) \in Nat
        /\ DOMAIN t = 1..(Len(P[n]) - 1)
        /\ \A i \in 1..(Len(P[n]) - 1) : t[i] = P[n][i + 1]
    BY HeadTailProperties
  <1>2. DOMAIN one = {1} /\ one[1] = l
    OBVIOUS
  <1>3. Q[m] = Append(P[m], l) /\ Thins(Q[n], t)
    OBVIOUS
  <1> HIDE DEF one, t, Line
  <1>4. ASSUME NEW k \in Stage, k <= m PROVE Precedes(R, P[k], one)
    <2>1. k < n
      BY <1>4, StageOrder
    <2>2. Precedes(R, P[k], P[n])
      BY <2>1 DEF Sorted
    <2> QED
      BY <1>1, <1>2, <2>2 DEF Precedes, SamePacket
  <1>5. ASSUME NEW k \in Stage, k > m PROVE Precedes(R, one, Q[k])
    <2>1. CASE k < n
      <3>1. NoData(Q[k])
        BY <1>5, <2>1
      <3> QED
        BY <3>1 DEF NoData, Precedes
    <2>2. CASE k = n
      <3>1. ASSUME NEW j \in DOMAIN t, IsData(l), IsData(t[j])
            PROVE  Before(R, Stamp(l), Stamp(t[j]))
        <4>1. j + 1 \in DOMAIN P[n] /\ 1 < j + 1 /\ t[j] = P[n][j + 1]
          BY <1>1
        <4>2. InOrder(R, P[n])
          BY DEF Sorted
        <4> QED
          BY <1>1, <3>1, <4>1, <4>2 DEF InOrder, SamePacket
      <3>2. Precedes(R, one, t)
        BY <1>2, <3>1 DEF Precedes
      <3> QED
        BY <1>3, <2>2, <3>2, PrecedesThins, ThinsSelf
    <2>3. CASE k > n
      <3>1. Precedes(R, P[n], P[k]) /\ Thins(Q[k], P[k])
        BY <1>5, <2>3 DEF Sorted, Stage
      <3>2. Precedes(R, P[n], Q[k])
        BY <3>1, PrecedesThins, ThinsSelf
      <3> QED
        BY <1>1, <1>2, <3>2 DEF Precedes, SamePacket
    <2> QED
      BY <2>1, <2>2, <2>3 DEF Stage
  <1> QED
    BY <1>1, <1>3, <1>4, <1>5, SortedInsert DEF one

LEMMA HeadFirst ==
    ASSUME NEW R, NEW q \in Seq(Line), q # <<>>
    PROVE  /\ InOrder(R, q) => Precedes(R, <<Head(q)>>, Tail(q))
           /\ \A q2 : Precedes(R, q2, q) => Precedes(R, q2, <<Head(q)>>)
  <1> DEFINE one == <<Head(q)>>
             t == Tail(q)
  <1>1. /\ DOMAIN q = 1..Len(q) /\ Len(q) \in Nat /\ 1 \in DOMAIN q
        /\ Head(q) = q[1]
        /\ DOMAIN t = 1..(Len(q) - 1)
        /\ \A i \in 1..(Len(q) - 1) : t[i] = q[i + 1]
    BY HeadTailProperties
  <1>2. DOMAIN one = {1} /\ one[1] = q[1]
    BY <1>1
  <1> HIDE DEF one, t, Line
  <1>3. ASSUME InOrder(R, q) PROVE Precedes(R, one, t)
    <2>1. ASSUME NEW j \in DOMAIN t, IsData(q[1]), IsData(t[j])
          PROVE  Before(R, Stamp(q[1]), Stamp(t[j]))
      <3>1. j + 1 \in DOMAIN q /\ 1 < j + 1 /\ t[j] = q[j + 1]
        BY <1>1, <2>1
      <3> QED
        BY <1>1, <1>3, <2>1, <3>1 DEF InOrder
    <2> QED
      BY <1>2, <2>1 DEF Precedes
  <1>4. ASSUME NEW q2, Precedes(R, q2, q) PROVE Precedes(R, q2, one)
    BY <1>1, <1>2, <1>4 DEF Precedes
  <1> QED
    BY <1>3, <1>4 DEF one, t

LEMMA CarriesThins ==
    ASSUME NEW q, NEW r, Thins(r, q), NEW p, Carries(r, p)
    PROVE  Carries(q, p)
  BY DEF Carries, Thins

LEMMA CarriesAppend ==
    ASSUME NEW q \in Seq(Line), NEW l \in Line, NEW p, Carries(Append(q, l), p)
    PROVE  Carries(q, p) \/ (IsData(l) /\ Stamp(l) = p)
  <1> DEFINE t == Append(q, l)
  <1>1. /\ DOMAIN q = 1..Len(q) /\ Len(q) \in Nat
        /\ DOMAIN t = 1..(Len(q) + 1)
        /\ \A i \in 1..Len(q) : t[i] = q[i]
        /\ t[Len(q) + 1] = l
    BY AppendProperties
  <1> HIDE DEF t, Line
  <1>2. PICK i \in DOMAIN t : IsData(t[i]) /\ Stamp(t[i]) = p
    BY DEF Carries, t
  <1>3. (i \in DOMAIN q /\ t[i] = q[i]) \/ t[i] = l
    BY <1>1
  <1> QED
    BY <1>2, <1>3 DEF Carries

LEMMA CarriesHead ==
    ASSUME NEW q \in Seq(Line), q # <<>>, IsData(Head(q))
    PROVE  Carries(q, Stamp(Head(q)))
  <1>1. 1 \in DOMAIN q /\ q[1] = Head(q)
    BY HeadTailProperties
  <1> QED
    BY <1>1 DEF Carries

------------------------------------------------------------------------------
(* Which lines are where.                                                  *)

LEMMA HasTail ==
    ASSUME NEW q \in Seq(Line), q # <<>>
    PROVE  /\ Head(q) \in Line /\ Has(q, Head(q))
           /\ Tail(q) \in Seq(Line)
           /\ \A l : Has(Tail(q), l) => Has(q, l)
  <1>1. /\ DOMAIN q = 1..Len(q) /\ Len(q) \in Nat /\ Len(q) > 0
        /\ Head(q) \in Line /\ Head(q) = q[1] /\ Tail(q) \in Seq(Line)
        /\ DOMAIN Tail(q) = 1..(Len(q) - 1)
        /\ \A i \in 1..(Len(q) - 1) : Tail(q)[i] = q[i + 1]
    BY HeadTailProperties
  <1> HIDE DEF Line
  <1>2. Has(q, Head(q))
    BY <1>1 DEF Has
  <1>3. ASSUME NEW l, Has(Tail(q), l) PROVE Has(q, l)
    <2>1. PICK i \in DOMAIN Tail(q) : Tail(q)[i] = l
      BY <1>3 DEF Has
    <2>2. i + 1 \in DOMAIN q /\ q[i + 1] = l
      BY <1>1, <2>1
    <2> QED
      BY <2>2 DEF Has
  <1> QED
    BY <1>1, <1>2, <1>3

LEMMA HasAppend ==
    ASSUME NEW q \in Seq(Line), NEW d \in Line
    PROVE  /\ Append(q, d) \in Seq(Line)
           /\ \A l : Has(Append(q, d), l) => Has(q, l) \/ l = d
  <1>1. /\ DOMAIN q = 1..Len(q) /\ Len(q) \in Nat
        /\ Append(q, d) \in Seq(Line)
        /\ DOMAIN Append(q, d) = 1..(Len(q) + 1)
        /\ \A i \in 1..Len(q) : Append(q, d)[i] = q[i]
        /\ Append(q, d)[Len(q) + 1] = d
    BY AppendProperties
  <1> DEFINE r == Append(q, d)
  <1> HIDE DEF r, Line
  <1>2. ASSUME NEW l, Has(r, l) PROVE Has(q, l) \/ l = d
    <2>1. PICK i \in DOMAIN r : r[i] = l
      BY <1>2 DEF Has
    <2> QED
      BY <1>1, <2>1 DEF Has, r
  <1> QED
    BY <1>1, <1>2 DEF r

LEMMA HasEmpty == \A l : ~ Has(<<>>, l)
  BY DEF Has

\* A step of the server makes no line: what it sends to a client was queued
\* for it, what it queues is a packet or a module that some client has sent,
\* and a session's role is the one its client has asked for.
NothingMadeUp ==
    /\ \A s \in Session, l \in Line :
          /\ Has(toClient'[s], l) => Has(toClient[s], l) \/ Has(writeQueue[s], l)
          /\ Has(writeQueue'[s], l) =>
                \/ Has(writeQueue[s], l)
                \/ IsData(l) /\ \E x \in Session : Has(toServer[x], l)
          /\ Has(toServer'[s], l) => Has(toServer[s], l)
    /\ \A s \in Session :
          \/ role'[s] = role[s]
          \/ role[s] = NoRole /\ Has(toServer[s], HelloLine(role'[s]))

LEMMA HandledLine ==
    ASSUME IInv, NEW x \in Session, NEW l \in Line, HandleLine(x, l)
    PROVE  /\ Has(toServer[x], l)
           /\ toClient' = toClient
           /\ \A s \in Session, k \in Line : Has(toServer'[s], k) => Has(toServer[s], k)
  <1>1. toServer[x] \in Seq(Line) /\ toServer[x] # <<>>
    BY DEF IInv, TypeOK, SessionLifecycle, HandleLine
  <1>2. /\ l = Head(toServer[x]) /\ toClient' = toClient
        /\ toServer' = [toServer EXCEPT ![x] = Tail(@)]
    BY DEF HandleLine
  <1>3. /\ Has(toServer[x], l)
        /\ \A k : Has(Tail(toServer[x]), k) => Has(toServer[x], k)
    BY <1>1, <1>2, HasTail
  <1>4. \A s \in Session : toServer'[s] = IF s = x THEN Tail(toServer[x]) ELSE toServer[s]
    BY <1>2 DEF IInv, TypeOK
  <1> QED
    BY <1>2, <1>3, <1>4

LEMMA ForwardedLine ==
    ASSUME IInv, NEW x \in Session, NEW l \in Line, HandleLine(x, l),
           NEW r \in Role, Forward(r, l), IsData(l), role' = role
    PROVE  NothingMadeUp
  <1>1. /\ Has(toServer[x], l) /\ toClient' = toClient
        /\ \A s \in Session, k \in Line : Has(toServer'[s], k) => Has(toServer[s], k)
    BY HandledLine
  <1>2. CASE UNCHANGED writeQueue
    BY <1>1, <1>2 DEF NothingMadeUp
  <1>3. ASSUME NEW t \in Session, writeQueue' = [writeQueue EXCEPT ![t] = Append(@, l)]
        PROVE  NothingMadeUp
    <2>1. writeQueue[t] \in Seq(Line)
      BY DEF IInv, TypeOK
    <2>2. \A k : Has(Append(writeQueue[t], l), k) => Has(writeQueue[t], k) \/ k = l
      BY <2>1, HasAppend
    <2>3. \A s \in Session : writeQueue'[s] =
             IF s = t THEN Append(writeQueue[t], l) ELSE writeQueue[s]
      BY <1>3 DEF IInv, TypeOK
    <2> QED
      BY <1>1, <2>2, <2>3 DEF NothingMadeUp
  <1> QED
    BY <1>2, <1>3, ForwardEffect

LEMMA ServerMakesNoLine ==
    ASSUME IInv, NEW x \in Session, ServerStep(x)
    PROVE  NothingMadeUp
  <1>1. CASE AcceptCompletes(x) \/ ReadCompletes(x) \/ StartSession(x) \/ ReadFails(x)
    BY <1>1 DEF AcceptCompletes, ReadCompletes, StartSession, ReadFails, tcpVars,
                NothingMadeUp
  <1>2. CASE WriteCompletes(x)
    <2>1. /\ toClient[x] \in Seq(Line) /\ writeQueue[x] \in Seq(Line)
          /\ writeQueue[x] # <<>>
      BY <1>2 DEF IInv, TypeOK, SessionLifecycle, WriteCompletes
    <2>2. /\ Head(writeQueue[x]) \in Line /\ Has(writeQueue[x], Head(writeQueue[x]))
      BY <2>1, HasTail
    <2>3. \A k : Has(Append(toClient[x], Head(writeQueue[x])), k) =>
             Has(toClient[x], k) \/ k = Head(writeQueue[x])
      BY <2>1, <2>2, HasAppend
    <2>4. /\ \A s \in Session : \/ toClient'[s] = toClient[s]
                                  \/ /\ s = x
                                     /\ toClient'[x] = Append(toClient[x], Head(writeQueue[x]))
          /\ UNCHANGED <<writeQueue, toServer, role>>
      BY <1>2 DEF WriteCompletes, IInv, TypeOK
    <2> QED
      BY <2>2, <2>3, <2>4 DEF NothingMadeUp
  <1>3. CASE WriteFails(x)
    <2>1. \A s \in Session : writeQueue'[s] = IF s = x THEN <<>> ELSE writeQueue[s]
      BY <1>3 DEF WriteFails, IInv, TypeOK
    <2> QED
      BY <1>3, <2>1, HasEmpty DEF WriteFails, tcpVars, NothingMadeUp
  <1>4. CASE WriteSucceeds(x)
    <2>1. writeQueue[x] \in Seq(Line) /\ writeQueue[x] # <<>>
      BY <1>4 DEF IInv, TypeOK, SessionLifecycle, WriteSucceeds
    <2>2. \A k : Has(Tail(writeQueue[x]), k) => Has(writeQueue[x], k)
      BY <2>1, HasTail
    <2>3. \A s \in Session : writeQueue'[s] =
             IF s = x THEN Tail(writeQueue[x]) ELSE writeQueue[s]
      BY <1>4 DEF WriteSucceeds, IInv, TypeOK
    <2> QED
      BY <1>4, <2>2, <2>3 DEF WriteSucceeds, tcpVars, NothingMadeUp
  <1>5. CASE Register(x)
    <2>1. PICK l \in Line : /\ HandleLine(x, l)
                            /\ Registers(x, l)
                            /\ role' = [role EXCEPT ![x] = l.role]
                            /\ UNCHANGED <<last, writeQueue, wr>>
      BY <1>5 DEF Register
    <2>2. l = HelloLine(l.role) /\ role[x] = NoRole
      BY <2>1 DEF Registers, Line, HelloLine, AccelLine, ModuleLine, InvalidLine
    <2>3. \A s \in Session : role'[s] = IF s = x THEN l.role ELSE role[s]
      BY <2>1 DEF IInv, TypeOK
    <2> QED
      BY <2>1, <2>2, <2>3, HandledLine DEF NothingMadeUp
  <1>6. CASE AcceptPacket(x)
    <2>1. PICK l \in Line : /\ HandleLine(x, l) /\ Forward("B", l)
                            /\ IsData(l) /\ role' = role
      BY <1>6 DEF AcceptPacket, Accepts, IsData
    <2> QED
      BY <2>1, ForwardedLine DEF Role
  <1>7. CASE ReturnModule(x)
    <2>1. PICK l \in Line : /\ HandleLine(x, l) /\ Forward("A", l)
                            /\ IsData(l) /\ role' = role
      BY <1>7 DEF ReturnModule, Returns, IsData
    <2> QED
      BY <2>1, ForwardedLine DEF Role
  <1>8. CASE DropLine(x)
    <2>1. PICK l \in Line : HandleLine(x, l) /\ UNCHANGED <<role, writeQueue>>
      BY <1>8 DEF DropLine
    <2> QED
      BY <2>1, HandledLine DEF NothingMadeUp
  <1> QED
    BY <1>1, <1>2, <1>3, <1>4, <1>5, <1>6, <1>7, <1>8 DEF ServerStep, RunHandler

(***************************************************************************)
(* What the lines carry, in terms of the packets generated.                *)
(***************************************************************************)

Genuine(g, l) ==
    \E i \in DOMAIN g : \/ l = AccelLine(g[i].packet)
                        \/ l = ModuleLine(ModuleOf(g[i].packet))

\* What Node A writes on connection s, and Node B on its connections.
SentByA(g, s, l) ==
    \/ l = HelloLine("A")
    \/ \E i \in DOMAIN g : g[i].run = s /\ l = AccelLine(g[i].packet)

SentByB(g, s, l) ==
    \/ l = HelloLine("B")
    \/ /\ role[s] = "B"
       /\ \E i \in DOMAIN g : l = ModuleLine(ModuleOf(g[i].packet))

Clock(g) == \A i \in DOMAIN g : g[i].packet.timestamp = i

LogOK ==
    /\ log \in Seq(Module)
    /\ \A k \in DOMAIN log : \E i \in DOMAIN generated :
          log[k] = ModuleOf(generated[i].packet)

ComputingOK ==
    bState = "write" =>
        /\ role[bConn] = "B"
        /\ \E i \in DOMAIN generated : bPacket = generated[i].packet

LinesToClients ==
    \A s \in Session, l \in Line :
        Has(toClient[s], l) \/ Has(writeQueue[s], l) => Genuine(generated, l)

LinesOfA ==
    \A s \in ASession :
        /\ role[s] # "B"
        /\ \A l \in Line : Has(toServer[s], l) => SentByA(generated, s, l)

LinesOfB ==
    \A s \in BSession :
        /\ role[s] # "A"
        /\ \A l \in Line : Has(toServer[s], l) => SentByB(generated, s, l)

Content ==
    /\ Clock(generated)
    /\ LogOK
    /\ ComputingOK
    /\ LinesToClients
    /\ LinesOfA
    /\ LinesOfB

\* The fields of a line, for the provers.
LEMMA LineFields ==
    /\ \A r : HelloLine(r).type = "hello" /\ ~ IsData(HelloLine(r))
              /\ HelloLine(r).role = r
    /\ \A p : /\ AccelLine(p).type = "accel" /\ IsData(AccelLine(p))
              /\ AccelLine(p).packet = p /\ Stamp(AccelLine(p)) = p.timestamp
    /\ \A m : /\ ModuleLine(m).type = "module" /\ IsData(ModuleLine(m))
              /\ ModuleLine(m).module = m /\ Stamp(ModuleLine(m)) = m.timestamp
    /\ \A p : ModuleOf(p).timestamp = p.timestamp
  <1>1. /\ \A r : HelloLine(r).type = "hello" /\ HelloLine(r).role = r
        /\ \A p : AccelLine(p).type = "accel" /\ AccelLine(p).packet = p
        /\ \A m : ModuleLine(m).type = "module" /\ ModuleLine(m).module = m
    BY DEF HelloLine, AccelLine, ModuleLine
  <1>2. \A p : ModuleOf(p).timestamp = p.timestamp
    BY DEF ModuleOf
  <1> QED
    BY <1>1, <1>2 DEF IsData, Stamp

\* What can have been sent on a connection, by what it is.
LEMMA SentData ==
    ASSUME Content, NEW s \in Session, NEW l \in Line, Has(toServer[s], l)
    PROVE  /\ IsData(l) => Genuine(generated, l)
           /\ l.type = "accel" => s \in ASession
           /\ l.type = "module" => s \in BSession /\ role[s] = "B"
           /\ l = HelloLine("A") => s \in ASession
           /\ l = HelloLine("B") => s \in BSession
  <1>1. s \in ASession \/ s \in BSession
    BY SystemAssumption
  <1>2. CASE s \in ASession
    <2>1. SentByA(generated, s, l)
      BY <1>2 DEF Content, LinesOfA
    <2> QED
      BY <1>2, <2>1, LineFields DEF SentByA, Genuine
  <1>3. CASE s \in BSession
    <2>1. SentByB(generated, s, l)
      BY <1>3 DEF Content, LinesOfB
    <2> QED
      BY <1>3, <2>1, LineFields DEF SentByB, Genuine
  <1> QED
    BY <1>1, <1>2, <1>3

\* A step of the server keeps the content, by NothingMadeUp.
LEMMA ServerContent ==
    ASSUME SystemInv, Content, NothingMadeUp, UNCHANGED <<aVars, bVars, generated, log>>
    PROVE  Content'
  <1>1. /\ generated' = generated /\ log' = log
        /\ bState' = bState /\ bConn' = bConn /\ bPacket' = bPacket
    BY DEF aVars, bVars
  <1>2. LinesToClients'
    <2> SUFFICES ASSUME NEW s \in Session, NEW l \in Line,
                        Has(toClient'[s], l) \/ Has(writeQueue'[s], l)
                 PROVE  Genuine(generated, l)
      BY <1>1 DEF LinesToClients
    <2>1. \/ Has(toClient[s], l) \/ Has(writeQueue[s], l)
          \/ IsData(l) /\ \E x \in Session : Has(toServer[x], l)
      BY DEF NothingMadeUp
    <2> QED
      BY <2>1, SentData DEF Content, LinesToClients
  <1>3. \A s \in Session : \/ role'[s] = role[s]
                           \/ role[s] = NoRole /\ s \in ASession /\ role'[s] = "A"
                           \/ role[s] = NoRole /\ s \in BSession /\ role'[s] = "B"
    <2> SUFFICES ASSUME NEW s \in Session, role'[s] # role[s]
                 PROVE  \/ role[s] = NoRole /\ s \in ASession /\ role'[s] = "A"
                        \/ role[s] = NoRole /\ s \in BSession /\ role'[s] = "B"
      OBVIOUS
    <2>1. role[s] = NoRole /\ Has(toServer[s], HelloLine(role'[s]))
      BY DEF NothingMadeUp
    <2>2. CASE role'[s] \in Role
      <3>1. HelloLine(role'[s]) \in Line
        BY <2>2 DEF Line
      <3> QED
        BY <2>1, <2>2, <3>1, SentData DEF Role
    <2>3. CASE role'[s] \notin Role
      <3>1. toServer[s] \in Seq(Line)
        BY DEF SystemInv, IInv, TypeOK
      <3>2. HelloLine(role'[s]) \in Line
        BY <2>1, <3>1 DEF Has
      <3> QED
        BY <2>3, <3>2
           DEF Line, HelloLine, AccelLine, ModuleLine, InvalidLine
    <2> QED
      BY <2>2, <2>3, <2>1
  <1>4. LinesOfA'
    <2> SUFFICES ASSUME NEW s \in ASession
                 PROVE  /\ role'[s] # "B"
                        /\ \A l \in Line : Has(toServer'[s], l) =>
                                            SentByA(generated, s, l)
      BY <1>1 DEF LinesOfA
    <2>1. s \in Session /\ s \notin BSession
      BY SystemAssumption
    <2> QED
      BY <1>3, <2>1 DEF Content, LinesOfA, NothingMadeUp
  <1>5. LinesOfB'
    <2> SUFFICES ASSUME NEW s \in BSession
                 PROVE  /\ role'[s] # "A"
                        /\ \A l \in Line : Has(toServer'[s], l) =>
                                            SentByB(generated, s, l)'
      BY DEF LinesOfB
    <2>1. s \in Session /\ s \notin ASession
      BY SystemAssumption
    <2>2. role'[s] # "A" /\ (role[s] = "B" => role'[s] = "B")
      BY <1>3, <2>1 DEF Content, LinesOfB, NoRole
    <2>3. \A l \in Line : SentByB(generated, s, l) => SentByB(generated, s, l)'
      BY <1>1, <2>2 DEF SentByB
    <2> QED
      BY <2>1, <2>2, <2>3 DEF Content, LinesOfB, NothingMadeUp
  <1>6. ComputingOK'
    <2> SUFFICES ASSUME bState = "write" PROVE role'[bConn] = "B"
      BY <1>1 DEF Content, ComputingOK
    <2>1. bConn \in Session /\ role[bConn] = "B"
      BY SystemAssumption DEF SystemInv, NodesOK, Content, ComputingOK
    <2> QED
      BY <1>3, <2>1 DEF NoRole
  <1>7. Clock(generated)' /\ LogOK'
    BY <1>1 DEF Content, LogOK
  <1> QED
    BY <1>2, <1>4, <1>5, <1>6, <1>7 DEF Content

\* What a client does to the lines.
LEMMA ClientMakesLine ==
    ASSUME IInv, NEW x \in Session, NEW d \in Line,
           Connect(x) \/ ClientWrites(x, d) \/ ClientReads(x) \/ ClientCloses(x)
    PROVE  /\ UNCHANGED <<writeQueue, role>>
           /\ \A s \in Session, l \in Line :
                 /\ Has(toClient'[s], l) => Has(toClient[s], l)
                 /\ Has(toServer'[s], l) =>
                       Has(toServer[s], l) \/ (ClientWrites(x, d) /\ s = x /\ l = d)
  <1>0. toClient[x] \in Seq(Line) /\ toServer[x] \in Seq(Line)
    BY DEF IInv, TypeOK
  <1>1. CASE Connect(x)
    BY <1>1 DEF Connect, clientFrame, sessionVars
  <1>2. CASE ClientWrites(x, d)
    <2>1. /\ \A l : Has(Append(toServer[x], d), l) => Has(toServer[x], l) \/ l = d
      BY <1>0, HasAppend
    <2>2. \A s \in Session :
             \/ toServer'[s] = toServer[s]
             \/ s = x /\ toServer'[s] = Append(toServer[x], d)
      BY <1>2 DEF ClientWrites, IInv, TypeOK
    <2> QED
      BY <1>2, <2>1, <2>2 DEF ClientWrites, clientFrame, sessionVars
  <1>3. CASE ClientReads(x)
    <2>1. \A l : Has(Tail(toClient[x]), l) => Has(toClient[x], l)
      BY <1>0, <1>3, HasTail DEF ClientReads
    <2>2. \A s \in Session :
             toClient'[s] = IF s = x THEN Tail(toClient[x]) ELSE toClient[s]
      BY <1>3 DEF ClientReads, IInv, TypeOK
    <2> QED
      BY <1>3, <2>1, <2>2 DEF ClientReads, clientFrame, sessionVars
  <1>4. CASE ClientCloses(x)
    <2>1. \A s \in Session : toClient'[s] = IF s = x THEN <<>> ELSE toClient[s]
      BY <1>4 DEF ClientCloses, IInv, TypeOK
    <2> QED
      BY <1>4, <2>1, HasEmpty DEF ClientCloses, clientFrame, sessionVars
  <1> QED
    BY <1>1, <1>2, <1>3, <1>4

\* A step of a client keeps the content, if it writes what it should.
LEMMA ClientContent ==
    ASSUME SystemInv, Content,
           UNCHANGED <<writeQueue, role>>,
           \A s \in Session, l \in Line :
              /\ Has(toClient'[s], l) => Has(toClient[s], l)
              /\ Has(toServer'[s], l) =>
                    \/ Has(toServer[s], l)
                    \/ s \in ASession /\ SentByA(generated', s, l)
                    \/ s \in BSession /\ SentByB(generated, s, l),
           \A i \in DOMAIN generated :
              i \in DOMAIN generated' /\ generated'[i] = generated[i],
           Clock(generated'), LogOK', ComputingOK'
    PROVE  Content'
  <1>1. /\ \A l : Genuine(generated, l) => Genuine(generated', l)
        /\ \A s, l : SentByA(generated, s, l) => SentByA(generated', s, l)
        /\ \A s, l : SentByB(generated, s, l) => SentByB(generated, s, l)'
    BY DEF Genuine, SentByA, SentByB
  <1>2. LinesToClients'
    BY <1>1 DEF Content, LinesToClients
  <1>3. LinesOfA'
    <2> SUFFICES ASSUME NEW s \in ASession, NEW l \in Line, Has(toServer'[s], l)
                 PROVE  SentByA(generated', s, l)
      BY DEF Content, LinesOfA
    <2>1. s \in Session /\ s \notin BSession
      BY SystemAssumption
    <2> QED
      BY <1>1, <2>1 DEF Content, LinesOfA
  <1>4. LinesOfB'
    <2> SUFFICES ASSUME NEW s \in BSession, NEW l \in Line, Has(toServer'[s], l)
                 PROVE  SentByB(generated, s, l)'
      BY DEF Content, LinesOfB
    <2>1. s \in Session /\ s \notin ASession
      BY SystemAssumption
    <2> QED
      BY <1>1, <2>1 DEF Content, LinesOfB
  <1>5. Clock(generated)'
    OBVIOUS
  <1> QED
    BY <1>2, <1>3, <1>4, <1>5 DEF Content

\* The packet that Node A writes next, in the history that has it.
LEMMA NextGenerated ==
    ASSUME SystemInv, Content, AWritesPacket
    PROVE  /\ aConn \in ASession /\ NextPacket \in Packet
           /\ Len(generated) \in Nat
           /\ DOMAIN generated = 1..Len(generated)
           /\ DOMAIN generated' = 1..(Len(generated) + 1)
           /\ \A i \in DOMAIN generated : generated'[i] = generated[i]
           /\ generated'[Len(generated) + 1] = [run |-> aConn, packet |-> NextPacket]
           /\ NextPacket.timestamp = Len(generated) + 1
           /\ Clock(generated')
  <1> DEFINE e == [run |-> aConn, packet |-> NextPacket]
  <1>1. aConn \in ASession /\ generated \in Seq([run : ASession, packet : Packet])
        /\ Len(generated) \in Nat /\ aIndex \in Nat
    BY LenProperties DEF SystemInv, NodesOK, AWritesPacket
  <1>2. NextPacket \in Packet
    <2>1. Len(generated) + 1 \in 1..MaxClock /\ aIndex + 1 \in 1..Len(Signal)
      BY <1>1, SystemAssumption DEF AWritesPacket
    <2> QED
      BY <2>1, SystemAssumption DEF NextPacket
  <1>3. NextPacket.timestamp = Len(generated) + 1
    BY DEF NextPacket, Sample
  <1>4. generated' = Append(generated, e) /\ e \in [run : ASession, packet : Packet]
    BY <1>1, <1>2 DEF AWritesPacket
  <1>5. /\ DOMAIN generated = 1..Len(generated)
        /\ DOMAIN generated' = 1..(Len(generated) + 1)
        /\ \A i \in 1..Len(generated) : generated'[i] = generated[i]
        /\ generated'[Len(generated) + 1] = e
    BY <1>1, <1>4, AppendProperties
  <1>6. e.packet = NextPacket
    OBVIOUS
  <1>7. Clock(generated')
    <2> SUFFICES ASSUME NEW i \in 1..(Len(generated) + 1)
                 PROVE  generated'[i].packet.timestamp = i
      BY <1>5 DEF Clock
    <2>1. CASE i \in 1..Len(generated)
      BY <1>5, <2>1 DEF Content, Clock
    <2>2. CASE i = Len(generated) + 1
      BY <1>3, <1>5, <1>6, <2>2
    <2> QED
      BY <1>1, <2>1, <2>2
  <1> QED
    BY <1>1, <1>2, <1>3, <1>5, <1>7

\* The line that Node A reads is the module of a generated packet.
LEMMA ModuleRead ==
    ASSUME SystemInv, Content, NEW s \in ASession, toClient[s] # <<>>
    PROVE  \E i \in DOMAIN generated :
              Head(toClient[s]) = ModuleLine(ModuleOf(generated[i].packet))
  <1>1. s \in Session /\ toClient[s] \in Seq(Line)
    BY SystemAssumption DEF SystemInv, IInv, TypeOK
  <1>2. Head(toClient[s]) \in Line /\ Has(toClient[s], Head(toClient[s]))
    BY <1>1, HasTail
  <1>3. Genuine(generated, Head(toClient[s]))
    BY <1>1, <1>2 DEF Content, LinesToClients
  <1>4. Head(toClient[s]).type # "accel"
    <2>1. 1 \in DOMAIN toClient[s] /\ toClient[s][1] = Head(toClient[s])
      BY <1>1, HeadTailProperties
    <2>2. role[s] # "B"
      BY DEF Content, LinesOfA
    <2> QED
      BY <1>1, <2>1, <2>2 DEF SystemInv, IInv, RightRecipient
  <1> QED
    BY <1>3, <1>4, LineFields DEF Genuine

LEMMA LogGrows ==
    ASSUME SystemInv, Content, AReads
    PROVE  \E i \in DOMAIN generated :
              /\ Head(toClient[aConn]) = ModuleLine(ModuleOf(generated[i].packet))
              /\ log' = Append(log, ModuleOf(generated[i].packet))
              /\ ModuleOf(generated[i].packet) \in Module
              /\ LogOK'
  <1>1. aConn \in ASession /\ toClient[aConn] # <<>> /\ generated' = generated
    BY DEF AReads, ClientReads, SystemInv, NodesOK
  <1>2. PICK i \in DOMAIN generated :
           Head(toClient[aConn]) = ModuleLine(ModuleOf(generated[i].packet))
    BY <1>1, ModuleRead
  <1> DEFINE m == ModuleOf(generated[i].packet)
  <1>3. log' = Append(log, m)
    BY <1>2, LineFields DEF AReads
  <1>4. m \in Module
    <2>1. generated \in Seq([run : ASession, packet : Packet])
      BY DEF SystemInv, NodesOK
    <2>2. generated[i] \in [run : ASession, packet : Packet]
      BY <1>2, <2>1, ElementOfSeq, LenProperties
    <2> QED
      BY <2>2, SystemAssumption
  <1>5. LogOK'
    <2>1. log \in Seq(Module)
      BY DEF Content, LogOK
    <2> HIDE DEF m
    <2>2. /\ log' \in Seq(Module)
          /\ DOMAIN log' = 1..(Len(log) + 1) /\ DOMAIN log = 1..Len(log)
          /\ Len(log) \in Nat
          /\ \A k \in 1..Len(log) : log'[k] = log[k]
          /\ log'[Len(log) + 1] = m
      BY <1>3, <1>4, <2>1, AppendProperties
    <2>3. ASSUME NEW k \in 1..(Len(log) + 1)
          PROVE  \E j \in DOMAIN generated : log'[k] = ModuleOf(generated[j].packet)
      <3>1. CASE k \in 1..Len(log)
        BY <2>2, <3>1 DEF Content, LogOK
      <3>2. CASE k = Len(log) + 1
        BY <1>2, <2>2, <3>2 DEF m
      <3> QED
        BY <2>2, <3>1, <3>2
    <2> QED
      BY <1>1, <2>2, <2>3 DEF LogOK
  <1> QED
    BY <1>2, <1>3, <1>4, <1>5

LEMMA NodeAContent ==
    ASSUME SystemInv, Content, ANext
    PROVE  Content'
  <1> USE DEF SystemInv
  <1>0. ASession \subseteq Session /\ HelloLine("A") \in Line
    BY SystemAssumption DEF Line, Role
  <1>1. CASE AWritesPacket
    <2> DEFINE d == AccelLine(NextPacket)
    <2>1. /\ ClientWrites(aConn, d) /\ aConn \in Session /\ d \in Line
          /\ aConn \in ASession
          /\ UNCHANGED <<bVars, log>>
      BY <1>0, <1>1, NextGenerated DEF AWritesPacket, WriteJson, Line
    <2>2. SentByA(generated', aConn, d)
      <3>1. /\ Len(generated) + 1 \in DOMAIN generated'
            /\ generated'[Len(generated) + 1] = [run |-> aConn, packet |-> NextPacket]
        BY <1>1, NextGenerated
      <3> QED
        BY <3>1 DEF SentByA
    <2> HIDE DEF d
    <2>3. /\ UNCHANGED <<writeQueue, role>>
          /\ \A s \in Session, l \in Line :
                /\ Has(toClient'[s], l) => Has(toClient[s], l)
                /\ Has(toServer'[s], l) => Has(toServer[s], l) \/ (s = aConn /\ l = d)
      BY <2>1, ClientMakesLine
    <2>4. /\ \A i \in DOMAIN generated :
                i \in DOMAIN generated' /\ generated'[i] = generated[i]
          /\ Clock(generated')
      BY <1>1, NextGenerated
    <2>5. LogOK' /\ ComputingOK'
      BY <2>1, <2>3, <2>4 DEF Content, LogOK, ComputingOK, bVars
    <2> QED
      BY <2>1, <2>2, <2>3, <2>4, <2>5, ClientContent
  <1>2. CASE AReads
    <2>1. /\ ClientReads(aConn) /\ aConn \in Session
          /\ UNCHANGED <<bVars, generated>>
      BY <1>0, <1>2 DEF AReads, NodesOK
    <2>2. /\ UNCHANGED <<writeQueue, role>>
          /\ \A s \in Session, l \in Line :
                /\ Has(toClient'[s], l) => Has(toClient[s], l)
                /\ Has(toServer'[s], l) => Has(toServer[s], l)
      <3>1. toServer' = toServer
        BY <2>1 DEF ClientReads
      <3> QED
        BY <1>0, <2>1, <3>1, ClientMakesLine
    <2>3. Clock(generated') /\ LogOK' /\ ComputingOK'
      BY <1>2, <2>1, <2>2, LogGrows DEF Content, ComputingOK, bVars
    <2> QED
      BY <2>1, <2>2, <2>3, ClientContent
  <1>3. CASE AStarts \/ AWritesHello \/ ACloses \/ AIsKilled
    <2>1. UNCHANGED <<bVars, generated, log>>
      BY <1>3 DEF AStarts, AWritesHello, ACloses, AIsKilled
    <2>2. \E x \in ASession : \/ Connect(x) \/ ClientWrites(x, HelloLine("A"))
                              \/ ClientCloses(x)
      BY <1>3 DEF AStarts, AWritesHello, ACloses, AIsKilled, WriteJson, NodesOK
    <2>3. /\ UNCHANGED <<writeQueue, role>>
          /\ \A s \in Session, l \in Line :
                /\ Has(toClient'[s], l) => Has(toClient[s], l)
                /\ Has(toServer'[s], l) =>
                      Has(toServer[s], l) \/ (s \in ASession /\ l = HelloLine("A"))
      BY <1>0, <2>2, ClientMakesLine
    <2>4. Clock(generated') /\ LogOK' /\ ComputingOK'
      BY <2>1, <2>3 DEF Content, LogOK, ComputingOK, bVars
    <2>5. \A s, l : l = HelloLine("A") => SentByA(generated', s, l)
      BY DEF SentByA
    <2> QED
      BY <2>1, <2>3, <2>4, <2>5, ClientContent
  <1>4. CASE AFailsToWrite \/ AJoins \/ AOpensLog \/ AChecks \/ AFailsToRead
    <2>1. UNCHANGED <<vars, bVars, generated, log>>
      BY <1>4 DEF AFailsToWrite, AJoins, AOpensLog, AChecks, AFailsToRead
    <2> QED
      BY <2>1 DEF Content, Clock, LogOK, ComputingOK, LinesToClients, LinesOfA,
                  LinesOfB, SentByB, vars, tcpVars, sessionVars, bVars
  <1> QED
    BY <1>1, <1>2, <1>3, <1>4 DEF ANext

\* Node B computes from a packet that Node A generated, on a connection that
\* is registered: nothing else is ever sent to it.
LEMMA NodeBContent ==
    ASSUME SystemInv, Content, BNext
    PROVE  Content'
  <1> USE DEF SystemInv
  <1>0. BSession \subseteq Session /\ HelloLine("B") \in Line
    BY SystemAssumption DEF Line, Role
  <1>1. UNCHANGED <<generated, log>> /\ Clock(generated') /\ LogOK'
    <2>1. UNCHANGED <<generated, log>>
      BY DEF BNext, BStarts, BWritesHello, BReads, BWrites, BIsKilled
    <2> QED
      BY <2>1 DEF Content, LogOK
  <1>2. ASSUME NEW x \in BSession, NEW d \in Line,
               Connect(x) \/ ClientWrites(x, d) \/ ClientReads(x) \/ ClientCloses(x),
               ClientWrites(x, d) => SentByB(generated, x, d),
               ComputingOK'
        PROVE  Content'
    <2>1. /\ UNCHANGED <<writeQueue, role>>
          /\ \A s \in Session, l \in Line :
                /\ Has(toClient'[s], l) => Has(toClient[s], l)
                /\ Has(toServer'[s], l) =>
                      Has(toServer[s], l) \/ (ClientWrites(x, d) /\ s = x /\ l = d)
      BY <1>0, <1>2, ClientMakesLine
    <2> QED
      BY <1>1, <1>2, <2>1, ClientContent
  <1>3. \A s : SentByB(generated, s, HelloLine("B"))
    BY DEF SentByB
  <1>4. ASSUME bState # "down", BExits PROVE Content'
    <2>1. ComputingOK' /\ ClientCloses(bConn)
      BY <1>4 DEF BExits, ComputingOK
    <2>2. bConn \in BSession
      BY <1>4 DEF NodesOK
    <2> QED
      BY <1>0, <1>2, <1>3, <2>1, <2>2
  <1>5. CASE BStarts
    <2>1. PICK x \in BSession : Connect(x)
      BY <1>5 DEF BStarts
    <2>2. ComputingOK'
      BY <1>5 DEF BStarts, ComputingOK
    <2> QED
      BY <1>0, <1>2, <1>3, <2>1, <2>2
  <1>6. CASE bState = "hello" /\ WriteJson(bConn, HelloLine("B")) /\ bState' = "read"
    <2>1. ComputingOK' /\ bConn \in BSession
      BY <1>6 DEF ComputingOK, NodesOK
    <2> QED
      BY <1>0, <1>2, <1>3, <1>6, <2>1 DEF WriteJson
  <1>7. CASE bState = "read" /\ ClientReads(bConn) /\ BReads /\ UNCHANGED bConn
    <2>1. bConn \in BSession /\ toClient[bConn] # <<>> /\ toClient[bConn] \in Seq(Line)
      BY <1>0, <1>7 DEF NodesOK, ClientReads, IInv, TypeOK
    <2>2. ComputingOK'
      <3> SUFFICES ASSUME bState' = "write"
                   PROVE  /\ role[bConn] = "B"
                          /\ \E i \in DOMAIN generated : bPacket' = generated[i].packet
        BY <1>1, <1>7 DEF ComputingOK, ClientReads, clientFrame, sessionVars
      <3> DEFINE l == Head(toClient[bConn])
      <3>1. l.type = "accel" /\ bPacket' = l.packet
        BY <1>7 DEF BReads, BExits
      <3>2. l \in Line /\ Has(toClient[bConn], l)
        BY <2>1, HasTail
      <3>3. Genuine(generated, l)
        BY <1>0, <2>1, <3>2 DEF Content, LinesToClients
      <3>4. 1 \in DOMAIN toClient[bConn] /\ toClient[bConn][1] = l
        BY <2>1, HeadTailProperties
      <3>5. role[bConn] = "B"
        BY <1>0, <2>1, <3>1, <3>4 DEF IInv, RightRecipient
      <3> HIDE DEF l
      <3> QED
        BY <3>1, <3>3, <3>5, LineFields DEF Genuine
    <2> QED
      BY <1>0, <1>2, <1>3, <1>7, <2>1, <2>2
  <1>8. CASE /\ bState = "write" /\ bState' = "read"
             /\ WriteJson(bConn, ModuleLine(ModuleOf(bPacket)))
    <2>1. ComputingOK' /\ bConn \in BSession /\ bPacket \in Packet
      BY <1>8 DEF ComputingOK, NodesOK
    <2>2. ModuleLine(ModuleOf(bPacket)) \in Line
      BY <2>1, SystemAssumption DEF Line
    <2>3. SentByB(generated, bConn, ModuleLine(ModuleOf(bPacket)))
      BY <1>8 DEF Content, ComputingOK, SentByB
    <2> QED
      BY <1>2, <1>8, <2>1, <2>2, <2>3 DEF WriteJson
  <1> QED
    BY <1>4, <1>5, <1>6, <1>7, <1>8
       DEF BNext, BWritesHello, BReads, BWrites, BIsKilled

------------------------------------------------------------------------------
(***************************************************************************)
(* The pipeline of a run s of Node A: the queues that lead from what it    *)
(* writes on its connection to the log, the log first.  Several runs have  *)
(* an entrance, their connection; the other stages are shared, and are the *)
(* pipeline of no run, Pipe(NoSession).  A session that is no longer the   *)
(* current one of a node leads nowhere, so its queues are not in the       *)
(* pipeline, except for the late line of a closed session of Node B, which *)
(* may still be forwarded.                                                 *)
(***************************************************************************)
At(q, c) == IF c \in Session THEN q[c] ELSE <<>>

\* The lines of writeQueue[c] that the kernel has not taken.
Unsent(c) == IF wr[c] = "done" THEN Tail(writeQueue[c]) ELSE writeQueue[c]

Pick(S) == CHOOSE s \in S : TRUE

LateSessions == {s \in Session : HasLateLine(s) /\ role[s] = "B"}

LogLines  == [k \in DOMAIN log |-> ModuleLine(log[k])]
AtA       == At(toClient, aConn)
ToA       == IF aConn \in Session THEN Unsent(aConn) ELSE <<>>
LateQueue == IF LateSessions = {} THEN <<>>
             ELSE <<Head(toServer[Pick(LateSessions)])>>
FromB     == At(toServer, node["B"])
Computing == IF bState = "write" THEN <<AccelLine(bPacket)>> ELSE <<>>
AtB       == At(toClient, bConn)
ToB       == IF bConn \in Session THEN Unsent(bConn) ELSE <<>>

Shared == <<LogLines, AtA, ToA, LateQueue, FromB, Computing, AtB, ToB>>

Pipe(s) == [k \in Stage |-> IF k = 9 THEN At(toServer, s) ELSE Shared[k]]

Entrance == ASession \cup {NoSession}

\* Packet p is in the shared stages: on its way or in the log.
OnTheWay(p) == \E k \in 1..8 : Carries(Shared[k], p)

\* A step keeps every order that a pipeline is in, and no packet enters the
\* shared stages.
PipeKept ==
    /\ \A R : \A s \in Entrance : Sorted(R, Pipe(s)) => Sorted(R, Pipe(s)')
    /\ \A p : OnTheWay(p)' => OnTheWay(p)

\* The first line of connection x of Node A enters the shared stages.
Enters(x) ==
    /\ x \in ASession
    /\ toServer[x] \in Seq(Line) /\ toServer[x] # <<>>
    /\ toServer'[x] = Tail(toServer[x])
    /\ \A s \in Session : s # x => toServer'[s] = toServer[s]
    /\ Shared'[8] = Append(Shared[8], Head(toServer[x]))
    /\ \A k \in 1..7 : Thins(Shared'[k], Shared[k])

LEMMA SharedStages ==
    /\ Shared[1] = LogLines /\ Shared[2] = AtA /\ Shared[3] = ToA
    /\ Shared[4] = LateQueue /\ Shared[5] = FromB /\ Shared[6] = Computing
    /\ Shared[7] = AtB /\ Shared[8] = ToB
    /\ Shared'[1] = LogLines' /\ Shared'[2] = AtA' /\ Shared'[3] = ToA'
    /\ Shared'[4] = LateQueue' /\ Shared'[5] = FromB' /\ Shared'[6] = Computing'
    /\ Shared'[7] = AtB' /\ Shared'[8] = ToB'
  BY DEF Shared

LEMMA StageNumbers ==
    /\ Stage = 1..8 \cup {9} /\ 9 \in Stage
    /\ \A k \in 1..8 : k \in Stage /\ k < 9 /\ k # 9
    /\ \A k \in Stage : k > 8 => k = 9
  BY DEF Stage

LEMMA PipeShares ==
    ASSUME NEW s, NEW k \in 1..8
    PROVE  Pipe(s)[k] = Shared[k] /\ Pipe(s)'[k] = Shared'[k]
  BY StageNumbers DEF Pipe

LEMMA PipeEntrance ==
    ASSUME NEW s
    PROVE  /\ s \in ASession =>
                 Pipe(s)[9] = toServer[s] /\ Pipe(s)'[9] = toServer'[s]
           /\ s = NoSession => Pipe(s)[9] = <<>> /\ Pipe(s)'[9] = <<>>
  BY StageNumbers, SystemAssumption, ServerAssumption DEF Pipe, At

LEMMA PipeTypes ==
    ASSUME SystemInv, Content
    PROVE  /\ \A k \in 1..8 : Shared[k] \in Seq(Line)
           /\ \A s \in Session : toServer[s] \in Seq(Line)
           /\ \A c \in Session : Unsent(c) \in Seq(Line)
  <1> USE DEF SystemInv
  <1>1. \A s \in Session : /\ toServer[s] \in Seq(Line) /\ toClient[s] \in Seq(Line)
                           /\ writeQueue[s] \in Seq(Line)
                           /\ wr[s] # "none" => writeQueue[s] # <<>>
                           /\ rd[s] = "done" => toServer[s] # <<>>
    BY DEF IInv, TypeOK, SessionLifecycle
  <1>2. \A c \in Session : Unsent(c) \in Seq(Line)
    BY <1>1, HasTail DEF Unsent
  <1>3. <<>> \in Seq(Line) /\ (\A l \in Line : <<l>> \in Seq(Line))
    OBVIOUS
  <1>4. LogLines \in Seq(Line)
    <2>1. log \in Seq(Module) /\ DOMAIN log = 1..Len(log) /\ Len(log) \in Nat
      BY LenProperties DEF Content, LogOK
    <2>2. \A k \in 1..Len(log) : ModuleLine(log[k]) \in Line
      BY <2>1 DEF Line
    <2>3. LogLines \in [1..Len(log) -> Line]
      BY <2>1, <2>2 DEF LogLines
    <2> HIDE DEF Line
    <2> QED
      BY <2>1, <2>3, SeqDef
  <1>5. LateQueue \in Seq(Line)
    <2>1. ASSUME LateSessions # {}
          PROVE  Head(toServer[Pick(LateSessions)]) \in Line
      <3>1. Pick(LateSessions) \in LateSessions
        BY <2>1 DEF Pick
      <3> QED
        BY <1>1, <3>1, HasTail DEF LateSessions, HasLateLine
    <2> QED
      BY <1>3, <2>1 DEF LateQueue
  <1>6. Computing \in Seq(Line)
    <2>1. bState = "write" => AccelLine(bPacket) \in Line
      BY DEF NodesOK, Line
    <2> QED
      BY <1>3, <2>1 DEF Computing
  <1>7. /\ AtA \in Seq(Line) /\ ToA \in Seq(Line) /\ FromB \in Seq(Line)
        /\ AtB \in Seq(Line) /\ ToB \in Seq(Line)
    <2> HIDE DEF Line, SystemInv
    <2>1. \A c : /\ At(toClient, c) \in Seq(Line)
                 /\ At(toServer, c) \in Seq(Line)
      BY <1>1, <1>3 DEF At
    <2>2. ToA \in Seq(Line) /\ ToB \in Seq(Line)
      BY <1>2, <1>3 DEF ToA, ToB
    <2> QED
      BY <2>1, <2>2 DEF AtA, FromB, AtB
  <1>8. \A k \in 1..8 : Shared[k] \in Seq(Line)
    BY <1>4, <1>5, <1>6, <1>7, SharedStages
  <1> QED
    BY <1>1, <1>2, <1>8

\* The entrance of a pipeline is a queue that no other step changes.
LEMMA EntranceThins ==
    ASSUME \A s \in ASession : Thins(toServer'[s], toServer[s]), NEW s \in Entrance
    PROVE  Thins(Pipe(s)'[9], Pipe(s)[9])
  BY PipeEntrance, ThinsSelf DEF Entrance

\* Steps that only lose lines, or move them within the system.
LEMMA PipeShrinks ==
    ASSUME \A k \in 1..8 : Thins(Shared'[k], Shared[k]),
           \A s \in ASession : Thins(toServer'[s], toServer[s])
    PROVE  PipeKept
  <1>1. ASSUME NEW R, NEW s \in Entrance, Sorted(R, Pipe(s))
        PROVE  Sorted(R, Pipe(s)')
    <2>1. \A k \in Stage : Thins(Pipe(s)'[k], Pipe(s)[k])
      BY PipeShares, EntranceThins, StageNumbers
    <2> QED
      BY <1>1, <2>1, SortedThins
  <1>2. ASSUME NEW p, OnTheWay(p)' PROVE OnTheWay(p)
    BY <1>2, CarriesThins DEF OnTheWay
  <1> QED
    BY <1>1, <1>2 DEF PipeKept

LEMMA PipeMovesAs ==
    ASSUME SystemInv, Content,
           NEW m \in 1..8, NEW n \in 1..8, m < n,
           Shared[n] # <<>>,
           NEW l \in Line, SamePacket(l, Head(Shared[n])),
           Shared'[m] = Append(Shared[m], l),
           Thins(Shared'[n], Tail(Shared[n])),
           \A k \in 1..8 : k # m /\ k # n => Thins(Shared'[k], Shared[k]),
           \A k \in 1..8 : m < k /\ k < n => NoData(Shared'[k]),
           \A s \in ASession : Thins(toServer'[s], toServer[s])
    PROVE  PipeKept
  <1>1. Shared[m] \in Seq(Line) /\ Shared[n] \in Seq(Line)
    BY PipeTypes
  <1>2. Thins(Shared'[n], Shared[n])
    <2>1. Thins(Tail(Shared[n]), Shared[n])
      BY <1>1, ThinsTail
    <2> QED
      BY <2>1, ThinsTransitive
  <1>3. ASSUME NEW R, NEW s \in Entrance, Sorted(R, Pipe(s))
        PROVE  Sorted(R, Pipe(s)')
    <2> DEFINE P == Pipe(s)
               Q == Pipe(s)'
    <2>1. Sorted(R, P) /\ m \in Stage /\ n \in Stage
      BY <1>3, StageNumbers
    <2>2. /\ P[m] \in Seq(Line) /\ P[n] \in Seq(Line) /\ P[n] # <<>>
          /\ Q[m] = Append(P[m], l) /\ SamePacket(l, Head(P[n]))
          /\ Thins(Q[n], Tail(P[n]))
      <3>1. /\ P[m] = Shared[m] /\ P[n] = Shared[n]
            /\ Q[m] = Shared'[m] /\ Q[n] = Shared'[n]
        BY PipeShares
      <3> HIDE DEF P, Q
      <3> QED
        BY <1>1, <3>1
    <2>3. \A k \in Stage : m < k /\ k < n => NoData(Q[k])
      <3> SUFFICES ASSUME NEW k \in Stage, m < k, k < n PROVE NoData(Q[k])
        OBVIOUS
      <3>1. k \in 1..8
        BY DEF Stage
      <3> QED
        BY <3>1, PipeShares
    <2>4. \A k \in Stage : k # m => Thins(Q[k], P[k])
      <3> SUFFICES ASSUME NEW k \in Stage, k # m PROVE Thins(Q[k], P[k])
        OBVIOUS
      <3>1. CASE k = n
        BY <1>2, <3>1, PipeShares
      <3>2. CASE k \in 1..8 /\ k # n
        BY <3>2, PipeShares
      <3>3. CASE k = 9
        BY <3>3, EntranceThins
      <3> QED
        BY <3>1, <3>2, <3>3, StageNumbers
    <2> HIDE DEF P, Q
    <2>5. Sorted(R, Q)
      BY <2>1, <2>2, <2>3, <2>4, SortedMove
    <2> QED
      BY <2>5 DEF Q
  <1>4. ASSUME NEW p, OnTheWay(p)' PROVE OnTheWay(p)
    <2>1. PICK k \in 1..8 : Carries(Shared'[k], p)
      BY <1>4 DEF OnTheWay
    <2>2. CASE k = m
      <3>1. Carries(Shared[m], p) \/ (IsData(l) /\ Stamp(l) = p)
        BY <1>1, <2>1, <2>2, CarriesAppend
      <3>2. CASE IsData(l) /\ Stamp(l) = p
        BY <1>1, <3>2, CarriesHead DEF OnTheWay, SamePacket
      <3> QED
        BY <3>1, <3>2 DEF OnTheWay
    <2>3. CASE k # m
      BY <1>2, <2>1, <2>3, CarriesThins DEF OnTheWay
    <2> QED
      BY <2>2, <2>3
  <1> QED
    BY <1>3, <1>4 DEF PipeKept

LEMMA PipeMoves ==
    ASSUME generated' = generated, SystemInv, Content,
           NEW m \in 1..8, NEW n \in 1..8, m < n,
           Shared[n] # <<>>,
           Shared'[m] = Append(Shared[m], Head(Shared[n])),
           Thins(Shared'[n], Tail(Shared[n])),
           \A k \in 1..8 : k # m /\ k # n => Thins(Shared'[k], Shared[k]),
           \A k \in 1..8 : m < k /\ k < n => NoData(Shared'[k]),
           \A s \in ASession : Thins(toServer'[s], toServer[s])
    PROVE  PipeKept
  <1>1. Head(Shared[n]) \in Line
    BY PipeTypes, HasTail
  <1>2. SamePacket(Head(Shared[n]), Head(Shared[n]))
    BY DEF SamePacket
  <1> QED
    BY <1>1, <1>2, PipeMovesAs

------------------------------------------------------------------------------
(* The steps of the server.                                                *)

LEMMA LateQueueKept ==
    ASSUME \A s \in Session : s \in LateSessions' <=> s \in LateSessions,
           \A s \in LateSessions : toServer'[s] = toServer[s]
    PROVE  LateQueue' = LateQueue
  <1>1. LateSessions' = LateSessions
    BY DEF LateSessions
  <1>2. CASE LateSessions = {}
    BY <1>1, <1>2 DEF LateQueue
  <1>3. CASE LateSessions # {}
    <2>1. Pick(LateSessions) \in LateSessions
      BY <1>3 DEF Pick
    <2>2. Pick(LateSessions)' = Pick(LateSessions)
      BY <1>1
    <2> QED
      BY <1>1, <1>3, <2>1, <2>2 DEF LateQueue
  <1> QED
    BY <1>2, <1>3

LEMMA NodeQueues ==
    ASSUME aConn' = aConn, bConn' = bConn,
           \A c \in Session : Thins(Unsent(c)', Unsent(c))
    PROVE  Thins(ToA', ToA) /\ Thins(ToB', ToB)
  <1>1. aConn' = aConn /\ bConn' = bConn
    OBVIOUS
  <1>2. Thins(ToA', ToA)
    <2>1. CASE aConn \in Session
      <3>1. ToA = Unsent(aConn) /\ ToA' = Unsent(aConn)'
        BY <1>1, <2>1 DEF ToA
      <3>2. \A c \in Session : c = aConn => Unsent(aConn)' = Unsent(c)'
        BY <1>1 DEF Unsent
      <3> QED
        BY <2>1, <3>1, <3>2
    <2>2. CASE aConn \notin Session
      BY <1>1, <2>2, ThinsSelf DEF ToA
    <2> QED
      BY <2>1, <2>2
  <1>3. Thins(ToB', ToB)
    <2>1. CASE bConn \in Session
      <3>1. ToB = Unsent(bConn) /\ ToB' = Unsent(bConn)'
        BY <1>1, <2>1 DEF ToB
      <3>2. \A c \in Session : c = bConn => Unsent(bConn)' = Unsent(c)'
        BY <1>1 DEF Unsent
      <3> QED
        BY <2>1, <3>1, <3>2
    <2>2. CASE bConn \notin Session
      BY <1>1, <2>2, ThinsSelf DEF ToB
    <2> QED
      BY <2>1, <2>2
  <1> QED
    BY <1>2, <1>3

LEMMA ServerShrinks ==
    ASSUME UNCHANGED <<aVars, bVars, generated, log>>,
           \A c \in Session : /\ Thins(toClient'[c], toClient[c])
                              /\ Thins(Unsent(c)', Unsent(c)),
           Thins(LateQueue', LateQueue),
           Thins(FromB', FromB),
           \A s \in ASession : Thins(toServer'[s], toServer[s])
    PROVE  PipeKept
  <1>1. /\ generated' = generated /\ log' = log /\ aConn' = aConn
        /\ bState' = bState /\ bConn' = bConn /\ bPacket' = bPacket
    BY DEF aVars, bVars
  <1>2. Thins(LogLines', LogLines) /\ Thins(Computing', Computing)
    BY <1>1, ThinsSelf DEF LogLines, Computing
  <1>3. Thins(AtA', AtA) /\ Thins(AtB', AtB)
    BY <1>1, ThinsSelf DEF AtA, AtB, At
  <1>4. Thins(ToA', ToA) /\ Thins(ToB', ToB)
    BY <1>1, NodeQueues
  <1>6. \A k \in 1..8 : Thins(Shared'[k], Shared[k])
    BY <1>2, <1>3, <1>4, SharedStages
  <1> QED
    BY <1>1, <1>6, PipeShrinks

\* Steps that leave the connections and the sessions alone.
LEMMA StillPipe ==
    ASSUME UNCHANGED <<aVars, bVars, generated, log>>,
           UNCHANGED <<toServer, toClient, state, rd, role, writeQueue, wr, node>>
    PROVE  PipeKept
  <1>1. /\ \A s \in Session : s \in LateSessions' <=> s \in LateSessions
        /\ \A s \in LateSessions : toServer'[s] = toServer[s]
    BY DEF LateSessions, HasLateLine
  <1>2. LateQueue' = LateQueue
    BY <1>1, LateQueueKept
  <1>3. \A c \in Session : Unsent(c)' = Unsent(c)
    BY DEF Unsent
  <1>4. FromB' = FromB
    BY DEF FromB
  <1> QED
    BY <1>2, <1>3, <1>4, ThinsSelf, ServerShrinks

\* Completions other than a write's, the successful write and the failed read
\* leave the lines where they are.
LEMMA QuietPipe ==
    ASSUME SystemInv,
           UNCHANGED <<aVars, bVars, generated, log>>, NEW x \in Session,
           \/ AcceptCompletes(x) \/ ReadCompletes(x) \/ StartSession(x)
           \/ ReadFails(x) \/ WriteSucceeds(x)
    PROVE  PipeKept
  <1> USE DEF SystemInv
  <1>1. toClient' = toClient /\ toServer' = toServer /\ role' = role
    BY DEF AcceptCompletes, ReadCompletes, StartSession, ReadFails,
           WriteSucceeds, tcpVars
  <1>2. \A c \in Session : Unsent(c)' = Unsent(c)
    <2>1. CASE UNCHANGED <<writeQueue, wr>>
      BY <2>1 DEF Unsent
    <2>2. CASE ReadFails(x)
      BY <2>2 DEF ReadFails, Unsent, Cancelled, IInv, TypeOK
    <2>3. CASE WriteSucceeds(x)
      BY <2>3 DEF WriteSucceeds, Unsent, IInv, TypeOK
    <2> QED
      BY <2>1, <2>2, <2>3
         DEF AcceptCompletes, ReadCompletes, StartSession
  <1>3. \A s \in Session : s \in LateSessions' <=> s \in LateSessions
    <2>1. CASE UNCHANGED <<state, rd>>
      BY <1>1, <2>1 DEF LateSessions, HasLateLine
    <2>2. CASE AcceptCompletes(x)
      BY <1>1, <2>2 DEF AcceptCompletes, LateSessions, HasLateLine, IInv, TypeOK
    <2>3. CASE ReadCompletes(x)
      BY <1>1, <2>3 DEF ReadCompletes, LateSessions, HasLateLine, IInv, TypeOK,
                        SessionLifecycle
    <2>4. CASE StartSession(x)
      <3>1. state[x] = "accepting"
        <4>1. ready \in Seq(Completions) /\ IsInjective(ready)
              /\ Handler("accept", x) /\ ready' = Tail(ready)
          BY <2>4 DEF IInv, TypeOK, HandlersMatchOperations, StartSession
        <4> QED
          BY <4>1, HandlerTakes DEF IInv, HandlersMatchOperations
      <3> QED
        BY <1>1, <2>4, <3>1 DEF StartSession, LateSessions, HasLateLine, IInv, TypeOK
    <2>5. CASE ReadFails(x)
      BY <1>1, <2>5 DEF ReadFails, Close, LateSessions, HasLateLine, IInv, TypeOK
    <2> QED
      BY <2>1, <2>2, <2>3, <2>4, <2>5 DEF WriteSucceeds
  <1>4. LateQueue' = LateQueue
    BY <1>1, <1>3, LateQueueKept
  <1>5. Thins(FromB', FromB)
    <2>1. node'["B"] \in {node["B"], NoSession}
      <3>1. CASE node' = node
        BY <3>1
      <3>2. CASE ReadFails(x)
        <4>1. Close(x, "write", wr[x]) /\ Alive(x)
          BY <3>2 DEF ReadFails, Alive
        <4> QED
          BY <1>1, <4>1, CloseKeepsRegistry DEF Role
      <3> QED
        BY <3>1, <3>2 DEF AcceptCompletes, ReadCompletes, StartSession,
                          WriteSucceeds
    <2>2. FromB' = FromB \/ FromB' = <<>>
      BY <1>1, <2>1, SystemAssumption, ServerAssumption DEF FromB, At
    <2> QED
      BY <2>2, ThinsSelf, ThinsNoData, EmptyHasNoData
  <1> QED
    BY <1>1, <1>2, <1>4, <1>5, ThinsSelf, ServerShrinks

\* The process ends: only the sockets of the clients keep lines.
LEMMA ServerExitsPipe ==
    ASSUME SystemInv, UNCHANGED <<aVars, bVars, generated, log>>, ServerExits
    PROVE  PipeKept
  <1>1. toClient' = toClient /\ toServer' = toServer
    BY DEF ServerExits, tcpVars
  <1>2. \A c \in Session : Unsent(c)' = <<>>
    BY DEF ServerExits, Unsent
  <1>3. LateQueue' = <<>>
    <2>1. LateSessions' = {}
      BY DEF ServerExits, LateSessions, HasLateLine
    <2> QED
      BY <2>1 DEF LateQueue
  <1>4. FromB' = <<>>
    BY ServerAssumption DEF ServerExits, FromB, At, Role
  <1>5. \A q : Thins(<<>>, q)
    BY ThinsNoData, EmptyHasNoData
  <1> QED
    BY <1>1, <1>2, <1>3, <1>4, <1>5, ThinsSelf, ServerShrinks

\* The kernel takes a line from the session of the current run of a node: the
\* line moves to the node's socket.
LEMMA WriteCompletesPipe ==
    ASSUME SystemInv, Content, UNCHANGED <<aVars, bVars, generated, log>>,
           NEW x \in Session, WriteCompletes(x)
    PROVE  PipeKept
  <1> USE DEF SystemInv
  <1>1. /\ generated' = generated /\ log' = log /\ aConn' = aConn
        /\ bState' = bState /\ bConn' = bConn /\ bPacket' = bPacket
    BY DEF aVars, bVars
  <1>2. /\ toServer' = toServer /\ node' = node /\ writeQueue' = writeQueue
        /\ UNCHANGED <<state, rd, role>>
        /\ wr[x] = "pending"
        /\ writeQueue[x] \in Seq(Line) /\ writeQueue[x] # <<>>
        /\ wr'[x] \in {"done", "failed"}
        /\ \A c \in Session : c # x => wr'[c] = wr[c] /\ toClient'[c] = toClient[c]
    BY DEF WriteCompletes, IInv, TypeOK, SessionLifecycle
  <1>3. LogLines' = LogLines /\ Computing' = Computing /\ FromB' = FromB
    BY <1>1, <1>2 DEF LogLines, Computing, FromB
  <1>4. LateQueue' = LateQueue
    <2>1. \A s \in Session : s \in LateSessions' <=> s \in LateSessions
      BY <1>2 DEF LateSessions, HasLateLine
    <2> QED
      BY <1>2, <2>1, LateQueueKept
  <1>5. /\ \A c \in Session : c # x => Unsent(c)' = Unsent(c)
        /\ Unsent(x) = writeQueue[x]
        /\ Unsent(x)' = IF wr'[x] = "done" THEN Tail(writeQueue[x]) ELSE writeQueue[x]
    BY <1>2 DEF Unsent
  <1>6. Thins(Unsent(x)', Unsent(x))
    BY <1>2, <1>5, ThinsTail, ThinsSelf
  <1>7. CASE toClient' = toClient
    BY <1>2, <1>3, <1>4, <1>5, <1>6, <1>7, ThinsSelf, ServerShrinks
  <1>8. CASE /\ toClient' = [toClient EXCEPT ![x] = Append(@, Head(writeQueue[x]))]
             /\ wr'[x] = "done"
    <2>1. /\ toClient'[x] = Append(toClient[x], Head(writeQueue[x]))
          /\ Unsent(x)' = Tail(writeQueue[x])
      BY <1>5, <1>8 DEF IInv, TypeOK
    <2>2. aConn = x => /\ AtA' = Append(AtA, Head(ToA)) /\ ToA' = Tail(ToA)
                       /\ ToA # <<>>
      BY <1>1, <1>2, <1>5, <2>1 DEF AtA, ToA, At, Unsent
    <2>3. bConn = x => /\ AtB' = Append(AtB, Head(ToB)) /\ ToB' = Tail(ToB)
                       /\ ToB # <<>>
      BY <1>1, <1>2, <1>5, <2>1 DEF AtB, ToB, At, Unsent
    <2>4. aConn # x => AtA' = AtA /\ ToA' = ToA
      BY <1>1, <1>2 DEF AtA, ToA, At, Unsent
    <2>5. bConn # x => AtB' = AtB /\ ToB' = ToB
      BY <1>1, <1>2 DEF AtB, ToB, At, Unsent
    <2>6. CASE aConn = x /\ bConn # x
      <3>1. /\ 2 \in 1..8 /\ 3 \in 1..8 /\ 2 < 3
            /\ Shared[3] # <<>>
            /\ Shared'[2] = Append(Shared[2], Head(Shared[3]))
            /\ Shared'[3] = Tail(Shared[3])
        BY <2>2, <2>6, SharedStages
      <3>2. \A k \in 1..8 : k # 2 /\ k # 3 => Thins(Shared'[k], Shared[k])
        BY <1>3, <1>4, <2>5, <2>6, SharedStages, ThinsSelf
      <3>3. /\ Thins(Shared'[3], Tail(Shared[3]))
            /\ \A k \in 1..8 : 2 < k /\ k < 3 => NoData(Shared'[k])
            /\ \A s \in ASession : Thins(toServer'[s], toServer[s])
        BY <1>2, <3>1, ThinsSelf
      <3> QED
        BY <1>1, <3>1, <3>2, <3>3, PipeMoves
    <2>7. CASE bConn = x /\ aConn # x
      <3>1. /\ 7 \in 1..8 /\ 8 \in 1..8 /\ 7 < 8
            /\ Shared[8] # <<>>
            /\ Shared'[7] = Append(Shared[7], Head(Shared[8]))
            /\ Shared'[8] = Tail(Shared[8])
        BY <2>3, <2>7, SharedStages
      <3>2. \A k \in 1..8 : k # 7 /\ k # 8 => Thins(Shared'[k], Shared[k])
        BY <1>3, <1>4, <2>4, <2>7, SharedStages, ThinsSelf
      <3>3. /\ Thins(Shared'[8], Tail(Shared[8]))
            /\ \A k \in 1..8 : 7 < k /\ k < 8 => NoData(Shared'[k])
            /\ \A s \in ASession : Thins(toServer'[s], toServer[s])
        BY <1>2, <3>1, ThinsSelf
      <3> QED
        BY <1>1, <3>1, <3>2, <3>3, PipeMoves
    <2>8. CASE aConn # x /\ bConn # x
      <3>1. /\ \A k \in 1..8 : Thins(Shared'[k], Shared[k])
            /\ \A s \in ASession : Thins(toServer'[s], toServer[s])
        BY <1>2, <1>3, <1>4, <2>4, <2>5, <2>8, SharedStages, ThinsSelf
      <3> QED
        BY <1>1, <3>1, PipeShrinks
    <2>9. ~ (aConn = x /\ bConn = x)
      BY ServerAssumption, SystemAssumption DEF NodesOK
    <2> QED
      BY <2>6, <2>7, <2>8, <2>9
  <1> QED
    BY <1>2, <1>7, <1>8 DEF WriteCompletes, IInv, TypeOK

\* At most one session of Node B has a late line.
LEMMA OneLateSession ==
    ASSUME LateLineFirst, NEW x \in LateSessions
    PROVE  /\ LateSessions = {x}
           /\ LateQueue = <<Head(toServer[x])>>
  <1>1. \A s \in LateSessions : s = x
    BY DEF LateSessions, LateLineFirst
  <1>2. LateSessions = {x}
    BY <1>1
  <1>3. Pick(LateSessions) = x
    BY <1>2 DEF Pick
  <1> QED
    BY <1>2, <1>3 DEF LateQueue

\* When the open session of a role runs a handler, no session of the role has
\* a late line.
LEMMA NothingLateBefore ==
    ASSUME IInv, LateLineFirst, NEW x \in Session, NEW op, Handler(op, x),
           state[x] = "open"
    PROVE  /\ \A s \in Session : HasLateLine(s) => role[s] # role[x]
           /\ role[x] = "B" => LateSessions = {}
  <1>1. ASSUME NEW s \in Session, HasLateLine(s), role[s] = role[x]
        PROVE  FALSE
    <2>1. ready \in Seq(Completions) /\ ready # <<>> /\ Head(ready) = Completion(op, x)
      BY DEF Handler, IInv, TypeOK
    <2>2. Queued("read", s) /\ s # x
      BY <1>1 DEF IInv, HandlersMatchOperations, HasLateLine
    <2>3. PICK i \in DOMAIN ready : ready[i] = Completion("read", s)
      BY <2>2 DEF Queued
    <2>4. 1 \in DOMAIN ready /\ ready[1] = Completion(op, x)
      BY <2>1, HeadTailProperties
    <2>5. i < 1
      BY <1>1, <2>2, <2>3, <2>4 DEF LateLineFirst, Completion
    <2>6. DOMAIN ready = 1..Len(ready) /\ Len(ready) \in Nat
      BY <2>1, LenProperties
    <2> QED
      BY <2>3, <2>5, <2>6
  <1> QED
    BY <1>1 DEF LateSessions

\* A failed write ends the session's queue; if the session is Node B's and its
\* read has completed, its line becomes the late line.
LEMMA WriteFailsPipe ==
    ASSUME SystemInv, LateLineFirst, Content,
           UNCHANGED <<aVars, bVars, generated, log>>,
           NEW x \in Session, WriteFails(x)
    PROVE  PipeKept
  <1> USE DEF SystemInv
  <1>1. /\ toClient' = toClient /\ toServer' = toServer /\ role' = role
        /\ state' = [state EXCEPT ![x] = "closed"]
        /\ rd' = [rd EXCEPT ![x] = Cancelled(@)]
        /\ Handler("write", x) /\ wr[x] = "failed"
        /\ state \in [Session -> {"none", "accepting", "open", "closed"}]
        /\ rd \in [Session -> OpState]
    BY DEF WriteFails, Close, tcpVars, IInv, TypeOK
  <1>2. \A c \in Session : Thins(Unsent(c)', Unsent(c))
    <2>1. Unsent(x)' = <<>>
      BY DEF WriteFails, Unsent, IInv, TypeOK
    <2>2. \A c \in Session : c # x => Unsent(c)' = Unsent(c)
      BY DEF WriteFails, Unsent, IInv, TypeOK
    <2> QED
      BY <2>1, <2>2, ThinsSelf, ThinsNoData, EmptyHasNoData
  <1>3. \A r \in Role : node'[r] \in {node[r], NoSession}
    <2>1. Close(x, "read", rd[x]) /\ Alive(x)
      BY <1>1 DEF WriteFails, Alive
    <2> QED
      BY <1>1, <2>1, CloseKeepsRegistry
  <1>4. FromB' \in {FromB, <<>>}
    BY <1>1, <1>3, ServerAssumption DEF FromB, At, Role
  <1>5. \A s \in Session : s # x => (s \in LateSessions' <=> s \in LateSessions)
    BY <1>1 DEF LateSessions, HasLateLine
  <1>6. state[x] = "closed" => (x \in LateSessions' <=> x \in LateSessions)
    BY <1>1 DEF LateSessions, HasLateLine, Cancelled
  <1>7. CASE x \in LateSessions' <=> x \in LateSessions
    <2>1. LateQueue' = LateQueue
      BY <1>1, <1>5, <1>7, LateQueueKept
    <2>2. Thins(FromB', FromB)
      BY <1>4, ThinsSelf, ThinsNoData, EmptyHasNoData
    <2> QED
      BY <1>1, <1>2, <2>1, <2>2, ThinsSelf, ServerShrinks
  <1>8. CASE ~ (x \in LateSessions' <=> x \in LateSessions)
    <2>1. state[x] = "open" /\ role[x] = "B" /\ rd[x] = "done" /\ x \in LateSessions'
      BY <1>1, <1>6, <1>8
         DEF LateSessions, HasLateLine, Cancelled, IInv, SessionLifecycle
    <2>2. LateSessions = {}
      BY <1>1, <2>1, NothingLateBefore
    <2>3. LateSessions' = {x}
      <3>1. LateSessions' \subseteq Session
        BY DEF LateSessions
      <3> QED
        BY <1>5, <2>1, <2>2, <3>1
    <2>4. LateQueue = <<>> /\ LateQueue' = <<Head(toServer[x])>>
      <3>1. Pick(LateSessions)' = x
        BY <2>3 DEF Pick
      <3> QED
        BY <1>1, <2>2, <2>3, <3>1 DEF LateQueue
    <2>5. node["B"] = x /\ node'["B"] # x
      <3>1. node["B"] = x
        BY <2>1 DEF IInv, RegistryAgreement, Role
      <3>2. RegistryAgreement'
        BY WriteFailsInv DEF IInv
      <3>3. state'[x] = "closed"
        BY <1>1
      <3> QED
        BY <3>1, <3>2, <3>3 DEF RegistryAgreement, Role
    <2>6. FromB = toServer[x] /\ FromB' = <<>>
      <3>1. node'["B"] = NoSession
        BY <1>3, <2>5 DEF Role
      <3> QED
        BY <2>5, <3>1, ServerAssumption DEF FromB, At
    <2>7. toServer[x] \in Seq(Line) /\ toServer[x] # <<>> /\ Head(toServer[x]) \in Line
      <3>1. toServer[x] \in Seq(Line) /\ toServer[x] # <<>>
        BY <2>1 DEF IInv, TypeOK, SessionLifecycle
      <3> QED
        BY <3>1, HasTail
    <2>8. LateQueue' = Append(LateQueue, Head(FromB))
      <3> DEFINE h == Head(toServer[x])
      <3>1. LateQueue = <<>> /\ LateQueue' = <<h>> /\ Head(FromB) = h
        BY <2>4, <2>6
      <3> HIDE DEF h
      <3>2. Append(<<>>, h) = <<h>>
        OBVIOUS
      <3> QED
        BY <3>1, <3>2
    <2>9. /\ generated' = generated
          /\ \A k \in 1..8 : k # 4 /\ k # 5 => Thins(Shared'[k], Shared[k])
      <3>1. /\ generated' = generated /\ log' = log /\ aConn' = aConn
            /\ bState' = bState /\ bConn' = bConn /\ bPacket' = bPacket
        BY DEF aVars, bVars
      <3>2. /\ LogLines' = LogLines /\ Computing' = Computing
            /\ AtA' = AtA /\ AtB' = AtB
        BY <1>1, <3>1 DEF LogLines, Computing, AtA, AtB, At
      <3>3. Thins(ToA', ToA) /\ Thins(ToB', ToB)
        BY <1>2, <3>1, ThinsSelf, NodeQueues
      <3> QED
        BY <3>1, <3>2, <3>3, ThinsSelf, SharedStages
    <2>10. /\ 4 \in 1..8 /\ 5 \in 1..8 /\ 4 < 5
           /\ Shared[5] # <<>>
           /\ Shared'[4] = Append(Shared[4], Head(Shared[5]))
           /\ Thins(Shared'[5], Tail(Shared[5]))
           /\ \A k \in 1..8 : 4 < k /\ k < 5 => NoData(Shared'[k])
           /\ \A s \in ASession : Thins(toServer'[s], toServer[s])
      BY <1>1, <2>6, <2>7, <2>8, SharedStages, ThinsSelf, ThinsNoData, EmptyHasNoData
    <2> QED
      BY <2>9, <2>10, PipeMoves
  <1> QED
    BY <1>7, <1>8

\* What every handled line does to the stages: the session's queue loses its
\* first line, which was the late line if the session was closed.
LEMMA LineTaken ==
    ASSUME SystemInv, LateLineFirst, NEW x \in Session, NEW l \in Line,
           HandleLine(x, l), \A s \in Session : s # x => role'[s] = role[s]
    PROVE  /\ toServer[x] \in Seq(Line) /\ toServer[x] # <<>>
           /\ l = Head(toServer[x]) /\ toServer'[x] = Tail(toServer[x])
           /\ \A s \in Session : s # x => toServer'[s] = toServer[s]
           /\ \A s \in Session : Thins(toServer'[s], toServer[s])
           /\ UNCHANGED <<toClient, state>>
           /\ Thins(LateQueue', LateQueue)
           /\ x \in LateSessions => LateQueue = <<l>> /\ LateQueue' = <<>>
           /\ state[x] = "open" /\ role[x] = "B" =>
                 LateQueue = <<>> /\ LateQueue' = <<>>
           /\ state[x] \in {"open", "closed"} /\ rd[x] = "done"
  <1> USE DEF SystemInv
  <1>0. LineEffect(x)
    BY LineHandled
  <1>1. toServer[x] \in Seq(Line) /\ toServer[x] # <<>> /\ rd[x] = "done"
    BY <1>0 DEF LineEffect, IInv, TypeOK, SessionLifecycle
  <1>2. /\ l = Head(toServer[x]) /\ toServer'[x] = Tail(toServer[x])
        /\ \A s \in Session : s # x => toServer'[s] = toServer[s]
        /\ UNCHANGED <<toClient, state>>
    BY DEF HandleLine, IInv, TypeOK
  <1>3. \A s \in Session : Thins(toServer'[s], toServer[s])
    BY <1>1, <1>2, ThinsTail, ThinsSelf
  <1>4. \A s \in Session : s \in LateSessions' <=> s \in LateSessions /\ s # x
    BY <1>0, <1>2 DEF LineEffect, LateSessions, HasLateLine, IInv, TypeOK
  <1>5. x \in LateSessions => LateQueue = <<l>> /\ LateQueue' = <<>>
    <2> SUFFICES ASSUME x \in LateSessions
                 PROVE  LateQueue = <<l>> /\ LateQueue' = <<>>
      OBVIOUS
    <2>1. LateSessions = {x} /\ LateQueue = <<Head(toServer[x])>>
      BY OneLateSession
    <2>2. LateSessions' = {}
      <3>1. LateSessions' \subseteq Session
        BY DEF LateSessions
      <3> QED
        BY <1>4, <2>1, <3>1
    <2> QED
      BY <1>2, <2>1, <2>2 DEF LateQueue
  <1>6. x \notin LateSessions => LateQueue' = LateQueue
    <2> SUFFICES ASSUME x \notin LateSessions PROVE LateQueue' = LateQueue
      OBVIOUS
    <2>1. \A s \in LateSessions : s \in Session /\ s # x
      BY DEF LateSessions
    <2> QED
      BY <1>2, <1>4, <2>1, LateQueueKept
  <1>7. Thins(LateQueue', LateQueue)
    BY <1>5, <1>6, ThinsSelf, ThinsNoData, EmptyHasNoData
  <1>8. state[x] = "open" /\ role[x] = "B" => LateQueue = <<>> /\ LateQueue' = <<>>
    <2> SUFFICES ASSUME state[x] = "open", role[x] = "B"
                 PROVE  LateQueue = <<>> /\ LateQueue' = <<>>
      OBVIOUS
    <2>1. Handler("read", x)
      BY DEF HandleLine
    <2>2. LateSessions = {}
      BY <2>1, NothingLateBefore
    <2> QED
      BY <1>6, <2>2 DEF LateQueue
  <1>9. state[x] \in {"open", "closed"}
    BY <1>0 DEF LineEffect
  <1> QED
    BY <1>1, <1>2, <1>3, <1>5, <1>7, <1>8, <1>9

\* The queue of Node B's session when some session's line is handled.
LEMMA FromBTaken ==
    ASSUME node' = node,
           \A s \in Session : Thins(toServer'[s], toServer[s])
    PROVE  Thins(FromB', FromB)
  <1>1. CASE node["B"] \in Session
    <2>1. FromB = toServer[node["B"]] /\ FromB' = toServer'[node["B"]]
      BY <1>1 DEF FromB, At
    <2> QED
      BY <1>1, <2>1
  <1>2. CASE node["B"] \notin Session
    BY <1>2, ThinsSelf DEF FromB, At
  <1> QED
    BY <1>1, <1>2

LEMMA DropLinePipe ==
    ASSUME SystemInv, LateLineFirst, UNCHANGED <<aVars, bVars, generated, log>>,
           NEW x \in Session, DropLine(x)
    PROVE  PipeKept
  <1>1. PICK l \in Line : HandleLine(x, l) /\ UNCHANGED <<role, writeQueue, wr, node>>
    BY DEF DropLine
  <1>2. /\ \A s \in Session : Thins(toServer'[s], toServer[s])
        /\ toClient' = toClient /\ Thins(LateQueue', LateQueue)
    BY <1>1, LineTaken
  <1>3. Thins(FromB', FromB)
    BY <1>1, <1>2, FromBTaken
  <1>4. \A c \in Session : Thins(Unsent(c)', Unsent(c))
    BY <1>1, ThinsSelf DEF Unsent
  <1> QED
    BY <1>2, <1>3, <1>4, SystemAssumption, ThinsSelf, ServerShrinks

\* A session that registers as Node B has been sent nothing but hello lines.
LEMMA RegisterPipe ==
    ASSUME SystemInv, LateLineFirst, Content,
           UNCHANGED <<aVars, bVars, generated, log>>,
           NEW x \in Session, Register(x)
    PROVE  PipeKept
  <1> USE DEF SystemInv
  <1>1. PICK l \in Line : /\ HandleLine(x, l) /\ Registers(x, l)
                          /\ node' = [node EXCEPT ![l.role] = x]
                          /\ role' = [role EXCEPT ![x] = l.role]
                          /\ UNCHANGED <<last, writeQueue, wr>>
    BY DEF Register
  <1>2. /\ \A s \in Session : Thins(toServer'[s], toServer[s])
        /\ toClient' = toClient /\ Thins(LateQueue', LateQueue)
        /\ toServer[x] \in Seq(Line) /\ toServer[x] # <<>>
        /\ l = Head(toServer[x]) /\ toServer'[x] = Tail(toServer[x])
    <2>1. \A s \in Session : s # x => role'[s] = role[s]
      BY <1>1 DEF IInv, TypeOK
    <2> QED
      BY <1>1, <2>1, LineTaken
  <1>3. l = HelloLine(l.role) /\ l.role \in Role
    BY <1>1 DEF Registers, Line, HelloLine, AccelLine, ModuleLine, InvalidLine
  <1>4. Thins(FromB', FromB)
    <2>1. CASE l.role = "A"
      <3>1. node'["B"] = node["B"]
        BY <1>1, <2>1 DEF IInv, TypeOK, Role
      <3>2. CASE node["B"] \in Session
        <4>1. FromB = toServer[node["B"]] /\ FromB' = toServer'[node["B"]]
          BY <3>1, <3>2 DEF FromB, At
        <4> QED
          BY <1>2, <3>2, <4>1
      <3>3. CASE node["B"] \notin Session
        BY <3>1, <3>3, ThinsSelf DEF FromB, At
      <3> QED
        BY <3>2, <3>3
    <2>2. CASE l.role = "B"
      <3>1. FromB' = Tail(toServer[x])
        BY <1>1, <1>2, <2>2 DEF FromB, At, IInv, TypeOK, Role
      <3>2. x \in BSession
        <4>1. Has(toServer[x], l)
          BY <1>2, HasTail
        <4> QED
          BY <1>3, <2>2, <4>1, SentData
      <3>3. \A k \in Line : Has(toServer[x], k) => ~ IsData(k)
        <4>1. role[x] = NoRole
          BY <1>1 DEF Registers
        <4>2. \A k \in Line : Has(toServer[x], k) => k = HelloLine("B")
          BY <3>2, <4>1 DEF Content, LinesOfB, SentByB, NoRole
        <4> QED
          BY <4>2, LineFields
      <3>4. NoData(Tail(toServer[x]))
        <4> DEFINE t == Tail(toServer[x])
        <4>1. t \in Seq(Line) /\ \A k : Has(t, k) => Has(toServer[x], k)
          BY <1>2, HasTail
        <4> HIDE DEF t
        <4>2. \A i \in DOMAIN t : t[i] \in Line /\ Has(t, t[i])
          BY <4>1 DEF Has
        <4>3. NoData(t)
          BY <3>3, <4>1, <4>2 DEF NoData
        <4> QED
          BY <4>3 DEF t
      <3> QED
        BY <3>1, <3>4, ThinsNoData
    <2> QED
      BY <1>3, <2>1, <2>2 DEF Role
  <1>5. \A c \in Session : Thins(Unsent(c)', Unsent(c))
    BY <1>1, ThinsSelf DEF Unsent
  <1> QED
    BY <1>2, <1>4, <1>5, SystemAssumption, ThinsSelf, ServerShrinks

\* A line that is queued is the last of the lines not yet sent.
LEMMA QueuedLine ==
    ASSUME SystemInv, NEW t \in Session, NEW l \in Line,
           state[t] = "open",
           writeQueue' = [writeQueue EXCEPT ![t] = Append(@, l)],
           wr' = IF writeQueue[t] = <<>> THEN [wr EXCEPT ![t] = "pending"] ELSE wr
    PROVE  /\ Unsent(t)' = Append(Unsent(t), l)
           /\ \A c \in Session : c # t => Unsent(c)' = Unsent(c)
  <1> USE DEF SystemInv
  <1>1. /\ writeQueue'[t] = Append(writeQueue[t], l)
        /\ writeQueue[t] \in Seq(Line)
        /\ \A c \in Session : c # t => writeQueue'[c] = writeQueue[c] /\ wr'[c] = wr[c]
        /\ wr \in [Session -> OpState]
    BY DEF IInv, TypeOK
  <1>2. \A c \in Session : c # t => Unsent(c)' = Unsent(c)
    BY <1>1 DEF Unsent
  <1>3. CASE writeQueue[t] = <<>>
    <2>1. wr[t] = "none" /\ wr'[t] = "pending"
      BY <1>1, <1>3 DEF IInv, OneWriteInFlight
    <2> QED
      BY <1>1, <1>2, <2>1 DEF Unsent
  <1>4. CASE writeQueue[t] # <<>>
    <2> DEFINE q == writeQueue[t]
    <2>1. q \in Seq(Line) /\ q # <<>> /\ wr' = wr
      BY <1>1, <1>4
    <2>2. Tail(Append(q, l)) = Append(Tail(q), l)
      BY <2>1
    <2> QED
      BY <1>1, <1>2, <2>1, <2>2 DEF Unsent
  <1> QED
    BY <1>3, <1>4

\* A module goes from the session of Node B, or from its late line, to the
\* queue of the session of Node A: to the end of stage 3, or nowhere.
LEMMA ReturnModulePipe ==
    ASSUME SystemInv, LateLineFirst, Content,
           UNCHANGED <<aVars, bVars, generated, log>>,
           NEW x \in Session, ReturnModule(x)
    PROVE  PipeKept
  <1> USE DEF SystemInv
  <1>1. PICK l \in Line : /\ HandleLine(x, l) /\ Returns(x, l)
                          /\ Forward("A", l)
                          /\ UNCHANGED <<role, last, node>>
    BY DEF ReturnModule
  <1>2. /\ toServer[x] \in Seq(Line) /\ toServer[x] # <<>>
        /\ l = Head(toServer[x]) /\ toServer'[x] = Tail(toServer[x])
        /\ \A s \in Session : s # x => toServer'[s] = toServer[s]
        /\ \A s \in Session : Thins(toServer'[s], toServer[s])
        /\ toClient' = toClient /\ Thins(LateQueue', LateQueue)
        /\ x \in LateSessions => LateQueue = <<l>> /\ LateQueue' = <<>>
        /\ state[x] = "open" => LateQueue = <<>> /\ LateQueue' = <<>>
        /\ state[x] \in {"open", "closed"} /\ rd[x] = "done" /\ role[x] = "B"
    <2>1. role[x] = "B" /\ \A s \in Session : s # x => role'[s] = role[s]
      BY <1>1 DEF Returns
    <2> QED
      BY <1>1, <2>1, LineTaken
  <1>3. Thins(FromB', FromB)
    BY <1>1, <1>2, FromBTaken
  <1>4. /\ generated' = generated /\ log' = log /\ aConn' = aConn
        /\ bState' = bState /\ bConn' = bConn /\ bPacket' = bPacket
    BY DEF aVars, bVars
  <1>5. CASE UNCHANGED <<writeQueue, wr>>
    <2>1. \A c \in Session : Thins(Unsent(c)', Unsent(c))
      BY <1>5, ThinsSelf DEF Unsent
    <2> QED
      BY <1>2, <1>3, <2>1, SystemAssumption, ThinsSelf, ServerShrinks
  <1>6. ASSUME NEW t \in Session, state[t] = "open", role[t] = "A",
               writeQueue' = [writeQueue EXCEPT ![t] = Append(@, l)],
               wr' = IF writeQueue[t] = <<>> THEN [wr EXCEPT ![t] = "pending"] ELSE wr
        PROVE  PipeKept
    <2>1. /\ Unsent(t)' = Append(Unsent(t), l)
          /\ \A c \in Session : c # t => Unsent(c)' = Unsent(c)
      BY <1>6, QueuedLine
    <2>2. bConn # t
      BY <1>6, ServerAssumption DEF NodesOK, Content, LinesOfB
    <2>3. /\ LogLines' = LogLines /\ Computing' = Computing
          /\ AtA' = AtA /\ AtB' = AtB
      BY <1>2, <1>4 DEF LogLines, Computing, AtA, AtB, At
    <2>4. ToB' = ToB
      BY <1>4, <2>1, <2>2 DEF ToB, Unsent
    <2>5. CASE aConn # t
      <3>1. ToA' = ToA
        BY <1>4, <2>1, <2>5 DEF ToA, Unsent
      <3>2. \A k \in 1..8 : Thins(Shared'[k], Shared[k])
        BY <1>2, <1>3, <2>3, <2>4, <3>1, SharedStages, ThinsSelf
      <3> QED
        BY <1>2, <1>4, <3>2, SystemAssumption, PipeShrinks
    <2>6. CASE aConn = t
      <3>1. ToA' = Append(ToA, l)
        BY <1>4, <1>6, <2>1, <2>6 DEF ToA, Unsent
      <3>2. \A k \in 1..8 : k # 3 => Thins(Shared'[k], Shared[k])
        BY <1>2, <1>3, <2>3, <2>4, SharedStages, ThinsSelf
      <3>3. CASE state[x] = "closed"
        <4>1. LateQueue = <<l>> /\ LateQueue' = <<>>
          BY <1>2, <3>3 DEF LateSessions, HasLateLine
        <4> DEFINE q == <<l>>
        <4>2. q # <<>> /\ Head(q) = l /\ Tail(q) = <<>>
          BY HeadTailProperties
        <4> HIDE DEF q
        <4>3. LateQueue = q /\ LateQueue' = <<>>
          BY <4>1 DEF q
        <4>4. /\ 3 \in 1..8 /\ 4 \in 1..8 /\ 3 < 4
              /\ Shared[4] # <<>>
              /\ Shared'[3] = Append(Shared[3], Head(Shared[4]))
              /\ \A k \in 1..8 : 3 < k /\ k < 4 => NoData(Shared'[k])
          <5>1. \A k \in 1..8 : ~ (3 < k /\ k < 4)
            OBVIOUS
          <5> QED
            BY <3>1, <4>2, <4>3, <5>1, SharedStages
        <4>6. Thins(Shared'[4], Tail(Shared[4]))
          BY <4>3, SharedStages, ThinsNoData, EmptyHasNoData
        <4>5. /\ \A k \in 1..8 : k # 3 /\ k # 4 => Thins(Shared'[k], Shared[k])
              /\ \A s \in ASession : Thins(toServer'[s], toServer[s])
          BY <1>2, <3>2, SystemAssumption
        <4> QED
          BY <1>4, <4>4, <4>5, <4>6, PipeMoves
      <3>4. CASE state[x] = "open"
        <4>1. LateQueue = <<>> /\ LateQueue' = <<>>
          BY <1>2, <3>4
        <4>2. node["B"] = x
          BY <1>2, <3>4 DEF IInv, RegistryAgreement, Role
        <4>3. FromB = toServer[x] /\ FromB' = Tail(toServer[x])
          BY <1>1, <1>2, <4>2 DEF FromB, At
        <4>4. /\ 3 \in 1..8 /\ 5 \in 1..8 /\ 3 < 5
              /\ Shared[5] # <<>>
              /\ Shared'[3] = Append(Shared[3], Head(Shared[5]))
              /\ Thins(Shared'[5], Tail(Shared[5]))
          BY <1>2, <3>1, <4>3, SharedStages, ThinsSelf
        <4>5. /\ \A k \in 1..8 : 3 < k /\ k < 5 => NoData(Shared'[k])
              /\ \A k \in 1..8 : k # 3 /\ k # 5 => Thins(Shared'[k], Shared[k])
              /\ \A s \in ASession : Thins(toServer'[s], toServer[s])
          BY <1>2, <3>2, <4>1, SharedStages, EmptyHasNoData, SystemAssumption
        <4> QED
          BY <1>4, <4>4, <4>5, PipeMoves
      <3> QED
        BY <1>2, <3>3, <3>4
    <2> QED
      BY <2>5, <2>6
  <1>7. \/ UNCHANGED <<writeQueue, wr>>
        \/ \E t \in Session :
              /\ state[t] = "open" /\ role[t] = "A"
              /\ writeQueue' = [writeQueue EXCEPT ![t] = Append(@, l)]
              /\ wr' = IF writeQueue[t] = <<>>
                       THEN [wr EXCEPT ![t] = "pending"] ELSE wr
    <2>1. "A" \in Role
      BY DEF Role
    <2> QED
      BY <1>1, <2>1, ForwardEffect
  <1> QED
    BY <1>5, <1>6, <1>7

\* What a run of Node A has sent are packets of that run.
LEMMA DataOfRun ==
    ASSUME Content, NEW s \in ASession, NEW l \in Line, Has(toServer[s], l), IsData(l)
    PROVE  /\ Stamp(l) \in DOMAIN generated
           /\ generated[Stamp(l)].run = s
           /\ generated[Stamp(l)].packet.timestamp = Stamp(l)
  <1>1. SentByA(generated, s, l)
    BY DEF Content, LinesOfA
  <1>2. PICK i \in DOMAIN generated :
           generated[i].run = s /\ l = AccelLine(generated[i].packet)
    BY <1>1, LineFields DEF SentByA
  <1>3. Stamp(l) = i
    BY <1>2, LineFields DEF Content, Clock
  <1> QED
    BY <1>2, <1>3 DEF Content, Clock

\* A packet goes from the connection of a run of Node A to the queue of the
\* session of Node B, the last of the shared stages; or it is lost.
LEMMA AcceptPacketPipe ==
    ASSUME SystemInv, LateLineFirst, Content,
           UNCHANGED <<aVars, bVars, generated, log>>,
           NEW x \in Session, AcceptPacket(x)
    PROVE  PipeKept \/ Enters(x)
  <1> USE DEF SystemInv
  <1>1. PICK l \in Line : /\ HandleLine(x, l) /\ Accepts(x, l)
                          /\ Forward("B", l)
                          /\ UNCHANGED <<role, node>>
    BY DEF AcceptPacket
  <1>2. /\ toServer[x] \in Seq(Line) /\ toServer[x] # <<>>
        /\ l = Head(toServer[x]) /\ toServer'[x] = Tail(toServer[x])
        /\ \A s \in Session : s # x => toServer'[s] = toServer[s]
        /\ \A s \in Session : Thins(toServer'[s], toServer[s])
        /\ toClient' = toClient /\ Thins(LateQueue', LateQueue)
    <2>1. \A s \in Session : s # x => role'[s] = role[s]
      BY <1>1
    <2> QED
      BY <1>1, <2>1, LineTaken
  <1>3. Thins(FromB', FromB)
    BY <1>1, <1>2, FromBTaken
  <1>4. /\ generated' = generated /\ log' = log /\ aConn' = aConn
        /\ bState' = bState /\ bConn' = bConn /\ bPacket' = bPacket
    BY DEF aVars, bVars
  <1>5. CASE UNCHANGED <<writeQueue, wr>>
    <2>1. \A c \in Session : Thins(Unsent(c)', Unsent(c))
      BY <1>5, ThinsSelf DEF Unsent
    <2> QED
      BY <1>2, <1>3, <2>1, SystemAssumption, ThinsSelf, ServerShrinks
  <1>6. ASSUME NEW t \in Session, state[t] = "open", role[t] = "B",
               writeQueue' = [writeQueue EXCEPT ![t] = Append(@, l)],
               wr' = IF writeQueue[t] = <<>> THEN [wr EXCEPT ![t] = "pending"] ELSE wr
        PROVE  PipeKept \/ Enters(x)
    <2>1. /\ Unsent(t)' = Append(Unsent(t), l)
          /\ \A c \in Session : c # t => Unsent(c)' = Unsent(c)
      BY <1>6, QueuedLine
    <2>2. aConn # t
      BY <1>6, ServerAssumption DEF NodesOK, Content, LinesOfA
    <2>3. /\ LogLines' = LogLines /\ Computing' = Computing
          /\ AtA' = AtA /\ AtB' = AtB
      BY <1>2, <1>4 DEF LogLines, Computing, AtA, AtB, At
    <2>4. ToA' = ToA
      BY <1>4, <2>1, <2>2 DEF ToA, Unsent
    <2>5. \A k \in 1..8 : k # 8 => Thins(Shared'[k], Shared[k])
      BY <1>2, <1>3, <2>3, <2>4, SharedStages, ThinsSelf
    <2>6. CASE bConn # t
      <3>1. ToB' = ToB
        BY <1>4, <2>1, <2>6 DEF ToB, Unsent
      <3>2. \A k \in 1..8 : Thins(Shared'[k], Shared[k])
        BY <2>5, <3>1, SharedStages, ThinsSelf
      <3> QED
        BY <1>2, <1>4, <3>2, SystemAssumption, PipeShrinks
    <2>7. CASE bConn = t
      <3>1. ToB' = Append(ToB, l)
        BY <1>4, <1>6, <2>1, <2>7 DEF ToB, Unsent
      <3>2. x \in ASession
        BY <1>1, SystemAssumption DEF Accepts, Content, LinesOfB
      <3>3. Shared'[8] = Append(Shared[8], Head(toServer[x]))
        BY <1>2, <3>1, SharedStages
      <3>4. \A k \in 1..7 : Thins(Shared'[k], Shared[k])
        BY <2>5
      <3>5. Enters(x)
        BY <1>2, <3>2, <3>3, <3>4 DEF Enters
      <3> QED
        BY <3>5
    <2> QED
      BY <2>6, <2>7
  <1>7. \/ UNCHANGED <<writeQueue, wr>>
        \/ \E t \in Session :
              /\ state[t] = "open" /\ role[t] = "B"
              /\ writeQueue' = [writeQueue EXCEPT ![t] = Append(@, l)]
              /\ wr' = IF writeQueue[t] = <<>>
                       THEN [wr EXCEPT ![t] = "pending"] ELSE wr
    <2>1. "B" \in Role
      BY DEF Role
    <2> QED
      BY <1>1, <2>1, ForwardEffect
  <1> QED
    BY <1>5, <1>6, <1>7

LEMMA ServerPipe ==
    ASSUME SystemInv, LateLineFirst, Content,
           UNCHANGED <<aVars, bVars, generated, log>>,
           NEW x \in Session, ServerStep(x)
    PROVE  PipeKept \/ (AcceptPacket(x) /\ Enters(x))
  BY QuietPipe, WriteCompletesPipe, WriteFailsPipe, RegisterPipe, AcceptPacketPipe,
     ReturnModulePipe, DropLinePipe
     DEF ServerStep, RunHandler

------------------------------------------------------------------------------
(* The steps of the nodes.                                                 *)

\* A client's step leaves alone what belongs to the server; a late line is of
\* a closed session, to which nothing can be sent.
LEMMA ClientFrame ==
    ASSUME SystemInv, NEW x \in Session, NEW d \in Line,
           Connect(x) \/ ClientWrites(x, d) \/ ClientReads(x) \/ ClientCloses(x)
    PROVE  /\ \A c \in Session : Unsent(c)' = Unsent(c)
           /\ LateQueue' = LateQueue
           /\ node' = node
           /\ \A s \in Session : s # x => /\ toServer'[s] = toServer[s]
                                          /\ toClient'[s] = toClient[s]
  <1> USE DEF SystemInv
  <1>1. UNCHANGED <<writeQueue, wr, state, rd, role, node>>
    BY DEF Connect, ClientWrites, ClientReads, ClientCloses, clientFrame, sessionVars
  <1>2. \A s \in Session : s # x => /\ toServer'[s] = toServer[s]
                                    /\ toClient'[s] = toClient[s]
    BY DEF Connect, ClientWrites, ClientReads, ClientCloses, IInv, TypeOK
  <1>3. \A s \in Session : state[s] = "closed" => toServer'[s] = toServer[s]
    BY <1>2 DEF Connect, ClientWrites, ClientReads, ClientCloses
  <1>4. LateQueue' = LateQueue
    <2>1. \A s \in Session : s \in LateSessions' <=> s \in LateSessions
      BY <1>1 DEF LateSessions, HasLateLine
    <2>2. \A s \in LateSessions : toServer'[s] = toServer[s]
      BY <1>3 DEF LateSessions, HasLateLine
    <2> QED
      BY <2>1, <2>2, LateQueueKept
  <1> QED
    BY <1>1, <1>2, <1>4 DEF Unsent

\* A node's step that loses lines only.  A new connection has none.
LEMMA NodeShrinks ==
    ASSUME generated' = generated, log' = log, node' = node,
           \A c \in Session : Unsent(c)' = Unsent(c),
           LateQueue' = LateQueue,
           \A s \in Session : /\ Thins(toServer'[s], toServer[s])
                              /\ Thins(toClient'[s], toClient[s]),
           aConn' = aConn \/ (NoData(AtA') /\ NoData(ToA')),
           bConn' = bConn \/ (NoData(AtB') /\ NoData(ToB')),
           Thins(Computing', Computing)
    PROVE  PipeKept
  <1>1. LogLines' = LogLines /\ Thins(FromB', FromB)
    BY FromBTaken DEF LogLines
  <1>2. Thins(AtA', AtA) /\ Thins(ToA', ToA)
    <2>1. CASE aConn' = aConn
      <3>1. Thins(AtA', AtA)
        BY <2>1, ThinsSelf DEF AtA, At
      <3>2. ToA' = ToA
        BY <2>1 DEF ToA, Unsent
      <3> QED
        BY <3>1, <3>2, ThinsSelf
    <2> QED
      BY <2>1, ThinsNoData
  <1>3. Thins(AtB', AtB) /\ Thins(ToB', ToB)
    <2>1. CASE bConn' = bConn
      <3>1. Thins(AtB', AtB)
        BY <2>1, ThinsSelf DEF AtB, At
      <3>2. ToB' = ToB
        BY <2>1 DEF ToB, Unsent
      <3> QED
        BY <3>1, <3>2, ThinsSelf
    <2> QED
      BY <2>1, ThinsNoData
  <1>4. \A k \in 1..8 : Thins(Shared'[k], Shared[k])
    BY <1>1, <1>2, <1>3, ThinsSelf, SharedStages
  <1> QED
    BY <1>4, SystemAssumption, PipeShrinks

\* Nothing is on its way to a client that has not connected.
LEMMA NothingBeforeConnect ==
    ASSUME SystemInv, NEW x \in Session, Connect(x)
    PROVE  /\ NoData(toClient'[x]) /\ NoData(Unsent(x)')
           /\ toClient' = toClient /\ toServer' = toServer
  <1>1. /\ UNCHANGED <<toClient, toServer, writeQueue, wr>>
        /\ role[x] = NoRole /\ writeQueue[x] = <<>> /\ wr[x] = "none"
    BY DEF SystemInv, IInv, SessionLifecycle, Connect, clientFrame, sessionVars
  <1>2. NoData(toClient[x])
    BY <1>1 DEF SystemInv, IInv, RightRecipient, NoData, NoRole
  <1> QED
    BY <1>1, <1>2, EmptyHasNoData DEF Unsent

\* A client's step that sends at most a hello line, seen at the queues.
LEMMA ClientThins ==
    ASSUME SystemInv, NEW x \in Session, NEW d \in Line, ~ IsData(d),
           Connect(x) \/ ClientWrites(x, d) \/ ClientReads(x) \/ ClientCloses(x)
    PROVE  \A s \in Session : /\ Thins(toServer'[s], toServer[s])
                              /\ Thins(toClient'[s], toClient[s])
  <1> USE DEF SystemInv
  <1>1. \A s \in Session : toClient[s] \in Seq(Line) /\ toServer[s] \in Seq(Line)
    BY DEF IInv, TypeOK
  <1>2. \A s \in Session : s # x => /\ toServer'[s] = toServer[s]
                                    /\ toClient'[s] = toClient[s]
    BY ClientFrame
  <1>3. Thins(toServer'[x], toServer[x])
    <2>1. \/ toServer'[x] = toServer[x]
          \/ toServer'[x] = Append(toServer[x], d)
      BY DEF Connect, ClientWrites, ClientReads, ClientCloses, IInv, TypeOK
    <2> QED
      BY <1>1, <2>1, ThinsSelf, ThinsAppend
  <1>4. Thins(toClient'[x], toClient[x])
    <2>1. \/ toClient'[x] = toClient[x] \/ toClient'[x] = <<>>
          \/ toClient[x] # <<>> /\ toClient'[x] = Tail(toClient[x])
      BY DEF Connect, ClientWrites, ClientReads, ClientCloses, IInv, TypeOK
    <2> QED
      BY <1>1, <2>1, ThinsSelf, ThinsTail, ThinsNoData, EmptyHasNoData
  <1> QED
    BY <1>2, <1>3, <1>4, ThinsSelf

\* Node A's steps that lose lines at most.
LEMMA NodeAShrinks ==
    ASSUME SystemInv,
           \/ AStarts \/ AWritesHello \/ AFailsToWrite \/ ACloses \/ AJoins
           \/ AOpensLog \/ AChecks \/ AFailsToRead \/ AIsKilled
    PROVE  PipeKept
  <1> USE DEF SystemInv
  <1> DEFINE d == HelloLine("A")
  <1>0. ASession \subseteq Session /\ d \in Line /\ ~ IsData(d)
    BY SystemAssumption, LineFields DEF Line, Role
  <1>1. generated' = generated /\ log' = log /\ bConn' = bConn /\ Computing' = Computing
    BY DEF AStarts, AWritesHello, AFailsToWrite, ACloses, AJoins, AOpensLog,
           AChecks, AFailsToRead, AIsKilled, bVars, Computing
  <1> HIDE DEF d
  <1>2. CASE AStarts
    <2>1. PICK x \in ASession : Connect(x) /\ aConn' = x
      BY <1>2 DEF AStarts
    <2>2. x \in Session
      BY <1>0, <2>1
    <2>3. NoData(AtA') /\ NoData(ToA')
      <3>1. NoData(toClient'[x]) /\ NoData(Unsent(x)')
        BY <2>1, <2>2, NothingBeforeConnect
      <3>2. AtA' = toClient'[x] /\ ToA' = Unsent(x)'
        BY <2>1, <2>2 DEF AtA, ToA, At, Unsent
      <3> QED
        BY <3>1, <3>2
    <2>4. /\ \A c \in Session : Unsent(c)' = Unsent(c)
          /\ LateQueue' = LateQueue /\ node' = node
      BY <1>0, <2>1, <2>2, ClientFrame
    <2>5. \A s \in Session : /\ Thins(toServer'[s], toServer[s])
                             /\ Thins(toClient'[s], toClient[s])
      BY <1>0, <2>1, <2>2, ClientThins
    <2> QED
      BY <1>1, <2>3, <2>4, <2>5, ThinsSelf, NodeShrinks
  <1>3. CASE AWritesHello \/ ACloses \/ AIsKilled
    <2>1. /\ ClientWrites(aConn, d) \/ ClientCloses(aConn)
          /\ aConn' = aConn /\ aConn \in Session
      BY <1>0, <1>3
         DEF AWritesHello, ACloses, AIsKilled, AExits, WriteJson, NodesOK, d
    <2>2. /\ \A c \in Session : Unsent(c)' = Unsent(c)
          /\ LateQueue' = LateQueue /\ node' = node
      BY <1>0, <2>1, ClientFrame
    <2>3. \A s \in Session : /\ Thins(toServer'[s], toServer[s])
                             /\ Thins(toClient'[s], toClient[s])
      BY <1>0, <2>1, ClientThins
    <2> QED
      BY <1>1, <2>1, <2>2, <2>3, ThinsSelf, NodeShrinks
  <1>4. CASE AFailsToWrite \/ AJoins \/ AOpensLog \/ AChecks \/ AFailsToRead
    <2>1. UNCHANGED vars /\ aConn' = aConn
      BY <1>4 DEF AFailsToWrite, AJoins, AOpensLog, AChecks, AFailsToRead, AExits
    <2>2. /\ \A c \in Session : Unsent(c)' = Unsent(c)
          /\ LateQueue' = LateQueue /\ node' = node
          /\ toServer' = toServer /\ toClient' = toClient
      <3>1. UNCHANGED <<toServer, toClient, state, rd, role, writeQueue, wr, node>>
        BY <2>1 DEF vars, tcpVars, sessionVars
      <3>2. \A s \in Session : s \in LateSessions' <=> s \in LateSessions
        BY <3>1 DEF LateSessions, HasLateLine
      <3>3. LateQueue' = LateQueue
        BY <3>1, <3>2, LateQueueKept
      <3> QED
        BY <3>1, <3>3 DEF Unsent
    <2> QED
      BY <1>1, <2>1, <2>2, ThinsSelf, NodeShrinks
  <1> QED
    BY <1>2, <1>3, <1>4

\* A module that Node A reads moves from its socket to the log.
LEMMA AReadsPipe ==
    ASSUME SystemInv, Content, AReads
    PROVE  PipeKept
  <1> USE DEF SystemInv
  <1>1. /\ aConn \in Session /\ ClientReads(aConn) /\ InvalidLine \in Line
        /\ generated' = generated /\ aConn' = aConn /\ bConn' = bConn
        /\ bConn # aConn
    BY SystemAssumption, ServerAssumption DEF AReads, NodesOK, Line, bVars
  <1>2. /\ \A c \in Session : Unsent(c)' = Unsent(c)
        /\ LateQueue' = LateQueue /\ node' = node
        /\ \A s \in Session : s # aConn => toClient'[s] = toClient[s]
    BY <1>1, ClientFrame
  <1>3. PICK i \in DOMAIN generated :
           /\ Head(toClient[aConn]) = ModuleLine(ModuleOf(generated[i].packet))
           /\ log' = Append(log, ModuleOf(generated[i].packet))
           /\ ModuleOf(generated[i].packet) \in Module
    BY LogGrows
  <1> DEFINE m == ModuleOf(generated[i].packet)
  <1>4. AtA # <<>> /\ AtA' = Tail(AtA) /\ Head(AtA) = ModuleLine(m)
    <2>1. toClient'[aConn] = Tail(toClient[aConn]) /\ toClient[aConn] # <<>>
      BY <1>1 DEF ClientReads, IInv, TypeOK
    <2> QED
      BY <1>1, <1>3, <2>1 DEF AtA, At
  <1> HIDE DEF m
  <1>5. m \in Module /\ log' = Append(log, m)
    BY <1>3 DEF m
  <1>6. LogLines' = Append(LogLines, ModuleLine(m))
    <2>1. log \in Seq(Module)
      BY DEF Content, LogOK
    <2>2. /\ DOMAIN log = 1..Len(log) /\ Len(log) \in Nat
          /\ DOMAIN log' = 1..(Len(log) + 1)
          /\ \A k \in 1..Len(log) : log'[k] = log[k]
          /\ log'[Len(log) + 1] = m
      BY <1>5, <2>1, AppendProperties
    <2> DEFINE l == ModuleLine(m)
               u == Append(LogLines, l)
    <2>3. l \in Line /\ LogLines \in Seq(Line)
      BY <1>5, PipeTypes, SharedStages DEF Line
    <2>4. DOMAIN LogLines = 1..Len(log) /\ Len(LogLines) = Len(log)
      BY <2>2, <2>3, LenProperties DEF LogLines
    <2> HIDE DEF l, Line
    <2>5. /\ u \in Seq(Line) /\ Len(u) = Len(log) + 1
          /\ \A k \in 1..Len(log) : u[k] = LogLines[k]
          /\ u[Len(log) + 1] = l
      BY <2>3, <2>4, AppendProperties
    <2>6. /\ LogLines' \in Seq(Line) /\ Len(LogLines') = Len(log) + 1
          /\ \A k \in 1..(Len(log) + 1) : LogLines'[k] = ModuleLine(log'[k])
      <3>1. /\ DOMAIN LogLines' = 1..(Len(log) + 1)
            /\ \A k \in 1..(Len(log) + 1) : LogLines'[k] = ModuleLine(log'[k])
        BY <2>2 DEF LogLines
      <3>2. \A k \in 1..(Len(log) + 1) : LogLines'[k] \in Line
        <4>1. \A k \in 1..(Len(log) + 1) : log'[k] \in Module
          BY <1>5, <2>1, <2>2, ElementOfSeq
        <4> QED
          BY <3>1, <4>1 DEF Line
      <3>3. LogLines' \in [1..(Len(log) + 1) -> Line]
        <4>1. LogLines' = [k \in 1..(Len(log) + 1) |-> LogLines'[k]]
          BY <2>2 DEF LogLines
        <4> QED
          BY <3>2, <4>1
      <3>4. LogLines' \in Seq(Line)
        BY <2>2, <3>3, SeqDef
      <3> QED
        BY <2>2, <3>1, <3>4, LenProperties
    <2>7. \A k \in 1..(Len(log) + 1) : LogLines'[k] = u[k]
      <3> SUFFICES ASSUME NEW k \in 1..(Len(log) + 1) PROVE LogLines'[k] = u[k]
        OBVIOUS
      <3>1. CASE k \in 1..Len(log)
        <4>1. LogLines[k] = ModuleLine(log[k])
          BY <2>2, <3>1 DEF LogLines
        <4> QED
          BY <2>2, <2>5, <2>6, <3>1, <4>1
      <3>2. CASE k = Len(log) + 1
        <4>1. LogLines'[k] = ModuleLine(log'[k])
          BY <2>6
        <4>2. log'[k] = m /\ u[k] = l
          BY <2>2, <2>5, <3>2
        <4> QED
          BY <4>1, <4>2 DEF l
      <3>3. k \in 1..Len(log) \/ k = Len(log) + 1
        <4>1. Len(log) \in Nat
          BY <2>2
        <4> QED
          BY <4>1
      <3> QED
        BY <3>1, <3>2, <3>3
    <2> HIDE DEF u
    <2>8. LogLines' = u
      BY <2>5, <2>6, <2>7, SeqEqual
    <2> QED
      BY <2>8 DEF u, l
  <1>7. /\ ToA' = ToA /\ ToB' = ToB /\ AtB' = AtB /\ Computing' = Computing
        /\ FromB' = FromB /\ toServer' = toServer
    BY <1>1, <1>2 DEF ToA, ToB, AtB, At, Unsent, Computing, FromB, AReads, bVars,
                      ClientReads
  <1>8. /\ 1 \in 1..8 /\ 2 \in 1..8 /\ 1 < 2
        /\ Shared[2] # <<>>
        /\ Shared'[1] = Append(Shared[1], Head(Shared[2]))
        /\ Shared'[2] = Tail(Shared[2])
    BY <1>4, <1>6, SharedStages
  <1>9. \A k \in 1..8 : k # 1 /\ k # 2 => Thins(Shared'[k], Shared[k])
    BY <1>2, <1>7, SharedStages, ThinsSelf
  <1>10. /\ Thins(Shared'[2], Tail(Shared[2]))
         /\ \A k \in 1..8 : 1 < k /\ k < 2 => NoData(Shared'[k])
         /\ \A s \in ASession : Thins(toServer'[s], toServer[s])
    BY <1>7, <1>8, ThinsSelf
  <1> QED
    BY <1>1, <1>8, <1>9, <1>10, PipeMoves

\* Every packet in the pipeline has been generated.
Known(g, q) == \A i \in DOMAIN q : IsData(q[i]) => Stamp(q[i]) \in DOMAIN g

LEMMA GenuineIsKnown ==
    ASSUME Content, NEW l, Genuine(generated, l)
    PROVE  Stamp(l) \in DOMAIN generated
  BY LineFields DEF Content, Clock, Genuine

LEMMA SequenceKnown ==
    ASSUME Content, NEW q \in Seq(Line),
           \A l \in Line : Has(q, l) /\ IsData(l) => Genuine(generated, l)
    PROVE  Known(generated, q)
  <1> SUFFICES ASSUME NEW i \in DOMAIN q, IsData(q[i])
               PROVE  Stamp(q[i]) \in DOMAIN generated
    BY DEF Known
  <1>1. q[i] \in Line /\ Has(q, q[i])
    BY ElementOfSeq, LenProperties DEF Has
  <1> QED
    BY <1>1, GenuineIsKnown

LEMMA PipeKnown ==
    ASSUME SystemInv, Content, NEW s \in Entrance, NEW k \in Stage
    PROVE  Known(generated, Pipe(s)[k])
  <1> USE DEF SystemInv
  <1>0. \A x \in Session : /\ toClient[x] \in Seq(Line) /\ toServer[x] \in Seq(Line)
                           /\ writeQueue[x] \in Seq(Line)
                           /\ wr[x] # "none" => writeQueue[x] # <<>>
                           /\ rd[x] = "done" => toServer[x] # <<>>
    BY DEF IInv, TypeOK, SessionLifecycle
  <1>1. Known(generated, <<>>)
    BY DEF Known
  <1>2. \A x \in Session : Known(generated, toServer[x])
    BY <1>0, SentData, SequenceKnown
  <1>3. \A x \in Session : Known(generated, toClient[x])
    <2>1. \A x \in Session, l \in Line : Has(toClient[x], l) => Genuine(generated, l)
      BY DEF Content, LinesToClients
    <2> QED
      BY <1>0, <2>1, SequenceKnown
  <1>4. \A x \in Session : Known(generated, Unsent(x))
    <2> SUFFICES ASSUME NEW x \in Session PROVE Known(generated, Unsent(x))
      OBVIOUS
    <2>1. \A l \in Line : Has(writeQueue[x], l) => Genuine(generated, l)
      BY DEF Content, LinesToClients
    <2>2. \A l \in Line : Has(Unsent(x), l) => Has(writeQueue[x], l)
      BY <1>0, HasTail DEF Unsent
    <2>3. Unsent(x) \in Seq(Line)
      BY PipeTypes
    <2> QED
      BY <2>1, <2>2, <2>3, SequenceKnown
  <1>5. Known(generated, LogLines)
    <2>1. \A i \in DOMAIN LogLines : Genuine(generated, LogLines[i])
      BY DEF LogLines, Content, LogOK, Genuine
    <2> QED
      BY <2>1, GenuineIsKnown DEF Known
  <1>6. Known(generated, LateQueue)
    <2>1. CASE LateSessions = {}
      BY <1>1, <2>1 DEF LateQueue
    <2>2. CASE LateSessions # {}
      <3> DEFINE x == Pick(LateSessions)
                 h == Head(toServer[x])
                 one == <<h>>
      <3>1. x \in Session /\ rd[x] = "done"
        BY <2>2 DEF Pick, LateSessions, HasLateLine
      <3>2. toServer[x] \in Seq(Line) /\ toServer[x] # <<>>
        BY <1>0, <3>1
      <3>3. h \in Line /\ Has(toServer[x], h)
        BY <3>2, HasTail
      <3>4. IsData(h) => Genuine(generated, h)
        BY <3>1, <3>3, SentData
      <3>5. LateQueue = one
        BY <2>2 DEF LateQueue
      <3>6. DOMAIN one = {1} /\ one[1] = h
        OBVIOUS
      <3> HIDE DEF one, h, x
      <3> QED
        BY <3>4, <3>5, <3>6, GenuineIsKnown DEF Known
    <2> QED
      BY <2>1, <2>2
  <1>7. Known(generated, Computing)
    <2>1. CASE bState = "write"
      <3> DEFINE h == AccelLine(bPacket)
                 one == <<h>>
      <3>1. Genuine(generated, h)
        BY <2>1 DEF Content, ComputingOK, Genuine
      <3>2. Computing = one /\ DOMAIN one = {1} /\ one[1] = h
        BY <2>1 DEF Computing
      <3> HIDE DEF one, h
      <3> QED
        BY <3>1, <3>2, GenuineIsKnown DEF Known
    <2>2. CASE bState # "write"
      BY <1>1, <2>2 DEF Computing
    <2> QED
      BY <2>1, <2>2
  <1>8. /\ Known(generated, AtA) /\ Known(generated, ToA) /\ Known(generated, FromB)
        /\ Known(generated, AtB) /\ Known(generated, ToB)
    BY <1>1, <1>2, <1>3, <1>4 DEF AtA, ToA, FromB, AtB, ToB, At
  <1>9. \A n \in 1..8 : Known(generated, Shared[n])
    BY <1>5, <1>6, <1>7, <1>8, SharedStages
  <1> QED
    BY <1>1, <1>2, <1>9, PipeShares, PipeEntrance, StageNumbers, SystemAssumption
       DEF Entrance

\* The history grows: the order of the packets it already had is the same.
LEMMA SortedGrows ==
    ASSUME NEW g, NEW R, NEW S, NEW P, Sorted(R, P),
           \A x, y \in DOMAIN g : <<x, y>> \in S => <<x, y>> \in R,
           \A k \in Stage : Known(g, P[k])
    PROVE  Sorted(S, P)
  <1>1. ASSUME NEW k \in Stage PROVE InOrder(S, P[k])
    <2>1. InOrder(R, P[k]) /\ Known(g, P[k])
      BY DEF Sorted
    <2> QED
      BY <2>1 DEF InOrder, Known, Before
  <1>2. ASSUME NEW m \in Stage, NEW n \in Stage, m < n PROVE Precedes(S, P[m], P[n])
    <2>1. Precedes(R, P[m], P[n]) /\ Known(g, P[m]) /\ Known(g, P[n])
      BY <1>2 DEF Sorted
    <2> QED
      BY <2>1 DEF Precedes, Known, Before
  <1> QED
    BY <1>1, <1>2 DEF Sorted

\* A new packet joins the entrance of its run, and nothing else changes.
LEMMA AWritesPacketPipe ==
    ASSUME SystemInv, Content, AWritesPacket
    PROVE  /\ \A k \in 1..8 : Shared'[k] = Shared[k]
           /\ \A s \in ASession :
                 \/ toServer'[s] = toServer[s]
                 \/ /\ toServer[s] \in Seq(Line)
                    /\ toServer'[s] = Append(toServer[s], AccelLine(NextPacket))
           /\ AccelLine(NextPacket) \in Line
           /\ UNCHANGED <<role, state, rd>>
  <1> USE DEF SystemInv
  <1> DEFINE l == AccelLine(NextPacket)
  <1>1. /\ aConn \in ASession /\ aConn \in Session /\ l \in Line
        /\ ClientWrites(aConn, l)
        /\ UNCHANGED <<aConn, bConn, bState, bPacket, log>>
    BY NextGenerated, SystemAssumption DEF AWritesPacket, WriteJson, Line, bVars
  <1> HIDE DEF l
  <1>2. /\ \A c \in Session : Unsent(c)' = Unsent(c)
        /\ LateQueue' = LateQueue /\ node' = node
        /\ \A s \in Session : s # aConn => toServer'[s] = toServer[s]
        /\ toClient' = toClient
    BY <1>1, ClientFrame DEF ClientWrites
  <1>3. /\ LogLines' = LogLines /\ AtA' = AtA /\ ToA' = ToA /\ Computing' = Computing
        /\ AtB' = AtB /\ ToB' = ToB
    BY <1>1, <1>2 DEF LogLines, AtA, ToA, AtB, ToB, At, Unsent, Computing
  <1>4. FromB' = FromB
    <2>1. node["B"] # aConn
      BY <1>1 DEF IInv, RegistryAgreement, Role, Content, LinesOfA
    <2> QED
      BY <1>2, <2>1 DEF FromB, At
  <1>5. \A k \in 1..8 : Shared'[k] = Shared[k]
    BY <1>2, <1>3, <1>4, SharedStages
  <1>6. \A s \in ASession : \/ toServer'[s] = toServer[s]
                            \/ /\ toServer[s] \in Seq(Line)
                               /\ toServer'[s] = Append(toServer[s], l)
    BY <1>1, <1>2, SystemAssumption DEF ClientWrites, IInv, TypeOK
  <1>7. UNCHANGED <<role, state, rd>>
    BY <1>1 DEF ClientWrites, clientFrame, sessionVars
  <1> QED
    BY <1>1, <1>5, <1>6, <1>7 DEF l

LEMMA NodeAPipe ==
    ASSUME SystemInv, Content, ANext, ~ AWritesPacket
    PROVE  PipeKept
  BY NodeAShrinks, AReadsPipe DEF ANext

\* Node B's steps that lose lines at most.
LEMMA NodeBShrinks ==
    ASSUME SystemInv, NEW x \in BSession, NEW d \in Line, ~ IsData(d),
           Connect(x) \/ ClientWrites(x, d) \/ ClientReads(x) \/ ClientCloses(x),
           UNCHANGED <<aVars, generated, log>>,
           bConn' = bConn \/ (Connect(x) /\ bConn' = x),
           Thins(Computing', Computing)
    PROVE  PipeKept
  <1>1. x \in Session /\ aConn' = aConn
    BY SystemAssumption DEF aVars
  <1>2. /\ \A c \in Session : Unsent(c)' = Unsent(c)
        /\ LateQueue' = LateQueue /\ node' = node
    BY <1>1, ClientFrame
  <1>3. \A s \in Session : /\ Thins(toServer'[s], toServer[s])
                           /\ Thins(toClient'[s], toClient[s])
    BY <1>1, ClientThins
  <1>4. ASSUME Connect(x), bConn' = x PROVE NoData(AtB') /\ NoData(ToB')
    <2>1. NoData(toClient'[x]) /\ NoData(Unsent(x)')
      BY <1>1, <1>4, NothingBeforeConnect
    <2>2. AtB' = toClient'[x] /\ ToB' = Unsent(x)'
      BY <1>1, <1>4 DEF AtB, ToB, At, Unsent
    <2> QED
      BY <2>1, <2>2
  <1> QED
    BY <1>1, <1>2, <1>3, <1>4, NodeShrinks

\* A packet that Node B reads is the one it computes from.
LEMMA BReadsPipe ==
    ASSUME SystemInv, Content, BReads,
           ClientReads(bConn), Head(toClient[bConn]).type = "accel",
           bState' = "write", bPacket' = Head(toClient[bConn]).packet, bConn' = bConn
    PROVE  PipeKept
  <1> USE DEF SystemInv
  <1> DEFINE h == Head(toClient[bConn])
  <1>1. /\ bConn \in Session /\ bState = "read" /\ InvalidLine \in Line
        /\ UNCHANGED <<aConn, generated, log>> /\ aConn # bConn
    BY SystemAssumption, ServerAssumption DEF BReads, NodesOK, Line, aVars
  <1>2. /\ \A c \in Session : Unsent(c)' = Unsent(c)
        /\ LateQueue' = LateQueue /\ node' = node
        /\ \A s \in Session : s # bConn => toClient'[s] = toClient[s]
        /\ toServer' = toServer
    BY <1>1, ClientFrame DEF ClientReads
  <1>3. /\ AtB # <<>> /\ AtB' = Tail(AtB) /\ Head(AtB) = h
    <2>1. toClient'[bConn] = Tail(toClient[bConn]) /\ toClient[bConn] # <<>>
      BY <1>1 DEF ClientReads, IInv, TypeOK
    <2> QED
      BY <1>1, <2>1 DEF AtB, At
  <1>4. h = AccelLine(bPacket')
    <2>1. h \in Line
      BY <1>1, HasTail DEF ClientReads, IInv, TypeOK
    <2> QED
      BY <2>1 DEF Line, HelloLine, AccelLine, ModuleLine, InvalidLine
  <1>5. Computing = <<>> /\ Computing' = <<h>>
    <2>1. Computing = <<>>
      BY <1>1 DEF Computing
    <2>2. Computing' = <<AccelLine(bPacket')>>
      BY DEF Computing
    <2> QED
      BY <1>4, <2>1, <2>2
  <1> HIDE DEF h
  <1>6. Computing' = Append(Computing, Head(AtB))
    <2>1. Append(<<>>, h) = <<h>>
      OBVIOUS
    <2> QED
      BY <1>3, <1>5, <2>1
  <1>7. /\ LogLines' = LogLines /\ AtA' = AtA /\ ToA' = ToA /\ ToB' = ToB
        /\ FromB' = FromB
    BY <1>1, <1>2 DEF LogLines, AtA, ToA, ToB, At, Unsent, FromB
  <1>8. /\ 6 \in 1..8 /\ 7 \in 1..8 /\ 6 < 7
        /\ Shared[7] # <<>>
        /\ Shared'[6] = Append(Shared[6], Head(Shared[7]))
        /\ Shared'[7] = Tail(Shared[7])
    BY <1>3, <1>6, SharedStages
  <1>9. \A k \in 1..8 : k # 6 /\ k # 7 => Thins(Shared'[k], Shared[k])
    BY <1>2, <1>7, SharedStages, ThinsSelf
  <1>10. /\ Thins(Shared'[7], Tail(Shared[7]))
         /\ \A k \in 1..8 : 6 < k /\ k < 7 => NoData(Shared'[k])
         /\ \A s \in ASession : Thins(toServer'[s], toServer[s])
    BY <1>2, <1>8, ThinsSelf
  <1> QED
    BY <1>1, <1>8, <1>9, <1>10, PipeMoves

\* The module of the packet goes to the session, if that is still registered.
LEMMA BWritesPipe ==
    ASSUME SystemInv, Content, bState = "write",
           ClientWrites(bConn, ModuleLine(ModuleOf(bPacket))),
           bState' = "read", UNCHANGED <<bConn, aVars, generated, log>>
    PROVE  PipeKept
  <1> USE DEF SystemInv
  <1> DEFINE l == ModuleLine(ModuleOf(bPacket))
             h == AccelLine(bPacket)
             one == <<h>>
  <1>1. /\ bConn \in Session /\ l \in Line /\ aConn' = aConn
        /\ ClientWrites(bConn, l) /\ role[bConn] = "B" /\ bConn \notin ASession
    BY SystemAssumption, ServerAssumption
       DEF NodesOK, Line, aVars, Content, ComputingOK
  <1>2. Computing = one /\ Computing' = <<>> /\ SamePacket(l, h)
    BY LineFields DEF Computing, SamePacket
  <1>3. one # <<>> /\ Head(one) = h
    BY HeadTailProperties
  <1> HIDE DEF l, h, one
  <1>4. /\ \A c \in Session : Unsent(c)' = Unsent(c)
        /\ LateQueue' = LateQueue /\ node' = node
        /\ \A s \in Session : s # bConn => toServer'[s] = toServer[s]
        /\ toClient' = toClient
    BY <1>1, ClientFrame DEF ClientWrites
  <1>5. /\ LogLines' = LogLines /\ AtA' = AtA /\ ToA' = ToA
        /\ AtB' = AtB /\ ToB' = ToB
    BY <1>1, <1>4 DEF LogLines, AtA, ToA, AtB, ToB, At, Unsent
  <1>6. \A s \in ASession : toServer'[s] = toServer[s]
    BY <1>1, <1>4, SystemAssumption
  <1>7. CASE state[bConn] = "closed"
    <2>1. toServer' = toServer
      BY <1>1, <1>7 DEF ClientWrites
    <2>2. FromB' = FromB
      BY <1>4, <2>1 DEF FromB
    <2>3. Thins(Computing', Computing)
      BY <1>2, ThinsNoData, EmptyHasNoData
    <2>4. \A k \in 1..8 : Thins(Shared'[k], Shared[k])
      BY <1>4, <1>5, <2>2, <2>3, SharedStages, ThinsSelf
    <2> QED
      BY <1>6, <2>4, ThinsSelf, PipeShrinks
  <1>8. CASE state[bConn] # "closed"
    <2>1. state[bConn] = "open"
      BY <1>1, <1>8 DEF IInv, TypeOK, SessionLifecycle, NoRole
    <2>2. node["B"] = bConn
      BY <1>1, <2>1 DEF IInv, RegistryAgreement, Role
    <2>3. toServer'[bConn] = Append(toServer[bConn], l)
      BY <1>1, <1>8 DEF ClientWrites, IInv, TypeOK
    <2>4. FromB' = Append(FromB, l)
      BY <1>1, <1>4, <2>2, <2>3 DEF FromB, At
    <2>5. /\ 5 \in 1..8 /\ 6 \in 1..8 /\ 5 < 6
          /\ Shared[6] # <<>> /\ SamePacket(l, Head(Shared[6]))
          /\ Shared'[5] = Append(Shared[5], l)
      BY <1>2, <1>3, <2>4, SharedStages
    <2>6. Thins(Shared'[6], Tail(Shared[6]))
      BY <1>2, SharedStages, ThinsNoData, EmptyHasNoData
    <2>7. \A k \in 1..8 : k # 5 /\ k # 6 => Thins(Shared'[k], Shared[k])
      BY <1>4, <1>5, SharedStages, ThinsSelf
    <2>8. \A k \in 1..8 : 5 < k /\ k < 6 => NoData(Shared'[k])
      OBVIOUS
    <2>9. \A s \in ASession : Thins(toServer'[s], toServer[s])
      BY <1>6, ThinsSelf
    <2> QED
      BY <1>1, <2>5, <2>6, <2>7, <2>8, <2>9, PipeMovesAs
  <1> QED
    BY <1>7, <1>8

LEMMA NodeBPipe ==
    ASSUME SystemInv, Content, BNext
    PROVE  PipeKept
  <1> USE DEF SystemInv
  <1>0. HelloLine("B") \in Line /\ ~ IsData(HelloLine("B"))
    BY LineFields DEF Line, Role
  <1>1. UNCHANGED <<aVars, generated, log>>
    BY DEF BNext, BStarts, BWritesHello, BReads, BWrites, BIsKilled
  <1>2. bState # "down" => bConn \in BSession
    BY DEF NodesOK
  <1>3. Thins(<<>>, Computing) /\ Thins(Computing, Computing)
    BY ThinsSelf, ThinsNoData, EmptyHasNoData
  <1>4. CASE BStarts
    <2>1. PICK x \in BSession : Connect(x) /\ bConn' = x
      BY <1>4 DEF BStarts
    <2>2. Computing' = <<>>
      BY <1>4 DEF BStarts, Computing
    <2> QED
      BY <1>0, <1>1, <1>3, <2>1, <2>2, NodeBShrinks
  <1>5. CASE bState = "hello" /\ ClientWrites(bConn, HelloLine("B"))
                /\ bState' = "read" /\ bConn' = bConn
    <2>1. Computing' = <<>>
      BY <1>5 DEF Computing
    <2> QED
      BY <1>0, <1>1, <1>2, <1>3, <1>5, <2>1, NodeBShrinks
  <1>6. CASE bState # "down" /\ BExits
    <2>1. Computing' = <<>> /\ ClientCloses(bConn) /\ bConn' = bConn
      BY <1>6 DEF Computing, BExits
    <2> QED
      BY <1>0, <1>1, <1>2, <1>3, <1>6, <2>1, NodeBShrinks
  <1>7. CASE BReads /\ ClientReads(bConn) /\ bConn' = bConn
    <2>1. bState = "read"
      BY <1>7 DEF BReads
    <2>2. CASE /\ Head(toClient[bConn]).type = "accel"
               /\ bState' = "write" /\ bPacket' = Head(toClient[bConn]).packet
      BY <1>7, <2>2, BReadsPipe
    <2>3. CASE bState' = bState
      <3>1. Computing' = <<>>
        BY <2>1, <2>3 DEF Computing
      <3> QED
        BY <1>0, <1>1, <1>2, <1>3, <1>7, <2>1, <3>1, NodeBShrinks
    <2>4. CASE bState' = "down"
      <3>1. Computing' = <<>>
        BY <2>4 DEF Computing
      <3> QED
        BY <1>0, <1>1, <1>2, <1>3, <1>7, <2>1, <3>1, NodeBShrinks
    <2> QED
      BY <1>7, <2>2, <2>3, <2>4 DEF BReads, BExits
  <1>8. CASE /\ bState = "write" /\ bState' = "read" /\ bConn' = bConn
             /\ ClientWrites(bConn, ModuleLine(ModuleOf(bPacket)))
    BY <1>1, <1>8, BWritesPipe
  <1>9. \/ BStarts
        \/ bState = "hello" /\ ClientWrites(bConn, HelloLine("B"))
              /\ bState' = "read" /\ bConn' = bConn
        \/ bState # "down" /\ BExits
        \/ BReads /\ ClientReads(bConn) /\ bConn' = bConn
        \/ /\ bState = "write" /\ bState' = "read" /\ bConn' = bConn
           /\ ClientWrites(bConn, ModuleLine(ModuleOf(bPacket)))
    BY DEF BNext, BWritesHello, BReads, BWrites, BIsKilled, WriteJson
  <1> QED
    BY <1>4, <1>5, <1>6, <1>7, <1>8, <1>9
==============================================================================
