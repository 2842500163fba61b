---------------------------- MODULE ModuleLogProofs ----------------------------
(***************************************************************************)
(* The accelerometer system implements ModuleLog: whatever dies or is lost *)
(* on the way, accel/module.log is made of blocks, one for a run of        *)
(* Node A, each of packets of the run in order.                            *)
(*                                                                         *)
(* PipeOrdered: in the pipeline of a run of Node A the packets of that run *)
(* are in order.  RunsApart: in the stages that the runs share, the        *)
(* packets of any two runs do not mix.  The second is the harder one,      *)
(* because two sessions of Node A may both hand packets over: one that is  *)
(* closed and still handles the line it has read, and the one registered   *)
(* since.  LateLineFirst says that the line of the closed session goes     *)
(* first, so the runs enter the pipeline one after another; and once a     *)
(* later run has entered, no earlier one can.                              *)
(***************************************************************************)
EXTENDS PipelineProofs

\* The order of the packets of a run: no packet comes before an earlier one.
Misordered(g) ==
    {p \in (DOMAIN g) \X (DOMAIN g) : g[p[1]].run = g[p[2]].run /\ p[2] <= p[1]}

\* The order of two runs: no packet of s comes before one of r.
Crossed(g, r, s) ==
    {p \in (DOMAIN g) \X (DOMAIN g) : g[p[1]].run = s /\ g[p[2]].run = r}

PipeOrdered == \A s \in ASession : Sorted(Misordered(generated), Pipe(s))

\* In the shared stages and the log, the packets of run r come before those
\* of run s.
RunsInOrder(r, s) == Sorted(Crossed(generated, r, s), Pipe(NoSession))

\* No packet of run s has come so far.
Absent(s) == \A p \in DOMAIN generated : OnTheWay(p) => generated[p].run # s

\* The session of run s may hand a packet over.
Serving(s) == role[s] = "A" /\ (state[s] = "open" \/ HasLateLine(s))

RunsApart ==
    /\ \A r, s \in ASession : r # s => RunsInOrder(r, s) \/ RunsInOrder(s, r)
    /\ \A r, s \in ASession : r # s /\ Serving(s) => RunsInOrder(r, s)
    /\ \A s \in ASession : role[s] # "A" => Absent(s)
    /\ \A r, s \in ASession :
          r # s /\ role[r] = "A" /\ HasLateLine(r) /\ Serving(s) => Absent(s)

LEMMA BeforeInRun ==
    ASSUME NEW g, NEW x \in DOMAIN g, NEW y \in DOMAIN g
    PROVE  Before(Misordered(g), x, y) <=> (g[x].run = g[y].run => ~ (y <= x))
  <1> DEFINE p == <<x, y>>
  <1>1. p[1] = x /\ p[2] = y /\ p \in (DOMAIN g) \X (DOMAIN g)
    OBVIOUS
  <1> HIDE DEF p
  <1>2. p \in Misordered(g) <=> (g[x].run = g[y].run /\ y <= x)
    BY <1>1 DEF Misordered
  <1> QED
    BY <1>2 DEF Before, p

LEMMA BeforeOfRuns ==
    ASSUME NEW g, NEW r, NEW s, NEW x, NEW y
    PROVE  Before(Crossed(g, r, s), x, y) <=>
              ~ (x \in DOMAIN g /\ y \in DOMAIN g /\ g[x].run = s /\ g[y].run = r)
  <1> DEFINE p == <<x, y>>
             D == DOMAIN g
  <1>1. p[1] = x /\ p[2] = y /\ (p \in D \X D <=> x \in D /\ y \in D)
    OBVIOUS
  <1> HIDE DEF p
  <1>2. p \in Crossed(g, r, s) <=>
           x \in D /\ y \in D /\ g[x].run = s /\ g[y].run = r
    BY <1>1 DEF Crossed
  <1> QED
    BY <1>2 DEF Before, p

\* Two runs do not mix while one of them has no packet in the pipeline.
LEMMA ApartWhileAbsent ==
    ASSUME NEW g, NEW P, NEW r, NEW s,
           \A k \in Stage, p \in DOMAIN g : Carries(P[k], p) => g[p].run # s
    PROVE  Sorted(Crossed(g, r, s), P) /\ Sorted(Crossed(g, s, r), P)
  <1>1. ASSUME NEW k \in Stage, NEW i \in DOMAIN P[k], IsData(P[k][i]),
               Stamp(P[k][i]) \in DOMAIN g
        PROVE  g[Stamp(P[k][i])].run # s
    BY <1>1 DEF Carries
  <1>2. ASSUME NEW m \in Stage, NEW i \in DOMAIN P[m], IsData(P[m][i]),
               NEW n \in Stage, NEW j \in DOMAIN P[n], IsData(P[n][j])
        PROVE  /\ Before(Crossed(g, r, s), Stamp(P[m][i]), Stamp(P[n][j]))
               /\ Before(Crossed(g, s, r), Stamp(P[m][i]), Stamp(P[n][j]))
    BY <1>1, <1>2, BeforeOfRuns
  <1> QED
    BY <1>2 DEF Sorted, InOrder, Precedes

------------------------------------------------------------------------------
(* A packet enters the shared stages.                                      *)

\* It may, if what is there already may come before it, and it before what is
\* left in the entrance.
LEMMA EntersSorted ==
    ASSUME SystemInv, Content, NEW x, Enters(x), NEW R, NEW s \in Entrance,
           Sorted(R, Pipe(s)),
           \A k \in 1..8 : Precedes(R, Shared[k], <<Head(toServer[x])>>),
           Precedes(R, <<Head(toServer[x])>>, Pipe(s)'[9])
    PROVE  Sorted(R, Pipe(s)')
  <1> DEFINE l == Head(toServer[x])
             P == Pipe(s)
             Q == Pipe(s)'
  <1>1. l \in Line /\ toServer[x] \in Seq(Line) /\ toServer[x] # <<>>
    BY HasTail DEF Enters
  <1>2. P[8] \in Seq(Line) /\ Q[8] = Append(P[8], l) /\ 8 \in Stage
    <2>1. 8 \in 1..8 /\ 8 \in Stage
      BY StageNumbers
    <2>2. P[8] = Shared[8] /\ Q[8] = Shared'[8]
      BY <2>1, PipeShares
    <2>3. Shared[8] \in Seq(Line)
      BY <2>1, PipeTypes
    <2> QED
      BY <2>1, <2>2, <2>3 DEF Enters
  <1>3. Thins(Q[9], P[9])
    <2>1. CASE s = NoSession
      BY <2>1, PipeEntrance, ThinsSelf
    <2>2. CASE s = x
      BY <1>1, <2>2, PipeEntrance, ThinsTail DEF Enters
    <2>3. CASE s \in ASession /\ s # x
      BY <2>3, PipeEntrance, ThinsSelf, SystemAssumption DEF Enters
    <2> QED
      BY <2>1, <2>2, <2>3 DEF Entrance
  <1>4. \A k \in Stage : k # 8 => Thins(Q[k], P[k])
    <2> SUFFICES ASSUME NEW k \in Stage, k # 8 PROVE Thins(Q[k], P[k])
      OBVIOUS
    <2>1. CASE k = 9
      BY <1>3, <2>1
    <2>2. CASE k \in 1..7
      <3>1. k \in 1..8
        BY <2>2
      <3>2. P[k] = Shared[k] /\ Q[k] = Shared'[k]
        BY <3>1, PipeShares
      <3> QED
        BY <2>2, <3>2 DEF Enters
    <2> QED
      BY <2>1, <2>2 DEF Stage
  <1>5. \A k \in Stage : k <= 8 => Precedes(R, P[k], <<l>>)
    <2> SUFFICES ASSUME NEW k \in Stage, k <= 8 PROVE Precedes(R, P[k], <<l>>)
      OBVIOUS
    <2>1. k \in 1..8
      BY DEF Stage
    <2>2. P[k] = Shared[k]
      BY <2>1, PipeShares
    <2> QED
      BY <2>1, <2>2
  <1>6. \A k \in Stage : k > 8 => Precedes(R, <<l>>, Q[k])
    BY StageNumbers
  <1>7. Sorted(R, P)
    OBVIOUS
  <1> HIDE DEF P, Q, l
  <1>8. Sorted(R, Q)
    BY <1>1, <1>2, <1>4, <1>5, <1>6, <1>7, SortedInsert
  <1> QED
    BY <1>8 DEF Q

LEMMA RunsAreApart ==
    ASSUME SystemInv, Content, NEW x \in ASession, NEW s \in ASession, s # x,
           NEW l \in Line, Has(toServer[x], l)
    PROVE  Precedes(Misordered(generated), <<l>>, toServer[s])
  <1> DEFINE one == <<l>>
  <1>1. DOMAIN one = {1} /\ one[1] = l
    OBVIOUS
  <1>2. toServer[s] \in Seq(Line)
    BY SystemAssumption DEF SystemInv, IInv, TypeOK
  <1> HIDE DEF one, Line
  <1>3. \A j \in DOMAIN toServer[s] :
           toServer[s][j] \in Line /\ Has(toServer[s], toServer[s][j])
    BY <1>2, ElementOfSeq, LenProperties DEF Has
  <1>4. ASSUME NEW j \in DOMAIN toServer[s], IsData(l), IsData(toServer[s][j])
        PROVE  Before(Misordered(generated), Stamp(l), Stamp(toServer[s][j]))
    <2> DEFINE a == Stamp(l)
               b == Stamp(toServer[s][j])
    <2>1. /\ a \in DOMAIN generated /\ generated[a].run = x
          /\ b \in DOMAIN generated /\ generated[b].run = s
      BY <1>3, <1>4, DataOfRun
    <2> HIDE DEF a, b
    <2>2. Before(Misordered(generated), a, b)
      BY <2>1, BeforeInRun
    <2> QED
      BY <2>2 DEF a, b
  <1>5. Precedes(Misordered(generated), one, toServer[s])
    BY <1>1, <1>4 DEF Precedes
  <1> QED
    BY <1>5 DEF one

LEMMA EntersOrdered ==
    ASSUME SystemInv, Content, PipeOrdered, generated' = generated, NEW x, Enters(x)
    PROVE  PipeOrdered'
  <1> DEFINE R == Misordered(generated)
             q == toServer[x]
  <1>1. /\ q \in Seq(Line) /\ q # <<>> /\ Head(q) \in Line /\ Has(q, Head(q))
        /\ x \in ASession /\ toServer'[x] = Tail(q)
    BY HasTail DEF Enters
  <1>2. Sorted(R, Pipe(x)) /\ Pipe(x)[9] = q
    BY <1>1, PipeEntrance DEF PipeOrdered
  <1> SUFFICES ASSUME NEW s \in ASession PROVE Sorted(R, Pipe(s)')
    BY DEF PipeOrdered
  <1> HIDE DEF R
  <1>3. ASSUME NEW k \in 1..8 PROVE Precedes(R, Shared[k], <<Head(q)>>)
    <2>1. Precedes(R, Shared[k], q)
      <3>1. k \in Stage /\ 9 \in Stage /\ k < 9 /\ Pipe(x)[k] = Shared[k]
        BY StageNumbers, PipeShares
      <3> QED
        BY <1>2, <3>1 DEF Sorted
    <2> QED
      BY <1>1, <2>1, HeadFirst
  <1>4. Precedes(R, <<Head(q)>>, Pipe(s)'[9])
    <2>1. Pipe(s)'[9] = toServer'[s]
      BY PipeEntrance
    <2>2. CASE s = x
      <3>1. InOrder(R, q)
        BY <1>2, StageNumbers DEF Sorted
      <3> QED
        BY <1>1, <2>1, <2>2, <3>1, HeadFirst
    <2>3. CASE s # x
      <3>1. toServer'[s] = toServer[s]
        BY <2>3, SystemAssumption DEF Enters
      <3> QED
        BY <1>1, <2>1, <2>3, <3>1, RunsAreApart DEF R
    <2> QED
      BY <2>2, <2>3
  <1>5. s \in Entrance /\ Sorted(R, Pipe(s))
    BY DEF Entrance, PipeOrdered, R
  <1> QED
    BY <1>3, <1>4, <1>5, EntersSorted

\* The packet that enters is of run x; it comes after all others.
LEMMA EntersBehind ==
    ASSUME SystemInv, Content, generated' = generated, NEW x, Enters(x)
    PROVE  /\ \A r, s : r # x /\ RunsInOrder(r, s) => RunsInOrder(r, s)'
           /\ \A s : s # x /\ Absent(s) => Absent(s)'
  <1> DEFINE q == toServer[x]
             l == Head(q)
             one == <<l>>
  <1>1. /\ q \in Seq(Line) /\ q # <<>> /\ l \in Line /\ Has(q, l) /\ x \in ASession
        /\ Shared'[8] = Append(Shared[8], l)
    BY HasTail DEF Enters
  <1>2. IsData(l) => generated[Stamp(l)].run = x
    BY <1>1, DataOfRun
  <1>3. DOMAIN one = {1} /\ one[1] = l
    OBVIOUS
  <1> HIDE DEF l, one
  <1>4. ASSUME NEW r, NEW s, r # x, RunsInOrder(r, s) PROVE RunsInOrder(r, s)'
    <2> DEFINE R == Crossed(generated, r, s)
    <2>1. \A k \in 1..8 : Precedes(R, Shared[k], one)
      <3>1. ASSUME NEW y, IsData(l) PROVE Before(R, y, Stamp(l))
        BY <1>2, <1>4, <3>1, BeforeOfRuns
      <3> HIDE DEF R
      <3> QED
        BY <1>3, <3>1 DEF Precedes
    <2>2. Precedes(R, one, Pipe(NoSession)'[9])
      <3>1. Pipe(NoSession)'[9] = <<>>
        BY PipeEntrance
      <3> QED
        BY <3>1 DEF Precedes
    <2>3. Sorted(R, Pipe(NoSession)) /\ NoSession \in Entrance
      BY <1>4 DEF RunsInOrder, Entrance
    <2> HIDE DEF R
    <2>4. Sorted(R, Pipe(NoSession)')
      BY <2>1, <2>2, <2>3, EntersSorted DEF one, l
    <2> QED
      BY <2>4 DEF RunsInOrder, R
  <1>5. ASSUME NEW s, s # x, Absent(s) PROVE Absent(s)'
    <2> SUFFICES ASSUME NEW p \in DOMAIN generated, OnTheWay(p)'
                 PROVE  generated[p].run # s
      BY DEF Absent
    <2>1. PICK k \in 1..8 : Carries(Shared'[k], p)
      BY DEF OnTheWay
    <2>2. CASE k = 8
      <3>1. Shared[8] \in Seq(Line)
        BY PipeTypes
      <3>2. Carries(Shared[8], p) \/ (IsData(l) /\ Stamp(l) = p)
        BY <1>1, <2>1, <2>2, <3>1, CarriesAppend
      <3>3. CASE Carries(Shared[8], p)
        BY <1>5, <3>3 DEF Absent, OnTheWay
      <3> QED
        BY <1>2, <1>5, <3>2, <3>3
    <2>3. CASE k # 8
      <3>1. k \in 1..7
        BY <2>3
      <3>2. Carries(Shared[k], p)
        BY <2>1, <3>1, CarriesThins DEF Enters
      <3> QED
        BY <1>5, <3>2 DEF Absent, OnTheWay
    <2> QED
      BY <2>2, <2>3
  <1> QED
    BY <1>4, <1>5

------------------------------------------------------------------------------
(* Node A generates a packet.                                              *)

\* It is later than all the others, so it may join its entrance.
LEMMA GeneratesOrdered ==
    ASSUME SystemInv, Content, PipeOrdered, AWritesPacket
    PROVE  PipeOrdered'
  <1> DEFINE l == AccelLine(NextPacket)
             n == Len(generated)
             R == Misordered(generated')
  <1>1. /\ l \in Line /\ \A k \in 1..8 : Shared'[k] = Shared[k]
        /\ \A s \in ASession :
              \/ toServer'[s] = toServer[s]
              \/ /\ toServer[s] \in Seq(Line)
                 /\ toServer'[s] = Append(toServer[s], l)
    BY AWritesPacketPipe
  <1>2. /\ n \in Nat /\ DOMAIN generated = 1..n /\ DOMAIN generated' = 1..(n + 1)
        /\ \A i \in DOMAIN generated : generated'[i] = generated[i]
        /\ Stamp(l) = n + 1
    BY NextGenerated, LineFields
  <1> HIDE DEF l, n, R
  <1> SUFFICES ASSUME NEW s \in ASession PROVE Sorted(R, Pipe(s)')
    BY DEF PipeOrdered, R
  <1> DEFINE P == Pipe(s)
             Q == Pipe(s)'
  <1>3. \A k \in Stage : Known(generated, P[k])
    BY PipeKnown DEF Entrance
  <1>4. Sorted(R, P)
    <2>1. Sorted(Misordered(generated), P)
      BY DEF PipeOrdered
    <2>2. \A x, y \in DOMAIN generated :
             <<x, y>> \in R => <<x, y>> \in Misordered(generated)
      BY <1>2 DEF R, Misordered
    <2> HIDE DEF P
    <2> QED
      BY <1>3, <2>1, <2>2, SortedGrows
  <1>5. P[9] = toServer[s] /\ Q[9] = toServer'[s]
    BY PipeEntrance
  <1>6. \A k \in Stage : k # 9 => Thins(Q[k], P[k])
    <2> SUFFICES ASSUME NEW k \in Stage, k # 9 PROVE Thins(Q[k], P[k])
      OBVIOUS
    <2>1. k \in 1..8
      BY StageNumbers
    <2>2. P[k] = Shared[k] /\ Q[k] = Shared'[k]
      BY <2>1, PipeShares
    <2> QED
      BY <1>1, <2>1, <2>2, ThinsSelf
  <1> HIDE DEF P, Q
  <1>7. CASE toServer'[s] = toServer[s]
    <2>1. \A k \in Stage : Thins(Q[k], P[k])
      BY <1>5, <1>6, <1>7, ThinsSelf
    <2>2. Sorted(R, Q)
      BY <1>4, <2>1, SortedThins
    <2> QED
      BY <2>2 DEF Q
  <1>8. CASE toServer'[s] # toServer[s]
    <2>1. P[9] \in Seq(Line) /\ Q[9] = Append(P[9], l) /\ 9 \in Stage
      BY <1>1, <1>5, <1>8, StageNumbers
    <2>2. ASSUME NEW k \in Stage PROVE Precedes(R, P[k], <<l>>)
      <3> DEFINE one == <<l>>
      <3>1. DOMAIN one = {1} /\ one[1] = l
        OBVIOUS
      <3> HIDE DEF one
      <3>2. ASSUME NEW i \in DOMAIN P[k], IsData(P[k][i])
            PROVE  Before(R, Stamp(P[k][i]), Stamp(l))
        <4> DEFINE a == Stamp(P[k][i])
        <4>1. a \in DOMAIN generated
          BY <1>3, <3>2 DEF Known
        <4> HIDE DEF a
        <4>2. a \in 1..n
          BY <1>2, <4>1
        <4>3. a \in DOMAIN generated' /\ n + 1 \in DOMAIN generated' /\ ~ (n + 1 <= a)
          BY <1>2, <4>2
        <4>4. Before(R, a, n + 1)
          BY <4>3, BeforeInRun DEF R
        <4> QED
          BY <1>2, <4>4 DEF a
      <3>3. Precedes(R, P[k], one)
        BY <3>1, <3>2 DEF Precedes
      <3> QED
        BY <3>3 DEF one
    <2>3. \A k \in Stage : k > 9 => Precedes(R, <<l>>, Q[k])
      BY DEF Stage
    <2>4. Sorted(R, Q)
      BY <1>1, <1>4, <1>6, <2>1, <2>2, <2>3, SortedInsert
    <2> QED
      BY <2>4 DEF Q
  <1> QED
    BY <1>7, <1>8

\* The shared stages have nothing of it.
LEMMA GeneratesApart ==
    ASSUME SystemInv, Content, AWritesPacket
    PROVE  /\ \A r, s : RunsInOrder(r, s) => RunsInOrder(r, s)'
           /\ \A s : Absent(s) => Absent(s)'
           /\ UNCHANGED <<role, state, rd>>
  <1>1. (\A k \in 1..8 : Shared'[k] = Shared[k]) /\ UNCHANGED <<role, state, rd>>
    BY AWritesPacketPipe
  <1>2. \A i \in DOMAIN generated : generated'[i] = generated[i]
    BY NextGenerated
  <1> DEFINE P == Pipe(NoSession)
             Q == Pipe(NoSession)'
  <1>3. \A k \in Stage : Known(generated, P[k])
    BY PipeKnown DEF Entrance
  <1>4. \A k \in Stage : Q[k] = P[k]
    <2> SUFFICES ASSUME NEW k \in Stage PROVE Q[k] = P[k]
      OBVIOUS
    <2>1. CASE k = 9
      BY <2>1, PipeEntrance
    <2>2. CASE k \in 1..8
      <3>1. P[k] = Shared[k] /\ Q[k] = Shared'[k]
        BY <2>2, PipeShares
      <3> QED
        BY <1>1, <2>2, <3>1
    <2> QED
      BY <2>1, <2>2, StageNumbers
  <1>5. ASSUME NEW r, NEW s, RunsInOrder(r, s) PROVE RunsInOrder(r, s)'
    <2> DEFINE R == Crossed(generated, r, s)
               S == Crossed(generated', r, s)
    <2>1. \A x, y \in DOMAIN generated : <<x, y>> \in S => <<x, y>> \in R
      BY <1>2 DEF Crossed
    <2>2. Sorted(R, P)
      BY <1>5 DEF RunsInOrder
    <2> HIDE DEF P, Q, R, S
    <2>3. Sorted(S, P)
      BY <1>3, <2>1, <2>2, SortedGrows
    <2>4. Sorted(S, Q)
      BY <1>4, <2>3, ThinsSelf, SortedThins
    <2> QED
      BY <2>4 DEF RunsInOrder, Q, S
  <1>6. ASSUME NEW s, Absent(s) PROVE Absent(s)'
    <2> SUFFICES ASSUME NEW p \in DOMAIN generated', OnTheWay(p)'
                 PROVE  generated'[p].run # s
      BY DEF Absent
    <2>1. PICK k \in 1..8 : Carries(Shared[k], p)
      BY <1>1 DEF OnTheWay
    <2>2. P[k] = Shared[k] /\ k \in Stage
      BY PipeShares, StageNumbers
    <2>3. p \in DOMAIN generated
      BY <1>3, <2>1, <2>2 DEF Known, Carries
    <2> QED
      BY <1>2, <1>6, <2>1, <2>3 DEF Absent, OnTheWay
  <1> QED
    BY <1>1, <1>5, <1>6

------------------------------------------------------------------------------
(* Which sessions may hand a packet over.                                  *)

\* A session that may hand a packet over could do so before, or was not yet
\* registered; and one has a late line besides another that may hand a packet
\* over only if that was so before, or the other was not yet registered.
ServingKept ==
    /\ \A s \in ASession : role'[s] # "A" => role[s] # "A"
    /\ \A s \in ASession : Serving(s)' => Serving(s) \/ role[s] # "A"
    /\ \A r, s \in ASession :
          r # s /\ role'[r] = "A" /\ HasLateLine(r)' /\ Serving(s)' =>
             \/ role[s] # "A"
             \/ role[r] = "A" /\ HasLateLine(r) /\ Serving(s)

LEMMA ServingUnchanged ==
    ASSUME UNCHANGED <<role, state, rd>>
    PROVE  ServingKept
  BY DEF ServingKept, Serving, HasLateLine

\* A step after which no other session is open, registered or late.
LEMMA ServingNoMore ==
    ASSUME role' = role,
           \A s \in ASession : state'[s] = "open" => state[s] = "open" \/ role[s] # "A",
           \A s \in ASession : HasLateLine(s)' => HasLateLine(s)
    PROVE  ServingKept
  BY DEF ServingKept, Serving

LEMMA LineServing ==
    ASSUME IInv, NEW x \in Session, NEW l \in Line, HandleLine(x, l)
    PROVE  /\ state' = state
           /\ \A s \in Session : HasLateLine(s)' => HasLateLine(s) /\ s # x
  BY DEF HandleLine, HasLateLine, IInv, TypeOK

LEMMA WriteFailsServing ==
    ASSUME IInv, LateLineFirst', NEW x \in Session, WriteFails(x)
    PROVE  ServingKept
  <1>1. /\ role' = role /\ state' = [state EXCEPT ![x] = "closed"]
        /\ rd' = [rd EXCEPT ![x] = Cancelled(@)]
        /\ state \in [Session -> {"none", "accepting", "open", "closed"}]
        /\ rd \in [Session -> OpState]
    BY DEF WriteFails, Close, IInv, TypeOK
  <1>2. \A s \in Session : state'[s] = "open" => state[s] = "open"
    BY <1>1
  <1>3. \A s \in Session :
           HasLateLine(s)' => HasLateLine(s) \/ (s = x /\ state[x] \notin {"none", "closed"})
    BY <1>1 DEF HasLateLine, Cancelled, IInv, SessionLifecycle
  <1>4. role[x] = "A" => state[x] \in {"open", "closed"}
    BY DEF IInv, TypeOK, SessionLifecycle, NoRole
  <1>5. ASSUME NEW s \in ASession, Serving(s)' PROVE Serving(s)
    BY <1>1, <1>2, <1>3, <1>4, <1>5, SystemAssumption DEF Serving
  <1>6. ASSUME NEW r \in ASession, NEW s \in ASession, r # s, role'[r] = "A",
               HasLateLine(r)', Serving(s)'
        PROVE  HasLateLine(r)
    <2> SUFFICES ASSUME r = x, state[x] = "open" PROVE FALSE
      BY <1>1, <1>3, <1>4, <1>6, SystemAssumption
    <2>1. role[s] = "A" /\ role[x] = "A" /\ s \in Session
      BY <1>1, <1>6, SystemAssumption DEF Serving
    <2>2. CASE state'[s] = "open"
      BY <1>2, <1>6, <2>1, <2>2 DEF IInv, RegistryAgreement, Role
    <2>3. CASE HasLateLine(s)'
      BY <1>1, <1>6, <2>1, <2>3 DEF LateLineFirst
    <2> QED
      BY <1>6, <2>2, <2>3 DEF Serving
  <1> QED
    BY <1>1, <1>5, <1>6 DEF ServingKept

LEMMA ServerServing ==
    ASSUME SystemInv, LateLineFirst', NEW x \in Session, ServerStep(x)
    PROVE  ServingKept
  <1> USE DEF SystemInv
  <1>1. CASE AcceptCompletes(x)
    BY <1>1, SystemAssumption, ServingNoMore
       DEF AcceptCompletes, HasLateLine, IInv, TypeOK
  <1>2. CASE ReadCompletes(x)
    BY <1>2, SystemAssumption, ServingNoMore
       DEF ReadCompletes, HasLateLine, IInv, TypeOK, SessionLifecycle
  <1>3. CASE WriteCompletes(x)
    BY <1>3, ServingUnchanged DEF WriteCompletes
  <1>4. CASE StartSession(x)
    <2>1. state[x] = "accepting"
      <3>1. ready \in Seq(Completions) /\ IsInjective(ready)
            /\ Handler("accept", x) /\ ready' = Tail(ready)
        BY <1>4 DEF IInv, TypeOK, HandlersMatchOperations, StartSession
      <3> QED
        BY <3>1, HandlerTakes DEF IInv, HandlersMatchOperations
    <2>2. role[x] # "A"
      BY <2>1 DEF IInv, SessionLifecycle, NoRole
    <2> QED
      BY <1>4, <2>1, <2>2, SystemAssumption, ServingNoMore
         DEF StartSession, HasLateLine, IInv, TypeOK
  <1>5. CASE ReadFails(x)
    <2>1. /\ role' = role /\ state' = [state EXCEPT ![x] = "closed"]
          /\ rd' = [rd EXCEPT ![x] = "none"]
      BY <1>5 DEF ReadFails, Close, IInv, TypeOK
    <2> QED
      BY <2>1, SystemAssumption, ServingNoMore DEF HasLateLine, IInv, TypeOK
  <1>6. CASE WriteFails(x)
    BY <1>6, WriteFailsServing
  <1>7. CASE WriteSucceeds(x)
    BY <1>7, ServingUnchanged DEF WriteSucceeds
  <1>8. CASE Register(x)
    <2>1. PICK l \in Line : /\ HandleLine(x, l) /\ role[x] = NoRole
                            /\ role' = [role EXCEPT ![x] = l.role]
      BY <1>8 DEF Register, Registers
    <2>2. /\ state' = state
          /\ \A s \in Session : HasLateLine(s)' => HasLateLine(s) /\ s # x
          /\ \A s \in Session : s # x => role'[s] = role[s]
      BY <2>1, LineServing DEF IInv, TypeOK
    <2> QED
      BY <2>1, <2>2, SystemAssumption DEF ServingKept, Serving, NoRole
  <1>9. CASE AcceptPacket(x) \/ ReturnModule(x) \/ DropLine(x)
    <2>1. role' = role /\ \E l \in Line : HandleLine(x, l)
      BY <1>9 DEF AcceptPacket, ReturnModule, DropLine
    <2> QED
      BY <2>1, LineServing, SystemAssumption, ServingNoMore
  <1> QED
    BY <1>1, <1>2, <1>3, <1>4, <1>5, <1>6, <1>7, <1>8, <1>9
       DEF ServerStep, RunHandler

LEMMA ServerExitsServing ==
    ASSUME ServerExits
    PROVE  ServingKept
  BY SystemAssumption, ServingNoMore DEF ServerExits, HasLateLine

\* The nodes leave the sessions alone.
LEMMA NodesLeaveSessions ==
    ASSUME (ANext /\ ~ AWritesPacket) \/ BNext
    PROVE  UNCHANGED <<role, state, rd>> /\ generated' = generated
  <1>1. ASSUME NEW x, NEW d,
               Connect(x) \/ ClientWrites(x, d) \/ ClientReads(x) \/ ClientCloses(x)
        PROVE  UNCHANGED <<role, state, rd>>
    BY <1>1 DEF Connect, ClientWrites, ClientReads, ClientCloses, clientFrame,
                sessionVars
  <1>2. ASSUME UNCHANGED vars PROVE UNCHANGED <<role, state, rd>>
    BY <1>2 DEF vars, sessionVars
  <1>3. CASE ANext /\ ~ AWritesPacket
    BY <1>1, <1>2, <1>3
       DEF ANext, AStarts, AWritesHello, AFailsToWrite, ACloses, AJoins, AOpensLog,
           AChecks, AReads, AFailsToRead, AIsKilled, WriteJson
  <1>4. CASE BNext
    BY <1>1, <1>4
       DEF BNext, BStarts, BWritesHello, BReads, BWrites, BIsKilled, BExits, WriteJson
  <1> QED
    BY <1>3, <1>4

------------------------------------------------------------------------------
(* The runs stay apart.                                                    *)

LEMMA AbsentIsApart ==
    ASSUME NEW r, NEW s, Absent(s)
    PROVE  RunsInOrder(r, s) /\ RunsInOrder(s, r)
  <1> DEFINE P == Pipe(NoSession)
  <1>1. ASSUME NEW k \in Stage, NEW p \in DOMAIN generated, Carries(P[k], p)
        PROVE  generated[p].run # s
    <2>1. CASE k = 9
      BY <1>1, <2>1, PipeEntrance DEF Carries
    <2>2. CASE k \in 1..8
      <3>1. P[k] = Shared[k]
        BY <2>2, PipeShares
      <3> QED
        BY <1>1, <2>2, <3>1 DEF Absent, OnTheWay
    <2> QED
      BY <2>1, <2>2, StageNumbers
  <1> HIDE DEF P
  <1>2. Sorted(Crossed(generated, r, s), P) /\ Sorted(Crossed(generated, s, r), P)
    BY <1>1, ApartWhileAbsent
  <1> QED
    BY <1>2 DEF RunsInOrder, P

LEMMA AbsentIsApartNext ==
    ASSUME NEW r, NEW s, Absent(s)'
    PROVE  RunsInOrder(r, s)' /\ RunsInOrder(s, r)'
  <1> DEFINE P == Pipe(NoSession)'
  <1>1. ASSUME NEW k \in Stage, NEW p \in DOMAIN generated', Carries(P[k], p)
        PROVE  generated'[p].run # s
    <2>1. CASE k = 9
      BY <1>1, <2>1, PipeEntrance DEF Carries
    <2>2. CASE k \in 1..8
      <3>1. P[k] = Shared'[k]
        BY <2>2, PipeShares
      <3> QED
        BY <1>1, <2>2, <3>1 DEF Absent, OnTheWay
    <2> QED
      BY <2>1, <2>2, StageNumbers
  <1> HIDE DEF P
  <1>2. Sorted(Crossed(generated', r, s), P) /\ Sorted(Crossed(generated', s, r), P)
    BY <1>1, ApartWhileAbsent
  <1> QED
    BY <1>2 DEF RunsInOrder, P

\* Steps in which no packet enters.  A session that registers has sent none.
LEMMA RunsStayApart ==
    ASSUME RunsApart, ServingKept,
           \A r, s : RunsInOrder(r, s) => RunsInOrder(r, s)',
           \A s : Absent(s) => Absent(s)'
    PROVE  RunsApart'
  <1>1. ASSUME NEW r \in ASession, NEW s \in ASession, r # s
        PROVE  RunsInOrder(r, s)' \/ RunsInOrder(s, r)'
    BY <1>1 DEF RunsApart
  <1>2. ASSUME NEW r \in ASession, NEW s \in ASession, r # s, Serving(s)'
        PROVE  RunsInOrder(r, s)'
    <2>1. CASE Serving(s)
      BY <1>2, <2>1 DEF RunsApart
    <2>2. CASE role[s] # "A"
      <3>1. RunsInOrder(r, s)
        BY <2>2, AbsentIsApart DEF RunsApart
      <3> QED
        BY <3>1
    <2> QED
      BY <1>2, <2>1, <2>2 DEF ServingKept
  <1>3. ASSUME NEW s \in ASession, role'[s] # "A" PROVE Absent(s)'
    BY <1>3 DEF RunsApart, ServingKept
  <1>4. ASSUME NEW r \in ASession, NEW s \in ASession, r # s, role'[r] = "A",
               HasLateLine(r)', Serving(s)'
        PROVE  Absent(s)'
    BY <1>4 DEF RunsApart, ServingKept
  <1> QED
    BY <1>1, <1>2, <1>3, <1>4 DEF RunsApart

\* A packet of run x enters.  Every other run comes before x, and another run
\* whose session may hand a packet over has not come at all: its session is
\* open, that of x is closed and handles its late line.
LEMMA RunEnters ==
    ASSUME SystemInv, LateLineFirst, Content, RunsApart, generated' = generated,
           NEW x \in Session, AcceptPacket(x), Enters(x)
    PROVE  RunsApart'
  <1> USE DEF SystemInv
  <1>1. PICK l \in Line : HandleLine(x, l) /\ role[x] = "A" /\ role' = role
    BY DEF AcceptPacket, Accepts
  <1>2. /\ Handler("read", x) /\ rd[x] = "done" /\ state[x] \in {"open", "closed"}
        /\ state' = state
        /\ \A s \in Session : HasLateLine(s)' => HasLateLine(s) /\ s # x
    BY <1>1, LineServing, LineHandled DEF HandleLine, LineEffect
  <1>3. x \in ASession /\ Serving(x) /\ (state[x] = "closed" => HasLateLine(x))
    BY <1>1, <1>2 DEF Enters, Serving, HasLateLine
  <1>4. \A s \in ASession : Serving(s)' => Serving(s)
    BY <1>1, <1>2, SystemAssumption DEF Serving
  <1>5. ASSUME NEW s \in Session, s # x, role[s] = "A"
        PROVE  ~ HasLateLine(s) /\ (state[x] = "open" => state[s] # "open")
    <2>1. state[x] = "open" => ~ HasLateLine(s)
      BY <1>1, <1>2, <1>5, NothingLateBefore
    <2>2. state[x] = "closed" => ~ HasLateLine(s)
      BY <1>1, <1>3, <1>5 DEF LateLineFirst
    <2>3. state[x] = "open" => state[s] # "open"
      BY <1>1, <1>5 DEF IInv, RegistryAgreement, Role
    <2> QED
      BY <1>2, <2>1, <2>2, <2>3
  <1>6. ASSUME NEW s \in ASession, s # x, Serving(s) PROVE Absent(s)
    <2>1. HasLateLine(x)
      BY <1>2, <1>3, <1>5, <1>6, SystemAssumption DEF Serving
    <2> QED
      BY <1>1, <1>3, <1>6, <2>1 DEF RunsApart
  <1>7. /\ \A r, s : r # x /\ RunsInOrder(r, s) => RunsInOrder(r, s)'
        /\ \A s : s # x /\ Absent(s) => Absent(s)'
    BY EntersBehind
  <1>8. \A r \in ASession : r # x => RunsInOrder(r, x) /\ RunsInOrder(r, x)'
    BY <1>3, <1>7 DEF RunsApart
  <1>9. ASSUME NEW r \in ASession, NEW s \in ASession, r # s
        PROVE  RunsInOrder(r, s)' \/ RunsInOrder(s, r)'
    BY <1>7, <1>8, <1>9 DEF RunsApart
  <1>10. ASSUME NEW r \in ASession, NEW s \in ASession, r # s, Serving(s)'
         PROVE  RunsInOrder(r, s)'
    <2>1. CASE s = x
      BY <1>8, <1>10, <2>1
    <2>2. CASE s # x
      <3>1. Absent(s)'
        BY <1>4, <1>6, <1>7, <1>10, <2>2
      <3> QED
        BY <3>1, AbsentIsApartNext
    <2> QED
      BY <2>1, <2>2
  <1>11. ASSUME NEW s \in ASession, role'[s] # "A" PROVE Absent(s)'
    BY <1>1, <1>7, <1>11 DEF RunsApart
  <1>12. ASSUME NEW r \in ASession, NEW s \in ASession, r # s, role'[r] = "A",
                HasLateLine(r)', Serving(s)'
         PROVE  Absent(s)'
    <2>1. FALSE
      BY <1>1, <1>2, <1>5, <1>12, SystemAssumption
    <2> QED
      BY <2>1
  <1> QED
    BY <1>9, <1>10, <1>11, <1>12 DEF RunsApart

------------------------------------------------------------------------------
(* The inductive invariant and the refinement.                             *)

OrderInv == Content /\ PipeOrdered /\ RunsApart

LEMMA OrderInit == SystemInit => OrderInv
  <1> SUFFICES ASSUME SystemInit PROVE OrderInv
    OBVIOUS
  <1>1. /\ generated = <<>> /\ log = <<>> /\ bState = "down"
        /\ aConn = NoSession /\ bConn = NoSession
        /\ toServer = [s \in Session |-> <<>>] /\ toClient = [s \in Session |-> <<>>]
        /\ writeQueue = [s \in Session |-> <<>>] /\ role = [s \in Session |-> NoRole]
        /\ state = [s \in Session |-> "none"] /\ node = [r \in Role |-> NoSession]
        /\ DOMAIN generated = {} /\ DOMAIN log = {}
    BY DEF SystemInit, Init
  <1>2. Content
    <2>1. Clock(generated) /\ LogOK /\ ComputingOK
      BY <1>1, EmptySeq DEF Clock, LogOK, ComputingOK
    <2>2. LinesToClients
      BY <1>1, HasEmpty DEF LinesToClients
    <2>3. LinesOfA /\ LinesOfB
      BY <1>1, HasEmpty, SystemAssumption DEF LinesOfA, LinesOfB, NoRole
    <2> QED
      BY <2>1, <2>2, <2>3 DEF Content
  <1>3. NoData(LogLines)
    BY <1>1 DEF NoData, LogLines
  <1>4. /\ AtA = <<>> /\ ToA = <<>> /\ AtB = <<>> /\ ToB = <<>>
        /\ FromB = <<>> /\ Computing = <<>>
    BY <1>1, ServerAssumption DEF AtA, ToA, AtB, ToB, FromB, At, Computing, Role
  <1>5. LateQueue = <<>>
    <2>1. LateSessions = {}
      BY <1>1 DEF LateSessions, HasLateLine
    <2> QED
      BY <2>1 DEF LateQueue
  <1>6. \A k \in 1..8 : NoData(Shared[k])
    BY <1>3, <1>4, <1>5, EmptyHasNoData, SharedStages
  <1>7. PipeOrdered
    <2> SUFFICES ASSUME NEW s \in ASession PROVE Sorted(Misordered(generated), Pipe(s))
      BY DEF PipeOrdered
    <2> DEFINE P == Pipe(s)
    <2>1. ASSUME NEW k \in Stage PROVE NoData(P[k])
      <3>1. CASE k \in 1..8
        BY <1>6, <3>1, PipeShares
      <3>2. CASE k = 9
        <4>1. toServer[s] = <<>> /\ P[9] = toServer[s]
          BY <1>1, SystemAssumption, PipeEntrance
        <4> QED
          BY <3>2, <4>1, EmptyHasNoData
      <3> QED
        BY <3>1, <3>2, StageNumbers
    <2> HIDE DEF P
    <2>2. Sorted(Misordered(generated), P)
      BY <2>1 DEF Sorted, InOrder, Precedes, NoData
    <2> QED
      BY <2>2 DEF P
  <1>8. RunsApart
    <2>1. \A s \in ASession : Absent(s)
      BY <1>6 DEF Absent, OnTheWay, Carries, NoData
    <2> QED
      BY <2>1, AbsentIsApart DEF RunsApart
  <1> QED
    BY <1>2, <1>7, <1>8 DEF OrderInv

\* A step in which no packet enters or is generated.
LEMMA OrderKeptByPipe ==
    ASSUME OrderInv, Content', PipeKept, ServingKept, generated' = generated
    PROVE  OrderInv'
  <1>1. PipeOrdered'
    BY DEF OrderInv, PipeOrdered, PipeKept, Entrance
  <1>2. \A r, s : RunsInOrder(r, s) => RunsInOrder(r, s)'
    BY DEF RunsInOrder, PipeKept, Entrance
  <1>3. \A s : Absent(s) => Absent(s)'
    BY DEF Absent, PipeKept
  <1>4. RunsApart'
    BY <1>2, <1>3, RunsStayApart DEF OrderInv
  <1> QED
    BY <1>1, <1>4 DEF OrderInv

LEMMA OrderStep ==
    ASSUME SystemInv, LateLineFirst, LateLineFirst', OrderInv, [SystemNext]_systemVars
    PROVE  OrderInv'
  <1> USE DEF SystemInv, OrderInv
  <1>1. ASSUME UNCHANGED <<aVars, bVars, generated, log>>,
               UNCHANGED <<toServer, toClient, state, rd, role, writeQueue, wr, node>>
        PROVE  OrderInv'
    <2>1. NothingMadeUp
      BY <1>1 DEF NothingMadeUp
    <2>2. Content' /\ generated' = generated
      BY <1>1, <2>1, ServerContent
    <2>3. PipeKept /\ ServingKept
      BY <1>1, StillPipe, ServingUnchanged
    <2> QED
      BY <2>2, <2>3, OrderKeptByPipe
  <1>2. CASE ServerActs
    <2>1. UNCHANGED <<aVars, bVars, generated, log>> /\ generated' = generated
      BY <1>2 DEF ServerActs, nodeVars
    <2>2. ASSUME NEW x \in Session, ServerStep(x) PROVE OrderInv'
      <3>1. Content'
        BY <2>1, <2>2, ServerMakesNoLine, ServerContent
      <3>2. ServingKept
        BY <2>2, ServerServing
      <3>3. CASE PipeKept
        BY <2>1, <3>1, <3>2, <3>3, OrderKeptByPipe
      <3>4. CASE AcceptPacket(x) /\ Enters(x)
        <4>1. PipeOrdered'
          BY <2>1, <3>4, EntersOrdered
        <4>2. RunsApart'
          BY <2>1, <3>4, RunEnters
        <4> QED
          BY <3>1, <4>1, <4>2
      <3> QED
        BY <2>1, <2>2, <3>3, <3>4, ServerPipe
    <2>3. CASE ServerStarts
      <3>1. UNCHANGED <<toServer, toClient, state, rd, role, writeQueue, wr, node>>
        BY <2>3 DEF ServerStarts, tcpVars, sessionVars
      <3> QED
        BY <1>1, <2>1, <3>1
    <2> QED
      BY <1>2, <2>2, <2>3 DEF ServerActs
  <1>3. CASE ServerIsKilled
    <2>1. UNCHANGED <<aVars, bVars, generated, log>> /\ ServerExits
      BY <1>3 DEF ServerIsKilled
    <2>2. NothingMadeUp
      BY <2>1, HasEmpty DEF ServerExits, NothingMadeUp, tcpVars
    <2>3. Content' /\ PipeKept /\ ServingKept /\ generated' = generated
      BY <2>1, <2>2, ServerContent, ServerExitsPipe, ServerExitsServing
    <2> QED
      BY <2>3, OrderKeptByPipe
  <1>4. CASE AWritesPacket
    <2>1. Content'
      BY <1>4, NodeAContent DEF ANext
    <2>2. PipeOrdered'
      BY <1>4, GeneratesOrdered
    <2>3. RunsApart'
      <3>1. UNCHANGED <<role, state, rd>>
        BY <1>4, GeneratesApart
      <3> QED
        BY <1>4, <3>1, GeneratesApart, ServingUnchanged, RunsStayApart
    <2> QED
      BY <2>1, <2>2, <2>3
  <1>5. CASE (ANext /\ ~ AWritesPacket) \/ BNext
    <2>1. Content' /\ PipeKept
      BY <1>5, NodeAContent, NodeBContent, NodeAPipe, NodeBPipe
    <2>2. UNCHANGED <<role, state, rd>> /\ generated' = generated
      BY <1>5, NodesLeaveSessions
    <2> QED
      BY <2>1, <2>2, ServingUnchanged, OrderKeptByPipe
  <1>6. CASE UNCHANGED systemVars
    <2>1. /\ UNCHANGED <<aVars, bVars, generated, log>>
          /\ UNCHANGED <<toServer, toClient, state, rd, role, writeQueue, wr, node>>
      BY <1>6 DEF systemVars, vars, nodeVars, tcpVars, sessionVars
    <2> QED
      BY <1>1, <2>1
  <1> QED
    BY <1>2, <1>3, <1>4, <1>5, <1>6 DEF SystemNext

\* The packet that Node A is about to log is in the pipeline of the current
\* run, after all of the run that is in the log already; and if the log had
\* gone on to another run, the two runs would be mixed.
LEMMA ReadIsLog ==
    ASSUME SystemInv, OrderInv, AReads
    PROVE  \E i \in DOMAIN generated : Abstract!Log(i)
  <1> USE DEF OrderInv
  <1>1. PICK i \in DOMAIN generated :
           /\ Head(toClient[aConn]) = ModuleLine(ModuleOf(generated[i].packet))
           /\ log' = Append(log, ModuleOf(generated[i].packet))
    BY LogGrows
  <1>2. aConn \in ASession /\ aConn \in Session /\ generated' = generated
    BY SystemAssumption DEF AReads, SystemInv, NodesOK
  <1>3. ASSUME NEW R, NEW s, Sorted(R, Pipe(s))
        PROVE  Precedes(R, LogLines, AtA) /\ InOrder(R, LogLines)
    <2>1. 1 \in 1..8 /\ 2 \in 1..8
      OBVIOUS
    <2>2. /\ 1 \in Stage /\ 2 \in Stage
          /\ Pipe(s)[1] = LogLines /\ Pipe(s)[2] = AtA
      BY <2>1, PipeShares, SharedStages, StageNumbers
    <2>3. Precedes(R, Pipe(s)[1], Pipe(s)[2]) /\ InOrder(R, Pipe(s)[1])
      BY <1>3, <2>2 DEF Sorted
    <2> QED
      BY <2>2, <2>3
  <1>4. /\ 1 \in DOMAIN AtA /\ IsData(AtA[1]) /\ Stamp(AtA[1]) = i
    <2>1. toClient[aConn] \in Seq(Line) /\ toClient[aConn] # <<>>
      BY <1>2 DEF AReads, ClientReads, SystemInv, IInv, TypeOK
    <2>2. 1 \in DOMAIN toClient[aConn] /\ toClient[aConn][1] = Head(toClient[aConn])
      BY <2>1, HeadTailProperties
    <2>3. AtA = toClient[aConn]
      BY <1>2 DEF AtA, At
    <2> QED
      BY <1>1, <2>2, <2>3, LineFields DEF Content, Clock
  <1>5. ASSUME NEW k \in DOMAIN log, NEW j \in DOMAIN generated,
               log[k] = ModuleOf(generated[j].packet)
        PROVE  k \in DOMAIN LogLines /\ IsData(LogLines[k]) /\ Stamp(LogLines[k]) = j
    BY <1>5, LineFields DEF LogLines, Content, Clock
  <1>6. ASSUME NEW j \in DOMAIN generated, Abstract!Logged(j),
               generated[j].run = generated[i].run
        PROVE  j < i
    <2>1. PICK k \in DOMAIN log : log[k] = ModuleOf(generated[j].packet)
      BY <1>6 DEF Abstract!Logged, Abstract!ModuleOf, ModuleOf
    <2>2. Precedes(Misordered(generated), LogLines, AtA)
      BY <1>2, <1>3 DEF PipeOrdered
    <2>3. Before(Misordered(generated), j, i)
      BY <1>4, <1>5, <2>1, <2>2 DEF Precedes
    <2>4. i \in Int /\ j \in Int
      <3>1. generated \in Seq([run : ASession, packet : Packet])
        BY DEF SystemInv, NodesOK
      <3> QED
        BY <3>1, LenProperties
    <2> QED
      BY <1>6, <2>3, <2>4, BeforeInRun
  <1>7. ASSUME Abstract!Over(generated[i].run)
        PROVE  FALSE
    <2> DEFINE r == generated[i].run
    <2>1. PICK k, m \in DOMAIN log :
             k < m /\ Abstract!OfRun(k, r) /\ ~ Abstract!OfRun(m, r)
      BY <1>7 DEF Abstract!Over
    <2>2. PICK j \in DOMAIN generated :
             generated[j].run = r /\ log[k] = ModuleOf(generated[j].packet)
      BY <2>1 DEF Abstract!OfRun, Abstract!ModuleOf, ModuleOf
    <2>3. PICK n \in DOMAIN generated : log[m] = ModuleOf(generated[n].packet)
      BY DEF Content, LogOK
    <2> DEFINE s == generated[n].run
    <2>4. s # r
      BY <2>1, <2>3 DEF Abstract!OfRun, Abstract!ModuleOf, ModuleOf
    <2>5. r \in ASession /\ s \in ASession
      <3>1. generated \in Seq([run : ASession, packet : Packet])
        BY DEF SystemInv, NodesOK
      <3>2. /\ generated[i] \in [run : ASession, packet : Packet]
            /\ generated[n] \in [run : ASession, packet : Packet]
        BY <3>1, ElementOfSeq, LenProperties
      <3> QED
        BY <3>2
    <2>6. generated[j].run = r /\ generated[i].run = r /\ generated[n].run = s
      BY <2>2
    <2> HIDE DEF r, s
    <2>7. ~ RunsInOrder(r, s)
      <3>1. ~ Before(Crossed(generated, r, s), n, i)
        BY <2>6, BeforeOfRuns
      <3> QED
        BY <1>3, <1>4, <1>5, <2>3, <3>1 DEF RunsInOrder, Precedes
    <2>8. ~ RunsInOrder(s, r)
      <3>1. ~ Before(Crossed(generated, s, r), j, n)
        BY <2>6, BeforeOfRuns
      <3> QED
        BY <1>3, <1>5, <2>1, <2>2, <2>3, <3>1 DEF RunsInOrder, InOrder
    <2> QED
      BY <2>4, <2>5, <2>7, <2>8 DEF RunsApart
  <1> QED
    BY <1>1, <1>2, <1>6, <1>7 DEF Abstract!Log, Abstract!ModuleOf, ModuleOf

LEMMA LogStep ==
    ASSUME SystemInv, OrderInv, [SystemNext]_systemVars
    PROVE  [Abstract!Next]_<<generated, log>>
  <1>1. CASE AReads
    BY <1>1, ReadIsLog DEF Abstract!Next
  <1>2. CASE AWritesPacket
    <2>1. \A i \in DOMAIN generated :
             generated[i].packet.timestamp < NextPacket.timestamp
      BY <1>2, NextGenerated DEF OrderInv, Content, Clock
    <2>2. /\ generated' = Append(generated, [run |-> aConn, packet |-> NextPacket])
          /\ log' = log
      BY <1>2 DEF AWritesPacket
    <2>3. aConn \in ASession /\ NextPacket \in Packet
      BY <1>2, NextGenerated DEF OrderInv
    <2> QED
      BY <2>1, <2>2, <2>3 DEF Abstract!Next, Abstract!Generate
  <1>3. CASE ~ (AReads \/ AWritesPacket)
    <2>1. UNCHANGED <<generated, log>>
      BY <1>3 DEF SystemNext, ServerActs, ServerIsKilled, ANext, BNext, AStarts,
                  AWritesHello, AFailsToWrite, ACloses, AJoins, AOpensLog, AChecks,
                  AFailsToRead, AIsKilled, BStarts, BWritesHello, BReads, BWrites,
                  BIsKilled, nodeVars, systemVars
    <2> QED
      BY <2>1
  <1> QED
    BY <1>1, <1>2, <1>3

\* The system implements ModuleLog: for any signal, any number of connections,
\* of packets and of faults and any size of the socket buffers, accel/module.log
\* only grows, by modules of generated packets, each at most once, those of one
\* run of Node A in order and not mixed with those of another
\* (node_a/main.cpp:49-83, node_b/main.cpp:52-126, client_session.cpp).
THEOREM SystemImplementsLog == SystemSpec => ImplementsLog
  <1>1. SystemInit => Abstract!Init
    BY DEF SystemInit, Abstract!Init
  <1>2. SystemSpec => []SystemInv /\ []LateLineFirst
    BY SystemInvariantHolds, SystemImplementsServer, LateLineIsFirst, PTL
  <1>3. SystemSpec => []OrderInv
    BY <1>2, OrderInit, OrderStep, PTL DEF SystemSpec
  <1> QED
    BY <1>1, <1>2, <1>3, LogStep, PTL DEF SystemSpec, ImplementsLog, Abstract!Spec
==============================================================================
