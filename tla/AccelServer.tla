----------------------------- MODULE AccelServer -----------------------------
(***************************************************************************)
(* The routing server (src/server): an acceptor, one ClientSession per     *)
(* accepted connection and the ServerState that names the session of each  *)
(* role.  One thread runs io_context::run(), so everything the server does *)
(* is a completion handler, run in the order in which the asynchronous     *)
(* operations completed.  The queue of completed operations is `ready`;    *)
(* completing an operation and running its handler are different steps,    *)
(* and a session may be closed between the two.                            *)
(*                                                                         *)
(* The clients are unconstrained here: they connect, write any line of     *)
(* Line, read and disconnect when they like.  AccelSystem replaces them by *)
(* the programs node_a and node_b.                                         *)
(*                                                                         *)
(* A line is what the calls of JsonProtocol's parsers in HandleLine make   *)
(* of it: a hello with a supported role, an accel or module message that   *)
(* parses, or "invalid" for every line that some check rejects.            *)
(***************************************************************************)
EXTENDS Integers, Sequences, Functions, AccelPacket

CONSTANTS
    Session,       \* the connections a behavior may use, one session each
    NoSession,     \* an empty std::weak_ptr
    Packet,        \* the accel packets that occur
    Module,        \* the accel modules that occur
    NoPacket,      \* has_last_accel_packer_ = false
    SocketBuffer,  \* lines that fit into one direction of a connection
    MaxSent        \* bound: lines a client writes on one connection

ASSUME ServerAssumption ==
    /\ NoSession \notin Session
    /\ Packet \subseteq AccelPackets
    /\ NoPacket \notin Packet
    /\ SocketBuffer \in Nat \ {0}
    /\ MaxSent \in Nat

Role   == {"A", "B"}
NoRole == ""

HelloLine(r)  == [type |-> "hello",  role   |-> r]
AccelLine(p)  == [type |-> "accel",  packet |-> p]
ModuleLine(m) == [type |-> "module", module |-> m]
InvalidLine   == [type |-> "invalid"]

Line == {HelloLine(r) : r \in Role} \cup {AccelLine(p) : p \in Packet}
            \cup {ModuleLine(m) : m \in Module} \cup {InvalidLine}

VARIABLES
    running,     \* the server process is up
    peer,        \* client end of each connection: "none", "open", "closed"
    sent,        \* lines the client has written on the connection
    toServer,    \* lines on their way to the session, its buffer_ included
    toClient,    \* lines the kernel has taken from the session
    state,       \* of the session: "none", "accepting", "open", "closed"
    role,        \* role_
    last,        \* last_accel_packet_
    writeQueue,  \* write_queue_
    rd,          \* the session's async_read_until
    wr,          \* the session's async_write
    node,        \* ServerState: node["A"] is node_a_, node["B"] is node_b_
    ready        \* completed operations whose handler has not run

tcpVars     == <<peer, sent, toServer, toClient>>
sessionVars == <<state, role, last, writeQueue, rd, wr>>
vars        == <<running, tcpVars, sessionVars, node, ready>>

(***************************************************************************)
(* An operation is not started ("none"), started ("pending"), or completed *)
(* with its handler in `ready`: with success ("done") or with an error     *)
(* ("failed").                                                             *)
(***************************************************************************)
OpState == {"none", "pending", "done", "failed"}

Completion(op, s) == [op |-> op, session |-> s]

Completions == [op : {"accept", "read", "write"}, session : Session]

Init ==
    /\ running    = TRUE
    /\ peer       = [s \in Session |-> "none"]
    /\ sent       = [s \in Session |-> 0]
    /\ toServer   = [s \in Session |-> <<>>]
    /\ toClient   = [s \in Session |-> <<>>]
    /\ state      = [s \in Session |-> "none"]
    /\ role       = [s \in Session |-> NoRole]
    /\ last       = [s \in Session |-> NoPacket]
    /\ writeQueue = [s \in Session |-> <<>>]
    /\ rd         = [s \in Session |-> "none"]
    /\ wr         = [s \in Session |-> "none"]
    /\ node       = [r \in Role |-> NoSession]
    /\ ready      = <<>>

------------------------------------------------------------------------------
(* The session registry (server_state.cpp).                                *)

\* The handlers of a session's operations hold the only shared_ptrs to it,
\* so a weak_ptr to it can be locked while one of them is outstanding.
Alive(s) == rd[s] # "none" \/ wr[s] # "none"

Lock(r) == IF node[r] # NoSession /\ Alive(node[r]) THEN node[r]
                                                    ELSE NoSession

\* Variant: the current holder is not looked at.
SetNodeAllowedUnchecked(r, s) == s # NoSession

\* SetNodeA and SetNodeB refuse a second live session.
SetNodeAllowed(r, s) == Lock(r) \in {NoSession, s}

\* Variant: the slots are reset whoever holds them.
NodeWithoutAny(s) == [r \in Role |-> NoSession]

\* RemoveSession: s gives up the roles it holds.
NodeWithout(s) == [r \in Role |-> IF Lock(r) = s THEN NoSession ELSE node[r]]

------------------------------------------------------------------------------
(* Acceptor (tcp_server.cpp).                                              *)

\* One async_accept is outstanding at a time: its handler starts the next.
AcceptCompletes(s) ==
    /\ running
    /\ peer[s] # "none" /\ state[s] = "none"
    /\ \A t \in Session : state[t] # "accepting"
    /\ state' = [state EXCEPT ![s] = "accepting"]
    /\ ready' = Append(ready, Completion("accept", s))
    /\ UNCHANGED <<running, tcpVars, role, last, writeQueue, rd, wr, node>>

\* op is the next handler io_context runs.
Handler(op, s) ==
    /\ ready # <<>>
    /\ Head(ready) = Completion(op, s)

\* Variant: a value-initialised packet counts as the last accepted one.
StartSessionWithDefaultLast(s) ==
    /\ Handler("accept", s)
    /\ ready' = Tail(ready)
    /\ state' = [state EXCEPT ![s] = "open"]
    /\ rd' = [rd EXCEPT ![s] = "pending"]
    /\ last' = [last EXCEPT ![s] = [timestamp |-> 0, x |-> 0, y |-> 0, z |-> 0]]
    /\ UNCHANGED <<running, tcpVars, role, writeQueue, wr, node>>

\* The accept handler creates the session, which starts reading.
StartSession(s) ==
    /\ Handler("accept", s)
    /\ ready' = Tail(ready)
    /\ state' = [state EXCEPT ![s] = "open"]
    /\ rd' = [rd EXCEPT ![s] = "pending"]
    /\ UNCHANGED <<running, tcpVars, role, last, writeQueue, wr, node>>

------------------------------------------------------------------------------
(* Completion of a session's reads and writes.                             *)

\* The next line; or, once the client has closed, the end of the stream or a
\* reset, which discards the lines not read yet.
ReadCompletes(s) ==
    /\ rd[s] = "pending"
    /\ \/ /\ toServer[s] # <<>>
          /\ rd' = [rd EXCEPT ![s] = "done"]
       \/ /\ peer[s] = "closed"
          /\ rd' = [rd EXCEPT ![s] = "failed"]
    /\ ready' = Append(ready, Completion("read", s))
    /\ UNCHANGED <<running, tcpVars, state, role, last, writeQueue, wr, node>>

\* The kernel takes the front of the queue.  To a client that is gone the
\* first write still succeeds and its line is lost, a later one fails.
WriteCompletes(s) ==
    /\ wr[s] = "pending"
    /\ \/ /\ peer[s] = "open"
          /\ Len(toClient[s]) < SocketBuffer
          /\ toClient' = [toClient EXCEPT ![s] = Append(@, Head(writeQueue[s]))]
          /\ wr' = [wr EXCEPT ![s] = "done"]
       \/ /\ peer[s] = "closed"
          /\ toClient' = toClient
          /\ \E result \in {"done", "failed"} :
                wr' = [wr EXCEPT ![s] = result]
    /\ ready' = Append(ready, Completion("write", s))
    /\ UNCHANGED <<running, peer, sent, toServer, state, role, last,
                   writeQueue, rd, node>>

------------------------------------------------------------------------------
(* Closing a session.                                                      *)

\* Close(), called by the handler of s's operation `op`: the session leaves
\* the registry and closes its socket, which cancels its other operation
\* (`other`, in state `pend`): that completes with an error.
Close(s, op, pend) ==
    /\ \/ /\ state[s] = "closed"
          /\ UNCHANGED <<state, node>>
       \/ /\ state[s] # "closed"
          /\ state' = [state EXCEPT ![s] = "closed"]
          /\ node' = NodeWithout(s)
    /\ ready' = Tail(ready) \o
                    (IF pend = "pending" THEN <<Completion(op, s)>> ELSE <<>>)

Cancelled(op) == IF op = "pending" THEN "failed" ELSE op

\* Variant: the end of the stream only ends the reading.
ReadFailsWithoutClose(s) ==
    /\ Handler("read", s)
    /\ rd[s] = "failed"
    /\ rd' = [rd EXCEPT ![s] = "none"]
    /\ ready' = Tail(ready)
    /\ UNCHANGED <<running, tcpVars, state, role, last, writeQueue, wr, node>>

\* The read handler on an error.
ReadFails(s) ==
    /\ Handler("read", s)
    /\ rd[s] = "failed"
    /\ rd' = [rd EXCEPT ![s] = "none"]
    /\ wr' = [wr EXCEPT ![s] = Cancelled(@)]
    /\ Close(s, "write", wr[s])
    /\ UNCHANGED <<running, tcpVars, role, last, writeQueue>>

\* The write handler on an error.
WriteFails(s) ==
    /\ Handler("write", s)
    /\ wr[s] = "failed"
    /\ writeQueue' = [writeQueue EXCEPT ![s] = <<>>]
    /\ wr' = [wr EXCEPT ![s] = "none"]
    /\ rd' = [rd EXCEPT ![s] = Cancelled(@)]
    /\ Close(s, "read", rd[s])
    /\ UNCHANGED <<running, tcpVars, role, last>>

\* Variant: the next message waits for the next SendJson.
WriteSucceedsOnce(s) ==
    /\ Handler("write", s)
    /\ wr[s] = "done"
    /\ ready' = Tail(ready)
    /\ writeQueue' = [writeQueue EXCEPT ![s] = Tail(@)]
    /\ wr' = [wr EXCEPT ![s] = "none"]
    /\ UNCHANGED <<running, tcpVars, state, role, last, rd, node>>

\* The write handler on success: WriteNextMessage unless closed or empty.
WriteSucceeds(s) ==
    /\ Handler("write", s)
    /\ wr[s] = "done"
    /\ ready' = Tail(ready)
    /\ writeQueue' = [writeQueue EXCEPT ![s] = Tail(@)]
    /\ wr' = [wr EXCEPT ![s] =
                 IF state[s] = "open" /\ Tail(writeQueue[s]) # <<>>
                 THEN "pending" ELSE "none"]
    /\ UNCHANGED <<running, tcpVars, state, role, last, rd, node>>

------------------------------------------------------------------------------
(* Handling a line.  The handler runs whatever `closed_` says: a session   *)
(* that a failed write has closed in the meantime still handles the line   *)
(* its read had completed with, and only then stops reading.               *)

\* Variant: the session goes on reading after the close.
HandleLineReadingOn(s, l) ==
    /\ Handler("read", s)
    /\ rd[s] = "done"
    /\ l = Head(toServer[s])
    /\ toServer' = [toServer EXCEPT ![s] = Tail(@)]
    /\ rd' = [rd EXCEPT ![s] = "pending"]
    /\ ready' = Tail(ready)
    /\ UNCHANGED <<running, peer, sent, toClient, state>>

\* Variant: an invalid line returns from the read handler.
HandleLineUnlessInvalid(s, l) ==
    /\ Handler("read", s)
    /\ rd[s] = "done"
    /\ l = Head(toServer[s])
    /\ toServer' = [toServer EXCEPT ![s] = Tail(@)]
    /\ rd' = [rd EXCEPT ![s] = IF state[s] = "closed" \/ l = InvalidLine
                                THEN "none" ELSE "pending"]
    /\ ready' = Tail(ready)
    /\ UNCHANGED <<running, peer, sent, toClient, state>>

\* The read handler on success, but for what HandleLine(l) does.
HandleLine(s, l) ==
    /\ Handler("read", s)
    /\ rd[s] = "done"
    /\ l = Head(toServer[s])
    /\ toServer' = [toServer EXCEPT ![s] = Tail(@)]
    /\ rd' = [rd EXCEPT ![s] = IF state[s] = "closed" THEN "none"
                                                      ELSE "pending"]
    /\ ready' = Tail(ready)
    /\ UNCHANGED <<running, peer, sent, toClient, state>>

\* Variant: every message starts its own write.
ForwardAtOnce(r, l) ==
    LET t == Lock(r) IN
    IF t = NoSession \/ state[t] # "open"
    THEN UNCHANGED <<writeQueue, wr>>
    ELSE /\ writeQueue' = [writeQueue EXCEPT ![t] = Append(@, l)]
         /\ wr' = [wr EXCEPT ![t] = "pending"]

\* SendJson to the session that holds role r, if there is one: the line is
\* queued, and written at once unless a write is in progress.
Forward(r, l) ==
    LET t == Lock(r) IN
    IF t = NoSession \/ state[t] # "open"
    THEN UNCHANGED <<writeQueue, wr>>
    ELSE /\ writeQueue' = [writeQueue EXCEPT ![t] = Append(@, l)]
         /\ wr' = IF writeQueue[t] = <<>> THEN [wr EXCEPT ![t] = "pending"]
                                          ELSE wr

\* Variant: a registered client may register again.
RegistersAgain(s, l) ==
    /\ l.type = "hello"
    /\ SetNodeAllowed(l.role, s)

\* RegisterRole.
Registers(s, l) ==
    /\ l.type = "hello"
    /\ role[s] = NoRole
    /\ SetNodeAllowed(l.role, s)

Register(s) ==
    \E l \in Line :
        /\ HandleLine(s, l)
        /\ Registers(s, l)
        /\ node' = [node EXCEPT ![l.role] = s]
        /\ role' = [role EXCEPT ![s] = l.role]
        /\ UNCHANGED <<last, writeQueue, wr>>

\* HandleAccelPacket: from Node A only, and not equal to the last accepted.
Accepts(s, l) ==
    /\ l.type = "accel"
    /\ role[s] = "A"
    /\ ~ (last[s] # NoPacket /\ IsDuplicate(l.packet, last[s]))

AcceptPacket(s) ==
    \E l \in Line :
        /\ HandleLine(s, l)
        /\ Accepts(s, l)
        /\ last' = [last EXCEPT ![s] = l.packet]
        /\ Forward("B", l)
        /\ UNCHANGED <<role, node>>

\* HandleModulePacket: from Node B only.
Returns(s, l) ==
    /\ l.type = "module"
    /\ role[s] = "B"

ReturnModule(s) ==
    \E l \in Line :
        /\ HandleLine(s, l)
        /\ Returns(s, l)
        /\ Forward("A", l)
        /\ UNCHANGED <<role, last, node>>

\* Every early return of HandleLine and of the handlers it calls.
DropLine(s) ==
    \E l \in Line :
        /\ HandleLine(s, l)
        /\ ~ (Registers(s, l) \/ Accepts(s, l) \/ Returns(s, l))
        /\ UNCHANGED <<role, last, writeQueue, wr, node>>

------------------------------------------------------------------------------
(* The process.                                                            *)

\* The process ends at any time (a signal, or an exception that leaves a handler:
\* remote_endpoint() throws for a connection that was reset before its accept is
\* handled): the kernel closes every connection, and nothing is persisted.
ServerExits ==
    /\ running
    /\ running'    = FALSE
    /\ state'      = [s \in Session |-> IF peer[s] = "none" THEN state[s]
                                                            ELSE "closed"]
    /\ last'       = [s \in Session |-> NoPacket]
    /\ writeQueue' = [s \in Session |-> <<>>]
    /\ rd'         = [s \in Session |-> "none"]
    /\ wr'         = [s \in Session |-> "none"]
    /\ node'       = [r \in Role |-> NoSession]
    /\ ready'      = <<>>
    /\ UNCHANGED <<tcpVars, role>>

\* TcpServer::Start.  When it fails the process ends, having had no state: the
\* server is down as before.
ServerStarts ==
    /\ ~ running
    /\ running' = TRUE
    /\ UNCHANGED <<tcpVars, sessionVars, node, ready>>

------------------------------------------------------------------------------
(* The client end of a connection, as TcpClient uses it.                   *)

clientFrame == <<running, sessionVars, node, ready>>

Connect(s) ==
    /\ running
    /\ peer[s] = "none"
    /\ peer' = [peer EXCEPT ![s] = "open"]
    /\ UNCHANGED <<sent, toServer, toClient, clientFrame>>

\* A write blocks while the connection is full; to a closed session it may
\* still succeed, and the line is lost.
ClientWrites(s, l) ==
    /\ peer[s] = "open"
    /\ sent[s] < MaxSent
    /\ sent' = [sent EXCEPT ![s] = @ + 1]
    /\ \/ /\ state[s] # "closed"
          /\ Len(toServer[s]) < SocketBuffer
          /\ toServer' = [toServer EXCEPT ![s] = Append(@, l)]
       \/ /\ state[s] = "closed"
          /\ toServer' = toServer
    /\ UNCHANGED <<peer, toClient, clientFrame>>

ClientReads(s) ==
    /\ peer[s] = "open"
    /\ toClient[s] # <<>>
    /\ toClient' = [toClient EXCEPT ![s] = Tail(@)]
    /\ UNCHANGED <<peer, sent, toServer, clientFrame>>

ClientCloses(s) ==
    /\ peer[s] = "open"
    /\ peer' = [peer EXCEPT ![s] = "closed"]
    /\ toClient' = [toClient EXCEPT ![s] = <<>>]
    /\ UNCHANGED <<sent, toServer, clientFrame>>

------------------------------------------------------------------------------

\* io_context::run(): the handler at the front of the queue.
RunHandler(s) ==
    \/ StartSession(s)
    \/ ReadFails(s)
    \/ WriteFails(s)
    \/ WriteSucceeds(s)
    \/ Register(s)
    \/ AcceptPacket(s)
    \/ ReturnModule(s)
    \/ DropLine(s)

ServerStep(s) ==
    \/ AcceptCompletes(s)
    \/ ReadCompletes(s)
    \/ WriteCompletes(s)
    \/ RunHandler(s)

ClientStep(s) ==
    \/ Connect(s)
    \/ \E l \in Line : ClientWrites(s, l)
    \/ ClientReads(s)
    \/ ClientCloses(s)

Next ==
    \/ \E s \in Session : ServerStep(s) \/ ClientStep(s)
    \/ ServerExits
    \/ ServerStarts

Spec == Init /\ [][Next]_vars

\* io_context::run() never blocks in a handler, and the kernel completes an
\* operation that can complete.
ServerFairness ==
    /\ WF_vars(\E s \in Session : RunHandler(s))
    /\ \A s \in Session : /\ WF_vars(AcceptCompletes(s))
                          /\ WF_vars(ReadCompletes(s))
                          /\ WF_vars(WriteCompletes(s))

FairSpec == Spec /\ ServerFairness

------------------------------------------------------------------------------
(* Properties.                                                             *)

Queued(op, s) == \E i \in DOMAIN ready : ready[i] = Completion(op, s)

\* Every variable has its type.
TypeOK ==
    /\ running \in BOOLEAN
    /\ peer \in [Session -> {"none", "open", "closed"}]
    /\ sent \in [Session -> 0..MaxSent]
    /\ toServer \in [Session -> Seq(Line)]
    /\ toClient \in [Session -> Seq(Line)]
    /\ state \in [Session -> {"none", "accepting", "open", "closed"}]
    /\ role \in [Session -> Role \cup {NoRole}]
    /\ last \in [Session -> Packet \cup {NoPacket}]
    /\ writeQueue \in [Session -> Seq(Line)]
    /\ rd \in [Session -> OpState]
    /\ wr \in [Session -> OpState]
    /\ node \in [Role -> Session \cup {NoSession}]
    /\ ready \in Seq(Completions)

\* ServerState and the sessions agree at all times: the session registered
\* for a role is exactly the open session whose role_ is that role.  So at
\* most one open session has a role, a slot never keeps a closed or destroyed
\* session, and no session that believes it is registered has lost its slot,
\* although the two are updated by handlers of different sessions and a
\* handler may run after its session was closed (client_session.cpp:164-216,
\* 406-432; server_state.cpp).
RegistryAgreement ==
    \A r \in Role, s \in Session :
        node[r] = s <=> state[s] = "open" /\ role[s] = r

\* An open session has an async_write outstanding exactly while its queue is
\* not empty: two writes never overlap on one socket, and no line stays in
\* the queue with nothing left to write it, although both SendJson (from
\* another session's handler) and the write handler start writes
\* (client_session.cpp:23-44, 375-404).
OneWriteInFlight ==
    \A s \in Session :
        state[s] = "open" => (wr[s] # "none" <=> writeQueue[s] # <<>>)

\* The lines on their way to a client are of the kind its role asks for:
\* packets go to a session registered as B only, modules to one registered
\* as A only, and nothing to a session without a role, whoever sent them and
\* however roles move between sessions meanwhile (client_session.cpp:218-372).
RightRecipient ==
    \A s \in Session : \A queue \in {writeQueue[s], toClient[s]} :
        \A i \in DOMAIN queue :
            \/ queue[i].type = "accel"  /\ role[s] = "B"
            \/ queue[i].type = "module" /\ role[s] = "A"

\* An open session always has a read outstanding: no early return of a
\* handler, and no failure of another session's line, ends its read loop
\* (client_session.cpp:47-93).
ReadLoopAlive ==
    \A s \in Session : state[s] = "open" => rd[s] # "none"

\* Operations and queued handlers match: a handler is queued exactly for every
\* completed operation, once.  So no operation is started on a session while
\* its previous one has not been handled, and no handler runs for an operation
\* that a Close has already finished (client_session.cpp:47-93, 375-432).
HandlersMatchOperations ==
    /\ IsInjective(ready)
    /\ \A s \in Session :
          /\ Queued("accept", s) <=> state[s] = "accepting"
          /\ Queued("read", s)   <=> rd[s] \in {"done", "failed"}
          /\ Queued("write", s)  <=> wr[s] \in {"done", "failed"}

\* What the handlers may rely on at each stage of a session's life, and the
\* reason why a line handled after the close cannot register the session: only
\* a failed write closes a session that still has a line to handle, and only a
\* registered session writes (client_session.cpp:47-93, 164-216, 375-432).
SessionLifecycle ==
    \A s \in Session :
        /\ peer[s] = "none" => state[s] = "none"
        /\ state[s] \in {"none", "accepting"} =>
              /\ rd[s] = "none" /\ wr[s] = "none"
              /\ role[s] = NoRole /\ writeQueue[s] = <<>>
        /\ state[s] = "closed" =>
              /\ rd[s] # "pending" /\ wr[s] # "pending"
              /\ rd[s] # "none" => role[s] # NoRole
        /\ wr[s] # "none" => role[s] # NoRole /\ writeQueue[s] # <<>>
        /\ rd[s] = "done" => toServer[s] # <<>>

\* The read of s had completed when a failed write closed s: its handler is
\* still to run and handles one more line.
HasLateLine(s) == state[s] = "closed" /\ rd[s] = "done"

\* The line that a closed session still handles is handled before anything
\* that the next session of its role has completed, and there is one such line
\* per role.  So although HandleLine runs without a look at closed_, nothing
\* that the successor sends overtakes the line, however many sessions close
\* and register in the meantime (client_session.cpp:53-93, 164-216, 386-432).
LateLineFirst ==
    \A s, t \in Session :
        HasLateLine(s) /\ role[t] = role[s] /\ t # s
        => /\ ~ HasLateLine(t)
           /\ state[t] = "open" =>
                 \A i, j \in DOMAIN ready :
                    ready[i] = Completion("read", s) /\ ready[j].session = t
                    => i < j

\* The server has no handler to run, and no operation of it can complete.
ServerWaits ==
    /\ running
    /\ ready = <<>>
    /\ \A s \in Session :
          /\ peer[s] # "none" => state[s] # "none"
          /\ rd[s] = "pending" => toServer[s] = <<>> /\ peer[s] # "closed"
          /\ wr[s] = "pending" => /\ peer[s] = "open"
                                 /\ Len(toClient[s]) >= SocketBuffer

\* A server with nothing to do has forgotten nothing: it has released every
\* session whose client has gone, has handled all that the clients of open
\* sessions have sent, and has a line in a queue only for a client that does
\* not read.  So no combination of failed operations, closes and late handlers
\* leaves a session that nobody will ever wake (client_session.cpp:23-93,
\* 375-432).
NothingForgotten ==
    ServerWaits => \A s \in Session :
        /\ peer[s] = "closed" =>
              state[s] = "closed" /\ ~ Alive(s) /\ \A r \in Role : node[r] # s
        /\ state[s] = "open" =>
              /\ toServer[s] = <<>>
              /\ writeQueue[s] # <<>> => Len(toClient[s]) >= SocketBuffer

\* A session that holds a role keeps it until it gives it up: no step hands a
\* role from one session directly to another (server_state.cpp:7-37).
HolderNeverDisplaced ==
    [][\A r \in Role : node[r] # NoSession => node'[r] \in {node[r], NoSession}]_vars

\* A session whose client has gone is closed and all its handlers end, which
\* destroys it: whatever the session was doing, no operation keeps it alive
\* and it does not keep its role (client_session.cpp:58-74, 386-403, 406-432).
SessionsReleased ==
    \A s \in Session :
        peer[s] = "closed" ~> (state[s] = "closed" /\ ~ Alive(s))

==============================================================================
