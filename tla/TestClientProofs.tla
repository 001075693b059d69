-------------------------- MODULE TestClientProofs --------------------------
(***************************************************************************)
(* The theorems of TestClient: the two programs together, any number of    *)
(* clients, wherever the stream cuts a request.  The server's part of each *)
(* step is taken from PeerConnectionProofs (ConnectionSteps, and the lemma *)
(* MessageSteps for the request), so that only the client and what it      *)
(* learns of its connection are looked at here.                            *)
(***************************************************************************)
EXTENDS TestClient, PeerConnectionProofs

(* A client waits for one operation until it stops, and for none then.      *)
WaitsForOne(k) ==
  \/ k = NewClient
  \/ /\ k.m_stoped <=> k.connect = "idle" /\ k.send = "idle" /\ k.receive = "idle"
     /\ Outstanding(k.connect) => k.send = "idle" /\ k.receive = "idle"
     /\ Outstanding(k.send) => k.receive = "idle"

(* Bytes of a reply, and what was made of them, are there only once the     *)
(* reply was begun; the verdict in it does not change any more.             *)
KnowsReply(k, p) ==
  /\ k.receive = "ok" => p.acks = 1
  /\ \A v \in k.told : p.acks = 1 /\ v = p.m_pingpong_task.verdict

ClientPart(c) ==
  /\ peer[c] = Unborn \/ Steady(c)
  /\ KnowsReply(client[c], peer[c])
  /\ run => WaitsForOne(client[c])

ClientInv == ClientTypeOK /\ \A c \in Conn : ClientPart(c)
-----------------------------------------------------------------------------
(* The client reads from a reply code what the server wrote into it.        *)
LEMMA VerdictOfReply == \A v \in SUBSET Probes : Verdict(ReplyCode(v)) = v
<1> SUFFICES ASSUME NEW v \in SUBSET Probes
             PROVE  Verdict(ReplyCode(v)) = v
  OBVIOUS
<1>1. /\ Verdict(0) = {} /\ Verdict(1) = {"tcp"}
      /\ Verdict(2) = {"udp"} /\ Verdict(3) = {"tcp", "udp"}
  <2>1. /\ 0 % 2 = 0 /\ 1 % 2 = 1 /\ 2 % 2 = 0 /\ 3 % 2 = 1
        /\ 0 \div 2 = 0 /\ 1 \div 2 = 0 /\ 2 \div 2 = 1 /\ 3 \div 2 = 1
    OBVIOUS
  <2>2. Verdict(0) = {} \cup {} /\ Verdict(1) = {"tcp"} \cup {}
    BY <2>1 DEF Verdict
  <2>3. Verdict(2) = {} \cup {"udp"} /\ Verdict(3) = {"tcp"} \cup {"udp"}
    BY <2>1 DEF Verdict
  <2> QED BY <2>2, <2>3
<1>2. CASE "tcp" \in v /\ "udp" \in v
  <2>1. ReplyCode(v) = 3
    BY <1>2 DEF ReplyCode
  <2>2. v = {"tcp", "udp"}
    BY <1>2 DEF Probes
  <2> QED BY <1>1, <2>1, <2>2
<1>3. CASE "tcp" \in v /\ "udp" \notin v
  <2>1. ReplyCode(v) = 1
    BY <1>3 DEF ReplyCode
  <2>2. v = {"tcp"}
    BY <1>3 DEF Probes
  <2> QED BY <1>1, <2>1, <2>2
<1>4. CASE "tcp" \notin v /\ "udp" \in v
  <2>1. ReplyCode(v) = 2
    BY <1>4 DEF ReplyCode
  <2>2. v = {"udp"}
    BY <1>4 DEF Probes
  <2> QED BY <1>1, <2>1, <2>2
<1>5. CASE "tcp" \notin v /\ "udp" \notin v
  <2>1. ReplyCode(v) = 0
    BY <1>5 DEF ReplyCode
  <2>2. v = {}
    BY <1>5 DEF Probes
  <2> QED BY <1>1, <2>1, <2>2
<1> QED BY <1>2, <1>3, <1>4, <1>5

(* Nothing happens to a connection that was not accepted yet.               *)
LEMMA UnbornIsStill ==
  ASSUME NEW c, peer[c] = Unborn
  PROVE  /\ ~Reactor(c) /\ ~Handlers(c)
         /\ \A msg, n : /\ ~ReadsRequest(c, msg, n) /\ ~ReadsOther(c, msg, n)
                        /\ ~RequestThrows(c, msg, n)
<1> DEFINE p == peer[c]
           t == p.m_pingpong_task
<1>1. p.read = "idle" /\ p.write = "idle" /\ p.watch_dog = "idle" /\ t = NoTask
  BY UnbornFields
<1>2. t.connect = "idle" /\ t.send_to = "idle" /\ t.receive_from = "idle" /\ t.timer = "idle"
  BY <1>1 DEF NoTask, NewTask
<1>3. ~Reactor(c)
  BY <1>1, <1>2
     DEF Reactor, SocketCompletes, TaskCompletes, Expires, WatchDogExpires, TaskExpires
<1>4. \A msg, n : /\ ~ReadsRequest(c, msg, n) /\ ~ReadsOther(c, msg, n)
                  /\ ~RequestThrows(c, msg, n)
  BY <1>1 DEF ReadsRequest, ReadsOther, RequestThrows
<1>5. ~ReadHandler(c) /\ ~WriteHandler(c) /\ ~WatchDogHandler(c)
  BY <1>1, <1>4
     DEF ReadHandler, ReadAfterClose, ReadFails, WriteHandler, WriteAfterClose, WriteFails,
         WriteSends, WatchDogHandler, WatchDogCanceled, WatchDogWolf, WatchDogAsserts, Queued
<1>6. ~ConnectReturns(c) /\ ~SendToReturns(c) /\ ~ReceiveFromReturns(c) /\ ~TimerReturns(c)
  BY <1>1, <1>2
     DEF ConnectReturns, SendToReturns, ReceiveFromReturns, TimerReturns, Queued
<1> QED BY <1>3, <1>4, <1>5, <1>6 DEF Handlers
-----------------------------------------------------------------------------
(* A step of client c that leaves it as k, and the server alone.            *)
LEMMA ClientSteps ==
  ASSUME ClientInv, NEW c \in Conn, NEW k \in Client,
         client' = [client EXCEPT ![c] = k],
         KnowsReply(k, peer[c]), run' => run /\ WaitsForOne(k), run' \in BOOLEAN,
         UNCHANGED <<vars, net, echo>>, request' \in [Conn -> 0..AMIB_MESSAGE_LENTH]
  PROVE  ClientInv'
<1>1. client' \in [Conn -> Client] /\ client'[c] = k
      /\ \A d \in Conn : d # c => client'[d] = client[d]
  BY DEF ClientInv, ClientTypeOK
<1>2. peer' = peer /\ io' = io
  BY DEF vars
<1>3. ClientTypeOK'
  BY <1>1, <1>2 DEF ClientInv, ClientTypeOK
<1>4. ASSUME NEW d \in Conn
      PROVE  ClientPart(d)'
  <2>1. (peer[d] = Unborn \/ Steady(d))'
    BY <1>2 DEF ClientInv, ClientPart, Steady
  <2>2. CASE d = c
    BY <1>1, <1>2, <2>1, <2>2 DEF ClientPart
  <2>3. CASE d # c
    BY <1>1, <1>2, <2>1, <2>3 DEF ClientInv, ClientPart
  <2> QED BY <2>2, <2>3
<1> QED BY <1>3, <1>4 DEF ClientInv

(* A step of the server's connection c that leaves it as q, and the client  *)
(* alone.                                                                   *)
LEMMA PeerSteps ==
  ASSUME ClientInv, NEW c \in Conn, NEW q,
         peer' = [peer EXCEPT ![c] = q], ConnInv(q),
         io' \in {"running"} \cup Exceptions,
         io' = "running" => io = "running" /\ Busy(q),
         peer[c].acks = 1 => /\ q.acks = 1
                             /\ q.m_pingpong_task.verdict = peer[c].m_pingpong_task.verdict,
         UNCHANGED <<client, echo, run>>,
         request' \in [Conn -> 0..AMIB_MESSAGE_LENTH], net' \subseteq Datagrams
  PROVE  ClientInv'
<1>1. /\ peer' \in [Conn -> Peer] /\ peer'[c] = q
      /\ \A d \in Conn : d # c => peer'[d] = peer[d]
  BY OneChanges DEF ClientInv, ClientTypeOK
<1>2. ClientTypeOK'
  BY <1>1 DEF ClientInv, ClientTypeOK
<1>3. ASSUME NEW d \in Conn
      PROVE  ClientPart(d)'
  <2>1. CASE d = c
    <3>1. Steady(d)'
      BY <1>1, <2>1 DEF Steady
    <3>2. KnowsReply(client[c], q)
      BY DEF ClientInv, ClientPart, KnowsReply
    <3>3. run => WaitsForOne(client[c])
      BY DEF ClientInv, ClientPart
    <3> QED BY <1>1, <2>1, <3>1, <3>2, <3>3 DEF ClientPart
  <2>2. CASE d # c
    <3>1. ClientPart(d) /\ peer'[d] = peer[d]
      BY <1>1, <2>2 DEF ClientInv
    <3> QED BY <3>1 DEF ClientPart, Steady
  <2> QED BY <2>1, <2>2
<1> QED BY <1>2, <1>3 DEF ClientInv

(* A handler of the server, or its reactor.                                 *)
LEMMA ConnectionMoves ==
  ASSUME ClientInv, NEW c \in Conn, Stepped(c) \/ Threw(c),
         UNCHANGED <<client, echo, run>>,
         request' \in [Conn -> 0..AMIB_MESSAGE_LENTH], net' \subseteq Datagrams
  PROVE  ClientInv'
<1>1. ASSUME NEW q, Good(peer[c], q), Step(c, q)
      PROVE  ClientInv'
  <2>1. /\ peer' = [peer EXCEPT ![c] = q] /\ ConnInv(q) /\ Busy(q)
        /\ io' = io /\ io' \in {"running"} \cup Exceptions
        /\ peer[c].acks = 1 => /\ q.acks = 1
                               /\ q.m_pingpong_task.verdict = peer[c].m_pingpong_task.verdict
    BY <1>1 DEF Good, Keeps, Step, ClientInv, ClientTypeOK
  <2> QED BY <2>1, PeerSteps
<1>2. ASSUME NEW q, NEW e \in Exceptions, Thrown(peer[c], q), Throw(c, q, e)
      PROVE  ClientInv'
  <2>1. /\ peer' = [peer EXCEPT ![c] = q] /\ ConnInv(q)
        /\ io' # "running" /\ io' \in {"running"} \cup Exceptions
        /\ peer[c].acks = 1 => /\ q.acks = 1
                               /\ q.m_pingpong_task.verdict = peer[c].m_pingpong_task.verdict
    BY <1>2 DEF Thrown, Keeps, Throw, Exceptions
  <2> QED BY <2>1, PeerSteps
<1> QED BY <1>1, <1>2 DEF Stepped, Threw

(* Every step of the server's keeps what is known of its connections.       *)
LEMMA ServerStepsKeep ==
  ASSUME ClientInv, NEW c \in Conn, ServerStep(c)
  PROVE  ClientInv'
<1>1. peer[c] = Unborn \/ Steady(c)
  BY DEF ClientInv, ClientPart
<1>2. request \in [Conn -> 0..AMIB_MESSAGE_LENTH] /\ net \subseteq Datagrams
  BY DEF ClientInv, ClientTypeOK
<1>3. CASE ServerAccepts(c)
  <2>1. /\ peer[c] = Unborn /\ io = "running" /\ io' = io
        /\ peer' = [peer EXCEPT ![c] = NewConnection]
        /\ UNCHANGED <<client, request, net, echo, run>>
    BY <1>3 DEF ServerAccepts
  <2>2. peer[c].acks # 1
    BY <2>1, UnbornFields
  <2> QED BY <1>2, <2>1, <2>2, NewConnectionInv, PeerSteps
<1>4. ASSUME Reactor(c) \/ Handlers(c), UNCHANGED <<client, request, echo, run>>,
             net' \subseteq Datagrams
      PROVE  ClientInv'
  <2>1. Stepped(c) \/ Threw(c)
    BY <1>1, <1>4, UnbornIsStill, ConnectionSteps
  <2> QED BY <1>2, <1>4, <2>1, ConnectionMoves
<1>5. CASE ServerSocket(c)
  BY <1>2, <1>4, <1>5 DEF ServerSocket, Reactor
<1>6. CASE ServerProbe(c)
  <2>1. net' = net \/ net' = net \cup {<<c, "ping">>}
    BY <1>6 DEF ServerProbe
  <2>2. net' \subseteq Datagrams
    BY <1>2, <2>1 DEF Datagrams
  <2> QED BY <1>4, <1>6, <2>2 DEF ServerProbe, Reactor
<1>7. CASE ServerReads(c)
  <2>1. CASE (ReadAfterClose(c) \/ ReadFails(c)) /\ UNCHANGED request
    BY <1>2, <1>4, <1>7, <2>1 DEF ServerReads, Handlers, ReadHandler
  <2>2. ASSUME NEW n \in Piece(request[c]), request' = [request EXCEPT ![c] = @ - n],
               \/ ReadsRequest(c, m_send_buf, n)
               \/ ReadsOther(c, m_send_buf, n)
               \/ RequestThrows(c, m_send_buf, n)
        PROVE  ClientInv'
    <3>1. Stepped(c) \/ Threw(c)
      BY <1>1, <2>2, UnbornIsStill, MessageSteps
    <3>2. request' \in [Conn -> 0..AMIB_MESSAGE_LENTH]
      <4>1. request[c] \in 0..11 /\ n \in 1..request[c]
        BY <1>2 DEF AMIB_MESSAGE_LENTH, Piece
      <4>2. request[c] - n \in 0..11
        BY <4>1
      <4> QED BY <1>2, <2>2, <4>2 DEF AMIB_MESSAGE_LENTH
    <3>3. UNCHANGED <<client, net, echo, run>>
      BY <1>7 DEF ServerReads
    <3> QED BY <1>2, <3>1, <3>2, <3>3, ConnectionMoves
  <2> QED BY <1>7, <2>1, <2>2 DEF ServerReads
<1>8. CASE ServerWatchDog(c)
  BY <1>2, <1>4, <1>8 DEF ServerWatchDog, Reactor, Expires, Handlers
<1>9. CASE ServerHandles(c)
  BY <1>2, <1>4, <1>9 DEF ServerHandles, Reactor, Expires, Handlers
<1> QED BY <1>3, <1>5, <1>6, <1>7, <1>8, <1>9 DEF ServerStep
-----------------------------------------------------------------------------
(* The end of a client's operation: it and the bytes are all that changes.  *)
LEMMA EndsFields ==
  ASSUME ClientTypeOK, NEW c \in Conn, NEW res \in {"ok", "err"},
         NEW n \in 0..AMIB_MESSAGE_LENTH
  PROVE  /\ Ends(c, "connect", res, n) => \E k \in Client :
              /\ client' = [client EXCEPT ![c] = k]
              /\ k.connect = res /\ k.send = client[c].send /\ k.receive = client[c].receive
              /\ k.m_stoped = client[c].m_stoped /\ k.told = client[c].told
         /\ Ends(c, "send", res, n) => \E k \in Client :
              /\ client' = [client EXCEPT ![c] = k]
              /\ k.send = res /\ k.connect = client[c].connect /\ k.receive = client[c].receive
              /\ k.m_stoped = client[c].m_stoped /\ k.told = client[c].told
         /\ Ends(c, "receive", res, n) => \E k \in Client :
              /\ client' = [client EXCEPT ![c] = k]
              /\ k.receive = res /\ k.connect = client[c].connect /\ k.send = client[c].send
              /\ k.m_stoped = client[c].m_stoped /\ k.told = client[c].told
<1> DEFINE b == client[c]
<1>1. b \in Client /\ client \in [Conn -> Client] /\ res \in SockOp
  BY DEF ClientTypeOK, SockOp
<1>2. ASSUME Ends(c, "connect", res, n)
      PROVE  \E k \in Client :
               /\ client' = [client EXCEPT ![c] = k]
               /\ k.connect = res /\ k.send = b.send /\ k.receive = b.receive
               /\ k.m_stoped = b.m_stoped /\ k.told = b.told
  <2> DEFINE k == [b EXCEPT !.connect = res, !.bytes = n]
  <2>1. client' = [client EXCEPT ![c] = k]
    BY <1>1, <1>2 DEF Ends
  <2>2. /\ k \in Client
        /\ k.connect = res /\ k.send = b.send /\ k.receive = b.receive
        /\ k.m_stoped = b.m_stoped /\ k.told = b.told
    BY <1>1 DEF Client
  <2> HIDE DEF k, b
  <2> QED BY <2>1, <2>2
<1>3. ASSUME Ends(c, "send", res, n)
      PROVE  \E k \in Client :
               /\ client' = [client EXCEPT ![c] = k]
               /\ k.send = res /\ k.connect = b.connect /\ k.receive = b.receive
               /\ k.m_stoped = b.m_stoped /\ k.told = b.told
  <2> DEFINE k == [b EXCEPT !.send = res, !.bytes = n]
  <2>1. client' = [client EXCEPT ![c] = k]
    BY <1>1, <1>3 DEF Ends
  <2>2. /\ k \in Client
        /\ k.send = res /\ k.connect = b.connect /\ k.receive = b.receive
        /\ k.m_stoped = b.m_stoped /\ k.told = b.told
    BY <1>1 DEF Client
  <2> HIDE DEF k, b
  <2> QED BY <2>1, <2>2
<1>4. ASSUME Ends(c, "receive", res, n)
      PROVE  \E k \in Client :
               /\ client' = [client EXCEPT ![c] = k]
               /\ k.receive = res /\ k.connect = b.connect /\ k.send = b.send
               /\ k.m_stoped = b.m_stoped /\ k.told = b.told
  <2> DEFINE k == [b EXCEPT !.receive = res, !.bytes = n]
  <2>1. client' = [client EXCEPT ![c] = k]
    BY <1>1, <1>4 DEF Ends
  <2>2. /\ k \in Client
        /\ k.receive = res /\ k.connect = b.connect /\ k.send = b.send
        /\ k.m_stoped = b.m_stoped /\ k.told = b.told
    BY <1>1 DEF Client
  <2> HIDE DEF k, b
  <2> QED BY <2>1, <2>2
<1> QED BY <1>2, <1>3, <1>4

(* The network ends the one operation the client waits for.                 *)
LEMMA ClientReactor ==
  ASSUME ClientInv, NEW c \in Conn,
         Connects(c) \/ Sends(c) \/ Receives(c) \/ ReceiveBreaks(c)
  PROVE  ClientInv'
<1> DEFINE b == client[c]
<1>1. /\ ClientTypeOK /\ KnowsReply(b, peer[c]) /\ (run => WaitsForOne(b))
      /\ request \in [Conn -> 0..AMIB_MESSAGE_LENTH] /\ run \in BOOLEAN
  BY DEF ClientInv, ClientPart, ClientTypeOK
<1> HIDE DEF b
<1>2. NewClient.connect = "idle" /\ NewClient.send = "idle" /\ NewClient.receive = "idle"
  BY DEF NewClient
<1>3. ASSUME NEW res \in {"ok", "err"}, NEW n \in 0..AMIB_MESSAGE_LENTH,
             \/ Ends(c, "connect", res, n) \/ Ends(c, "send", res, n)
             \/ Ends(c, "receive", res, n) /\ (res = "ok" => peer[c].acks = 1),
             request' \in [Conn -> 0..AMIB_MESSAGE_LENTH]
      PROVE  ClientInv'
  <2>1. run /\ UNCHANGED <<vars, net, echo, run>>
    BY <1>3 DEF Ends
  <2>2. PICK k \in Client :
          /\ client' = [client EXCEPT ![c] = k]
          /\ k.m_stoped = b.m_stoped /\ k.told = b.told
          /\ \/ /\ b.connect = "wait" /\ k.connect = res
                /\ k.send = b.send /\ k.receive = b.receive
             \/ /\ b.send = "wait" /\ k.send = res
                /\ k.connect = b.connect /\ k.receive = b.receive
             \/ /\ b.receive = "wait" /\ k.receive = res
                /\ k.connect = b.connect /\ k.send = b.send
                /\ (res = "ok" => peer[c].acks = 1)
    <3>1. CASE Ends(c, "connect", res, n)
      <4>1. b.connect = "wait"
        BY <3>1 DEF Ends, b
      <4> QED BY <1>1, <3>1, <4>1, EndsFields DEF b
    <3>2. CASE Ends(c, "send", res, n)
      <4>1. b.send = "wait"
        BY <3>2 DEF Ends, b
      <4> QED BY <1>1, <3>2, <4>1, EndsFields DEF b
    <3>3. CASE Ends(c, "receive", res, n) /\ (res = "ok" => peer[c].acks = 1)
      <4>1. b.receive = "wait"
        BY <3>3 DEF Ends, b
      <4> QED BY <1>1, <3>3, <4>1, EndsFields DEF b
    <3> QED BY <1>3, <3>1, <3>2, <3>3
  <2>3. KnowsReply(k, peer[c])
    BY <1>1, <2>2 DEF KnowsReply
  <2>4. WaitsForOne(k)
    BY <1>1, <1>2, <2>1, <2>2 DEF WaitsForOne, Outstanding
  <2> QED BY <1>1, <1>3, <2>1, <2>2, <2>3, <2>4, ClientSteps
<1>4. 0 \in 0..AMIB_MESSAGE_LENTH /\ 1..AMIB_MESSAGE_LENTH \subseteq 0..AMIB_MESSAGE_LENTH
  BY DEF AMIB_MESSAGE_LENTH
<1>5. CASE Connects(c)
  BY <1>1, <1>3, <1>4, <1>5 DEF Connects, Breaks
<1>6. CASE Sends(c)
  <2>1. CASE Breaks(c, "send")
    BY <1>1, <1>3, <1>4, <2>1 DEF Breaks
  <2>2. ASSUME NEW n \in Piece(AMIB_MESSAGE_LENTH), Ends(c, "send", "ok", n),
               request' = [request EXCEPT ![c] = n]
        PROVE  ClientInv'
    <3>1. n \in 0..AMIB_MESSAGE_LENTH
      BY <1>4 DEF Piece
    <3> QED BY <1>1, <1>3, <2>2, <3>1
  <2> QED BY <1>6, <2>1, <2>2 DEF Sends
<1>7. CASE Receives(c) \/ ReceiveBreaks(c)
  <2>1. CASE Breaks(c, "receive")
    BY <1>1, <1>3, <1>4, <2>1 DEF Breaks
  <2>2. ASSUME NEW n \in 1..peer[c].wire, Ends(c, "receive", "ok", n), UNCHANGED request
        PROVE  ClientInv'
    <3>1. peer[c].acks = 1 /\ n \in 0..AMIB_MESSAGE_LENTH
      <4>1. peer[c] = Unborn \/ ConnInv(peer[c])
        BY DEF ClientInv, ClientPart, Steady
      <4>2. CASE peer[c] = Unborn
        <5>1. peer[c].wire = 0
          BY <4>2, UnbornFields
        <5> QED BY <5>1
      <4>3. CASE ConnInv(peer[c])
        BY <4>3 DEF ConnInv, ReplyPart, Peer, AMIB_MESSAGE_LENTH
      <4> QED BY <4>1, <4>2, <4>3
    <3> QED BY <1>1, <1>3, <2>2, <3>1
  <2> QED BY <1>7, <2>1, <2>2 DEF Receives, ReceiveBreaks
<1> QED BY <1>5, <1>6, <1>7

(* What start() and each handler leave of the client that called it.        *)
LEMMA HandlerFields ==
  ASSUME NEW b \in Client
  PROVE  /\ LET k == [b EXCEPT !.connect = "wait"]
            IN  /\ k \in Client /\ k.connect = "wait" /\ k.send = b.send
                /\ k.receive = b.receive /\ k.told = b.told /\ k.m_stoped = b.m_stoped
         /\ LET k == [b EXCEPT !.connect = "idle"]
            IN  /\ k \in Client /\ k.receive = b.receive /\ k.told = b.told
         /\ LET k == [ConnectHandler(b) EXCEPT !.bytes = 0]
            IN  /\ k \in Client /\ k.connect = "idle" /\ k.receive = b.receive
                /\ k.told = b.told
                /\ b.connect = "err" => k.m_stoped /\ k.send = b.send
                /\ b.connect # "err" => k.m_stoped = b.m_stoped /\ k.send = "wait"
         /\ LET k == [SendHandler(b) EXCEPT !.bytes = 0]
            IN  /\ k \in Client /\ k.send = "idle" /\ k.connect = b.connect
                /\ k.told = b.told
                /\ \/ k.m_stoped /\ k.receive = b.receive
                   \/ k.m_stoped = b.m_stoped /\ k.receive = "wait"
<1> USE DEF AMIB_MESSAGE_LENTH
<1>1. "wait" \in SockOp /\ "idle" \in SockOp /\ 0 \in 0..11
  BY DEF SockOp
<1>2. LET k == [b EXCEPT !.connect = "wait"]
      IN  /\ k \in Client /\ k.connect = "wait" /\ k.send = b.send
          /\ k.receive = b.receive /\ k.told = b.told /\ k.m_stoped = b.m_stoped
  BY <1>1 DEF Client
<1>3. LET k == [b EXCEPT !.connect = "idle"]
      IN  k \in Client /\ k.receive = b.receive /\ k.told = b.told
  BY <1>1 DEF Client
<1>4. LET k == [ConnectHandler(b) EXCEPT !.bytes = 0]
      IN  /\ k \in Client /\ k.connect = "idle" /\ k.receive = b.receive
          /\ k.told = b.told
          /\ b.connect = "err" => k.m_stoped /\ k.send = b.send
          /\ b.connect # "err" => k.m_stoped = b.m_stoped /\ k.send = "wait"
  <2> DEFINE k == [ConnectHandler(b) EXCEPT !.bytes = 0]
  <2>1. k = IF b.connect = "err"
            THEN [b EXCEPT !.connect = "idle", !.m_stoped = TRUE, !.bytes = 0]
            ELSE [b EXCEPT !.connect = "idle", !.send = "wait", !.bytes = 0]
    BY DEF ConnectHandler, Close
  <2> HIDE DEF k
  <2>2. /\ k \in Client /\ k.connect = "idle" /\ k.receive = b.receive
        /\ k.told = b.told
        /\ b.connect = "err" => k.m_stoped /\ k.send = b.send
        /\ b.connect # "err" => k.m_stoped = b.m_stoped /\ k.send = "wait"
    BY <1>1, <2>1 DEF Client
  <2> QED BY <2>2 DEF k
<1>5. LET k == [SendHandler(b) EXCEPT !.bytes = 0]
      IN  /\ k \in Client /\ k.send = "idle" /\ k.connect = b.connect
          /\ k.told = b.told
          /\ \/ k.m_stoped /\ k.receive = b.receive
             \/ k.m_stoped = b.m_stoped /\ k.receive = "wait"
  <2> DEFINE k == [SendHandler(b) EXCEPT !.bytes = 0]
  <2>1. k = IF b.send = "ok" /\ b.bytes = 11
            THEN [b EXCEPT !.send = "idle", !.receive = "wait", !.bytes = 0]
            ELSE [b EXCEPT !.send = "idle", !.m_stoped = TRUE, !.bytes = 0]
    BY DEF SendHandler, Close
  <2> HIDE DEF k
  <2>2. /\ k \in Client /\ k.send = "idle" /\ k.connect = b.connect
        /\ k.told = b.told
        /\ \/ k.m_stoped /\ k.receive = b.receive
           \/ k.m_stoped = b.m_stoped /\ k.receive = "wait"
    BY <1>1, <2>1 DEF Client
  <2> QED BY <2>2 DEF k
<1> QED BY <1>2, <1>3, <1>4, <1>5

LEMMA ReceiveFields ==
  ASSUME NEW b \in Client, NEW code
  PROVE  LET k == [ReceiveHandler(b, code) EXCEPT !.bytes = 0]
         IN  /\ k \in Client /\ k.receive = "idle" /\ k.m_stoped
             /\ k.connect = b.connect /\ k.send = b.send
             /\ k.told = IF b.receive = "ok" /\ b.bytes = 3 THEN {Verdict(code)} ELSE b.told
<1> DEFINE k == [ReceiveHandler(b, code) EXCEPT !.bytes = 0]
           v == IF b.receive = "ok" /\ b.bytes = 3 THEN {Verdict(code)} ELSE b.told
<1>1. "idle" \in SockOp /\ 0 \in 0..AMIB_MESSAGE_LENTH
  BY DEF SockOp, AMIB_MESSAGE_LENTH
<1>2. k = [b EXCEPT !.receive = "idle", !.told = v, !.m_stoped = TRUE, !.bytes = 0]
  BY DEF ReceiveHandler, Close, Client
<1>3. v \in SUBSET SUBSET Probes
  BY DEF Client, Verdict, Probes
<1> HIDE DEF k, v
<1>4. /\ k \in Client /\ k.receive = "idle" /\ k.m_stoped
      /\ k.connect = b.connect /\ k.send = b.send /\ k.told = v
  BY <1>1, <1>2, <1>3 DEF Client
<1> QED BY <1>4 DEF k, v

(* The handlers of a client, and its start.                                 *)
LEMMA ClientHandlers ==
  ASSUME ClientInv, NEW c \in Conn,
         \/ Starts(c) \/ ConnectThrows(c)
         \/ ConnectReturned(c) \/ SendReturned(c) \/ ReceiveReturned(c)
  PROVE  ClientInv'
<1> DEFINE b == client[c]
<1>1. /\ KnowsReply(b, peer[c]) /\ (run => WaitsForOne(b)) /\ b \in Client
      /\ client \in [Conn -> Client]
      /\ request \in [Conn -> 0..AMIB_MESSAGE_LENTH] /\ run \in BOOLEAN
  BY DEF ClientInv, ClientPart, ClientTypeOK
<1>2. /\ NewClient.connect = "idle" /\ NewClient.send = "idle"
      /\ NewClient.receive = "idle" /\ ~NewClient.m_stoped
  BY DEF NewClient
<1>3. ASSUME NEW k \in Client, client' = [client EXCEPT ![c] = k],
             KnowsReply(k, peer[c]), WaitsForOne(k),
             run, UNCHANGED <<server_side, echo, run>>
      PROVE  ClientInv'
  BY <1>1, <1>3, ClientSteps DEF server_side
<1>4. CASE Starts(c)
  <2> DEFINE k == [b EXCEPT !.connect = "wait"]
  <2>1. /\ client' = [client EXCEPT ![c] = k] /\ run /\ UNCHANGED <<server_side, echo, run>>
        /\ b = NewClient
    BY <1>1, <1>4 DEF Starts
  <2>2. /\ k \in Client /\ k.connect = "wait" /\ k.send = b.send
        /\ k.receive = b.receive /\ k.told = b.told /\ k.m_stoped = b.m_stoped
    BY <1>1, HandlerFields
  <2> HIDE DEF k, b
  <2>3. KnowsReply(k, peer[c])
    BY <1>1, <2>2 DEF KnowsReply
  <2>4. WaitsForOne(k)
    BY <1>2, <2>1, <2>2 DEF WaitsForOne, Outstanding
  <2> QED BY <1>3, <2>1, <2>2, <2>3, <2>4
<1>5. CASE ConnectThrows(c)
  <2> DEFINE k == [b EXCEPT !.connect = "idle"]
  <2>1. /\ client' = [client EXCEPT ![c] = k] /\ run' = FALSE
        /\ UNCHANGED <<server_side, echo>>
    BY <1>1, <1>5 DEF ConnectThrows
  <2>2. k \in Client /\ k.receive = b.receive /\ k.told = b.told
    BY <1>1, HandlerFields
  <2> HIDE DEF k, b
  <2>3. KnowsReply(k, peer[c])
    BY <1>1, <2>2 DEF KnowsReply
  <2> QED BY <1>1, <2>1, <2>2, <2>3, ClientSteps DEF server_side
<1>6. CASE ConnectReturned(c)
  <2> DEFINE k == [ConnectHandler(b) EXCEPT !.bytes = 0]
  <2>1. /\ client' = [client EXCEPT ![c] = k] /\ run /\ UNCHANGED <<server_side, echo, run>>
        /\ b.connect # "idle"
    BY <1>6 DEF ConnectReturned, Returns, Queued
  <2>2. /\ k \in Client /\ k.connect = "idle" /\ k.receive = b.receive
        /\ k.told = b.told
        /\ b.connect = "err" => k.m_stoped /\ k.send = b.send
        /\ b.connect # "err" => k.m_stoped = b.m_stoped /\ k.send = "wait"
    BY <1>1, HandlerFields
  <2> HIDE DEF k, b
  <2>3. KnowsReply(k, peer[c])
    BY <1>1, <2>2 DEF KnowsReply
  <2>4. WaitsForOne(k)
    BY <1>1, <1>2, <2>1, <2>2 DEF WaitsForOne, Outstanding
  <2> QED BY <1>3, <2>1, <2>2, <2>3, <2>4
<1>7. CASE SendReturned(c)
  <2> DEFINE k == [SendHandler(b) EXCEPT !.bytes = 0]
  <2>1. /\ client' = [client EXCEPT ![c] = k] /\ run /\ UNCHANGED <<server_side, echo, run>>
        /\ b.send # "idle"
    BY <1>7 DEF SendReturned, Returns, Queued
  <2>2. /\ k \in Client /\ k.send = "idle" /\ k.connect = b.connect
        /\ k.told = b.told
        /\ \/ k.m_stoped /\ k.receive = b.receive
           \/ k.m_stoped = b.m_stoped /\ k.receive = "wait"
    BY <1>1, HandlerFields
  <2> HIDE DEF k, b
  <2>3. KnowsReply(k, peer[c])
    BY <1>1, <2>2 DEF KnowsReply
  <2>4. WaitsForOne(k)
    BY <1>1, <1>2, <2>1, <2>2 DEF WaitsForOne, Outstanding
  <2> QED BY <1>3, <2>1, <2>2, <2>3, <2>4
<1>8. CASE ReceiveReturned(c)
  <2> DEFINE k == [ReceiveHandler(b, peer[c].reply_code) EXCEPT !.bytes = 0]
  <2>1. /\ client' = [client EXCEPT ![c] = k] /\ run /\ UNCHANGED <<server_side, echo, run>>
        /\ b.receive # "idle"
    BY <1>8 DEF ReceiveReturned, Returns, Queued
  <2>2. /\ k \in Client /\ k.receive = "idle" /\ k.m_stoped
        /\ k.connect = b.connect /\ k.send = b.send
        /\ k.told = IF b.receive = "ok" /\ b.bytes = 3
                    THEN {Verdict(peer[c].reply_code)} ELSE b.told
    <3>1. b \in Client
      BY <1>1
    <3> QED BY <3>1, ReceiveFields
  <2> HIDE DEF k, b
  <2>3. b.receive = "ok" => /\ peer[c].acks = 1
                            /\ Verdict(peer[c].reply_code) = peer[c].m_pingpong_task.verdict
    <3> SUFFICES ASSUME b.receive = "ok"
                 PROVE  /\ peer[c].acks = 1
                        /\ Verdict(peer[c].reply_code) = peer[c].m_pingpong_task.verdict
      OBVIOUS
    <3> DEFINE p == peer[c]
    <3>1. p.acks = 1
      BY <1>1 DEF KnowsReply
    <3>2. ConnInv(p)
      BY <3>1, UnbornFields DEF ClientInv, ClientPart, Steady
    <3> HIDE DEF p
    <3>3. /\ p.reply_code = ReplyCode(p.m_pingpong_task.verdict)
          /\ p.m_pingpong_task.verdict \in SUBSET Probes
      BY <3>1, <3>2 DEF ConnInv, ReplyPart, Peer, Task
    <3>4. Verdict(p.reply_code) = p.m_pingpong_task.verdict
      BY <3>3, VerdictOfReply
    <3> QED BY <3>1, <3>4 DEF p
  <2>4. KnowsReply(k, peer[c])
    BY <1>1, <2>2, <2>3 DEF KnowsReply
  <2>5. WaitsForOne(k)
    BY <1>1, <1>2, <2>1, <2>2 DEF WaitsForOne, Outstanding
  <2> QED BY <1>3, <2>1, <2>2, <2>4, <2>5
<1> QED BY <1>4, <1>5, <1>6, <1>7, <1>8

(* The UDP echo server touches neither a client nor a connection.           *)
LEMMA EchoSteps ==
  ASSUME ClientInv, EchoStep
  PROVE  ClientInv'
<1> DEFINE Echo == [receive : SockOp, send : SockOp, sender : SUBSET Conn]
<1>1. echo \in Echo /\ net \subseteq Datagrams
  BY DEF ClientInv, ClientTypeOK
<1>2. UNCHANGED <<vars, client, request, run>>
  BY DEF EchoStep, EchoHears, EchoReceiveHandler, EchoSends, EchoSendHandler, server_side
<1>3. echo' \in Echo /\ net' \subseteq Datagrams
  <2>0. /\ "ok" \in SockOp /\ "err" \in SockOp /\ "idle" \in SockOp /\ "wait" \in SockOp
        /\ {} \in SUBSET Conn
    BY DEF SockOp
  <2>1. CASE EchoHears
    <3>1. net' = net
      BY <2>1 DEF EchoHears, server_side
    <3>2. \/ \E c \in Conn : echo' = [echo EXCEPT !.receive = "ok", !.sender = {c}]
          \/ echo' = [echo EXCEPT !.receive = "err"]
      BY <2>1 DEF EchoHears
    <3>3. ASSUME NEW c \in Conn, echo' = [echo EXCEPT !.receive = "ok", !.sender = {c}]
          PROVE  echo' \in Echo
      <4>1. {c} \in SUBSET Conn
        OBVIOUS
      <4> QED BY <1>1, <2>0, <3>3, <4>1
    <3>4. ASSUME echo' = [echo EXCEPT !.receive = "err"]
          PROVE  echo' \in Echo
      BY <1>1, <2>0, <3>4
    <3> QED BY <1>1, <3>1, <3>2, <3>3, <3>4
  <2>2. CASE EchoReceiveHandler
    BY <1>1, <2>0, <2>2 DEF EchoReceiveHandler, server_side
  <2>3. CASE EchoSends
    <3>1. PICK res \in {"ok", "err"} :
            /\ echo' = [echo EXCEPT !.send = res]
            /\ net' = net \/ net' = net \cup (echo.sender \X {"pong"})
      BY <2>3 DEF EchoSends
    <3>2. net' \subseteq Datagrams
      BY <1>1, <3>1 DEF Datagrams
    <3> QED BY <1>1, <2>0, <3>1, <3>2
  <2>4. CASE EchoSendHandler
    BY <1>1, <2>0, <2>4 DEF EchoSendHandler, server_side
  <2> QED BY <2>1, <2>2, <2>3, <2>4 DEF EchoStep
<1>4. ClientTypeOK'
  BY <1>2, <1>3 DEF ClientInv, ClientTypeOK, vars
<1>5. \A c \in Conn : ClientPart(c)'
  BY <1>2 DEF ClientInv, ClientPart, Steady, vars
<1> QED BY <1>4, <1>5 DEF ClientInv
-----------------------------------------------------------------------------
LEMMA ClientInvInit == ClientInit => ClientInv
<1> SUFFICES ASSUME ClientInit
             PROVE  ClientInv
  OBVIOUS
<1>1. NewClient \in Client /\ NewClient.receive = "idle" /\ NewClient.told = {}
  BY DEF NewClient, Client, SockOp, AMIB_MESSAGE_LENTH
<1>2. /\ peer \in [Conn -> Peer] /\ client \in [Conn -> Client]
      /\ request \in [Conn -> 0..AMIB_MESSAGE_LENTH]
  BY <1>1, UnbornFields DEF ClientInit, AMIB_MESSAGE_LENTH
<1>3. echo \in [receive : SockOp, send : SockOp, sender : SUBSET Conn]
  BY DEF ClientInit, SockOp
<1>4. ClientTypeOK
  BY <1>2, <1>3 DEF ClientInit, ClientTypeOK, Datagrams
<1>5. \A c \in Conn : peer[c] = Unborn /\ client[c] = NewClient
  BY DEF ClientInit
<1> QED BY <1>1, <1>4, <1>5 DEF ClientInv, ClientPart, KnowsReply, WaitsForOne

LEMMA ClientInvNext == ClientInv /\ [ClientNext]_client_vars => ClientInv'
<1> SUFFICES ASSUME ClientInv, [ClientNext]_client_vars
             PROVE  ClientInv'
  OBVIOUS
<1>1. CASE UNCHANGED client_vars
  BY <1>1 DEF client_vars, vars, ClientInv, ClientTypeOK, ClientPart, Steady
<1>2. CASE EchoStep
  BY <1>2, EchoSteps
<1>3. ASSUME NEW c \in Conn, ClientStep(c)
      PROVE  ClientInv'
  BY <1>3, ClientReactor, ClientHandlers DEF ClientStep, ClientGoesOn
<1>4. ASSUME NEW c \in Conn, ServerStep(c)
      PROVE  ClientInv'
  BY <1>4, ServerStepsKeep
<1> QED BY <1>1, <1>2, <1>3, <1>4 DEF ClientNext

(* The two programs together, in order: every connection of the server as   *)
(* PeerConnectionProofs has it, every client as described above.            *)
THEOREM ClientInvariant == ClientSpec => []ClientInv
BY ClientInvInit, ClientInvNext, PTL DEF ClientSpec

(* The fields keep their types on both sides: no more is ever read of the   *)
(* request than was sent, and of the reply than fits the buffer.            *)
THEOREM ClientTypeCorrect == ClientSpec => []ClientTypeOK
<1>1. ClientInv => ClientTypeOK
  BY DEF ClientInv
<1> QED BY <1>1, ClientInvariant, PTL

(* A client prints what the server's task found, which is what reached its  *)
(* echo servers, and all of it if the task was not cut short.               *)
THEOREM TellsTheTruth == ClientSpec => []ToldTheTruth
<1>1. ASSUME ClientInv
      PROVE  ToldTheTruth
  <2> SUFFICES ASSUME NEW c \in Conn, NEW v \in client[c].told,
                      NEW t, t = peer[c].m_pingpong_task
               PROVE  /\ v = t.verdict /\ v \subseteq t.reached
                      /\ ~t.m_abort => v = t.reached
    BY DEF ToldTheTruth
  <2>1. peer[c].acks = 1 /\ v = t.verdict
    BY <1>1 DEF ClientInv, ClientPart, KnowsReply
  <2>2. ConnInv(peer[c])
    BY <1>1, <2>1, UnbornFields DEF ClientInv, ClientPart, Steady
  <2>3. TaskInv(t) /\ t.m_is_notified
    BY <2>1, <2>2 DEF ConnInv, ReplyPart, TaskPart
  <2> QED BY <2>1, <2>3 DEF TaskInv, TruthInv
<1> QED BY <1>1, ClientInvariant, PTL

(* A client that has started waits for exactly one operation, until it has  *)
(* stopped and waits for none.                                              *)
THEOREM ClientWaits == ClientSpec => []ClientWaitsForOne
<1>1. ASSUME ClientInv
      PROVE  ClientWaitsForOne
  <2> SUFFICES ASSUME run, NEW c \in Conn, client[c] # NewClient,
                      NEW k, k = client[c]
               PROVE  Cardinality({op \in {"connect", "send", "receive"} : Outstanding(k[op])})
                        = (IF k.m_stoped THEN 0 ELSE 1)
    BY DEF ClientWaitsForOne
  <2> DEFINE S == {op \in {"connect", "send", "receive"} : Outstanding(k[op])}
  <2>1. /\ k.m_stoped <=> k.connect = "idle" /\ k.send = "idle" /\ k.receive = "idle"
        /\ Outstanding(k.connect) => k.send = "idle" /\ k.receive = "idle"
        /\ Outstanding(k.send) => k.receive = "idle"
    BY <1>1 DEF ClientInv, ClientPart, WaitsForOne
  <2>2. CASE k.m_stoped
    <3>1. S = {}
      BY <2>1, <2>2 DEF Outstanding
    <3> QED BY <2>2, <3>1, FS_EmptySet
  <2>3. CASE ~k.m_stoped
    <3>1. S = {"connect"} \/ S = {"send"} \/ S = {"receive"}
      <4>1. CASE Outstanding(k.connect)
        <5>1. S = {"connect"}
          BY <2>1, <4>1 DEF Outstanding
        <5> QED BY <5>1
      <4>2. CASE Outstanding(k.send)
        <5>1. S = {"send"}
          BY <2>1, <4>2 DEF Outstanding
        <5> QED BY <5>1
      <4>3. CASE ~Outstanding(k.connect) /\ ~Outstanding(k.send)
        <5>1. S = {"receive"}
          BY <2>1, <2>3, <4>3 DEF Outstanding
        <5> QED BY <5>1
      <4> QED BY <4>1, <4>2, <4>3
    <3>2. Cardinality(S) = 1
      BY <3>1, FS_Singleton
    <3> QED BY <2>3, <3>2
  <2> QED BY <2>2, <2>3
<1> QED BY <1>1, ClientInvariant, PTL

(* The UDP echo server always has one operation outstanding, whatever the   *)
(* errors, and never both.                                                  *)
THEOREM EchoAlwaysOne == ClientSpec => []EchoGoesOn
<1>1. ClientInit => EchoGoesOn
  BY DEF ClientInit, EchoGoesOn, Outstanding
<1>2. ClientTypeOK /\ EchoGoesOn /\ [ClientNext]_client_vars => EchoGoesOn'
  <2> SUFFICES ASSUME ClientTypeOK, EchoGoesOn, [ClientNext]_client_vars
               PROVE  EchoGoesOn'
    OBVIOUS
  <2>1. CASE UNCHANGED echo
    BY <2>1 DEF EchoGoesOn
  <2>2. CASE EchoStep
    <3>1. echo \in [receive : SockOp, send : SockOp, sender : SUBSET Conn]
      BY DEF ClientTypeOK
    <3>2. CASE EchoHears
      <4>1. echo.receive = "wait" /\ echo'.receive \in {"ok", "err"} /\ echo'.send = echo.send
        BY <3>1, <3>2 DEF EchoHears
      <4> QED BY <4>1 DEF EchoGoesOn, Outstanding
    <3>3. CASE EchoReceiveHandler
      <4>1. echo'.receive = "idle" /\ echo'.send = "wait"
        BY <3>1, <3>3 DEF EchoReceiveHandler
      <4> QED BY <4>1 DEF EchoGoesOn, Outstanding
    <3>4. CASE EchoSends
      <4>1. echo.send = "wait" /\ echo'.send \in {"ok", "err"} /\ echo'.receive = echo.receive
        BY <3>1, <3>4 DEF EchoSends
      <4> QED BY <4>1 DEF EchoGoesOn, Outstanding
    <3>5. CASE EchoSendHandler
      <4>1. echo'.receive = "wait" /\ echo'.send = "idle"
        BY <3>5 DEF EchoSendHandler
      <4> QED BY <4>1 DEF EchoGoesOn, Outstanding
    <3> QED BY <2>2, <3>2, <3>3, <3>4, <3>5 DEF EchoStep
  <2>3. ASSUME NEW c \in Conn, ClientStep(c) \/ ServerStep(c)
        PROVE  UNCHANGED echo
    BY <2>3
       DEF ClientStep, ClientGoesOn, Starts, Connects, Sends, Receives, ReceiveBreaks, Breaks, Ends,
           ConnectReturned, ConnectThrows, SendReturned, ReceiveReturned, Returns,
           ServerStep, ServerAccepts, ServerSocket, ServerProbe, ServerReads, ServerWatchDog,
           ServerHandles
  <2> QED BY <2>1, <2>2, <2>3 DEF ClientNext, client_vars
<1> QED BY <1>1, <1>2, ClientTypeCorrect, PTL DEF ClientSpec
=============================================================================
