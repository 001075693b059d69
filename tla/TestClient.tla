----------------------------- MODULE TestClient -----------------------------
(***************************************************************************)
(* TestClient (AsioTCPClient.h, TestClient.cpp): clients that ask the      *)
(* server of PeerConnection whether they can be reached, and the two echo  *)
(* servers its probes should find.  One io_service runs all of TestClient. *)
(* Between the two programs: a byte stream each way per connection, which  *)
(* may arrive in pieces, and datagrams, which may be lost, doubled or late. *)
(***************************************************************************)
EXTENDS PeerConnection

CONSTANT Cut    \* where the request may be cut in two on its way

ASSUME CutAssumption == Cut \subseteq 1..AMIB_MESSAGE_LENTH - 1

VARIABLES
  client,    \* client[c]: the CAsioTCPClient of connection c
  request,   \* request[c]: how many bytes of m_send_buf the server may read
  net,       \* the datagrams sent: each may arrive never, once or again
  echo,      \* async_udp_server: its receive, its send and whom it answers
  run        \* no handler of TestClient has thrown out of its io.run

client_vars == <<vars, client, request, net, echo, run>>

(* m_send_buf: ports 3799 and 3799.                                         *)
m_send_buf == <<9, 0, 65, 77, 73, 66, 0>> \o <<3799 % 256, 3799 \div 256>>
                                          \o <<3799 % 256, 3799 \div 256>>
TestMessages == {m_send_buf}

(* bytes: what the send or the receive transferred, until its handler has   *)
(* run.  told is history: the results printed, {} while there are none.     *)
Client == [connect : SockOp, send : SockOp, receive : SockOp, m_stoped : BOOLEAN,
           bytes : 0..AMIB_MESSAGE_LENTH, told : SUBSET SUBSET Probes]

NewClient == [connect |-> "idle", send |-> "idle", receive |-> "idle", m_stoped |-> FALSE,
              bytes |-> 0, told |-> {}]

Datagrams == Conn \X {"ping", "pong"}

ClientInit ==
  /\ peer = [c \in Conn |-> Unborn] /\ io = "running" /\ debug \in BOOLEAN
  /\ client = [c \in Conn |-> NewClient]
  /\ request = [c \in Conn |-> 0] /\ net = {}
  /\ echo = [receive |-> "wait", send |-> "idle", sender |-> {}]
  /\ run = TRUE

server_side == <<vars, request, net>>
-----------------------------------------------------------------------------
(* n of the bytes there are may come at once.                               *)
Piece(there) == (Cut \cup {there}) \cap 1..there

(* The reactor of the clients, op having ended with res and n bytes.        *)
Ends(c, op, res, n) ==
  /\ run /\ client[c][op] = "wait"
  /\ client' = [client EXCEPT ![c][op] = res, ![c].bytes = n]
  /\ UNCHANGED <<vars, net, echo, run>>

Breaks(c, op) == Ends(c, op, "err", 0) /\ UNCHANGED request

Connects(c) ==
  \/ Ends(c, "connect", "ok", 0) /\ UNCHANGED request
  \/ Breaks(c, "connect")

Sends(c) ==
  \/ \E n \in Piece(AMIB_MESSAGE_LENTH) :
       Ends(c, "send", "ok", n) /\ request' = [request EXCEPT ![c] = n]
  \/ Breaks(c, "send")

(* A receive ends with bytes of the reply, or at the end of the stream.     *)
ServerGone(c) == peer[c].m_closed \/ io # "running"

Receives(c) ==
  \/ \E n \in 1..peer[c].wire : Ends(c, "receive", "ok", n) /\ UNCHANGED request
  \/ ServerGone(c) /\ Breaks(c, "receive")

ReceiveBreaks(c) == Breaks(c, "receive")
-----------------------------------------------------------------------------
(* resolve_handler: start().                                                *)
Starts(c) ==
  /\ run /\ client[c] = NewClient
  /\ client' = [client EXCEPT ![c].connect = "wait"]
  /\ UNCHANGED <<server_side, echo, run>>

(* close: no operation is outstanding in the handlers that call it.         *)
Close(k) == [k EXCEPT !.m_stoped = TRUE]

(* Mistake: no return after close().                                        *)
ConnectHandlerGoesOn(k) ==
  LET r == [k EXCEPT !.connect = "idle", !.send = "wait"]
  IN  IF k.connect = "err" THEN Close(r) ELSE r

ConnectHandler(k) ==
  LET r == [k EXCEPT !.connect = "idle"]
  IN  IF k.connect = "err" THEN Close(r) ELSE [r EXCEPT !.send = "wait"]

(* All 11 bytes were sent, or the client gives up.                          *)
SendHandler(k) ==
  LET r == [k EXCEPT !.send = "idle"]
  IN  IF k.send = "ok" /\ k.bytes = AMIB_MESSAGE_LENTH
      THEN [r EXCEPT !.receive = "wait"]
      ELSE Close(r)

(* Mistake: the results the other way around.                               *)
VerdictSwapped(code) ==
  (IF code % 2 = 0 THEN {} ELSE {"udp"}) \cup (IF code \div 2 = 0 THEN {} ELSE {"tcp"})

(* The two results in a reply_code.                                         *)
Verdict(code) ==
  (IF code % 2 = 0 THEN {} ELSE {"tcp"}) \cup (IF code \div 2 = 0 THEN {} ELSE {"udp"})

(* Mistake: a reply in parts waited for no more, and the client not closed. *)
ReceiveHandlerWaits(k, code) ==
  LET r == [k EXCEPT !.receive = "idle"]
  IN  IF k.receive = "ok" /\ k.bytes = 3 THEN Close([r EXCEPT !.told = {Verdict(code)}]) ELSE r

(* 3 bytes of the reply at once, or it has failed.                          *)
ReceiveHandler(k, code) ==
  LET r == [k EXCEPT !.receive = "idle"]
  IN  IF k.receive = "ok" /\ k.bytes = 3
      THEN Close([r EXCEPT !.told = {Verdict(code)}])
      ELSE Close(r)

(* The handler of op leaves client c as k.                                  *)
Returns(c, op, k) ==
  /\ run /\ Queued(client[c][op])
  /\ client' = [client EXCEPT ![c] = [k EXCEPT !.bytes = 0]]
  /\ UNCHANGED <<server_side, echo, run>>

(* connect_handler prints remote_endpoint(), which throws if the server has  *)
(* reset the connection already: main prints the error, and all is over.    *)
ConnectThrows(c) ==
  /\ run /\ client[c].connect = "ok"
  /\ run' = FALSE /\ client' = [client EXCEPT ![c].connect = "idle"]
  /\ UNCHANGED <<server_side, echo>>

ConnectReturned(c) == Returns(c, "connect", ConnectHandler(client[c]))
SendReturned(c)    == Returns(c, "send", SendHandler(client[c]))
ReceiveReturned(c) == Returns(c, "receive", ReceiveHandler(client[c], peer[c].reply_code))
-----------------------------------------------------------------------------
(* The UDP echo server, whose handlers do not look at the error.  (The TCP  *)
(* one closes what the kernel has connected, which the probe is done with.) *)
EchoHears ==
  /\ run /\ echo.receive = "wait"
  /\ \/ \E c \in Conn :
          <<c, "ping">> \in net /\ echo' = [echo EXCEPT !.receive = "ok", !.sender = {c}]
     \/ echo' = [echo EXCEPT !.receive = "err"]
  /\ UNCHANGED <<server_side, client, run>>

(* Mistake: an error ends the echo.                                         *)
EchoReceiveHandlerStops ==
  /\ run /\ Queued(echo.receive)
  /\ echo' = [echo EXCEPT !.receive = "idle",
                          !.send = IF echo.receive = "err" THEN "idle" ELSE "wait"]
  /\ UNCHANGED <<server_side, client, run>>

EchoReceiveHandler ==
  /\ run /\ Queued(echo.receive)
  /\ echo' = [echo EXCEPT !.receive = "idle", !.send = "wait"]
  /\ UNCHANGED <<server_side, client, run>>

EchoSends ==
  /\ run /\ echo.send = "wait"
  /\ \E res \in {"ok", "err"} :
       /\ echo' = [echo EXCEPT !.send = res]
       /\ net' = IF res = "ok" THEN net \cup (echo.sender \X {"pong"}) ELSE net
  /\ UNCHANGED <<vars, client, request, run>>

EchoSendHandler ==
  /\ run /\ Queued(echo.send)
  /\ echo' = [receive |-> "wait", send |-> "idle", sender |-> {}]
  /\ UNCHANGED <<server_side, client, run>>
-----------------------------------------------------------------------------
(* The server, with the network between.                                    *)
ServerAccepts(c) ==
  /\ peer[c] = Unborn /\ client[c] # NewClient /\ io = "running"
  /\ peer' = [peer EXCEPT ![c] = NewConnection]
  /\ UNCHANGED <<io, debug, client, request, net, echo, run>>

(* A read needs bytes to succeed, a connect a listener, a receive an echo.  *)
ServerSocket(c) ==
  /\ SocketCompletes(c)
  /\ peer'[c].read = "ok" /\ peer[c].read = "wait" => request[c] > 0
  /\ UNCHANGED <<client, request, net, echo, run>>

ServerProbe(c) ==
  LET t == peer[c].m_pingpong_task  u == peer'[c].m_pingpong_task
      Succeeds(op) == t[op] = "wait" /\ u[op] = "ok"
  IN  /\ TaskCompletes(c)
      /\ Succeeds("receive_from") => <<c, "pong">> \in net
      /\ net' = IF Succeeds("send_to") THEN net \cup {<<c, "ping">>} ELSE net
      /\ UNCHANGED <<client, request, echo, run>>

(* What a read returns is no longer to be read.                             *)
ServerReads(c) ==
  /\ \/ (ReadAfterClose(c) \/ ReadFails(c)) /\ UNCHANGED request
     \/ \E n \in Piece(request[c]) :
          /\ request' = [request EXCEPT ![c] = @ - n]
          /\ \/ ReadsRequest(c, m_send_buf, n)
             \/ ReadsOther(c, m_send_buf, n)
             \/ RequestThrows(c, m_send_buf, n)
  /\ UNCHANGED <<client, net, echo, run>>

ServerWatchDog(c) ==
  /\ WatchDogExpires(c) \/ WatchDogHandler(c)
  /\ UNCHANGED <<client, request, net, echo, run>>

ServerHandles(c) ==
  /\ \/ WriteHandler(c) \/ TaskExpires(c) \/ ConnectReturns(c)
     \/ SendToReturns(c) \/ ReceiveFromReturns(c) \/ TimerReturns(c)
  /\ UNCHANGED <<client, request, net, echo, run>>
-----------------------------------------------------------------------------
ClientGoesOn(c) ==
  \/ Connects(c) \/ Sends(c) \/ Receives(c)
  \/ ConnectReturned(c) \/ ConnectThrows(c) \/ SendReturned(c) \/ ReceiveReturned(c)

ClientStep(c) == Starts(c) \/ ReceiveBreaks(c) \/ ClientGoesOn(c)

ServerStep(c) ==
  \/ ServerAccepts(c) \/ ServerSocket(c) \/ ServerProbe(c) \/ ServerReads(c)
  \/ ServerWatchDog(c) \/ ServerHandles(c)

EchoStep == EchoHears \/ EchoReceiveHandler \/ EchoSends \/ EchoSendHandler

ClientNext == EchoStep \/ \E c \in Conn : ClientStep(c) \/ ServerStep(c)

ClientSpec == ClientInit /\ [][ClientNext]_client_vars

(* The client's one operation ends and its handler is called: a connect and *)
(* a send of 11 bytes end somehow, the stream carries its bytes and its end.*)
(* The server's watch dog expires and is handled.  No datagram need arrive, *)
(* and nobody need connect or be accepted.                                  *)
ClientFairness ==
  \A c \in Conn : WF_client_vars(ClientGoesOn(c)) /\ WF_client_vars(ServerWatchDog(c))

ClientFairSpec == ClientSpec /\ ClientFairness
-----------------------------------------------------------------------------
ClientTypeOK ==
  /\ peer \in [Conn -> Peer] /\ io \in {"running"} \cup Exceptions
  /\ client \in [Conn -> Client]
  /\ request \in [Conn -> 0..AMIB_MESSAGE_LENTH] /\ net \subseteq Datagrams
  /\ echo \in [receive : SockOp, send : SockOp, sender : SUBSET Conn] /\ run \in BOOLEAN

(* What a client prints is what the server's task found of it, and that is  *)
(* what reached its echo servers, all of it unless the task was cut short   *)
(* (AsioTCPClient.h:61).                                                    *)
ToldTheTruth ==
  \A c \in Conn : \A verdict \in client[c].told :
    LET t == peer[c].m_pingpong_task
    IN  /\ verdict = t.verdict /\ verdict \subseteq t.reached
        /\ ~t.m_abort => verdict = t.reached

(* A client that has started waits for exactly one operation until it stops,*)
(* and for none then: stoped() tells when the object may go.                *)
ClientWaitsForOne ==
  run => \A c \in Conn : client[c] # NewClient =>
    Cardinality({op \in {"connect", "send", "receive"} : Outstanding(client[c][op])})
      = (IF client[c].m_stoped THEN 0 ELSE 1)

(* Whatever errors the UDP echo server meets, it goes on, one datagram at a *)
(* time: m_receive_buffer is never given to two receives.                   *)
EchoGoesOn == Outstanding(echo.receive) <=> ~Outstanding(echo.send)

(* A client that the server has accepted stops in the end, though it has no *)
(* timer of its own: the server's watch dog, or the end of the server, ends *)
(* its wait, unless an exception has ended TestClient.                      *)
AcceptedClientStops ==
  \A c \in Conn : peer[c] # Unborn ~> (client[c].m_stoped \/ ~run)
=============================================================================
