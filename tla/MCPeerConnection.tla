-------------------------- MODULE MCPeerConnection --------------------------
(* Connections for TLC: a good request, one with a wrong name and one for   *)
(* port 0, as AsioTCPClient.h and a mistaken client would write them.       *)
EXTENDS PeerConnection

AmibTo(tcp_port, udp_port) ==
  <<9, 0, 65, 77, 73, 66, 0>> \o <<tcp_port % 256, tcp_port \div 256>>
                              \o <<udp_port % 256, udp_port \div 256>>

MCMessage == {AmibTo(6689, 6690), [AmibTo(6689, 6690) EXCEPT ![3] = 66], AmibTo(6689, 0)}
=============================================================================
