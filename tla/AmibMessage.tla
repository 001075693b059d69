----------------------------- MODULE AmibMessage -----------------------------
(***************************************************************************)
(* The 11-byte request, "AMIB" and two ports, and the check read_handler   *)
(* makes of it.  A message is a sequence of bytes.                         *)
(***************************************************************************)
EXTENDS Naturals, Sequences

AMIB_MESSAGE_LENTH == 11

Bytes == [1..AMIB_MESSAGE_LENTH -> 0..255]

(* m_recv_buffer when a read returned the first n bytes of msg: the rest is *)
(* as resize left it.                                                       *)
RecvBuffer(msg, n) == [i \in 1..AMIB_MESSAGE_LENTH |-> IF i <= n THEN msg[i] ELSE 0]

(* An unsigned short read in place, on the little-endian hosts the server   *)
(* is built for.                                                            *)
U16(data, i) == data[i] + 256 * data[i + 1]

Accepted(data) ==
  /\ U16(data, 1) = AMIB_MESSAGE_LENTH - 2
  /\ SubSeq(data, 3, 7) = <<65, 77, 73, 66, 0>>      \* "AMIB" and its 0
  /\ U16(data, 8) # 0                                \* tcp_port
  /\ U16(data, 10) # 0                               \* udp_port
=============================================================================
