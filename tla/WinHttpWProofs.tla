--------------------------- MODULE WinHttpWProofs ---------------------------
(***************************************************************************)
(* The handles and the body of CWinHttpW, for any handle values, any       *)
(* statuses and bodies of any length.                                      *)
(***************************************************************************)
EXTENDS WinHttpW, SequenceTheorems, TLAPS

(* The handles: the session of an open since the last rest is this object's *)
(* own, or NULL.                                                            *)
HandleInv ==
  /\ {m_hSession, m_hRequest} \subseteq Handle \cup {NULL}
  /\ own \subseteq Handle /\ others \subseteq Handle \ own
  /\ RequestIsLive
  /\ held => m_hSession \in own \cup {NULL}

LEMMA HandleInit == Init => HandleInv
BY WinHttpAssumption DEF Init, HandleInv, RequestIsLive

(* rest takes m_hSession alone from the handles that are open, and an open  *)
(* gives m_hSession and m_hRequest values that nobody had.                  *)
LEMMA HandleStep == HandleInv /\ [Next]_vars => HandleInv'
<1> SUFFICES ASSUME HandleInv, [Next]_vars PROVE HandleInv'
  OBVIOUS
<1> USE WinHttpAssumption DEF HandleInv, RequestIsLive, FreeHandles, process, exchange
<1>1. CASE Rest                   BY <1>1 DEF Rest, Closed
<1>2. CASE OthersOpen             BY <1>2 DEF OthersOpen
<1>3. CASE OpenFailsAtSession     BY <1>3 DEF OpenFailsAtSession
<1>4. CASE OpenFailsAtConnection  BY <1>4 DEF OpenFailsAtConnection
<1>5. CASE OpenFailsAtRequest     BY <1>5 DEF OpenFailsAtRequest
<1>6. CASE Open                   BY <1>6 DEF Open
<1>7. CASE SendFails \/ Send
  <2>1. UNCHANGED <<m_hSession, m_hRequest, own, others, held>>
    BY <1>7 DEF SendFails, Send, Exchanged
  <2> QED BY <2>1
<1>8. CASE GetStatus              BY <1>8 DEF GetStatus
<1>9. CASE GetRespondBody         BY <1>9 DEF GetRespondBody
<1>10. CASE ReadData              BY <1>10 DEF ReadData
<1>11. CASE BodyReturned          BY <1>11 DEF BodyReturned
<1>12. CASE UNCHANGED vars        BY <1>12 DEF vars
<1> QED BY <1>1, <1>2, <1>3, <1>4, <1>5, <1>6, <1>7, <1>8, <1>9, <1>10, <1>11, <1>12 DEF Next

(* m_hRequest never stands for a handle that is closed or somebody else's   *)
(* (WinHttpW.cpp:35).                                                       *)
THEOREM LiveRequest == Spec => []RequestIsLive
<1>1. HandleInv => RequestIsLive  BY DEF HandleInv
<1> QED BY HandleInit, HandleStep, <1>1, PTL DEF Spec

(* A rest that follows an open closes nobody else's handle                  *)
(* (WinHttpW.cpp:37).                                                       *)
THEOREM RestIsHarmless == Spec => RestClosesItsOwn
<1>1. HandleInv /\ [Next]_vars => [held => others \subseteq others']_vars
  <2> SUFFICES ASSUME HandleInv, Next, held PROVE others \subseteq others'
    OBVIOUS
  <2>1. CASE Rest
    BY <2>1, WinHttpAssumption DEF Rest, Closed, HandleInv
  <2>2. CASE OthersOpen \/ OpenFailsAtSession \/ OpenFailsAtConnection
    BY <2>2 DEF OthersOpen, OpenFailsAtSession, OpenFailsAtConnection, process
  <2>3. CASE OpenFailsAtRequest \/ Open
    BY <2>3 DEF OpenFailsAtRequest, Open, process
  <2>4. CASE SendFails \/ Send \/ GetStatus
    BY <2>4 DEF SendFails, Send, Exchanged, GetStatus, process
  <2>5. CASE GetRespondBody \/ ReadData \/ BodyReturned
    BY <2>5 DEF GetRespondBody, ReadData, BodyReturned, process
  <2> QED BY <2>1, <2>2, <2>3, <2>4, <2>5 DEF Next
<1> QED BY HandleInit, HandleStep, <1>1, PTL DEF Spec, RestClosesItsOwn
-----------------------------------------------------------------------------
Requests == [status : StatusCode \cup {0}, unread : Seq(Nat)]

(* What WinHTTP knows of the request, and what was learnt of its answer.    *)
RequestInv ==
  /\ held \in BOOLEAN /\ told \in {NULL, -1, 1}
  /\ answer \in Bodies /\ given \in Seq(Nat) /\ strReturn \in Seq(Nat) \cup {NULL}
  /\ m_hRequest = NULL => request = NULL /\ Idle
  /\ m_hRequest # NULL => request \in Requests /\ Len(request.unread) <= MaxBody

LEMMA BodiesAreSequences ==
  /\ <<>> \in Bodies
  /\ \A b \in Bodies : b \in Seq(Nat) /\ Len(b) \in 0..MaxBody
<1>1. <<>> \in Bodies
  <2>1. <<>> = [i \in 1..0 |-> i]  OBVIOUS
  <2> QED BY <2>1, WinHttpAssumption DEF Bodies
<1>2. ASSUME NEW b \in Bodies PROVE b \in Seq(Nat) /\ Len(b) \in 0..MaxBody
  <2>1. PICK n \in 0..MaxBody : b = [i \in 1..n |-> i]  BY DEF Bodies
  <2>2. n \in Nat  BY WinHttpAssumption
  <2>3. b \in [1..n -> Nat]  BY <2>1, <2>2
  <2> QED BY <2>1, <2>2, <2>3
<1> QED BY <1>1, <1>2

LEMMA RequestInit == Init => RequestInv
BY BodiesAreSequences, WinHttpAssumption DEF Init, RequestInv, Idle

LEMMA NewRequestType ==
  NewRequest \in Requests /\ NewRequest.unread = <<>> /\ Len(NewRequest.unread) <= MaxBody
<1>1. NewRequest \in Requests /\ NewRequest.unread = <<>>
  BY DEF NewRequest, Requests
<1> QED BY <1>1, WinHttpAssumption

(* What is unread of a body, taken from its front, stays within bounds.     *)
LEMMA UnreadBounded ==
  ASSUME NEW u \in Seq(Nat), Len(u) <= MaxBody, NEW d \in 1..Len(u)
  PROVE  /\ SubSeq(u, d + 1, Len(u)) \in Seq(Nat) /\ SubSeq(u, 1, d) \in Seq(Nat)
         /\ Len(SubSeq(u, d + 1, Len(u))) <= MaxBody
         /\ SubSeq(u, 1, d) \o SubSeq(u, d + 1, Len(u)) = u
<1>1. Len(u) \in Nat /\ \A i \in 1..Len(u) : u[i] \in Nat
  OBVIOUS
<1>2. SubSeq(u, d + 1, Len(u)) \in Seq(Nat) /\ Len(SubSeq(u, d + 1, Len(u))) <= Len(u)
  BY <1>1, SubSeqProperties
<1>3. SubSeq(u, 1, d) \in Seq(Nat)
  BY <1>1, SubSeqProperties
<1>4. SubSeq(u, 1, d) \o SubSeq(u, d + 1, Len(u)) = SubSeq(u, 1, Len(u))
  BY <1>1, ConcatAdjacentSubSeq
<1>5. SubSeq(u, 1, Len(u)) = u
  BY SubSeqFull
<1>6. Len(SubSeq(u, d + 1, Len(u))) <= MaxBody
  BY <1>1, <1>2, WinHttpAssumption
<1> QED BY <1>2, <1>3, <1>4, <1>5, <1>6

(* A turn of the loop of getRespondBody moves d bytes, one at least.        *)
LEMMA ReadsSome ==
  ASSUME ReadData, request.unread \in Seq(Nat)
  PROVE  \E d \in 1..Len(request.unread) :
           /\ strReturn' = strReturn \o SubSeq(request.unread, 1, d)
           /\ request' = [request EXCEPT !.unread = SubSeq(@, d + 1, Len(@))]
<1>1. PICK n \in 1..Len(request.unread) : \E d \in 1..n :
         /\ strReturn' = AppendRead(n, d)
         /\ request' = [request EXCEPT !.unread = SubSeq(@, d + 1, Len(@))]
  BY Zenon DEF ReadData
<1>2. PICK d \in 1..n :
         /\ strReturn' = AppendRead(n, d)
         /\ request' = [request EXCEPT !.unread = SubSeq(@, d + 1, Len(@))]
  BY <1>1
<1>3. d \in 1..Len(request.unread)
  <2>1. Len(request.unread) \in Nat  OBVIOUS
  <2> QED BY <2>1
<1>4. strReturn' = strReturn \o SubSeq(request.unread, 1, d)
  BY <1>2, Zenon DEF AppendRead
<1> QED BY <1>2, <1>3, <1>4

(* One step per kind of call.  Those that leave the request alone first.    *)
LEMMA RequestStep == HandleInv /\ RequestInv /\ [Next]_vars => RequestInv'
<1> SUFFICES ASSUME HandleInv, RequestInv, [Next]_vars PROVE RequestInv'
  OBVIOUS
<1>1. CASE Rest \/ OthersOpen
  BY <1>1 DEF Rest, OthersOpen, RequestInv, exchange, process, Idle
<1>2. CASE OpenFailsAtSession \/ OpenFailsAtConnection
  BY <1>2, WinHttpAssumption DEF OpenFailsAtSession, OpenFailsAtConnection, RequestInv, Idle
<1>3. CASE OpenFailsAtRequest
  BY <1>3, WinHttpAssumption DEF OpenFailsAtRequest, RequestInv, Idle
<1>4. CASE UNCHANGED vars
  BY <1>4 DEF vars, RequestInv, exchange, process, Idle
<1>5. CASE GetStatus
  BY <1>5 DEF GetStatus, Status, RequestInv, Idle
<1>6. CASE Open
  <2>1. m_hRequest' # NULL /\ request' = NewRequest
    BY <1>6, WinHttpAssumption DEF Open, FreeHandles
  <2>2. request' \in Requests /\ Len(request'.unread) <= MaxBody
    BY <2>1, NewRequestType
  <2>3. /\ held' = TRUE /\ told' = NULL
        /\ answer' = <<>> /\ given' = <<>> /\ strReturn' = strReturn
    BY <1>6 DEF Open
  <2> QED BY <2>1, <2>2, <2>3, BodiesAreSequences, WinHttpAssumption DEF RequestInv
<1>7. CASE SendFails \/ Send
  <2>1. PICK status \in StatusCode \cup {0} : Exchanged(status) /\ answer' \in Bodies
    BY <1>7, BodiesAreSequences DEF SendFails, Send
  <2>2. m_hRequest # NULL /\ m_hRequest' = m_hRequest  BY <2>1 DEF Exchanged
  <2>3. request' = [request EXCEPT !.status = status, !.unread = answer']
    BY <2>1 DEF Exchanged
  <2>4. answer' \in Seq(Nat) /\ Len(answer') <= MaxBody
    BY <2>1, BodiesAreSequences, WinHttpAssumption
  <2>5. request' \in Requests /\ request'.unread = answer'
    BY <2>2, <2>3, <2>4 DEF RequestInv, Requests
  <2>6. given' = <<>> /\ told' = NULL /\ UNCHANGED <<held, strReturn>>
    BY <2>1 DEF Exchanged
  <2> QED BY <2>1, <2>2, <2>4, <2>5, <2>6, WinHttpAssumption DEF RequestInv
<1>8. CASE GetRespondBody
  BY <1>8, WinHttpAssumption DEF GetRespondBody, RequestInv, Idle
<1>9. CASE ReadData
  <2>1. m_hRequest # NULL /\ m_hRequest' = m_hRequest /\ strReturn \in Seq(Nat)
    BY <1>9 DEF ReadData, RequestInv, Idle
  <2>2. request \in Requests /\ Len(request.unread) <= MaxBody /\ request.unread \in Seq(Nat)
    BY <2>1 DEF RequestInv, Requests
  <2>3. PICK d \in 1..Len(request.unread) :
          /\ strReturn' = strReturn \o SubSeq(request.unread, 1, d)
          /\ request' = [request EXCEPT !.unread = SubSeq(@, d + 1, Len(@))]
    BY <1>9, <2>2, ReadsSome
  <2>4. request'.unread = SubSeq(request.unread, d + 1, Len(request.unread))
    BY <2>2, <2>3 DEF Requests
  <2>5. request'.unread \in Seq(Nat) /\ Len(request'.unread) <= MaxBody
        /\ SubSeq(request.unread, 1, d) \in Seq(Nat)
    BY <2>2, <2>4, UnreadBounded
  <2>6. request' \in Requests
    BY <2>2, <2>3, <2>4, <2>5 DEF Requests
  <2>7. strReturn' \in Seq(Nat)  BY <2>1, <2>3, <2>5, ConcatProperties
  <2>8. UNCHANGED <<held, told, answer, given>>
    BY <1>9 DEF ReadData
  <2> QED BY <2>1, <2>5, <2>6, <2>7, <2>8 DEF RequestInv
<1>10. CASE BodyReturned
  <2>1. given' = given \o strReturn /\ strReturn \in Seq(Nat) /\ strReturn' = NULL
    BY <1>10 DEF BodyReturned, RequestInv, Idle
  <2>2. given' \in Seq(Nat)  BY <2>1, ConcatProperties DEF RequestInv
  <2> QED BY <1>10, <2>1, <2>2 DEF BodyReturned, RequestInv, Idle
<1> QED BY <1>1, <1>2, <1>3, <1>4, <1>5, <1>6, <1>7, <1>8, <1>9, <1>10 DEF Next

LEMMA WinInductive == Spec => [](HandleInv /\ RequestInv)
<1>1. Init => HandleInv /\ RequestInv
  BY HandleInit, RequestInit
<1>2. (HandleInv /\ RequestInv) /\ [Next]_vars => (HandleInv /\ RequestInv)'
  BY HandleStep, RequestStep
<1> QED BY <1>1, <1>2, PTL DEF Spec

(* The members, and the history of them, keep their types: a body is never  *)
(* longer than what the server sent (WinHttpW.cpp:342).                     *)
THEOREM WinTypes == Spec => []WinTypeOK
<1>1. HandleInv /\ RequestInv => WinTypeOK
  <2> SUFFICES ASSUME HandleInv, RequestInv PROVE WinTypeOK
    OBVIOUS
  <2>1. request # NULL => /\ request.status \in StatusCode \cup {0}
                          /\ Len(request.unread) <= MaxBody
    BY DEF RequestInv, Requests
  <2> QED BY <2>1 DEF HandleInv, RequestInv, WinTypeOK
<1> QED BY WinInductive, <1>1, PTL
-----------------------------------------------------------------------------
LEMMA Associative ==
  ASSUME NEW a \in Seq(Nat), NEW b \in Seq(Nat), NEW c \in Seq(Nat)
  PROVE  (a \o b) \o c = a \o (b \o c)
OBVIOUS

LEMMA Regrouped ==
  \A a, b, c, d \in Seq(Nat) : (a \o b) \o (c \o d) = (a \o (b \o c)) \o d
<1>1. \A a, b, c \in Seq(Nat) : (a \o b) \o c = a \o (b \o c)
  BY Associative
<1> TAKE a, b, c, d \in Seq(Nat)
<1>2. a \o b \in Seq(Nat)
  OBVIOUS
<1>3. \A x \in Seq(Nat) : (x \o c) \o d = x \o (c \o d)
  BY <1>1, Zenon
<1>4. ((a \o b) \o c) \o d = (a \o b) \o (c \o d)
  BY <1>2, <1>3, Zenon
<1>5. (a \o b) \o c = a \o (b \o c)
  BY <1>1, Zenon
<1> QED BY <1>4, <1>5, Zenon

(* The body: what the caller has, what the call has and what is unread.     *)
LEMMA BodyStep ==
  HandleInv /\ RequestInv /\ RequestInv' /\ BodyFaithful /\ [Next]_vars => BodyFaithful'
<1> SUFFICES ASSUME HandleInv, RequestInv, RequestInv', BodyFaithful, [Next]_vars, m_hRequest' # NULL
             PROVE  answer' = given' \o (IF Idle THEN <<>> ELSE strReturn)' \o request'.unread
  BY DEF BodyFaithful
<1>1. CASE m_hRequest # NULL /\ UNCHANGED <<answer, given, strReturn>> /\ request'.unread = request.unread
  BY <1>1 DEF BodyFaithful, Idle
<1>2. CASE Open
  <2>1. answer' = <<>> /\ given' = <<>> /\ Idle' /\ request'.unread = <<>>
    BY <1>2 DEF Open, NewRequest, Idle
  <2>2. <<>> \o <<>> = <<>>  OBVIOUS
  <2> QED BY <2>1, <2>2
<1>3. CASE SendFails \/ Send
  <2>1. given' = <<>> /\ Idle' /\ m_hRequest # NULL
    BY <1>3 DEF SendFails, Send, Exchanged, Idle
  <2>2. request'.unread = answer'
    BY <1>3, <2>1 DEF SendFails, Send, Exchanged, RequestInv, Requests
  <2>3. answer' \in Seq(Nat)
    BY BodiesAreSequences DEF RequestInv
  <2>4. (<<>> \o <<>>) \o answer' = answer'
    BY <2>3, ConcatEmptySeq
  <2> QED BY <2>1, <2>2, <2>4
<1>4. CASE GetRespondBody
  <2>1. /\ Idle /\ strReturn' = <<>> /\ UNCHANGED <<answer, given, request>> /\ m_hRequest # NULL
    BY <1>4 DEF GetRespondBody
  <2> QED BY <2>1 DEF BodyFaithful
<1>5. CASE ReadData
  <2>1. m_hRequest # NULL /\ ~Idle /\ ~Idle' /\ given \in Seq(Nat) /\ strReturn \in Seq(Nat)
    <3>1. ~Idle /\ m_hRequest # NULL /\ given \in Seq(Nat) /\ strReturn \in Seq(Nat)
      BY <1>5 DEF ReadData, RequestInv, Idle
    <3>2. request.unread \in Seq(Nat) /\ Len(request.unread) <= MaxBody
      BY <3>1 DEF RequestInv, Requests
    <3>3. PICK d \in 1..Len(request.unread) : strReturn' = strReturn \o SubSeq(request.unread, 1, d)
      BY <1>5, <3>2, ReadsSome
    <3>4. strReturn' \in Seq(Nat)
      BY <3>1, <3>2, <3>3, UnreadBounded, ConcatProperties
    <3> QED BY <3>1, <3>4, WinHttpAssumption DEF Idle
  <2>2. request \in Requests /\ request.unread \in Seq(Nat) /\ Len(request.unread) <= MaxBody
    BY <2>1 DEF RequestInv, Requests
  <2>3. PICK n \in 1..Len(request.unread) :
          /\ strReturn' = strReturn \o SubSeq(request.unread, 1, n)
          /\ request' = [request EXCEPT !.unread = SubSeq(@, n + 1, Len(@))]
    BY <1>5, <2>2, ReadsSome
  <2>4. PICK front \in Seq(Nat), back \in Seq(Nat) :
          /\ front = SubSeq(request.unread, 1, n)
          /\ back = SubSeq(request.unread, n + 1, Len(request.unread))
          /\ front \o back = request.unread
    BY <2>2, UnreadBounded
  <2>5. request'.unread = back /\ strReturn' = strReturn \o front
    BY <2>2, <2>3, <2>4 DEF Requests
  <2>6. answer' = (given \o strReturn) \o (front \o back) /\ given' = given
    BY <1>5, <2>1, <2>4 DEF ReadData, BodyFaithful
  <2>7. given \in Seq(Nat) /\ strReturn \in Seq(Nat) /\ front \in Seq(Nat) /\ back \in Seq(Nat)
    BY <2>1
  <2>8. (given \o strReturn) \o (front \o back) = (given \o (strReturn \o front)) \o back
    <3>1. \A b, c, d \in Seq(Nat) : (given \o b) \o (c \o d) = (given \o (b \o c)) \o d
      BY <2>7, Regrouped, Zenon
    <3>2. \A c, d \in Seq(Nat) :
            (given \o strReturn) \o (c \o d) = (given \o (strReturn \o c)) \o d
      BY <2>7, <3>1, Zenon
    <3>3. \A d \in Seq(Nat) :
            (given \o strReturn) \o (front \o d) = (given \o (strReturn \o front)) \o d
      BY <2>7, <3>2, Zenon
    <3> QED BY <2>7, <3>3, Zenon
  <2> QED BY <2>1, <2>5, <2>6, <2>8
<1>6. CASE BodyReturned
  <2>1. m_hRequest # NULL /\ ~Idle /\ Idle' /\ given' = given \o strReturn
        /\ UNCHANGED <<answer, request>>
    BY <1>6 DEF BodyReturned, RequestInv, Idle
  <2>2. given' \in Seq(Nat)  BY DEF RequestInv
  <2>3. given' \o <<>> = given'  BY <2>2, ConcatEmptySeq
  <2> QED BY <2>1, <2>3 DEF BodyFaithful
<1>7. CASE Rest \/ OthersOpen \/ UNCHANGED vars
  BY <1>1, <1>7 DEF Rest, OthersOpen, exchange, process, vars
<1>8. CASE OpenFailsAtSession \/ OpenFailsAtConnection \/ OpenFailsAtRequest \/ GetStatus
  BY <1>1, <1>8 DEF OpenFailsAtSession, OpenFailsAtConnection, OpenFailsAtRequest, GetStatus
<1> QED BY <1>2, <1>3, <1>4, <1>5, <1>6, <1>7, <1>8 DEF Next

(* The body comes back whole and in order, as far as it was read, for any   *)
(* sizes of the reads and any number of calls (WinHttpW.cpp:314).           *)
THEOREM FaithfulBody == Spec => []BodyFaithful
<1>1. Init => BodyFaithful
  BY DEF Init, BodyFaithful
<1>2. (HandleInv /\ RequestInv) /\ (HandleInv /\ RequestInv)' /\ BodyFaithful /\ [Next]_vars => BodyFaithful'
  BY BodyStep
<1> QED BY WinInductive, <1>1, <1>2, PTL DEF Spec
=============================================================================
