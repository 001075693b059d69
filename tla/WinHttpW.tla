------------------------------ MODULE WinHttpW ------------------------------
(***************************************************************************)
(* CWinHttpW (WinHttpW.cpp): an HTTP client over WinHTTP, used by one      *)
(* thread.  Each action is one call of a method, or one early return of    *)
(* it, but for getRespondBody, which is a step per turn of its loop.  Any  *)
(* call of WinHTTP may fail; a call that fails and leaves all as it was is *)
(* a stutter.  WinHTTP may use the value of a closed handle again, for     *)
(* this object or for anybody else in the process.                         *)
(*                                                                         *)
(* Left out, as data that no step tests: what is sent.  That is the URL,   *)
(* the method and the content, the header lines that setRequestHeader adds *)
(* and the user agent and timeouts that a session takes at its open.       *)
(***************************************************************************)
EXTENDS Integers, Sequences

CONSTANTS
  Handle,       \* the values of an HINTERNET
  NULL,
  StatusCode,   \* what servers answer with
  MaxBody       \* the longest body of an answer

ASSUME WinHttpAssumption ==
  /\ NULL \notin Handle /\ NULL \notin {-1, 1} /\ NULL \notin Seq(Nat)
  /\ StatusCode \subseteq Nat \ {0, 1}
  /\ MaxBody \in Nat

VARIABLES
  m_hSession, m_hRequest,   \* m_hConnection is of no use after open
  own,        \* the handles this object opened that are open
  others,     \* the handles the rest of the process has open
  request,    \* what WinHTTP knows of the request m_hRequest stands for
  strReturn,  \* of the call of getRespondBody, NULL outside of it
  answer,     \* history: the body that answered what was last sent
  given,      \* history: what the caller was given of that body
  told,       \* history: what getStatus returned since the last open or send
  held        \* history: WinHttpOpen gave a session since rest() closed one

process  == <<own, others>>
exchange == <<request, strReturn, answer, given, told>>
vars == <<m_hSession, m_hRequest, process, exchange, held>>

Bodies == {[i \in 1..n |-> i] : n \in 0..MaxBody}

(* A status of 0: the request is not answered.                              *)
NewRequest == [status |-> 0, unread |-> <<>>]

FreeHandles == Handle \ (own \cup others)

(* m_hSession is not initialised.                                           *)
Init ==
  /\ m_hSession \in Handle \cup {NULL} /\ m_hRequest = NULL
  /\ own = {} /\ others = {}
  /\ request = NULL /\ strReturn = NULL
  /\ answer = <<>> /\ given = <<>> /\ told = NULL /\ held = FALSE

(* The caller calls a method when none is being called.                     *)
Idle == strReturn = NULL

(* Mistake: the request closed as well, and not set to NULL.                *)
ClosedAll == {m_hSession, m_hRequest}

(* What rest closes: m_hSession, whatever it is, and it keeps its value.    *)
Closed == {m_hSession}

Rest ==
  /\ Idle
  /\ own' = own \ Closed /\ others' = others \ Closed
  /\ held' = FALSE
  /\ UNCHANGED <<m_hSession, m_hRequest, exchange>>
-----------------------------------------------------------------------------
(* open, by its returns.  A URL that cannot be cracked changes nothing.     *)
OpenFailsAtSession ==
  /\ Idle
  /\ m_hSession' = NULL /\ told' = NULL
  /\ UNCHANGED <<m_hRequest, process, request, strReturn, answer, given, held>>

(* Mistake: the session closed on the error path, and not set to NULL.      *)
OpenClosesAtConnection ==
  /\ Idle
  /\ m_hSession' \in FreeHandles
  /\ told' = NULL /\ held' = TRUE
  /\ UNCHANGED <<m_hRequest, process, request, strReturn, answer, given>>

(* WinHttpSetTimeouts or WinHttpConnect fails: m_hRequest is the old one.   *)
OpenFailsAtConnection ==
  /\ Idle
  /\ m_hSession' \in FreeHandles /\ own' = own \cup {m_hSession'}
  /\ told' = NULL /\ held' = TRUE
  /\ UNCHANGED <<m_hRequest, others, request, strReturn, answer, given>>

OpenFailsAtRequest ==
  /\ Idle
  /\ \E s, c \in FreeHandles : s # c /\ m_hSession' = s /\ own' = own \cup {s, c}
  /\ m_hRequest' = NULL /\ request' = NULL /\ told' = NULL /\ held' = TRUE
  /\ UNCHANGED <<others, strReturn, answer, given>>

(* What the members held before is not closed.                              *)
Open ==
  /\ Idle
  /\ \E s, c, r \in FreeHandles :
       /\ s # c /\ s # r /\ c # r
       /\ m_hSession' = s /\ m_hRequest' = r /\ own' = own \cup {s, c, r}
  /\ request' = NewRequest
  /\ answer' = <<>> /\ given' = <<>> /\ told' = NULL /\ held' = TRUE
  /\ UNCHANGED <<others, strReturn>>
-----------------------------------------------------------------------------
(* send: the request goes out, then WinHttpWriteData or                     *)
(* WinHttpReceiveResponse fails, or the server answers.                     *)
Exchanged(status) ==
  /\ Idle /\ m_hRequest # NULL
  /\ given' = <<>> /\ told' = NULL
  /\ request' = [request EXCEPT !.status = status, !.unread = answer']
  /\ UNCHANGED <<m_hSession, m_hRequest, process, strReturn, held>>

SendFails == answer' = <<>> /\ Exchanged(0)

Send == answer' \in Bodies /\ \E status \in StatusCode : Exchanged(status)

(* Mistake: false where there is no status.                                 *)
StatusFalse == IF m_hRequest # NULL /\ request.status # 0 THEN {0, 1} ELSE {0}

(* What getStatus may return: -1, or, having read the status, true.         *)
Status == IF m_hRequest # NULL /\ request.status # 0 THEN {-1, 1} ELSE {-1}

GetStatus ==
  /\ Idle
  /\ told' \in Status
  /\ UNCHANGED <<m_hSession, m_hRequest, process, request, strReturn, answer,
                 given, held>>
-----------------------------------------------------------------------------
GetRespondBody ==
  /\ Idle /\ m_hRequest # NULL
  /\ strReturn' = <<>>
  /\ UNCHANGED <<m_hSession, m_hRequest, process, request, answer, given,
                 told, held>>

(* Mistake: as much is appended as was available, not as was read.          *)
AppendAvailable(dwSize, dwDownloaded) == strReturn \o SubSeq(request.unread, 1, dwSize)

AppendRead(dwSize, dwDownloaded) == strReturn \o SubSeq(request.unread, 1, dwDownloaded)

(* One turn of the loop: dwSize bytes are available, dwDownloaded are read. *)
ReadData ==
  /\ ~Idle
  /\ \E dwSize \in 1..Len(request.unread) : \E dwDownloaded \in 1..dwSize :
       /\ strReturn' = AppendRead(dwSize, dwDownloaded)
       /\ request' = [request EXCEPT !.unread = SubSeq(@, dwDownloaded + 1, Len(@))]
  /\ UNCHANGED <<m_hSession, m_hRequest, process, answer, given, told, held>>

(* Nothing more is available, or a call has failed: the caller cannot tell. *)
BodyReturned ==
  /\ ~Idle
  /\ given' = given \o strReturn /\ strReturn' = NULL
  /\ UNCHANGED <<m_hSession, m_hRequest, process, request, answer, told, held>>

(* Somebody else in the process opens a handle.                             *)
OthersOpen ==
  /\ \E h \in FreeHandles : others' = others \cup {h}
  /\ UNCHANGED <<m_hSession, m_hRequest, own, exchange, held>>

Next ==
  \/ Rest \/ OthersOpen
  \/ OpenFailsAtSession \/ OpenFailsAtConnection \/ OpenFailsAtRequest \/ Open
  \/ SendFails \/ Send \/ GetStatus
  \/ GetRespondBody \/ ReadData \/ BodyReturned

Spec == Init /\ [][Next]_vars
-----------------------------------------------------------------------------
WinTypeOK ==
  /\ {m_hSession, m_hRequest} \subseteq Handle \cup {NULL}
  /\ own \subseteq Handle /\ others \subseteq Handle \ own
  /\ request # NULL => /\ request.status \in StatusCode \cup {0}
                       /\ Len(request.unread) <= MaxBody
  /\ answer \in Bodies /\ told \in {NULL, -1, 1} /\ held \in BOOLEAN

(* m_hRequest is NULL or a request of this object that WinHTTP has open: no *)
(* rest() and no failed open leaves it to a handle that is closed, or is    *)
(* used again (WinHttpW.cpp:35 closes whatever value m_hSession has).       *)
RequestIsLive == m_hRequest # NULL => m_hRequest \in own \ {m_hSession}

(* A rest() that follows an open that got its session closes no handle of   *)
(* anybody else.  (A second rest(), or one before any open, may.)           *)
RestClosesItsOwn == [][held => others \subseteq others']_vars

(* The calls of getRespondBody give the body the server sent, no byte lost, *)
(* doubled or out of place, as far as they got.                             *)
BodyFaithful ==
  m_hRequest # NULL =>
    answer = given \o (IF Idle THEN <<>> ELSE strReturn) \o request.unread

(* getStatus returns the status of the answer or -1 (IWinHttp.h:116 gives   *)
(* 200 as an example; WinHttpW.cpp:239 returns true).                       *)
StatusReturned == told \in {NULL, -1} \/ told = request.status
=============================================================================
