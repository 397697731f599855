-------------------------------- MODULE Socks --------------------------------
(***************************************************************************)
(* connection.c: Connection(), directly or through an HTTP, SOCKS4 or      *)
(* SOCKS5 proxy, and the proxy at the other end of the socket.             *)
(*                                                                         *)
(* What the proxy sends is a sequence of units: the bytes of the SOCKS     *)
(* replies, and for HTTP the start of the status row (12 characters that   *)
(* strncmp() compares, one unit), CR, NL and other text.  It arrives unit  *)
(* by unit, so every read and every peek finds every possible part of it.  *)
(* Behind a granted connection the target's own bytes follow at once.      *)
(*                                                                         *)
(* No signal handler is installed and the socket blocks: EINTR and EAGAIN, *)
(* which AtomIO() retries and GetSockRow() does not, do not occur.         *)
(***************************************************************************)
EXTENDS Integers, Sequences

CONSTANTS
  Kinds,     \* proxy_t.type, or "direct" when there is no proxy
  Hosts,     \* targets: "name", or "v6" for an IPv6 address in text form
  Ports,     \* ports given to Connection()
  Greetings, \* what a target may send on its own accord
  Fds,       \* numbers socket() may give: 0 for a process without standard input
  None       \* no connection granted

CR == 13
NL == 10
Text == 300       \* any other text of a row
Status200 == 301  \* "HTTP/1.0 200"
Status11 == 302   \* "HTTP/1.1 200"
Status403 == 303

Units == (0..255) \cup {Text, Status200, Status11, Status403}

MaxPort == 65535

ASSUME InputAssumption ==
  Greetings \subseteq Seq(Units) /\ Ports \subseteq -1..MaxPort /\ Fds \subseteq Nat

VARIABLES
  kind, host, port,  \* the arguments of the call
  data,      \* what the target sends once it is connected
  fd,        \* the lowest free number, which socket() gives the call
  pc,        \* where Connection() or SocksConnection() is
  open,      \* whether the call has a descriptor open
  want,      \* bytes the AtomIO() under way is to read
  got,       \* what it has read, or the row GetSockRow() has so far
  first,     \* whether the row is the first, r == 0
  peeked,    \* units that recv(MSG_PEEK) showed
  asked,     \* messages written to the proxy
  answered,  \* how many of them the proxy has answered
  coming,    \* what the proxy sent and has not arrived
  wire,      \* what arrived and is not read
  down,      \* whether the proxy has closed the connection
  granted,   \* the request the proxy granted
  causes     \* history: what was out of the ordinary

inputs == <<kind, host, port, data, fd>>
proxyVars == <<answered, coming, down, granted>>
vars == <<inputs, pc, open, want, got, first, peeked, asked, wire, proxyVars, causes>>

Messages == [type : {"connect"}, host : Hosts, port : 0..MaxPort] \cup [type : {"hello", "auth"}]

TypeOK ==
  /\ kind \in Kinds /\ host \in Hosts /\ port \in Ports /\ data \in Greetings /\ fd \in Fds
  /\ pc \in {"args", "resolve", "socket", "options", "connect", "ask", "peek", "take", "row",
             "reply4", "method", "auth", "authReply", "ask5", "reply5", "tail5", "ok", "failed"}
  /\ open \in BOOLEAN /\ first \in BOOLEAN /\ down \in BOOLEAN
  /\ want \in 0..257 /\ peeked \in Nat
  /\ got \in Seq(Units) /\ coming \in Seq(Units) /\ wire \in Seq(Units)
  /\ asked \in Seq(Messages) /\ answered \in 0..Len(asked)
  /\ granted \in Messages \cup {None}
  /\ causes \subseteq {"local", "refused", "http11", "lfOnly", "version1", "gssapi", "unknownType", "raced"}

Init ==
  /\ kind \in Kinds /\ host \in Hosts /\ port \in Ports /\ data \in Greetings /\ fd \in Fds
  /\ pc = "args"
  /\ open = FALSE /\ first = TRUE /\ down = FALSE
  /\ want = 0 /\ peeked = 0 /\ answered = 0
  /\ got = <<>> /\ asked = <<>> /\ coming = <<>> /\ wire = <<>>
  /\ granted = None
  /\ causes = {}

-----------------------------------------------------------------------------
(* Connection(): to the proxy, or to the target itself.                    *)

\* It refuses number 0 as if it were no descriptor, and no caller looks.
CloseConnection(d) == open' = (open /\ d <= 0)

\* Every way out of SocksConnection() but success is CloseConnection(proxyfd).
Fail == pc' = "failed" /\ CloseConnection(fd)

CheckArgs ==
  /\ pc = "args"
  /\ pc' = (IF port <= 0 THEN "failed" ELSE "resolve")
  /\ UNCHANGED open
  /\ UNCHANGED <<inputs, want, got, first, peeked, asked, wire, proxyVars, causes>>

\* Mutant of LocalError: a failed setsockopt() or connect() does not close().
LocalErrorLeaks ==
  /\ pc \in {"resolve", "socket", "options", "connect"}
  /\ pc' = "failed"
  /\ causes' = causes \cup {"local"}
  /\ UNCHANGED <<inputs, open, want, got, first, peeked, asked, wire, proxyVars>>

\* gethostbyname(), socket(), setsockopt() or connect() fails: Connection()
\* calls close() itself, whatever the number.
LocalError ==
  /\ pc \in {"resolve", "socket", "options", "connect"}
  /\ pc' = "failed" /\ open' = FALSE
  /\ causes' = causes \cup {"local"}
  /\ UNCHANGED <<inputs, want, got, first, peeked, asked, wire, proxyVars>>

Connect ==
  /\ \/ pc = "resolve" /\ pc' = "socket"  /\ UNCHANGED open
     \/ pc = "socket"  /\ pc' = "options" /\ open' = TRUE
     \/ pc = "options" /\ pc' = "connect" /\ UNCHANGED open
     \/ pc = "connect" /\ pc' = (IF kind = "direct" THEN "ok" ELSE "ask") /\ UNCHANGED open
  /\ UNCHANGED <<inputs, want, got, first, peeked, asked, wire, proxyVars, causes>>

\* AtomIO(write, ...) of a whole message; it can fail once the proxy is gone.
\* The next thing is to read n bytes (or rows) at next.
Send(m, next, n) ==
  \/ /\ asked' = Append(asked, m)
     /\ pc' = next /\ want' = n /\ got' = <<>>
     /\ UNCHANGED <<inputs, open, first, peeked, wire, proxyVars, causes>>
  \/ /\ down
     /\ Fail
     /\ UNCHANGED <<inputs, want, got, first, peeked, asked, wire, proxyVars, causes>>

\* ntohs() of a port in host order, on a little-endian machine.
Swapped(p) == (p % 256) * 256 + p \div 256

Target(p) == [type |-> "connect", host |-> host, port |-> p]

\* strcspn() refuses a name with a colon before its brackets are considered.
AskHttp ==
  /\ pc = "ask" /\ kind = "HTTP"
  /\ \/ host # "v6" /\ Send(Target(Swapped(port)), "peek", 0)
     \/ /\ host = "v6" /\ Fail
        /\ UNCHANGED <<inputs, want, got, first, peeked, asked, wire, proxyVars, causes>>

\* The client cannot resolve the target's name.
NoAddress ==
  /\ \/ pc = "ask" /\ kind = "SOCKS4"
     \/ pc = "ask5"
  /\ Fail
  /\ causes' = causes \cup {"local"}
  /\ UNCHANGED <<inputs, want, got, first, peeked, asked, wire, proxyVars>>

\* gethostbyname() gives IPv4 addresses only.
AskSocks4 ==
  /\ pc = "ask" /\ kind = "SOCKS4" /\ host # "v6"
  /\ Send(Target(port), "reply4", 8)

Hello ==
  /\ pc = "ask" /\ kind = "SOCKS5"
  /\ Send([type |-> "hello"], "method", 2)

\* User and password, in the format of subnegotiation version 1.
Authenticate ==
  /\ pc = "auth"
  /\ Send([type |-> "auth"], "authReply", 2)

\* getaddrinfo() has set an address: the case of a bare domain never occurs.
AskSocks5 ==
  /\ pc = "ask5"
  /\ Send(Target(port), "reply5", 5)

-----------------------------------------------------------------------------
(* AtomIO(read, ...) and the replies of SOCKS proxies.                     *)

Reading == pc \in {"reply4", "method", "authReply", "reply5", "tail5"}

AtEnd == wire = <<>> /\ coming = <<>> /\ down

ReadSome ==
  /\ Reading /\ Len(got) < want /\ wire # <<>>
  /\ LET n == want - Len(got)
         k == IF n < Len(wire) THEN n ELSE Len(wire) IN
     /\ got' = got \o SubSeq(wire, 1, k)
     /\ wire' = SubSeq(wire, k + 1, Len(wire))
  /\ UNCHANGED <<inputs, pc, open, want, first, peeked, asked, proxyVars, causes>>

\* Mutant of ReadShort: the end of the connection is tried again.
ReadShortSpins ==
  /\ Reading /\ Len(got) < want /\ AtEnd
  /\ UNCHANGED vars

\* read() returns 0 or an error before the count is reached.
ReadShort ==
  /\ Reading /\ Len(got) < want /\ AtEnd
  /\ Fail
  /\ UNCHANGED <<inputs, want, got, first, peeked, asked, wire, proxyVars, causes>>

\* A reply is complete: what it means, and what is to be read after it.
Judge(next, n) ==
  /\ Len(got) = want
  /\ IF next = "failed" THEN Fail ELSE pc' = next /\ UNCHANGED open
  /\ want' = n /\ got' = <<>>
  /\ UNCHANGED <<inputs, first, peeked, asked, wire, proxyVars, causes>>

\* Mutant of Reply4: the status byte is not looked at.
Reply4Any == pc = "reply4" /\ Judge("ok", 0)

Reply4 == pc = "reply4" /\ Judge(IF got[2] = 90 THEN "ok" ELSE "failed", 0)

\* The method the proxy chose; GSSAPI (1) is logged and taken like none (0).
Method ==
  /\ pc = "method"
  /\ Judge(CASE got[1] = 5 /\ got[2] \in {0, 1} -> "ask5"
             [] got[1] = 5 /\ got[2] = 2        -> "auth"
             [] OTHER                           -> "failed", 0)

\* Mutant of AuthReply: a rejected user goes on.
AuthReplyAny == pc = "authReply" /\ Judge(IF got[1] = 5 THEN "ask5" ELSE "failed", 0)

\* The version is compared with 5, although the message was of version 1.
AuthReply ==
  /\ pc = "authReply"
  /\ Judge(IF got[1] = 5 /\ got[2] = 0 THEN "ask5" ELSE "failed", 0)

\* Mutant of Rest: the port is forgotten.
RestShort(b) == CASE b[4] = 1 -> 3 [] b[4] = 3 -> b[5] [] b[4] = 4 -> 15 [] OTHER -> 0

\* Mutant of Rest: rlen has no initial value, and 999 is one it may have.
RestUnset(b) == CASE b[4] = 1 -> 5 [] b[4] = 3 -> b[5] + 2 [] b[4] = 4 -> 17 [] OTHER -> 999

\* rlen: the rest of the address and the port, by the type of the address.
Rest(b) == CASE b[4] = 1 -> 5 [] b[4] = 3 -> b[5] + 2 [] b[4] = 4 -> 17 [] OTHER -> 0

Reply5 ==
  /\ pc = "reply5" /\ Len(got) = want
  /\ IF got[1] = 5 /\ got[2] = 0 THEN Judge("tail5", Rest(got)) ELSE Judge("failed", 0)

Tail5 == pc = "tail5" /\ Judge("ok", 0)

-----------------------------------------------------------------------------
(* GetSockRow() and the rows of an HTTP proxy's answer.                    *)

Peek ==
  /\ pc = "peek" /\ wire # <<>>
  /\ peeked' = Len(wire)
  /\ pc' = "take"
  /\ UNCHANGED <<inputs, open, want, got, first, asked, wire, proxyVars, causes>>

\* recv() returns 0: what there is of a row is the row.
PeekAtEnd ==
  /\ pc = "peek" /\ AtEnd
  /\ IF got # <<>> THEN pc' = "row" /\ UNCHANGED open ELSE Fail
  /\ UNCHANGED <<inputs, want, got, first, peeked, asked, wire, proxyVars, causes>>

Newlines(s) == {k \in DOMAIN s : s[k] = NL}
FirstNewline(s) == CHOOSE k \in Newlines(s) : \A j \in Newlines(s) : k <= j

TakeUpTo(k) == got' = got \o SubSeq(wire, 1, k) /\ wire' = SubSeq(wire, k + 1, Len(wire))

\* The peek showed a newline: exactly the row is taken.
TakeRow ==
  /\ pc = "take" /\ Newlines(SubSeq(wire, 1, peeked)) # {}
  /\ TakeUpTo(FirstNewline(wire))
  /\ pc' = "row"
  /\ UNCHANGED <<inputs, open, want, first, peeked, asked, proxyVars, causes>>

\* It showed none: recv() takes all there is now, which may be more than was
\* seen, newlines included.
TakePart ==
  /\ pc = "take" /\ Newlines(SubSeq(wire, 1, peeked)) = {}
  /\ TakeUpTo(Len(wire))
  /\ pc' = "peek"
  /\ causes' = IF Newlines(wire) # {} THEN causes \cup {"raced"} ELSE causes
  /\ UNCHANGED <<inputs, open, want, first, peeked, asked, proxyVars>>

\* The first row must be HTTP/1.0 200; a row that begins with CR ends the
\* header, a row that is a newline only does not.
Row ==
  /\ pc = "row"
  /\ CASE first /\ got[1] # Status200 -> Fail
       [] ~first /\ got[1] = CR       -> pc' = "ok" /\ UNCHANGED open
       [] OTHER                       -> pc' = "peek" /\ UNCHANGED open
  /\ first' = FALSE /\ got' = <<>>
  /\ UNCHANGED <<inputs, want, peeked, asked, wire, proxyVars, causes>>

-----------------------------------------------------------------------------
(* The proxy.                                                              *)

\* An answer: its units, whether it accepts, what is odd about it.
Ans(b, accepts, odd) == [units |-> b, accepts |-> accepts, odd |-> odd]

HttpAnswers ==
  LET End == <<CR, NL, CR, NL>> IN
  {Ans(<<Status200>> \o End, TRUE, {}),
   Ans(<<Status200, CR, NL, Text>> \o End, TRUE, {}),
   Ans(<<Status200, NL, NL>>, TRUE, {"lfOnly"}),
   Ans(<<Status11>> \o End, TRUE, {"http11"}),
   Ans(<<Status403>> \o End, FALSE, {})}

Socks4Answers == {Ans(<<0, s, 0, 0, 0, 0, 0, 0>>, s = 90, {}) : s \in {90, 91}}

HelloAnswers ==
  {Ans(<<5, 0>>, TRUE, {}), Ans(<<5, 2>>, TRUE, {}), Ans(<<5, 255>>, FALSE, {}),
   Ans(<<5, 1>>, TRUE, {"gssapi"}), Ans(<<Text, Text>>, FALSE, {})}

AuthAnswers ==
  {Ans(<<v, s>>, s = 0, IF v = 1 THEN {"version1"} ELSE {}) : v \in {1, 5}, s \in {0, 1}}

\* A proxy that insists on GSSAPI grants nothing without it.
Socks5Answers ==
  LET Zeros(n) == [k \in 1..n |-> 0]
      Grants == {Ans(<<5, 0, 0, 1>> \o Zeros(6), TRUE, {}),
                 Ans(<<5, 0, 0, 3, 2>> \o Zeros(4), TRUE, {}),
                 Ans(<<5, 0, 0, 4>> \o Zeros(18), TRUE, {}),
                 Ans(<<5, 0, 0, 0>> \o Zeros(6), TRUE, {"unknownType"})} IN
  (IF "gssapi" \in causes THEN {} ELSE Grants) \cup {Ans(<<5, 2, 0, 1>> \o Zeros(6), FALSE, {})}

Answers(m) ==
  CASE m.type = "hello" -> HelloAnswers
    [] m.type = "auth"  -> AuthAnswers
    [] kind = "HTTP"    -> HttpAnswers
    [] kind = "SOCKS4"  -> Socks4Answers
    [] OTHER            -> Socks5Answers

ProxyAnswers ==
  /\ ~down /\ answered < Len(asked)
  /\ LET m == asked[answered + 1] IN
     \E a \in Answers(m) :
       LET grants == m.type = "connect" /\ a.accepts IN
       /\ coming' = coming \o a.units \o (IF grants THEN data ELSE <<>>)
       /\ granted' = IF grants THEN m ELSE granted
       /\ causes' = causes \cup a.odd \cup (IF a.accepts THEN {} ELSE {"refused"})
  /\ answered' = answered + 1
  /\ UNCHANGED <<inputs, pc, open, want, got, first, peeked, asked, wire, down>>

Connected == open /\ pc \notin {"options", "connect"}

\* The proxy or the network ends the connection, with what is under way or
\* without it.
ProxyCloses ==
  /\ kind # "direct" /\ Connected /\ ~down
  /\ down' = TRUE
  /\ coming' \in {coming, <<>>}
  /\ UNCHANGED <<inputs, pc, open, want, got, first, peeked, asked, wire, answered, granted, causes>>

Arrives ==
  /\ coming # <<>>
  /\ wire' = Append(wire, Head(coming))
  /\ coming' = Tail(coming)
  /\ UNCHANGED <<inputs, pc, open, want, got, first, peeked, asked, answered, down, granted, causes>>

-----------------------------------------------------------------------------
Handshake ==
  \/ CheckArgs \/ Connect
  \/ AskHttp \/ AskSocks4 \/ Hello \/ Authenticate \/ AskSocks5
  \/ ReadSome \/ ReadShort \/ Reply4 \/ Method \/ AuthReply \/ Reply5 \/ Tail5
  \/ Peek \/ PeekAtEnd \/ TakeRow \/ TakePart \/ Row

Next ==
  \/ Handshake \/ LocalError \/ NoAddress
  \/ ProxyAnswers \/ ProxyCloses \/ Arrives

Spec == Init /\ [][Next]_vars

\* The caller runs (an IPv6 address cannot be resolved by gethostbyname(), so
\* NoAddress is among its steps), the network delivers, and a proxy answers
\* what it is asked or closes: nothing in the code bounds its silence.
Fairness ==
  /\ WF_vars(Handshake \/ NoAddress)
  /\ WF_vars(Arrives)
  /\ WF_vars(ProxyAnswers)

FairSpec == Spec /\ Fairness

-----------------------------------------------------------------------------
(* Properties.                                                             *)

\* A descriptor is returned only for a connection that the proxy granted, to
\* the host and port given - for HTTP to the port with its bytes swapped -
\* whatever the proxy answers, in whatever pieces.
ConnectedMeansGranted ==
  pc = "ok" =>
    /\ open
    /\ kind # "direct" => granted = Target(IF kind = "HTTP" THEN Swapped(port) ELSE port)

\* The caller of a successful call finds the target's bytes from the first
\* one on, and nothing of the proxy's before them, except after an HTTP answer
\* with bare newlines, after a recv() that took more than was peeked, and
\* after a SOCKS5 address type that the code does not know.
StreamWhole ==
  (pc = "ok" /\ kind # "direct" /\ causes \cap {"lfOnly", "raced", "unknownType"} = {}) =>
    LET rest == wire \o coming IN
    /\ Len(rest) <= Len(data) /\ rest = SubSeq(data, 1, Len(rest))
    /\ ~down => rest = data

\* A call that fails leaves no descriptor open but number 0 of a connection to
\* a proxy, which CloseConnection() refuses; and it was refused, cut off, failed
\* on its own side, or met one of the two answers that the code does not take:
\* HTTP/1.1, and a version 1 reply to name and password.
FailsForReason ==
  pc = "failed" =>
    /\ open => fd = 0 /\ kind # "direct"
    /\ \/ port <= 0 \/ host = "v6" \/ down
       \/ causes \cap {"local", "refused", "http11", "version1"} # {}

\* A message goes out only when the one before it was answered, and the
\* target is asked for only when no answer was a refusal or the version 1 one.
\* A demand for GSSAPI is the exception: the request is sent all the same.
AuthorisedFirst ==
  [][asked' # asked =>
       /\ answered = Len(asked)
       /\ asked'[Len(asked')].type = "connect" => causes \cap {"refused", "version1"} = {}]_vars

\* When the proxy answers or closes, the call ends, except where the end of
\* the rows was lost: bare newlines, or more taken than was peeked.
HandshakeEnds ==
  <>(pc \in {"ok", "failed"} \/ causes \cap {"lfOnly", "raced"} # {})
=============================================================================
