------------------------------- MODULE Tunnel -------------------------------
(***************************************************************************)
(* What piercloud promises for one host, without processes, descriptors or *)
(* files: browsers' requests have their turns one after the other; in its  *)
(* turn a request is written, token by token, to one queue, from which the *)
(* client is given each token at most once and in order; a browser is      *)
(* given, in its turn and when all of its request is written, answers to   *)
(* requests that the client has received whole.  The queue may be thrown   *)
(* away, and a request lost at any time.  Nothing marks where a request    *)
(* ends: once one stays half written, or the client's connection is cut,   *)
(* answers may be to requests of which the client has a part.  The module  *)
(* Cgi implements it.                                                      *)
(***************************************************************************)
EXTENDS Naturals, Sequences

CONSTANTS Reqs, ReqLen, RspLen, None

VARIABLES
  phase,   \* how far each request is
  turn,    \* the request under way, or None
  written, \* how many tokens of each request were written
  queue,   \* tokens written and not yet received
  got,     \* tokens the client received
  lost,    \* tokens thrown away
  reply,   \* what each browser was given
  cut      \* whether the client ever lost its connection

vars == <<phase, turn, written, queue, got, lost, reply, cut>>

Phases == {"new", "asking", "turn", "short", "answered", "refused", "lost"}
Whole(r) == {[req |-> r, i |-> i] : i \in 1..ReqLen}
Members(s) == {s[k] : k \in DOMAIN s}

Init ==
  /\ phase = [r \in Reqs |-> "new"]
  /\ turn = None
  /\ written = [r \in Reqs |-> 0]
  /\ queue = <<>>
  /\ got = {}
  /\ lost = {}
  /\ reply = [r \in Reqs |-> <<>>]
  /\ cut = FALSE

Ask(r) ==
  /\ phase[r] = "new"
  /\ phase' = [phase EXCEPT ![r] = "asking"]
  /\ UNCHANGED <<turn, written, queue, got, lost, reply, cut>>

Begin(r) ==
  /\ phase[r] = "asking" /\ turn = None
  /\ phase' = [phase EXCEPT ![r] = "turn"]
  /\ turn' = r
  /\ UNCHANGED <<written, queue, got, lost, reply, cut>>

Write(r) ==
  /\ turn = r /\ phase[r] = "turn"
  /\ written[r] < ReqLen
  /\ written' = [written EXCEPT ![r] = @ + 1]
  /\ queue' = Append(queue, [req |-> r, i |-> written[r] + 1])
  /\ UNCHANGED <<phase, turn, got, lost, reply, cut>>

Deliver ==
  /\ queue # <<>>
  /\ Head(queue) \notin got \cup lost
  /\ got' = got \cup {Head(queue)}
  /\ queue' = Tail(queue)
  /\ UNCHANGED <<phase, turn, written, lost, reply, cut>>

\* All that is queued is thrown away.
Spilt == queue' = <<>> /\ lost' = lost \cup Members(queue)

Spill == Spilt /\ UNCHANGED <<phase, turn, written, got, reply, cut>>

\* No more of a request is written than a part.
Break(r) ==
  /\ turn = r /\ phase[r] = "turn"
  /\ written[r] \in 1..ReqLen - 1
  /\ phase' = [phase EXCEPT ![r] = "short"]
  /\ Spilt \/ UNCHANGED <<queue, lost>>
  /\ UNCHANGED <<turn, written, got, reply, cut>>

Cut ==
  /\ cut' = TRUE
  /\ UNCHANGED <<phase, turn, written, queue, got, lost, reply>>

Confusing == cut \/ \E r \in Reqs : written[r] \in 1..ReqLen - 1 /\ phase[r] # "turn"

Asked(r) == written[r] = ReqLen \/ phase[r] = "short"

\* A block of the answer to a request that the client has all of, or a part
\* when nothing tells it that there is more.
Reply(r) ==
  /\ turn = r
  /\ Asked(r)
  /\ \E t \in [req : Reqs, i : 1..RspLen] :
       /\ \/ Whole(t.req) \subseteq got
          \/ Confusing /\ Whole(t.req) \cap got # {}
       /\ reply' = [reply EXCEPT ![r] = Append(@, t)]
  /\ UNCHANGED <<phase, turn, written, queue, got, lost, cut>>

Leave(r, how) ==
  /\ phase' = [phase EXCEPT ![r] = how]
  /\ turn' = IF turn = r THEN None ELSE turn

Finish(r) ==
  /\ turn = r
  /\ Asked(r)
  /\ Leave(r, "answered")
  /\ UNCHANGED <<written, queue, got, lost, reply, cut>>

\* Status 434, before anything of the request is written.
Refuse(r) ==
  /\ phase[r] \in {"asking", "turn"}
  /\ written[r] = 0
  /\ Leave(r, "refused")
  /\ UNCHANGED <<written, queue, got, lost, reply, cut>>

Lose(r) ==
  /\ phase[r] \in {"asking", "turn", "short", "answered"}
  /\ Leave(r, "lost")
  /\ Spilt \/ UNCHANGED <<queue, lost>>
  /\ UNCHANGED <<written, got, reply, cut>>

Next ==
  \/ \E r \in Reqs : Ask(r) \/ Begin(r) \/ Write(r) \/ Reply(r) \/ Finish(r) \/ Refuse(r) \/ Lose(r)
  \/ \E r \in Reqs : Break(r)
  \/ Deliver \/ Spill \/ Cut

Spec == Init /\ [][Next]_vars
=============================================================================
