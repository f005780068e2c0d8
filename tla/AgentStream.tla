----------------------------- MODULE AgentStream -----------------------------
(***************************************************************************)
(* One turn of a conversation, from the agent process to the client: the   *)
(* Hermes bridge in the user's runtime runs the agent and streams what it  *)
(* prints (gateway/routers/hermes_server.py), the gateway passes it on     *)
(* (routers/agent.py, routers/ace_proxy.py).                               *)
(*                                                                         *)
(* The ways through the gateway differ in how Hermes learns that nobody    *)
(* listens any more and in what the client is told when a connection ends: *)
(*   "chat"      POST /agent/chat, an event stream                         *)
(*   "buffered"  the same with stream false, one answer at the end         *)
(*   "ace"       /ace/<path> with an event stream accepted                 *)
(*   "socket"    WS /agent/ws, bridged to Hermes's own WebSocket           *)
(*                                                                         *)
(* A step of Hermes or of the gateway lasts from one await to the next.    *)
(***************************************************************************)
EXTENDS Naturals, Sequences, SequencesExt

CONSTANTS
  Lines  \* bound: the most lines the agent prints

ASSUME LinesAssumption == Lines \in Nat

VARIABLES
  via,     \* the way through the gateway
  agent,   \* the agent process: its state, the lines printed that are not
           \* blank, those that are, and has every copy of stdout been closed?
  hermes,  \* _run_hermes_agent and its caller: where it is, the lines of
           \* both kinds it has read
  due,     \* did the timer of asyncio.timeout(AGENT_TIMEOUT) go off?
  link,    \* the connection from the gateway to Hermes
  wire,    \* frames on that connection the gateway has not read
  proxy,   \* where the gateway's handler is
  got,     \* frames the client has received
  client   \* is the client still there?

agentside == <<agent, hermes, due>>
clientside == <<proxy, got, client>>
vars == <<via, agentside, link, wire, clientside>>

Ways == {"chat", "buffered", "ace", "socket"}
Endings == {"done", "error"}

\* _sse: a frame has a type and a content, here the number of a line among
\* those that are not blank.
Token(n) == <<"token", n>>
Ending(e) == <<e, 0>>
Frames == {Token(n) : n \in 1 .. Lines} \cup {Ending(e) : e \in Endings}

\* While "reading", "sending" and "waiting" a process has been started;
\* "sending" is a token and "ending" a final frame not yet on the wire.
HermesAt == {"idle", "starting", "reading", "sending", "waiting", "ending",
             "over", "gone"}

TypeOK ==
  /\ via \in Ways
  /\ agent \in [state : {"none", "running", "ok", "failed", "killed"},
                printed : 0 .. Lines, blank : 0 .. Lines, closed : BOOLEAN]
  /\ hermes \in [pc : HermesAt, read : 0 .. Lines, blank : 0 .. Lines,
                 last : Endings \cup {"none"}]
  /\ due \in BOOLEAN
  /\ link \in {"none", "open", "closed", "broken", "left"}
  /\ wire \in Seq(Frames)
  /\ proxy \in {"ensure", "connect", "relay", "over"}
  /\ got \in Seq(Frames)
  /\ client \in {"here", "left"}

Init ==
  /\ via \in Ways
  /\ agent = [state |-> "none", printed |-> 0, blank |-> 0,
              closed |-> FALSE]
  /\ hermes = [pc |-> "idle", read |-> 0, blank |-> 0, last |-> "none"]
  /\ due = FALSE
  /\ link = "none"
  /\ wire = << >>
  /\ proxy = "ensure"
  /\ got = << >>
  /\ client = "here"

At(p) == hermes.pc = p
GoTo(p) == hermes' = [hermes EXCEPT !.pc = p]
End(e) == hermes' = [hermes EXCEPT !.pc = "ending", !.last = e]

-----------------------------------------------------------------------------
(***************************************************************************)
(* The agent process: prints, may close its output early, exits.  What it  *)
(* started has its stdout too, and may print on after it exits.            *)
(***************************************************************************)
AgentPrints ==
  /\ agent.state # "none" /\ ~agent.closed
  /\ agent.printed + agent.blank < Lines
  /\ \/ agent' = [agent EXCEPT !.printed = @ + 1]
     \/ agent' = [agent EXCEPT !.blank = @ + 1]
  /\ UNCHANGED <<via, hermes, due, link, wire, clientside>>

AgentCloses ==
  /\ agent.state # "none" /\ ~agent.closed
  /\ agent' = [agent EXCEPT !.closed = TRUE]
  /\ UNCHANGED <<via, hermes, due, link, wire, clientside>>

AgentExits ==
  /\ agent.state = "running"
  /\ \E s \in {"ok", "failed"}, c \in {agent.closed, TRUE} :
       agent' = [agent EXCEPT !.state = s, !.closed = c]
  /\ UNCHANGED <<via, hermes, due, link, wire, clientside>>

\* Nobody reads stdout after a kill: it counts as closed.
Killed ==
  IF agent.state = "running"
  THEN [agent EXCEPT !.state = "killed", !.closed = TRUE] ELSE agent

-----------------------------------------------------------------------------
(***************************************************************************)
(* Hermes: _run_hermes_agent, suspended in its own awaits or, while it     *)
(* yields, in the send of the response that iterates over it.              *)
(***************************************************************************)
Spawn ==
  /\ At("starting")
  /\ agent' = [agent EXCEPT !.state = "running"]
  /\ GoTo("reading")
  /\ UNCHANGED <<via, due, link, wire, clientside>>

SpawnFails ==
  /\ At("starting")
  /\ End("error")
  /\ UNCHANGED <<via, agent, due, link, wire, clientside>>

Unread == agent.printed - hermes.read
UnreadBlank == agent.blank - hermes.blank

\* A blank line leaves no trace, so it does not matter where among the others
\* it is read.
ReadLine ==
  /\ At("reading") /\ ~due
  /\ Unread > 0
  /\ hermes' = [hermes EXCEPT !.pc = "sending", !.read = @ + 1]
  /\ UNCHANGED <<via, agent, due, link, wire, clientside>>

\* Mutant: a blank line is taken for the end of the output.
BlankIsEnd ==
  /\ At("reading") /\ ~due
  /\ UnreadBlank > 0
  /\ hermes' = [hermes EXCEPT !.pc = "waiting", !.blank = @ + 1]
  /\ UNCHANGED <<via, agent, due, link, wire, clientside>>

\* "if line:" drops it, and the loop reads on.
ReadBlank ==
  /\ At("reading") /\ ~due
  /\ UnreadBlank > 0
  /\ hermes' = [hermes EXCEPT !.blank = @ + 1]
  /\ UNCHANGED <<via, agent, due, link, wire, clientside>>

\* The frame leaves when the transport takes it.  A buffered answer has no
\* transport to wait for.
SendToken ==
  /\ At("sending") /\ ~due
  /\ link = "open" \/ via = "buffered"
  /\ wire' = Append(wire, Token(hermes.read))
  /\ GoTo("reading")
  /\ UNCHANGED <<via, agent, due, link, clientside>>

ReadEnd ==
  /\ At("reading") /\ ~due
  /\ agent.closed /\ Unread = 0 /\ UnreadBlank = 0
  /\ GoTo("waiting")
  /\ UNCHANGED <<via, agent, due, link, wire, clientside>>

\* Mutant: the timer covers the wait for the first line only.
TimerUntilFirstLine ==
  /\ At("reading") /\ hermes.read = 0
  /\ ~due
  /\ due' = TRUE
  /\ UNCHANGED <<via, agent, hermes, link, wire, clientside>>

\* The timer runs while the generator is in its loop, in a send as well.
\* A buffered answer is not suspended in one.
TimerGoesOff ==
  /\ At("reading") \/ (At("sending") /\ via # "buffered")
  /\ ~due
  /\ due' = TRUE
  /\ UNCHANGED <<via, agent, hermes, link, wire, clientside>>

\* Mutant: after the deadline the generator goes on to the exit code.
DeadlineFallsThrough ==
  /\ At("reading") /\ due
  /\ agent' = Killed
  /\ wire' = Append(wire, Ending("error"))
  /\ GoTo("waiting")
  /\ UNCHANGED <<via, due, link, clientside>>

\* The timer cancels a readline: TimeoutError, inside the generator.
\* (readline can also raise; the handler differs in words only.)
Deadline ==
  /\ At("reading") /\ due
  /\ agent' = Killed
  /\ End("error")
  /\ UNCHANGED <<via, due, link, wire, clientside>>

\* The timer cancels a send: the response is cancelled, outside the
\* generator, whose handlers never run.  uvicorn cuts an event stream off; the
\* WebSocket handler's finally closes its socket.  A WebSocket frame may have
\* left by then.
Abandon ==
  /\ At("sending") /\ due
  /\ GoTo("gone")
  /\ IF via = "socket"
     THEN /\ link' = (IF link = "open" THEN "closed" ELSE link)
          /\ wire' \in {wire, Append(wire, Token(hermes.read))}
     ELSE /\ link' = (IF link = "open" THEN "broken" ELSE link)
          /\ wire' = wire
  /\ UNCHANGED <<via, agent, due, clientside>>

\* Mutant: the exit status itself becomes the type of the last frame.
ReapStatus ==
  /\ At("waiting")
  /\ agent.state # "running"
  /\ End(agent.state)
  /\ UNCHANGED <<via, agent, due, link, wire, clientside>>

\* communicate() returns.
Reap ==
  /\ At("waiting")
  /\ agent.state # "running"
  /\ End(IF agent.state = "ok" THEN "done" ELSE "error")
  /\ UNCHANGED <<via, agent, due, link, wire, clientside>>

\* Mutant: the five seconds pass and the process is left alone.
ExitTimesOutAlive ==
  /\ At("waiting")
  /\ agent.state = "running"
  /\ End("error")
  /\ UNCHANGED <<via, agent, due, link, wire, clientside>>

\* communicate() takes longer than five seconds; returncode is still None
\* right after the kill, which is not 0.
ExitTimesOut ==
  /\ At("waiting")
  /\ agent.state = "running"
  /\ agent' = Killed
  /\ End("error")
  /\ UNCHANGED <<via, due, link, wire, clientside>>

\* The generator returns.  The response ends; a WebSocket stays open for the
\* client's next message.
SendLast ==
  /\ At("ending")
  /\ link = "open" \/ via = "buffered"
  /\ wire' = Append(wire, Ending(hermes.last))
  /\ GoTo("over")
  /\ link' = IF via = "socket" \/ link # "open" THEN link ELSE "closed"
  /\ UNCHANGED <<via, agent, due, clientside>>

\* Nobody listens: an event stream is cancelled wherever it is suspended, a
\* WebSocket handler finds out when it sends, a buffered request never.  No
\* way of giving up touches the process.
Unheard ==
  /\ link = "left"
  /\ \/ /\ via \in {"chat", "ace"}
        /\ hermes.pc \in {"starting", "reading", "sending", "waiting", "ending"}
     \/ /\ via = "socket"
        /\ hermes.pc \in {"idle", "sending", "ending", "over"}
  /\ GoTo("gone")
  /\ UNCHANGED <<via, agent, due, link, wire, clientside>>

Hermes ==
  \/ Spawn \/ SpawnFails \/ ReadLine \/ ReadBlank \/ SendToken
  \/ ReadEnd \/ Deadline \/ Abandon \/ Reap \/ ExitTimesOut \/ SendLast
  \/ Unheard

\* The runtime's container is stopped, with everything in it.  Its connection
\* breaks, even after the last frame, and may take along what was under way.
RuntimeDies ==
  /\ link # "none"
  /\ ~At("gone") \/ agent.state = "running" \/ ~agent.closed
  /\ agent' = [Killed EXCEPT !.closed = TRUE]
  /\ GoTo("gone")
  /\ wire' \in {wire, << >>}
  /\ \/ link = "left" /\ link' = link
     \/ link = "closed" /\ wire' = wire /\ link' = link
     \/ link # "left" /\ link' = "broken"
  /\ UNCHANGED <<via, due, clientside>>

-----------------------------------------------------------------------------
(***************************************************************************)
(* The gateway: agent_chat, proxy_ace_path, agent_ws.                      *)
(***************************************************************************)
Tell(e) == got' = IF client = "here" THEN Append(got, Ending(e)) ELSE got

\* The gateway's end of the connection is closed, whoever closed the other.
HungUp == IF link = "open" THEN "left" ELSE link

\* ensure_user_runtime; its refusal is an HTTP error, or a close code.
Ensured ==
  /\ proxy = "ensure"
  /\ proxy' = "connect"
  /\ UNCHANGED <<via, agentside, link, wire, got, client>>

EnsureFails ==
  /\ proxy = "ensure"
  /\ proxy' = "over"
  /\ IF via = "socket" THEN UNCHANGED got ELSE Tell("error")
  /\ UNCHANGED <<via, agentside, link, wire, client>>

\* The request reaches Hermes with the connection; a WebSocket is idle until
\* the client says something.
Connect ==
  /\ proxy = "connect"
  /\ proxy' = "relay"
  /\ link' = "open"
  /\ IF via = "socket" THEN UNCHANGED hermes ELSE GoTo("starting")
  /\ UNCHANGED <<via, agent, due, wire, got, client>>

\* No connection, or an upstream status from 500 (agent_chat) or 400
\* (proxy_ace_path) up.  (agent_chat passes a status from 400 to 499 on as a
\* stream; Hermes has none for the payload agent_chat builds.)
ConnectFails ==
  /\ proxy = "connect"
  /\ proxy' = "over"
  /\ IF via = "socket" THEN UNCHANGED got ELSE Tell("error")
  /\ UNCHANGED <<via, agentside, link, wire, client>>

\* _forward_client_to_vps takes the message to ws_chat, which answers one it
\* cannot parse itself.
ClientAsks ==
  /\ via = "socket" /\ proxy = "relay" /\ client = "here"
  /\ link = "open" /\ At("idle")
  /\ GoTo("starting") \/ End("error")
  /\ UNCHANGED <<via, agent, due, link, wire, clientside>>

Relay ==
  /\ proxy = "relay" /\ via # "buffered" /\ client = "here"
  /\ wire # << >>
  /\ got' = Append(got, Head(wire))
  /\ wire' = Tail(wire)
  /\ UNCHANGED <<via, agentside, link, proxy, client>>

\* All of it in one JSON answer.
RelayAnswer ==
  /\ proxy = "relay" /\ via = "buffered"
  /\ link = "closed"
  /\ got' = IF client = "here" THEN got \o wire ELSE got
  /\ wire' = << >>
  /\ proxy' = "over"
  /\ UNCHANGED <<via, agentside, link, client>>

RelayEnds ==
  /\ proxy = "relay" /\ via \in {"chat", "ace"}
  /\ wire = << >> /\ link = "closed"
  /\ proxy' = "over"
  /\ UNCHANGED <<via, agentside, link, wire, got, client>>

\* Mutant: a connection that breaks ends the response like any other end.
BreakUntold ==
  /\ proxy = "relay" /\ via # "socket"
  /\ link = "broken" /\ (wire = << >> \/ via = "buffered")
  /\ proxy' = "over"
  /\ UNCHANGED <<via, agentside, link, wire, got, client>>

\* The except clauses of the generators, and of the buffered request.
RelayBreaks ==
  /\ proxy = "relay" /\ via # "socket"
  /\ link = "broken" /\ (wire = << >> \/ via = "buffered")
  /\ Tell("error")
  /\ proxy' = "over"
  /\ UNCHANGED <<via, agentside, link, wire, client>>

\* httpx's read timeout, counted from the last byte.
ReadTimesOut ==
  /\ proxy = "relay" /\ via # "socket"
  /\ link = "open" /\ (wire = << >> \/ via = "buffered")
  /\ Tell("error")
  /\ proxy' = "over"
  /\ link' = HungUp
  /\ UNCHANGED <<via, agentside, wire, client>>

\* _forward_vps_to_client ends when Hermes's socket does, and all was read.
DownEnds ==
  /\ proxy = "relay" /\ via = "socket"
  /\ wire = << >> /\ link \in {"closed", "broken"}
  /\ proxy' = "over"
  /\ UNCHANGED <<via, agentside, link, wire, got, client>>

\* _forward_client_to_vps ends first: a message for a socket that has ended,
\* or one that is not text.  Cancelling the other direction loses what it had
\* not read.
UpEnds ==
  /\ proxy = "relay" /\ via = "socket" /\ client = "here"
  /\ wire' = << >>
  /\ proxy' = "over"
  /\ link' = HungUp
  /\ UNCHANGED <<via, agentside, got, client>>

\* Mutant: the handler ends without closing its connection to Hermes.
HangUpHalf ==
  /\ proxy \in {"connect", "relay"} /\ client = "left" /\ via # "buffered"
  /\ proxy' = "over"
  /\ UNCHANGED <<via, agentside, link, wire, got, client>>

\* The client's disconnect cancels an event stream, and ends the direction up
\* of a bridge.
HangUp ==
  /\ proxy \in {"connect", "relay"} /\ client = "left" /\ via # "buffered"
  /\ proxy' = "over"
  /\ link' = HungUp
  /\ UNCHANGED <<via, agentside, wire, got, client>>

Gateway ==
  \/ Ensured \/ EnsureFails \/ Connect \/ ConnectFails
  \/ Relay \/ RelayAnswer \/ RelayEnds \/ RelayBreaks
  \/ DownEnds \/ HangUp

ClientLeaves ==
  /\ client = "here" /\ proxy # "over"
  /\ client' = "left"
  /\ UNCHANGED <<via, agentside, link, wire, proxy, got>>

-----------------------------------------------------------------------------
Agent == AgentPrints \/ AgentCloses \/ AgentExits

Next ==
  \/ Agent \/ Hermes \/ TimerGoesOff \/ RuntimeDies
  \/ Gateway \/ ReadTimesOut \/ UpEnds \/ ClientAsks \/ ClientLeaves

Spec == Init /\ [][Next]_vars

\* The event loops run what can run, the timer goes off, and a client that
\* stays reads what it is sent.  Nothing is assumed of the agent.
FairSpec ==
  /\ Spec
  /\ WF_vars(Hermes) /\ WF_vars(TimerGoesOff) /\ WF_vars(Gateway)

-----------------------------------------------------------------------------
(***************************************************************************)
(* Properties.                                                             *)
(***************************************************************************)
Lined(n) == [i \in 1 .. n |-> Token(i)]
Told == {got[i][1] : i \in DOMAIN got}

\* The client gets the lines that are not blank from the first on, in order
\* and without gaps, then at most one ending of Hermes, then at most one more
\* error, the gateway's.
GotInOrder ==
  \E n \in 0 .. Lines :
    LET done == Ending("done")  error == Ending("error") IN
    got \in {Lined(n) \o e : e \in {<< >>, <<done>>, <<error>>,
                                   <<done, error>>, <<error, error>>}}

\* A client that is told "done" has every line the agent ever printed that is
\* not blank, and the agent ended by itself, well.
DoneIsTrue ==
  "done" \in Told =>
    agent.state = "ok" /\ IsPrefix(Lined(agent.printed), got)

\* False, though the docstring of _run_hermes_agent says "token events for each
\* line of stdout from the agent": a client told "done" has a token for every
\* line printed.  Blank lines are dropped.
TokenForEachLine ==
  LET tokens == SelectSeq(got, LAMBDA f : f[1] = "token") IN
  "done" \in Told => Len(tokens) = agent.printed + agent.blank

\* Hermes calls a turn done or failed only when the agent process has ended;
\* what that process started may run on.
EndingMeansAgentEnded == hermes.last # "none" => agent.state # "running"

\* A client that stays with its HTTP request is never left with a stream that
\* just stops: it ends in "done" or "error", even when Hermes's response was
\* cancelled in a send or the runtime went away.
ClientIsTold ==
  via # "socket" /\ proxy = "over" /\ client = "here"
    => got # << >> /\ Last(got)[1] \in Endings

\* Every run comes to an end for Hermes, whatever the agent does and
\* whether anybody listens, by its own deadlines.
RunsEnd ==
  hermes.pc \in HermesAt \ {"idle", "over", "gone"}
    ~> hermes.pc \in {"over", "gone"}

\* Every HTTP request ends, without the gateway's own timeouts; and when a
\* client leaves a bridge or a stream, the connection behind it goes too.
ConnectionsEnd ==
  /\ via # "socket" ~> proxy = "over"
  /\ client = "left" ~> link # "open"

=============================================================================
