-------------------------- MODULE AgentStreamProofs --------------------------
(***************************************************************************)
(* Proofs about AgentStream for any number of lines: what a client gets is *)
(* in order, ends as the turn ended, and "done" is only said of a turn     *)
(* that is.                                                                *)
(***************************************************************************)
EXTENDS AgentStream, SequenceTheorems, TLAPS

-----------------------------------------------------------------------------
(***************************************************************************)
(* The inductive invariant.                                                *)
(***************************************************************************)
\* Where Hermes has not decided how the turn ended.
Undecided == {"idle", "starting", "reading", "sending", "waiting"}

\* How far the turn is.
Course ==
  /\ hermes.pc \in {"idle", "starting"} =>
       agent.state = "none" /\ hermes.read = 0
  /\ hermes.pc \in Undecided => hermes.last = "none"
  /\ hermes.pc \in {"ending", "over"} => hermes.last \in Endings
  /\ At("sending") => hermes.read > 0
  /\ At("waiting") => agent.closed /\ hermes.read = agent.printed
  /\ hermes.last = "done" =>
       agent.state = "ok" /\ agent.closed /\ hermes.read = agent.printed

\* Before the gateway connects nothing has happened.
Unconnected ==
  proxy \in {"ensure", "connect"} =>
    /\ link = "none" /\ At("idle")
    /\ wire = << >> /\ got = << >>

\* The i-th frame of the turn, and how many frames are out.
Frame(i) == IF i <= hermes.read THEN Token(i) ELSE Ending(hermes.last)
Sent == Len(got) + Len(wire)

\* What the client has, and the wire after it, are the turn's frames.
InTransit ==
  /\ \A i \in 1 .. Len(got) : got[i] = Frame(i)
  /\ \A i \in 1 .. Len(wire) : wire[i] = Frame(Len(got) + i)

\* How many frames are out depends on where Hermes is.
Progress ==
  /\ hermes.pc \in {"idle", "starting", "reading", "waiting", "ending"} =>
       Sent = hermes.read
  /\ At("sending") => Sent = hermes.read - 1
  /\ At("over") => Sent = hermes.read + 1
  /\ Sent <= hermes.read + 1
  /\ Sent = hermes.read + 1 => hermes.last \in Endings
  /\ via = "buffered" => got = << >>
  /\ via # "socket" /\ link = "closed" =>
       hermes.pc \in {"over", "gone"} /\ Sent = hermes.read + 1

\* As long as the gateway relays.
Flow == proxy # "over" => InTransit /\ Progress

\* A "done" among frames came last of the turn, after all its lines.
DoneIn(s) ==
  \A i \in 1 .. Len(s) : s[i] = Ending("done") =>
    /\ hermes.last = "done" /\ i = hermes.read + 1
    /\ hermes.pc \in {"over", "gone"}
    /\ \A j \in 1 .. hermes.read : s[j] = Token(j)
DoneDelivered == DoneIn(got)

\* What the client has when the gateway is done with it.
Settled == proxy = "over" => GotInOrder /\ DoneDelivered /\ ClientIsTold

\* Hermes and the agent, whatever becomes of the frames.
Turn == TypeOK /\ Course /\ EndingMeansAgentEnded

Inv == Turn /\ Unconnected /\ Flow /\ Settled

-----------------------------------------------------------------------------
(***************************************************************************)
(* Frames and sequences of them.                                           *)
(***************************************************************************)
\* A token is never an ending, and an ending says how.
LEMMA FrameKinds ==
  /\ \A n \in Nat, e \in Endings : Token(n) # Ending(e)
  /\ Ending("done") # Ending("error")
  /\ \A e \in Endings : Ending(e)[1] = e
  /\ \A n : Token(n)[1] = "token"
BY DEF Token, Ending, Endings

\* Tokens and endings are frames.
LEMMA FramesTyped ==
  /\ \A n \in 1 .. Lines : Token(n) \in Frames
  /\ \A e \in Endings : Ending(e) \in Frames
BY DEF Frames

\* The first n lines are a sequence of n frames.
LEMMA LinedTyped ==
  ASSUME NEW n \in 0 .. Lines
  PROVE  /\ Lined(n) \in Seq(Frames)
         /\ Len(Lined(n)) = n
         /\ \A i \in 1 .. n : Lined(n)[i] = Token(i)
<1>1. n \in Nat
  BY LinesAssumption
<1>2. \A i \in 1 .. n : Token(i) \in Frames
  BY FramesTyped, LinesAssumption
<1>3. Lined(n) \in [1 .. n -> Frames]
  BY <1>2 DEF Lined
<1>. QED
  BY <1>1, <1>3 DEF Lined

\* A sequence of nothing but lines is the lines up to its length.
LEMMA OnlyLines ==
  ASSUME NEW s \in Seq(Frames), Len(s) <= Lines,
         \A i \in 1 .. Len(s) : s[i] = Token(i)
  PROVE  Len(s) \in 0 .. Lines /\ s = Lined(Len(s)) \o << >>
<1>1. Len(s) \in 0 .. Lines
  BY LinesAssumption
<1>2. Lined(Len(s)) \in Seq(Frames) /\ Len(Lined(Len(s))) = Len(s)
  BY <1>1, LinedTyped
<1>3. \A i \in 1 .. Len(s) : s[i] = Lined(Len(s))[i]
  BY <1>1, LinedTyped
<1>4. s = Lined(Len(s))
  BY <1>2, <1>3
<1>5. Lined(Len(s)) \o << >> = Lined(Len(s))
  BY <1>2
<1>. QED
  BY <1>1, <1>4, <1>5

\* Lines with one ending behind them.
LEMMA LinesEnded ==
  ASSUME NEW s \in Seq(Frames), NEW n \in 0 .. Lines, NEW e \in Endings,
         Len(s) = n + 1, s[n + 1] = Ending(e),
         \A i \in 1 .. n : s[i] = Token(i)
  PROVE  s = Lined(n) \o <<Ending(e)>>
<1>1. Lined(n) \in Seq(Frames) /\ Len(Lined(n)) = n
  BY LinedTyped
<1>2. n \in Nat /\ Ending(e) \in Frames
  BY FramesTyped, LinesAssumption
<1>3. <<Ending(e)>> \in Seq(Frames) /\ Len(<<Ending(e)>>) = 1
  BY <1>2
<1> DEFINE t == Lined(n) \o <<Ending(e)>>
<1>4. t \in Seq(Frames) /\ Len(t) = n + 1
  BY <1>1, <1>2, <1>3
<1>5. \A i \in 1 .. n : t[i] = Token(i)
  BY <1>1, <1>2, <1>3, LinedTyped
<1>6. t[n + 1] = Ending(e)
  BY <1>1, <1>2, <1>3
<1>7. \A i \in 1 .. Len(s) : s[i] = t[i]
  <2>. TAKE i \in 1 .. Len(s)
  <2>. HIDE DEF t
  <2>1. i \in 1 .. n \/ i = n + 1
    BY <1>2
  <2>. QED
    BY <2>1, <1>5, <1>6
<1>8. s = t
  <2>. HIDE DEF t
  <2>. QED
    BY <1>2, <1>4, <1>7
<1>. QED
  BY <1>8

\* A frame behind one frame.
LEMMA Pair ==
  ASSUME NEW a \in Frames, NEW b \in Frames
  PROVE  Append(<<a>>, b) = <<a, b>>
<1>1. <<a>> \in Seq(Frames) /\ Len(<<a>>) = 1 /\ <<a>>[1] = a
  OBVIOUS
<1>2. <<a, b>> \in Seq(Frames) /\ Len(<<a, b>>) = 2
  OBVIOUS
<1>3. <<a, b>>[1] = a /\ <<a, b>>[2] = b
  OBVIOUS
<1>4. /\ Append(<<a>>, b) \in Seq(Frames)
      /\ Len(Append(<<a>>, b)) = 2
      /\ Append(<<a>>, b)[1] = a
      /\ Append(<<a>>, b)[2] = b
  BY <1>1
<1>5. \A i \in 1 .. 2 : Append(<<a>>, b)[i] = <<a, b>>[i]
  BY <1>3, <1>4
<1>. QED
  BY <1>2, <1>4, <1>5, SeqEqual

\* One more ending behind at most one.
LEMMA OneMore ==
  ASSUME NEW n \in 0 .. Lines, NEW e \in Seq(Frames), NEW f \in Frames
  PROVE  Append(Lined(n) \o e, f) = Lined(n) \o Append(e, f)
<1>1. Lined(n) \in Seq(Frames) /\ <<f>> \in Seq(Frames)
  BY LinedTyped
<1>2. Lined(n) \o e \in Seq(Frames)
  BY <1>1
<1>3. Append(Lined(n) \o e, f) = (Lined(n) \o e) \o <<f>>
  BY <1>2, AppendIsConcat
<1>4. (Lined(n) \o e) \o <<f>> = Lined(n) \o (e \o <<f>>)
  BY <1>1, ConcatAssociative
<1>5. Append(e, f) = e \o <<f>>
  BY AppendIsConcat
<1>. QED
  BY <1>3, <1>4, <1>5

-----------------------------------------------------------------------------
(***************************************************************************)
(* What can be said of frames that follow the turn.                        *)
(***************************************************************************)
\* The order the client is promised.
InOrder(s) ==
  \E n \in 0 .. Lines :
    s \in {Lined(n) \o e :
            e \in {<< >>, <<Ending("done")>>, <<Ending("error")>>,
                  <<Ending("done"), Ending("error")>>,
                  <<Ending("error"), Ending("error")>>}}

\* Frames that are the turn's from the first on.
Follows(s) ==
  /\ \A i \in 1 .. Len(s) : s[i] = Frame(i)
  /\ Len(s) <= hermes.read + 1
  /\ Len(s) = hermes.read + 1 =>
       hermes.last \in Endings /\ hermes.pc \in {"over", "gone"}

\* They are lines, or all lines and the turn's ending.
LEMMA FollowsShape ==
  ASSUME TypeOK, NEW s \in Seq(Frames), Follows(s)
  PROVE  \/ Len(s) \in 0 .. Lines /\ s = Lined(Len(s)) \o << >>
         \/ /\ Len(s) = hermes.read + 1
            /\ hermes.last \in Endings /\ hermes.read \in 0 .. Lines
            /\ s = Lined(hermes.read) \o <<Ending(hermes.last)>>
<1>1. hermes.read \in 0 .. Lines
  BY DEF TypeOK
<1>2. CASE Len(s) <= hermes.read
  <2>1. \A i \in 1 .. Len(s) : s[i] = Token(i)
    BY <1>1, <1>2, LinesAssumption DEF Follows, Frame
  <2>2. Len(s) <= Lines
    BY <1>1, <1>2, LinesAssumption
  <2>. QED
    BY <2>1, <2>2, OnlyLines
<1>3. CASE Len(s) = hermes.read + 1
  <2>1. hermes.last \in Endings
    BY <1>3 DEF Follows
  <2>2. s[hermes.read + 1] = Ending(hermes.last)
    BY <1>1, <1>3, LinesAssumption DEF Follows, Frame
  <2>3. \A i \in 1 .. hermes.read : s[i] = Token(i)
    BY <1>1, <1>3, LinesAssumption DEF Follows, Frame
  <2>. QED
    BY <1>1, <1>3, <2>1, <2>2, <2>3, LinesEnded
<1>. QED
  BY <1>1, <1>2, <1>3, LinesAssumption DEF Follows

\* They are in order, with or without an error of the gateway's behind.
LEMMA FollowsInOrder ==
  ASSUME TypeOK, NEW s \in Seq(Frames), Follows(s)
  PROVE  InOrder(s) /\ InOrder(Append(s, Ending("error")))
<1> DEFINE error == Ending("error")
<1>1. error \in Frames /\ << >> \in Seq(Frames)
  BY FramesTyped DEF Endings
<1>2. CASE Len(s) \in 0 .. Lines /\ s = Lined(Len(s)) \o << >>
  <2>1. Append(s, error) = Lined(Len(s)) \o Append(<< >>, error)
    BY <1>1, <1>2, OneMore
  <2>2. Append(<< >>, error) = <<error>>
    OBVIOUS
  <2>. QED
    BY <1>2, <2>1, <2>2 DEF InOrder
<1>3. CASE /\ hermes.last \in Endings /\ hermes.read \in 0 .. Lines
           /\ s = Lined(hermes.read) \o <<Ending(hermes.last)>>
  <2>1. Ending(hermes.last) \in Frames
    BY <1>3, FramesTyped
  <2>2. <<Ending(hermes.last)>> \in Seq(Frames)
    BY <2>1
  <2>3. Append(s, error)
          = Lined(hermes.read) \o Append(<<Ending(hermes.last)>>, error)
    BY <1>1, <1>3, <2>2, OneMore
  <2>4. Append(<<Ending(hermes.last)>>, error)
          = <<Ending(hermes.last), error>>
    BY <1>1, <2>1, Pair
  <2>5. hermes.last = "done" \/ hermes.last = "error"
    BY <1>3 DEF Endings
  <2>. QED
    BY <1>3, <2>3, <2>4, <2>5 DEF InOrder
<1>. QED
  BY <1>2, <1>3, FollowsShape

\* A "done" among them is the turn's, with or without an error behind.
LEMMA FollowsDone ==
  ASSUME TypeOK, NEW s \in Seq(Frames), Follows(s)
  PROVE  DoneIn(s) /\ DoneIn(Append(s, Ending("error")))
<1>1. hermes.read \in Nat
  BY LinesAssumption DEF TypeOK
<1>2. ASSUME NEW i \in 1 .. Len(s), s[i] = Ending("done")
      PROVE  /\ hermes.last = "done" /\ i = hermes.read + 1
             /\ hermes.pc \in {"over", "gone"}
             /\ \A j \in 1 .. hermes.read : s[j] = Token(j)
  <2>1. i = hermes.read + 1 /\ Len(s) = i
    BY <1>1, <1>2, FrameKinds DEF Follows, Frame, Endings
  <2>2. Ending(hermes.last) = Ending("done")
    BY <1>1, <1>2, <2>1 DEF Follows, Frame
  <2>3. hermes.last = "done" /\ hermes.pc \in {"over", "gone"}
    BY <2>1, <2>2 DEF Follows, Ending
  <2>4. ASSUME NEW j \in 1 .. hermes.read
        PROVE  s[j] = Token(j)
    <3>1. j \in 1 .. Len(s) /\ j <= hermes.read
      BY <1>1, <2>1
    <3>. QED
      BY <3>1 DEF Follows, Frame
  <2>. QED
    BY <2>1, <2>3, <2>4
<1>3. DoneIn(s)
  BY <1>2 DEF DoneIn
<1> DEFINE t == Append(s, Ending("error"))
<1>4. ASSUME NEW i \in 1 .. Len(t), t[i] = Ending("done")
      PROVE  i \in 1 .. Len(s) /\ s[i] = Ending("done")
  BY <1>4, FrameKinds
<1>5. \A j \in 1 .. Len(s) : t[j] = s[j]
  OBVIOUS
<1>6. DoneIn(t)
  <2>. HIDE DEF t
  <2>1. ASSUME NEW i \in 1 .. Len(t), t[i] = Ending("done")
        PROVE  /\ hermes.last = "done" /\ i = hermes.read + 1
               /\ hermes.pc \in {"over", "gone"}
               /\ \A j \in 1 .. hermes.read : t[j] = Token(j)
    <3>1. i \in 1 .. Len(s) /\ s[i] = Ending("done")
      BY <1>4, <2>1
    <3>2. /\ hermes.last = "done" /\ i = hermes.read + 1
          /\ hermes.pc \in {"over", "gone"}
          /\ \A j \in 1 .. hermes.read : s[j] = Token(j)
      BY <1>2, <3>1
    <3>3. \A j \in 1 .. hermes.read : j \in 1 .. Len(s)
      BY <1>1, <3>1, <3>2
    <3>. QED
      BY <1>5, <3>2, <3>3
  <2>. QED
    BY <2>1 DEF DoneIn
<1>. QED
  BY <1>3, <1>6

-----------------------------------------------------------------------------
(***************************************************************************)
(* Hermes and the agent.                                                   *)
(***************************************************************************)
\* What the gateway tells is a frame.
LEMMA TellTyped ==
  ASSUME TypeOK, Tell("error")
  PROVE  got' \in Seq(Frames)
<1>1. Ending("error") \in Frames
  BY FramesTyped DEF Endings
<1>. QED
  BY <1>1 DEF TypeOK, Tell

\* Every step keeps the types.  A token is of a line that was read.
LEMMA TypeStep ==
  ASSUME TypeOK, Course, [Next]_vars
  PROVE  TypeOK'
<1>0. /\ Token(hermes.read) \in Frames \/ ~At("sending")
      /\ Ending(hermes.last) \in Frames \/ ~At("ending")
      /\ Ending("error") \in Frames
      /\ Killed \in [state : {"none", "running", "ok", "failed", "killed"},
                    printed : 0 .. Lines, blank : 0 .. Lines, closed : BOOLEAN]
  <2>1. Token(hermes.read) \in Frames \/ ~At("sending")
    <3>1. At("sending") => hermes.read \in 1 .. Lines
      BY LinesAssumption DEF TypeOK, Course
    <3>. QED
      BY <3>1, FramesTyped
  <2>2. Ending(hermes.last) \in Frames \/ ~At("ending")
    BY FramesTyped DEF Course, At
  <2>3. Ending("error") \in Frames
    BY FramesTyped DEF Endings
  <2>4. Killed \in [state : {"none", "running", "ok", "failed", "killed"},
                   printed : 0 .. Lines, blank : 0 .. Lines, closed : BOOLEAN]
    BY DEF TypeOK, Killed
  <2>. QED
    BY <2>1, <2>2, <2>3, <2>4
<1>. USE LinesAssumption DEF TypeOK, At, agentside, clientside
<1>1. CASE Agent
  <2>1. agent' \in [state : {"none", "running", "ok", "failed", "killed"},
                   printed : 0 .. Lines, blank : 0 .. Lines, closed : BOOLEAN]
    <3>1. agent.printed + agent.blank < Lines =>
            agent.printed + 1 \in 0 .. Lines /\ agent.blank + 1 \in 0 .. Lines
      OBVIOUS
    <3>. QED
      BY <1>1, <3>1 DEF Agent, AgentPrints, AgentCloses, AgentExits
  <2>. QED
    BY <1>1, <2>1 DEF Agent, AgentPrints, AgentCloses, AgentExits
<1>2. CASE Spawn \/ SpawnFails
  BY <1>2 DEF Spawn, SpawnFails, GoTo, End, HermesAt, Endings
<1>3. CASE ReadLine \/ ReadBlank \/ ReadEnd
  <2>1. hermes' \in [pc : HermesAt, read : 0 .. Lines, blank : 0 .. Lines,
                    last : Endings \cup {"none"}]
    <3>1. /\ Unread > 0 => hermes.read + 1 \in 0 .. Lines
          /\ UnreadBlank > 0 => hermes.blank + 1 \in 0 .. Lines
      BY DEF Unread, UnreadBlank
    <3>2. "sending" \in HermesAt /\ "waiting" \in HermesAt
      BY DEF HermesAt
    <3>. QED
      BY <1>3, <3>1, <3>2 DEF ReadLine, ReadBlank, ReadEnd, GoTo
  <2>. QED
    BY <1>3, <2>1 DEF ReadLine, ReadBlank, ReadEnd
<1>4. CASE SendToken
  BY <1>0, <1>4 DEF SendToken, GoTo, HermesAt
<1>5. CASE Deadline
  BY <1>0, <1>5 DEF Deadline, End, HermesAt, Endings
<1>6. CASE Abandon
  <2>1. hermes' = [hermes EXCEPT !.pc = "gone"]
    BY <1>6 DEF Abandon, GoTo
  <2>2. wire' \in {wire, Append(wire, Token(hermes.read))}
    BY <1>6 DEF Abandon
  <2>3. wire' \in Seq(Frames)
    <3>1. Token(hermes.read) \in Frames
      BY <1>0, <1>6 DEF Abandon
    <3>2. Append(wire, Token(hermes.read)) \in Seq(Frames)
      BY <3>1
    <3>. QED
      BY <2>2, <3>2
  <2>4. link' \in {link, "closed", "broken"}
    BY <1>6 DEF Abandon
  <2>. QED
    BY <1>6, <2>1, <2>3, <2>4 DEF Abandon, HermesAt
<1>7. CASE Reap \/ ExitTimesOut
  BY <1>0, <1>7 DEF Reap, ExitTimesOut, End, HermesAt, Endings
<1>8. CASE SendLast
  <2>1. hermes' = [hermes EXCEPT !.pc = "over"]
    BY <1>8 DEF SendLast, GoTo
  <2>2. wire' \in Seq(Frames)
    BY <1>0, <1>8 DEF SendLast
  <2>3. link' \in {link, "closed"}
    BY <1>8 DEF SendLast
  <2>. QED
    BY <1>8, <2>1, <2>2, <2>3 DEF SendLast, HermesAt
<1>9. CASE Unheard \/ TimerGoesOff
  BY <1>9 DEF Unheard, TimerGoesOff, GoTo, HermesAt
<1>10. CASE RuntimeDies
  <2>1. << >> \in Seq(Frames)
    OBVIOUS
  <2>. QED
    BY <1>0, <1>10, <2>1 DEF RuntimeDies, GoTo, HermesAt
<1>11. CASE Ensured \/ EnsureFails \/ ConnectFails
  <2>1. got' \in Seq(Frames)
    BY <1>11, TellTyped DEF Ensured, EnsureFails, ConnectFails
  <2>. QED
    BY <1>11, <2>1 DEF Ensured, EnsureFails, ConnectFails
<1>12. CASE Connect
  BY <1>12 DEF Connect, GoTo, HermesAt
<1>13. CASE Relay
  <2>1. Head(wire) \in Frames /\ Tail(wire) \in Seq(Frames)
    BY <1>13 DEF Relay
  <2>. QED
    BY <1>13, <2>1 DEF Relay
<1>14. CASE RelayAnswer
  <2>1. << >> \in Seq(Frames)
    OBVIOUS
  <2>. QED
    BY <1>14, <2>1 DEF RelayAnswer
<1>15. CASE RelayEnds \/ RelayBreaks \/ DownEnds
  <2>1. got' \in Seq(Frames)
    BY <1>15, TellTyped DEF RelayEnds, RelayBreaks, DownEnds
  <2>. QED
    BY <1>15, <2>1 DEF RelayEnds, RelayBreaks, DownEnds
<1>16. CASE UpEnds
  <2>1. << >> \in Seq(Frames)
    OBVIOUS
  <2>. QED
    BY <1>16, <2>1 DEF UpEnds, HungUp
<1>17. CASE HangUp \/ ReadTimesOut
  <2>1. got' \in Seq(Frames)
    BY <1>17, TellTyped DEF HangUp, ReadTimesOut
  <2>. QED
    BY <1>17, <2>1 DEF HangUp, ReadTimesOut, HungUp
<1>18. CASE ClientAsks \/ ClientLeaves
  BY <1>18 DEF ClientAsks, ClientLeaves, GoTo, End, HermesAt, Endings
<1>19. CASE UNCHANGED vars
  BY <1>19 DEF vars
<1>. QED
  BY <1>1, <1>2, <1>3, <1>4, <1>5, <1>6, <1>7, <1>8, <1>9, <1>10, <1>11,
     <1>12, <1>13, <1>14, <1>15, <1>16, <1>17, <1>18, <1>19
     DEF Next, Hermes, Gateway

\* Every step keeps how far the turn is and what an ending means.
LEMMA TurnStep ==
  ASSUME Turn, Unconnected, [Next]_vars
  PROVE  Turn'
<1>0. TypeOK /\ Course /\ EndingMeansAgentEnded
  BY DEF Turn
<1>1. TypeOK'
  BY <1>0, TypeStep
<1>2. Course' /\ EndingMeansAgentEnded'
  <2>. USE <1>0, LinesAssumption
       DEF TypeOK, Course, EndingMeansAgentEnded, Undecided, Endings, At,
           GoTo, End, agentside, clientside
  <2>1. CASE Agent
    BY <2>1 DEF Agent, AgentPrints, AgentCloses, AgentExits
  <2>2. CASE Spawn \/ SpawnFails
    BY <2>2 DEF Spawn, SpawnFails
  <2>3. CASE ReadLine \/ ReadBlank \/ ReadEnd
    <3>1. CASE ReadLine
      BY <3>1 DEF ReadLine
    <3>2. CASE ReadEnd
      <4>1. hermes.read = agent.printed
        BY <3>2 DEF ReadEnd, Unread
      <4>2. /\ hermes' = [hermes EXCEPT !.pc = "waiting"]
            /\ agent' = agent /\ agent.closed /\ hermes.last = "none"
        BY <3>2 DEF ReadEnd
      <4>. QED
        BY <4>1, <4>2
    <3>3. CASE ReadBlank
      BY <3>3 DEF ReadBlank
    <3>. QED
      BY <2>3, <3>1, <3>2, <3>3
  <2>4. CASE SendToken \/ SendLast \/ Abandon
    BY <2>4 DEF SendToken, SendLast, Abandon
  <2>5. CASE Deadline \/ ExitTimesOut
    BY <2>5 DEF Deadline, ExitTimesOut, Killed
  <2>6. CASE Reap
    BY <2>6 DEF Reap
  <2>7. CASE Unheard \/ TimerGoesOff
    BY <2>7 DEF Unheard, TimerGoesOff
  <2>8. CASE RuntimeDies
    BY <2>8 DEF RuntimeDies, Killed
  <2>9. CASE Connect
    BY <2>9 DEF Connect, Unconnected
  <2>10. CASE ClientAsks
    BY <2>10 DEF ClientAsks
  <2>11. CASE \/ Ensured \/ EnsureFails \/ ConnectFails \/ Relay
              \/ RelayAnswer \/ RelayEnds \/ RelayBreaks \/ DownEnds
              \/ UpEnds \/ HangUp \/ ReadTimesOut \/ ClientLeaves
              \/ UNCHANGED vars
    <3>1. UNCHANGED <<agent, hermes>>
      BY <2>11
         DEF Ensured, EnsureFails, ConnectFails, Relay, RelayAnswer,
             RelayEnds, RelayBreaks, DownEnds, UpEnds, HangUp,
             ReadTimesOut, ClientLeaves, vars
    <3>. QED
      BY <3>1
  <2>. QED
    BY <2>1, <2>2, <2>3, <2>4, <2>5, <2>6, <2>7, <2>8, <2>9, <2>10, <2>11
       DEF Next, Hermes, Gateway
<1>. QED
  BY <1>1, <1>2 DEF Turn

-----------------------------------------------------------------------------
(***************************************************************************)
(* The frames under way.                                                   *)
(***************************************************************************)
\* Every step but the connecting one leaves a gateway unconnected, or done.
LEMMA UnconnectedStep ==
  ASSUME Turn, Unconnected, [Next]_vars
  PROVE  Unconnected'
<1>. USE DEF Unconnected, At, GoTo, End, agentside, clientside
<1>1. CASE proxy \in {"ensure", "connect"}
  <2>1. \/ UNCHANGED <<link, hermes, wire, got>>
        \/ proxy' \notin {"ensure", "connect"}
    BY <1>1
       DEF Next, Agent, AgentPrints, AgentCloses, AgentExits, Hermes, Spawn,
           SpawnFails, ReadLine, ReadBlank, SendToken, ReadEnd, Deadline,
           Abandon, Reap,
           ExitTimesOut, SendLast, Unheard, TimerGoesOff, RuntimeDies,
           Gateway, Ensured, EnsureFails, Connect, ConnectFails, Relay,
           RelayAnswer, RelayEnds, RelayBreaks, DownEnds, UpEnds, HangUp,
           ReadTimesOut, ClientAsks, ClientLeaves, vars
  <2>. QED
    BY <1>1, <2>1
<1>2. CASE proxy \notin {"ensure", "connect"}
  <2>1. proxy' \notin {"ensure", "connect"}
    BY <1>2
       DEF Next, Agent, AgentPrints, AgentCloses, AgentExits, Hermes, Spawn,
           SpawnFails, ReadLine, ReadBlank, SendToken, ReadEnd, Deadline,
           Abandon, Reap,
           ExitTimesOut, SendLast, Unheard, TimerGoesOff, RuntimeDies,
           Gateway, Ensured, EnsureFails, Connect, ConnectFails, Relay,
           RelayAnswer, RelayEnds, RelayBreaks, DownEnds, UpEnds, HangUp,
           ReadTimesOut, ClientAsks, ClientLeaves, vars
  <2>. QED
    BY <2>1
<1>. QED
  BY <1>1, <1>2

\* No frame moves: they stay the turn's frames, even when one more line is
\* read or how the turn ended is decided now.
LEMMA Still ==
  ASSUME TypeOK, InTransit, UNCHANGED <<got, wire>>,
         \/ hermes'.read = hermes.read /\ hermes'.last = hermes.last
         \/ /\ Sent <= hermes.read
            /\ hermes'.read \in {hermes.read, hermes.read + 1}
  PROVE  InTransit' /\ Sent' = Sent
<1>. USE LinesAssumption DEF TypeOK
<1>1. Len(got) \in Nat /\ Len(wire) \in Nat
  OBVIOUS
<1>2. Len(got)' = Len(got) /\ Len(wire)' = Len(wire)
  OBVIOUS
<1>3. ASSUME NEW i \in 1 .. Sent
      PROVE  Frame(i)' = Frame(i)
  BY <1>1 DEF Sent, Frame
<1>4. ASSUME NEW i \in 1 .. Len(got)
      PROVE  got'[i] = Frame(i)'
  <2>1. i \in 1 .. Sent
    BY <1>1 DEF Sent
  <2>. QED
    BY <1>3, <2>1 DEF InTransit
<1>5. ASSUME NEW i \in 1 .. Len(wire)
      PROVE  wire'[i] = Frame(Len(got) + i)'
  <2>1. Len(got) + i \in 1 .. Sent
    BY <1>1 DEF Sent
  <2>. QED
    BY <1>2, <1>3, <2>1 DEF InTransit, Frame
<1>. QED
  BY <1>2, <1>4, <1>5 DEF InTransit, Sent

\* A frame leaves for the gateway.
LEMMA Leaves ==
  ASSUME TypeOK, InTransit, NEW f \in Frames,
         wire' = Append(wire, f), got' = got,
         hermes'.read = hermes.read, hermes'.last = hermes.last,
         f = Frame(Sent + 1)
  PROVE  InTransit' /\ Sent' = Sent + 1
<1>. USE LinesAssumption DEF TypeOK
<1>1. Len(got) \in Nat /\ Len(wire) \in Nat
  OBVIOUS
<1>2. Len(got)' = Len(got) /\ Len(wire)' = Len(wire) + 1
  BY <1>1
<1>3. \A i : Frame(i)' = Frame(i)
  BY DEF Frame
<1>4. ASSUME NEW i \in 1 .. Len(got)'
      PROVE  got'[i] = Frame(i)'
  BY <1>3 DEF InTransit
<1>5. ASSUME NEW i \in 1 .. Len(wire)'
      PROVE  wire'[i] = Frame(Len(got) + i)
  <2>1. CASE i \in 1 .. Len(wire)
    BY <2>1 DEF InTransit
  <2>2. CASE i = Len(wire) + 1
    <3>1. wire'[i] = f /\ Len(got) + i = Sent + 1
      BY <1>1, <2>2 DEF Sent
    <3>. QED
      BY <3>1
  <2>. QED
    BY <1>1, <1>2, <2>1, <2>2
<1>6. ASSUME NEW i \in 1 .. Len(wire)'
      PROVE  wire'[i] = Frame(Len(got) + i)'
  BY <1>2, <1>5 DEF Frame
<1>7. Sent' = Sent + 1
  BY <1>1, <1>2 DEF Sent
<1>. QED
  BY <1>4, <1>6, <1>7 DEF InTransit

\* A frame arrives at the client.
LEMMA Arrives ==
  ASSUME TypeOK, InTransit, wire # << >>,
         got' = Append(got, Head(wire)), wire' = Tail(wire),
         hermes'.read = hermes.read, hermes'.last = hermes.last
  PROVE  InTransit' /\ Sent' = Sent
<1>. USE LinesAssumption DEF TypeOK
<1>1. /\ Len(got) \in Nat /\ Len(wire) \in Nat
      /\ Len(got)' = Len(got) + 1 /\ Len(wire)' = Len(wire) - 1
      /\ Head(wire) = wire[1] /\ Len(wire) >= 1
  OBVIOUS
<1>2. \A i : Frame(i)' = Frame(i)
  BY DEF Frame
<1>3. wire[1] = Frame(Len(got) + 1)
  BY <1>1 DEF InTransit
<1>4. ASSUME NEW i \in 1 .. Len(got)'
      PROVE  got'[i] = Frame(i)'
  <2>1. CASE i \in 1 .. Len(got)
    <3>1. got[i] = Frame(i)
      BY <2>1 DEF InTransit
    <3>2. Append(got, Head(wire))[i] = got[i]
      BY <1>1, <2>1
    <3>. QED
      BY <1>2, <3>1, <3>2
  <2>2. CASE i = Len(got) + 1
    BY <1>1, <1>2, <1>3, <2>2
  <2>. QED
    BY <1>1, <2>1, <2>2
<1>5. ASSUME NEW i \in 1 .. Len(wire)'
      PROVE  wire'[i] = Frame(Len(got)' + i)
  <2>1. wire'[i] = wire[i + 1] /\ i + 1 \in 1 .. Len(wire)
    BY <1>1
  <2>2. Len(got)' + i = Len(got) + (i + 1)
    BY <1>1
  <2>. QED
    BY <2>1, <2>2 DEF InTransit
<1>6. ASSUME NEW i \in 1 .. Len(wire)'
      PROVE  wire'[i] = Frame(Len(got) + i)'
  BY <1>5 DEF Frame
<1>. QED
  BY <1>1, <1>4, <1>6 DEF InTransit, Sent

\* A gateway that relays on still has the turn's frames.
LEMMA FlowStep ==
  ASSUME Turn, Unconnected, Flow, [Next]_vars
  PROVE  Flow'
<1>. SUFFICES ASSUME proxy' # "over"
              PROVE  InTransit' /\ Progress'
  BY DEF Flow
<1>0. TypeOK /\ Course
  BY DEF Turn
<1>1. proxy # "over"
  BY DEF Next, Agent, AgentPrints, AgentCloses, AgentExits, Hermes, Spawn,
         SpawnFails, ReadLine, ReadBlank, SendToken, ReadEnd, Deadline,
         Abandon, Reap,
         ExitTimesOut, SendLast, Unheard, TimerGoesOff, RuntimeDies,
         Gateway, Ensured, EnsureFails, Connect, ConnectFails, Relay,
         RelayAnswer, RelayEnds, RelayBreaks, DownEnds, UpEnds, HangUp,
         ReadTimesOut, ClientAsks, ClientLeaves, vars, clientside
<1>2. InTransit /\ Progress
  BY <1>1 DEF Flow
<1>3. /\ hermes.read \in Nat /\ Len(got) \in Nat /\ Len(wire) \in Nat
      /\ Sent \in Nat
  BY <1>0, LinesAssumption DEF TypeOK, Sent
<1>4. CASE \/ Agent \/ TimerGoesOff \/ Ensured \/ ClientLeaves
           \/ ReadBlank \/ UNCHANGED vars
  <2>1. /\ UNCHANGED <<via, link, wire, got>>
        /\ hermes'.pc = hermes.pc
        /\ hermes'.read = hermes.read /\ hermes'.last = hermes.last
    BY <1>0, <1>4
       DEF Agent, AgentPrints, AgentCloses, AgentExits, TimerGoesOff,
           Ensured, ClientLeaves, ReadBlank, vars, agentside, clientside,
           TypeOK
  <2>2. InTransit' /\ Sent' = Sent
    BY <1>0, <1>2, <2>1, Still
  <2>. QED
    BY <1>2, <2>1, <2>2 DEF Progress, At
<1>5. CASE \/ Spawn \/ SpawnFails \/ ReadEnd \/ Deadline \/ Reap
           \/ ExitTimesOut \/ ClientAsks
  <2>1. /\ UNCHANGED <<via, link, wire, got>>
        /\ hermes'.read = hermes.read
        /\ hermes.pc \in {"idle", "starting", "reading", "waiting"}
        /\ hermes'.pc \in {"starting", "reading", "waiting", "ending"}
    BY <1>0, <1>5
       DEF Spawn, SpawnFails, ReadEnd, Deadline, Reap, ExitTimesOut,
           ClientAsks, GoTo, End, At, clientside, TypeOK
  <2>2. Sent = hermes.read
    BY <1>2, <2>1 DEF Progress
  <2>3. InTransit' /\ Sent' = Sent
    BY <1>0, <1>2, <1>3, <2>1, <2>2, Still
  <2>. QED
    BY <1>2, <1>3, <2>1, <2>2, <2>3 DEF Progress, At
<1>6. CASE ReadLine
  <2>1. /\ UNCHANGED <<via, link, wire, got>>
        /\ hermes' = [hermes EXCEPT !.pc = "sending", !.read = @ + 1]
        /\ At("reading")
    BY <1>6 DEF ReadLine, clientside
  <2>2. /\ hermes'.read = hermes.read + 1
        /\ hermes'.pc = "sending" /\ Sent = hermes.read
    BY <1>0, <1>2, <2>1 DEF Progress, TypeOK, At
  <2>3. InTransit' /\ Sent' = Sent
    BY <1>0, <1>2, <1>3, <2>1, <2>2, Still
  <2>. QED
    BY <1>2, <1>3, <2>1, <2>2, <2>3 DEF Progress, At
<1>7. CASE Unheard \/ Connect
  <2>1. /\ UNCHANGED <<via, wire, got>>
        /\ hermes'.read = hermes.read /\ hermes'.last = hermes.last
    BY <1>0, <1>7 DEF Unheard, Connect, GoTo, TypeOK, clientside
  <2>2. InTransit' /\ Sent' = Sent
    BY <1>0, <1>2, <2>1, Still
  <2>3. CASE Unheard
    BY <1>0, <1>2, <1>3, <2>1, <2>2, <2>3
       DEF Unheard, GoTo, Progress, At, TypeOK
  <2>4. CASE Connect
    <3>1. At("idle") /\ Sent = hermes.read
      BY <1>2, <2>4 DEF Connect, Unconnected, Progress, At
    <3>2. hermes'.pc \in {"idle", "starting"} /\ link' = "open"
      BY <1>0, <2>4, <3>1 DEF Connect, GoTo, At, TypeOK
    <3>. QED
      BY <1>2, <1>3, <2>1, <2>2, <3>1, <3>2 DEF Progress, At
  <2>. QED
    BY <1>7, <2>3, <2>4
<1>8. CASE SendToken
  <2>1. /\ UNCHANGED <<via, link, got>>
        /\ wire' = Append(wire, Token(hermes.read))
        /\ hermes' = [hermes EXCEPT !.pc = "reading"] /\ At("sending")
    BY <1>8 DEF SendToken, GoTo, clientside
  <2>2. /\ hermes.read > 0 /\ Token(hermes.read) \in Frames
        /\ Sent = hermes.read - 1
    BY <1>0, <1>2, <2>1, FramesTyped, LinesAssumption
       DEF Course, Progress, At, TypeOK
  <2>3. /\ hermes'.read = hermes.read /\ hermes'.last = hermes.last
        /\ hermes'.pc = "reading"
    BY <1>0, <2>1 DEF TypeOK
  <2>4. Frame(Sent + 1) = Token(hermes.read)
    BY <1>3, <2>2 DEF Frame
  <2>5. InTransit' /\ Sent' = Sent + 1
    BY <1>0, <1>2, <2>1, <2>2, <2>3, <2>4, Leaves
  <2>. QED
    BY <1>2, <1>3, <2>1, <2>2, <2>3, <2>5 DEF Progress, At
<1>9. CASE Abandon
  <2>1. /\ UNCHANGED <<via, got>> /\ At("sending")
        /\ hermes' = [hermes EXCEPT !.pc = "gone"]
        /\ via # "socket" /\ link # "closed" => link' # "closed"
    BY <1>9 DEF Abandon, GoTo, clientside
  <2>2. /\ hermes.read > 0 /\ Token(hermes.read) \in Frames
        /\ Sent = hermes.read - 1
        /\ via # "socket" => link # "closed"
    BY <1>0, <1>2, <2>1, FramesTyped, LinesAssumption
       DEF Course, Progress, At, TypeOK
  <2>3. /\ hermes'.read = hermes.read /\ hermes'.last = hermes.last
        /\ hermes'.pc = "gone"
    BY <1>0, <2>1 DEF TypeOK
  <2>4. Frame(Sent + 1) = Token(hermes.read)
    BY <1>3, <2>2 DEF Frame
  <2>5. CASE wire' = Append(wire, Token(hermes.read))
    <3>1. InTransit' /\ Sent' = Sent + 1
      BY <1>0, <1>2, <2>1, <2>2, <2>3, <2>4, <2>5, Leaves
    <3>. QED
      BY <1>2, <1>3, <2>1, <2>2, <2>3, <3>1 DEF Progress, At
  <2>6. CASE wire' = wire
    <3>1. InTransit' /\ Sent' = Sent
      BY <1>0, <1>2, <2>1, <2>3, <2>6, Still
    <3>. QED
      BY <1>2, <1>3, <2>1, <2>2, <2>3, <3>1 DEF Progress, At
  <2>. QED
    BY <1>9, <2>5, <2>6 DEF Abandon
<1>10. CASE SendLast
  <2>1. /\ UNCHANGED <<via, got>> /\ At("ending")
        /\ wire' = Append(wire, Ending(hermes.last))
        /\ hermes' = [hermes EXCEPT !.pc = "over"]
    BY <1>10 DEF SendLast, GoTo, clientside
  <2>2. /\ hermes.last \in Endings /\ Ending(hermes.last) \in Frames
        /\ Sent = hermes.read
    BY <1>0, <1>2, <2>1, FramesTyped DEF Course, Progress, At
  <2>3. /\ hermes'.read = hermes.read /\ hermes'.last = hermes.last
        /\ hermes'.pc = "over"
    BY <1>0, <2>1 DEF TypeOK
  <2>4. Frame(Sent + 1) = Ending(hermes.last)
    BY <1>3, <2>2 DEF Frame
  <2>5. InTransit' /\ Sent' = Sent + 1
    BY <1>0, <1>2, <2>1, <2>2, <2>3, <2>4, Leaves
  <2>. QED
    BY <1>2, <1>3, <2>1, <2>2, <2>3, <2>5 DEF Progress, At
<1>11. CASE RuntimeDies
  <2>1. /\ UNCHANGED <<via, got>>
        /\ hermes' = [hermes EXCEPT !.pc = "gone"]
        /\ wire' \in {wire, << >>}
        /\ link' = "closed" => link = "closed" /\ wire' = wire
    BY <1>11 DEF RuntimeDies, GoTo, clientside
  <2>2. /\ hermes'.read = hermes.read /\ hermes'.last = hermes.last
        /\ hermes'.pc = "gone"
    BY <1>0, <2>1 DEF TypeOK
  <2>3. CASE wire' = wire
    <3>1. InTransit' /\ Sent' = Sent
      BY <1>0, <1>2, <2>1, <2>2, <2>3, Still
    <3>. QED
      BY <1>2, <1>3, <2>1, <2>2, <3>1 DEF Progress, At
  <2>4. CASE wire' = << >> /\ wire # << >>
    <3>1. Sent' = Len(got) /\ Len(wire) > 0
      BY <1>0, <1>3, <2>1, <2>4 DEF Sent, TypeOK
    <3>2. \A i : Frame(i)' = Frame(i)
      BY <2>2 DEF Frame
    <3>3. ASSUME NEW i \in 1 .. Len(got)'
          PROVE  got'[i] = Frame(i)'
      BY <1>2, <2>1, <3>2 DEF InTransit
    <3>4. Len(wire)' = 0
      BY <2>4
    <3>5. InTransit'
      BY <3>3, <3>4 DEF InTransit
    <3>6. Sent' < Sent
      BY <1>3, <3>1 DEF Sent
    <3>. QED
      BY <1>2, <1>3, <2>1, <2>2, <2>4, <3>1, <3>5, <3>6 DEF Progress, At
  <2>. QED
    BY <2>1, <2>3, <2>4
<1>12. CASE Relay
  <2>1. /\ UNCHANGED <<via, hermes, link>> /\ via # "buffered"
        /\ wire # << >>
        /\ got' = Append(got, Head(wire)) /\ wire' = Tail(wire)
    BY <1>12 DEF Relay, agentside
  <2>2. InTransit' /\ Sent' = Sent
    BY <1>0, <1>2, <2>1, Arrives
  <2>. QED
    BY <1>2, <2>1, <2>2 DEF Progress, At
<1>13. CASE \/ EnsureFails \/ ConnectFails \/ RelayAnswer \/ RelayEnds
            \/ RelayBreaks \/ ReadTimesOut \/ DownEnds \/ UpEnds \/ HangUp
  BY <1>13
     DEF EnsureFails, ConnectFails, RelayAnswer, RelayEnds, RelayBreaks,
         ReadTimesOut, DownEnds, UpEnds, HangUp
<1>. QED
  BY <1>4, <1>5, <1>6, <1>7, <1>8, <1>9, <1>10, <1>11, <1>12, <1>13
     DEF Next, Hermes, Gateway

-----------------------------------------------------------------------------
(***************************************************************************)
(* What the client is left with.                                           *)
(***************************************************************************)
\* While the gateway relays, the client has frames of the turn.
LEMMA RelayedFollows ==
  ASSUME Turn, Flow, proxy # "over"
  PROVE  Follows(got) /\ (got = << >> => Follows(wire))
<1>. USE LinesAssumption DEF Turn, TypeOK
<1>1. InTransit /\ Progress
  BY DEF Flow
<1>2. /\ Len(got) \in Nat /\ Len(wire) \in Nat /\ hermes.read \in Nat
  OBVIOUS
<1>3. Sent = hermes.read + 1 =>
        hermes.last \in Endings /\ hermes.pc \in {"over", "gone"}
  BY <1>1, <1>2 DEF Progress, At, HermesAt
<1>4. Follows(got)
  BY <1>1, <1>2, <1>3 DEF Follows, InTransit, Progress, Sent
<1>5. CASE got = << >>
  <2>1. Len(got) = 0
    BY <1>5
  <2>2. ASSUME NEW i \in 1 .. Len(wire)
        PROVE  wire[i] = Frame(i)
    BY <1>1, <2>1 DEF InTransit
  <2>. QED
    BY <1>1, <1>2, <1>3, <2>1, <2>2 DEF Follows, Progress, Sent
<1>. QED
  BY <1>4, <1>5

\* A turn's frames with its ending among them end in it.
LEMMA EndedTold ==
  ASSUME TypeOK, NEW s \in Seq(Frames), Follows(s),
         Len(s) = hermes.read + 1
  PROVE  s # << >> /\ Last(s)[1] \in Endings
<1>1. hermes.read \in Nat
  BY LinesAssumption DEF TypeOK
<1>2. s[Len(s)] = Ending(hermes.last) /\ hermes.last \in Endings
  BY <1>1 DEF Follows, Frame
<1>. QED
  BY <1>1, <1>2, FrameKinds DEF Last

\* So does a stream the gateway ends with an error.
LEMMA ErrorTold ==
  ASSUME NEW s \in Seq(Frames)
  PROVE  /\ Append(s, Ending("error")) # << >>
         /\ Last(Append(s, Ending("error")))[1] \in Endings
<1> DEFINE error == Ending("error")
<1>1. error \in Frames /\ error[1] \in Endings
  BY FramesTyped, FrameKinds DEF Endings
<1>2. /\ Append(s, error) # << >>
      /\ Append(s, error)[Len(Append(s, error))] = error
  <2>. HIDE DEF error
  <2>. QED
    BY <1>1
<1>. QED
  BY <1>1, <1>2 DEF Last

\* A turn that is over stays as it is.
LEMMA OverStays ==
  ASSUME TypeOK, hermes.pc \in {"over", "gone"}, proxy = "over", [Next]_vars
  PROVE  /\ hermes'.pc \in {"over", "gone"}
         /\ hermes'.read = hermes.read /\ hermes'.last = hermes.last
BY DEF TypeOK, At, GoTo, End, agentside, clientside, Next, Agent, AgentPrints,
       AgentCloses, AgentExits, Hermes, Spawn, SpawnFails, ReadLine,
       ReadBlank, SendToken, ReadEnd, Deadline, Abandon, Reap, ExitTimesOut,
       SendLast, Unheard, TimerGoesOff, RuntimeDies, Gateway, Ensured,
       EnsureFails, Connect, ConnectFails, Relay, RelayAnswer, RelayEnds,
       RelayBreaks, DownEnds, UpEnds, HangUp, ReadTimesOut, ClientAsks,
       ClientLeaves, vars

\* A client the gateway is done with is left alone.
LEMMA OverQuiet ==
  ASSUME proxy = "over", [Next]_vars
  PROVE  UNCHANGED <<via, got, client>>
BY DEF agentside, clientside, Next, Agent, AgentPrints, AgentCloses,
       AgentExits, Hermes, Spawn, SpawnFails, ReadLine, ReadBlank, SendToken,
       ReadEnd, Deadline, Abandon, Reap, ExitTimesOut, SendLast, Unheard,
       TimerGoesOff, RuntimeDies, Gateway, Ensured, EnsureFails, Connect,
       ConnectFails, Relay, RelayAnswer, RelayEnds, RelayBreaks, DownEnds,
       UpEnds, HangUp, ReadTimesOut, ClientAsks, ClientLeaves, vars

\* The frames the client is left with, while Hermes stands still.
LEMMA LeftWith ==
  ASSUME TypeOK, NEW s \in Seq(Frames), Follows(s), UNCHANGED hermes,
         got' \in {s, Append(s, Ending("error"))}
  PROVE  GotInOrder' /\ DoneDelivered'
<1>1. InOrder(got') /\ DoneIn(got')
  BY FollowsInOrder, FollowsDone
<1>2. GotInOrder'
  BY <1>1 DEF InOrder, GotInOrder
<1>3. DoneDelivered'
  BY <1>1 DEF DoneIn, DoneDelivered
<1>. QED
  BY <1>2, <1>3

\* Every way the gateway's handler ends leaves the client with a stream that
\* is in order and, on an HTTP request, ended.
LEMMA SettledStep ==
  ASSUME Inv, [Next]_vars
  PROVE  Settled'
<1>. SUFFICES ASSUME proxy' = "over"
              PROVE  GotInOrder' /\ DoneDelivered' /\ ClientIsTold'
  BY DEF Settled
<1>0. TypeOK /\ Course
  BY DEF Inv, Turn
<1>1. CASE proxy = "over"
  <2>1. GotInOrder /\ DoneDelivered /\ ClientIsTold
    BY <1>1 DEF Inv, Settled
  <2>2. UNCHANGED <<via, got, client>>
    BY <1>1, OverQuiet
  <2>3. GotInOrder'
    BY <2>1, <2>2 DEF GotInOrder
  <2>4. ClientIsTold'
    BY <1>1, <2>1, <2>2 DEF ClientIsTold
  <2>5. DoneDelivered'
    <3>1. CASE hermes.pc \in {"over", "gone"}
      <4>1. /\ hermes'.pc \in {"over", "gone"}
            /\ hermes'.read = hermes.read /\ hermes'.last = hermes.last
        BY <1>0, <1>1, <3>1, OverStays
      <4>. QED
        BY <2>1, <2>2, <4>1 DEF DoneDelivered, DoneIn
    <3>2. CASE hermes.pc \notin {"over", "gone"}
      BY <2>1, <2>2, <3>2 DEF DoneDelivered, DoneIn
    <3>. QED
      BY <3>1, <3>2
  <2>. QED
    BY <2>3, <2>4, <2>5
<1>2. CASE proxy # "over"
  <2>1. /\ Follows(got) /\ Progress
        /\ got = << >> => Follows(wire)
        /\ got \in Seq(Frames) /\ wire \in Seq(Frames)
    BY <1>0, <1>2, RelayedFollows DEF Inv, Flow, TypeOK
  <2>2. CASE EnsureFails \/ ConnectFails \/ RelayBreaks \/ ReadTimesOut
    <3>1. /\ UNCHANGED <<via, hermes, client>>
          /\ got' \in {got, Append(got, Ending("error"))}
          /\ via # "socket" /\ client = "here" =>
               got' = Append(got, Ending("error"))
      BY <2>2
         DEF EnsureFails, ConnectFails, RelayBreaks, ReadTimesOut, Tell,
             agentside
    <3>2. ClientIsTold'
      BY <2>1, <3>1, ErrorTold DEF ClientIsTold
    <3>. QED
      BY <1>0, <2>1, <3>1, <3>2, LeftWith
  <2>3. CASE RelayEnds
    <3>1. /\ UNCHANGED <<via, hermes, client, got>>
          /\ via # "socket" /\ link = "closed" /\ wire = << >>
      BY <2>3 DEF RelayEnds, agentside
    <3>2. Len(got) = hermes.read + 1
      BY <1>0, <2>1, <3>1, LinesAssumption DEF Progress, Sent, TypeOK
    <3>3. ClientIsTold'
      BY <1>0, <2>1, <3>1, <3>2, EndedTold DEF ClientIsTold
    <3>. QED
      BY <1>0, <2>1, <3>1, <3>3, LeftWith
  <2>4. CASE RelayAnswer
    <3>1. /\ UNCHANGED <<via, hermes, client>>
          /\ via = "buffered" /\ link = "closed"
          /\ got' = IF client = "here" THEN got \o wire ELSE got
      BY <2>4 DEF RelayAnswer, agentside
    <3>2. got = << >> /\ Len(wire) = hermes.read + 1
      BY <1>0, <2>1, <3>1, LinesAssumption DEF Progress, Sent, TypeOK
    <3>3. got \o wire = wire
      BY <2>1, <3>2
    <3>4. CASE client = "here"
      <4>1. got' = wire
        BY <3>1, <3>3, <3>4
      <4>2. ClientIsTold'
        BY <1>0, <2>1, <3>2, <4>1, EndedTold DEF ClientIsTold
      <4>. QED
        BY <1>0, <2>1, <3>1, <3>2, <4>1, <4>2, LeftWith
    <3>5. CASE client # "here"
      <4>1. got' = got /\ ClientIsTold'
        BY <3>1, <3>5 DEF ClientIsTold
      <4>. QED
        BY <1>0, <2>1, <3>1, <4>1, LeftWith
    <3>. QED
      BY <3>4, <3>5
  <2>5. CASE DownEnds \/ UpEnds \/ HangUp
    <3>1. /\ UNCHANGED <<via, hermes, client, got>>
          /\ via = "socket" \/ client # "here"
      BY <2>5 DEF DownEnds, UpEnds, HangUp, agentside
    <3>2. ClientIsTold'
      BY <3>1 DEF ClientIsTold
    <3>. QED
      BY <1>0, <2>1, <3>1, <3>2, LeftWith
  <2>. QED
    BY <1>2, <2>2, <2>3, <2>4, <2>5
       DEF agentside, clientside, Next, Agent, AgentPrints, AgentCloses,
           AgentExits, Hermes, Spawn, SpawnFails, ReadLine, ReadBlank,
           SendToken, ReadEnd, Deadline, Abandon, Reap, ExitTimesOut,
           SendLast, Unheard, TimerGoesOff, RuntimeDies, Gateway, Ensured,
           Connect, Relay, ClientAsks, ClientLeaves, vars
<1>. QED
  BY <1>1, <1>2

-----------------------------------------------------------------------------
(***************************************************************************)
(* The theorems.                                                           *)
(***************************************************************************)
\* Nothing has begun.
LEMMA InitInv == Init => Inv
<1>. SUFFICES ASSUME Init PROVE Inv
  OBVIOUS
<1>1. << >> \in Seq(Frames)
  OBVIOUS
<1>2. Turn
  <2>1. agent.state = "none" /\ hermes.pc = "idle"
        /\ hermes.read = 0 /\ hermes.last = "none"
    BY DEF Init
  <2>2. /\ agent \in [state : {"none", "running", "ok", "failed", "killed"},
                     printed : 0 .. Lines, blank : 0 .. Lines,
                     closed : BOOLEAN]
        /\ hermes \in [pc : HermesAt, read : 0 .. Lines, blank : 0 .. Lines,
                      last : Endings \cup {"none"}]
    BY LinesAssumption DEF Init, HermesAt
  <2>3. TypeOK
    BY <1>1, <2>2 DEF Init, TypeOK
  <2>. QED
    BY <2>1, <2>3 DEF Turn, Course, EndingMeansAgentEnded, At
<1>3. Unconnected
  BY DEF Init, Unconnected, At
<1>4. InTransit
  BY DEF Init, InTransit
<1>5. Progress
  BY DEF Init, Progress, Sent, At
<1>6. Settled
  BY DEF Init, Settled
<1>. QED
  BY <1>2, <1>3, <1>4, <1>5, <1>6 DEF Inv, Flow

\* One step of anybody.
LEMMA NextInv ==
  ASSUME Inv, [Next]_vars
  PROVE  Inv'
<1>1. Turn'
  BY TurnStep DEF Inv
<1>2. Unconnected'
  BY UnconnectedStep DEF Inv
<1>3. Flow'
  BY FlowStep DEF Inv
<1>4. Settled'
  BY SettledStep
<1>. QED
  BY <1>1, <1>2, <1>3, <1>4 DEF Inv

\* What the invariant says of the client, while the gateway relays and after.
LEMMA InvReceived ==
  ASSUME Inv
  PROVE  GotInOrder /\ DoneDelivered /\ ClientIsTold
<1>1. CASE proxy = "over"
  BY <1>1 DEF Inv, Settled
<1>2. CASE proxy # "over"
  <2>1. /\ TypeOK /\ got \in Seq(Frames) /\ Follows(got)
    BY <1>2, RelayedFollows DEF Inv, Turn, TypeOK
  <2>2. InOrder(got) /\ DoneIn(got)
    BY <2>1, FollowsInOrder, FollowsDone
  <2>. QED
    BY <1>2, <2>2 DEF InOrder, GotInOrder, DoneDelivered, ClientIsTold
<1>. QED
  BY <1>1, <1>2

\* A "done" in the client's hands is true.
LEMMA DeliveredTrue ==
  ASSUME TypeOK, Course, DoneDelivered
  PROVE  DoneIsTrue
<1>. SUFFICES ASSUME "done" \in Told
              PROVE  /\ agent.state = "ok"
                     /\ IsPrefix(Lined(agent.printed), got)
  BY DEF DoneIsTrue
<1>0. got \in Seq(Frames) /\ hermes.read \in 0 .. Lines
  BY DEF TypeOK
<1>1. PICK i \in 1 .. Len(got) : got[i][1] = "done"
  BY <1>0 DEF Told
<1>2. got[i] = Ending("done")
  <2>1. got[i] \in Frames
    BY <1>0, <1>1
  <2>2. PICK e \in Endings : got[i] = Ending(e)
    BY <1>1, <2>1, FrameKinds DEF Frames
  <2>. QED
    BY <1>1, <2>2, FrameKinds
<1>3. /\ hermes.last = "done" /\ i = hermes.read + 1
      /\ \A j \in 1 .. hermes.read : got[j] = Token(j)
  BY <1>1, <1>2 DEF DoneDelivered, DoneIn
<1>4. agent.state = "ok" /\ hermes.read = agent.printed
  BY <1>3 DEF Course
<1> DEFINE n == hermes.read
           l == Lined(n)
<1>5. l \in Seq(Frames) /\ Len(l) = n /\ \A j \in 1 .. n : l[j] = Token(j)
  BY <1>0, LinedTyped
<1>6. n \in Nat /\ n <= Len(got)
  BY <1>0, <1>1, <1>3, LinesAssumption
<1>7. SubSeq(l, 1, Len(l)) = SubSeq(got, 1, Len(l))
  <2>. HIDE DEF l
  <2>1. /\ SubSeq(l, 1, n) \in Seq(Frames) /\ Len(SubSeq(l, 1, n)) = n
        /\ SubSeq(got, 1, n) \in Seq(Frames) /\ Len(SubSeq(got, 1, n)) = n
    BY <1>0, <1>5, <1>6
  <2>2. \A j \in 1 .. n : SubSeq(l, 1, n)[j] = SubSeq(got, 1, n)[j]
    BY <1>0, <1>3, <1>5, <1>6
  <2>. QED
    BY <1>5, <2>1, <2>2, SeqEqual
<1>8. IsPrefix(l, got)
  BY <1>0, <1>5, <1>6, <1>7 DEF IsPrefix
<1>. QED
  BY <1>4, <1>8

\* The invariant holds of every behaviour.
LEMMA AlwaysInv == Spec => []Inv
<1>1. Inv /\ [Next]_vars => Inv'
  BY NextInv
<1>. QED
  BY InitInv, <1>1, PTL DEF Spec

\* Every variable keeps its type.
THEOREM StreamTyped == Spec => []TypeOK
<1>1. Inv => TypeOK
  BY DEF Inv, Turn
<1>. QED
  BY AlwaysInv, <1>1, PTL

\* The client gets the lines that are not blank from the first on, in order
\* and without gaps, then the turn's ending, then at most one error of the
\* gateway's.
THEOREM InOrderAlways == Spec => []GotInOrder
<1>1. Inv => GotInOrder
  BY InvReceived
<1>. QED
  BY AlwaysInv, <1>1, PTL

\* A client that is told "done" has every line the agent ever printed that is
\* not blank, and the agent ended by itself, well.
THEOREM DoneTrue == Spec => []DoneIsTrue
<1>1. Inv => DoneIsTrue
  BY InvReceived, DeliveredTrue DEF Inv, Turn
<1>. QED
  BY AlwaysInv, <1>1, PTL

\* Hermes calls a turn done or failed only when the agent process has ended.
THEOREM EndingTrue == Spec => []EndingMeansAgentEnded
<1>1. Inv => EndingMeansAgentEnded
  BY DEF Inv, Turn
<1>. QED
  BY AlwaysInv, <1>1, PTL

\* A client that stays with its HTTP request is left with "done" or "error",
\* whatever became of Hermes, the runtime and the connection.
THEOREM StreamTold == Spec => []ClientIsTold
<1>1. Inv => ClientIsTold
  BY InvReceived
<1>. QED
  BY AlwaysInv, <1>1, PTL
=============================================================================
