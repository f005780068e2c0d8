------------------------ MODULE AccountLinkingProofs ------------------------
(***************************************************************************)
(* Proofs about AccountLinking for any addresses, users, sessions,         *)
(* callbacks, messages and number of connections.                          *)
(***************************************************************************)
EXTENDS AccountLinking, TLAPS

-----------------------------------------------------------------------------
(***************************************************************************)
(* The inductive invariant.                                                *)
(***************************************************************************)

\* A session is for an address, and so is what a callback has loaded of it.
SendersKnown ==
  /\ \A s \in Sessions : Exists(s) => auth[s].sender \in Addresses
  /\ \A c \in Callbacks : Exchanging(c) =>
       /\ cb[c].session \in Sessions /\ Exists(cb[c].session)
       /\ cb[c].seen.sender = auth[cb[c].session].sender

\* A number is only sent links for sessions that there are.
InvitedSessionsExist ==
  \A m \in Messages : msg[m].session # None => Exists(msg[m].session)

IInv == /\ TypeOK /\ SendersKnown /\ InvitedSessionsExist
        /\ LinksAreGranted /\ AlreadyLinkedIsTrue /\ RightAnswer

-----------------------------------------------------------------------------

CallbackRow == [pc : {"idle", "exchanging", "done"},
                session : Maybe(Sessions), seen : Row]
MessageRow == [pc : {"idle", "asking", "posting", "done"},
               key : Maybe(Keys), inline : BOOLEAN, user : Maybe(Users),
               session : Maybe(Sessions)]

\* Requests that are over.
LEMMA OverTyped == CallbackOver \in CallbackRow /\ MessageOver \in MessageRow
  BY DEF CallbackOver, NoCallback, NoRow, Row, Maybe, CallbackRow,
         MessageOver, NoMessage, MessageRow

\* What a sign-in makes of the session: as SQLAlchemy writes it, complete or
\* with the status another callback gave it, and of the new or an old user.
LEMMA CompletedRow ==
  ASSUME IInv, NEW c \in Callbacks, NEW u \in Users, Exchanging(c)
  PROVE  LET old == auth[cb[c].session] new == Completed(c, u) IN
         /\ new \in Row
         /\ new.sender = old.sender
         /\ new.status \in {"COMPLETE", old.status}
         /\ new.user \in {u, old.user}
<1>. DEFINE old == auth[cb[c].session]
            row == [cb[c].seen EXCEPT !.status = "COMPLETE", !.user = u]
<1>1. old \in Row /\ cb[c].seen \in Row /\ cb[c].seen.sender = old.sender
  BY DEF IInv, TypeOK, SendersKnown
<1>2. row.status = "COMPLETE" /\ row.user = u /\ row.sender = old.sender
  BY <1>1 DEF Row
<1>3. Completed(c, u) =
        [f \in {"status", "sender", "user"} |->
           IF row[f] = cb[c].seen[f] THEN old[f] ELSE row[f]]
  BY <1>1 DEF Completed, Write, Row
<1>. HIDE DEF row, old
<1>. QED
  BY <1>1, <1>2, <1>3 DEF Row, Maybe, old

\* What a refusal makes of it.
LEMMA RefusedRow ==
  ASSUME IInv, NEW c \in Callbacks, Exchanging(c)
  PROVE  LET old == auth[cb[c].session]
             new == Write(c, [cb[c].seen EXCEPT !.status = "FAILED"]) IN
         /\ new \in Row
         /\ new.sender = old.sender
         /\ new.status \in {"FAILED", old.status}
         /\ new.user = old.user
  BY DEF IInv, TypeOK, SendersKnown, Write, Row, Maybe

\* The key a callback links.
LEMMA SenderKeyIsKey ==
  ASSUME IInv, NEW c \in Callbacks, Exchanging(c)
  PROVE  /\ SenderKey(c) \in Keys
         /\ SenderKey(c) = <<"linq", auth[cb[c].session].sender>>
         /\ cb[c].session \in Sessions
  BY DEF IInv, SendersKnown, SenderKey, Keys, Providers

\* Every step keeps the types.
LEMMA TypeStep ==
  ASSUME IInv, [Next]_vars
  PROVE  TypeOK'
<1>. USE MemberAssumption, NoneAssumption
<1>0. TypeOK
  BY DEF IInv
<1>1. ASSUME NEW s \in Sessions, StartPage(s)
      PROVE  TypeOK'
  BY <1>0, <1>1 DEF TypeOK, StartPage, Row
<1>2. ASSUME NEW s \in Sessions, SessionExpires(s)
      PROVE  TypeOK'
  BY <1>0, <1>2 DEF TypeOK, SessionExpires
<1>3. ASSUME NEW c \in Callbacks, NEW s \in Sessions,
             CallbackExpired(c, s) \/ CallbackCancelled(c, s)
      PROVE  TypeOK'
  <2>1. /\ UNCHANGED <<expired, link, msg, granted>> /\ Done(c)
        /\ \E t \in {"EXPIRED", "FAILED"} :
             auth' = [auth EXCEPT ![s].status = t]
    BY <1>3 DEF CallbackExpired, CallbackCancelled
  <2>2. auth' \in [Sessions -> Row]
    BY <1>0, <2>1 DEF TypeOK, Row
  <2>3. cb' \in [Callbacks -> CallbackRow]
    BY <1>0, <2>1, OverTyped DEF TypeOK, Done, CallbackRow
  <2>. QED
    BY <1>0, <2>1, <2>2, <2>3 DEF TypeOK, CallbackRow
<1>4. ASSUME NEW c \in Callbacks, NEW s \in Sessions, BeginExchange(c, s)
      PROVE  TypeOK'
  BY <1>0, <1>4 DEF TypeOK, BeginExchange, Row, Maybe, rows
<1>5. CallbackOver \in [pc : {"idle", "exchanging", "done"},
                       session : Maybe(Sessions), seen : Row]
  BY OverTyped DEF CallbackRow
<1>6. ASSUME NEW c \in Callbacks, ExchangeRefused(c)
      PROVE  TypeOK'
  BY <1>0, <1>5, <1>6, RefusedRow, SenderKeyIsKey
     DEF TypeOK, ExchangeRefused, Done
<1>7. ASSUME NEW c \in Callbacks,
             ExchangeLost(c) \/ \E u \in Users : SignInRejected(c, u)
      PROVE  TypeOK'
  BY <1>0, <1>5, <1>7 DEF TypeOK, ExchangeLost, SignInRejected, Done, rows
<1>8. ASSUME NEW c \in Callbacks, NEW u \in Users, SignIn(c, u)
      PROVE  TypeOK'
  <2>1. /\ Completed(c, u) \in Row /\ SenderKey(c) \in Keys
        /\ cb[c].session \in Sessions
    BY <1>8, CompletedRow, SenderKeyIsKey DEF SignIn
  <2>2. auth' \in [Sessions -> Row]
    BY <1>0, <1>8, <2>1 DEF SignIn, TypeOK
  <2>3. /\ link' \in [Keys -> [user : Maybe(Users),
                             via : Sessions \cup {None, "admin"}]]
        /\ \A k \in Keys : link'[k].user = None <=> link'[k].via = None
    BY <1>0, <1>8, <2>1 DEF SignIn, Upsert, TypeOK, Maybe
  <2>4. granted' \subseteq Keys \X Users
    BY <1>0, <1>8, <2>1 DEF SignIn, TypeOK
  <2>. QED
    BY <1>0, <1>5, <1>8, <2>2, <2>3, <2>4 DEF SignIn, TypeOK, Done
<1>9. ASSUME NEW k \in Keys, NEW u \in Users, AdminLink(k, u)
      PROVE  TypeOK'
  BY <1>0, <1>9 DEF TypeOK, AdminLink, Upsert, Maybe
<1>10. ASSUME NEW m \in Messages, NEW k \in Keys, NEW inline \in BOOLEAN,
              ReferToAdmin(m, k) \/ Accept(m, k, inline)
       PROVE  TypeOK'
  <2>1. /\ UNCHANGED <<rows, cb, granted>>
        /\ \E r \in MessageRow : msg' = [msg EXCEPT ![m] = r]
    <3>1. CASE ReferToAdmin(m, k)
      BY <3>1, OverTyped DEF ReferToAdmin
    <3>2. CASE Accept(m, k, inline)
      <4>. DEFINE r == [NoMessage EXCEPT !.pc = "asking", !.key = k,
                          !.inline = inline, !.user = LinkOf(k).user]
      <4>1. link[k].user \in Maybe(Users)
        BY <1>0 DEF TypeOK
      <4>2. r \in MessageRow
        BY <4>1 DEF MessageRow, NoMessage, Maybe, LinkOf
      <4>. QED
        BY <3>2, <4>2 DEF Accept
    <3>. QED
      BY <1>10, <3>1, <3>2
  <2>2. msg' \in [Messages -> MessageRow]
    BY <1>0, <2>1 DEF TypeOK, MessageRow
  <2>. QED
    BY <1>0, <2>1, <2>2 DEF TypeOK, MessageRow, rows
<1>11. ASSUME NEW m \in Messages, NEW k \in Keys, NEW inline \in BOOLEAN,
              NEW s \in Sessions, Invite(m, k, inline, s)
       PROVE  TypeOK'
  BY <1>0, <1>11
     DEF TypeOK, Invite, MessageOver, NoMessage, Maybe, NoRow, Row, Keys
<1>12. ASSUME NEW m \in Messages, Reply(m)
       PROVE  TypeOK'
  <2>1. UNCHANGED <<rows, cb, granted>>
    BY <1>12 DEF Reply, RuntimeAnswers, Posted, Lost
  <2>2. msg \in [Messages -> MessageRow]
    BY <1>0 DEF TypeOK, MessageRow
  <2>3. [msg[m] EXCEPT !.pc = "posting"] \in MessageRow
    BY <2>2 DEF MessageRow
  <2>4. msg' \in [Messages -> MessageRow]
    BY <1>12, <2>2, <2>3, OverTyped DEF Reply, RuntimeAnswers, Posted, Lost
  <2>. QED
    BY <1>0, <2>1, <2>4 DEF TypeOK, MessageRow, rows
<1>13. CASE Refused
  <2>1. UNCHANGED <<rows, granted>>
    BY <1>13 DEF Refused
  <2>2. cb \in [Callbacks -> CallbackRow] /\ msg \in [Messages -> MessageRow]
    BY <1>0 DEF TypeOK, CallbackRow, MessageRow
  <2>3. cb' \in [Callbacks -> CallbackRow] /\ msg' \in [Messages -> MessageRow]
    BY <1>13, <2>2, OverTyped DEF Refused, Done
  <2>. QED
    BY <1>0, <2>1, <2>3 DEF TypeOK, CallbackRow, MessageRow, rows
<1>14. CASE Restart
  BY <1>0, <1>5, <1>14
     DEF TypeOK, Restart, MessageOver, NoMessage, Maybe, rows
<1>15. CASE UNCHANGED vars
  BY <1>0, <1>15 DEF TypeOK, vars, rows
<1>. QED
  BY <1>1, <1>2, <1>3, <1>4, <1>6, <1>7, <1>8, <1>9, <1>10, <1>11, <1>12,
     <1>13, <1>14, <1>15
     DEF Next, Resume, InviteUnlinked, InviteAgain

\* A callback that is over knows nothing; the others know what they knew.
LEMMA CallbacksStay ==
  ASSUME IInv, TypeOK',
         \A s \in Sessions : /\ auth'[s].sender = auth[s].sender
                             /\ Exists(s)' <=> Exists(s),
         cb' = cb \/ \E c \in Callbacks : Done(c)
  PROVE  SendersKnown'
<1>1. \A c \in Callbacks : Exchanging(c)' => Exchanging(c) /\ cb'[c] = cb[c]
  BY DEF IInv, TypeOK, Done, CallbackOver, NoCallback, Exchanging
<1>. QED
  BY <1>1 DEF IInv, SendersKnown, Exchanging

\* A message that is over names nobody; if one is, or one goes on, the others
\* name whom they named.
LEMMA MessagesStay ==
  ASSUME IInv, granted \subseteq granted',
         \A s \in Sessions : /\ auth'[s].sender = auth[s].sender
                             /\ Exists(s) => Exists(s)',
         \A m \in Messages :
           \/ msg'[m].user = None /\ msg'[m].session = None
           \/ msg'[m].user = msg[m].user /\ msg'[m].key = msg[m].key
              /\ msg'[m].session = msg[m].session
  PROVE  InvitedSessionsExist' /\ RightAnswer'
<1>1. \A m \in Messages : msg[m].session # None => msg[m].session \in Sessions
  BY DEF IInv, TypeOK, Maybe
<1>. QED
  BY <1>1 DEF IInv, InvitedSessionsExist, RightAnswer

Known == /\ SendersKnown /\ InvitedSessionsExist
         /\ LinksAreGranted /\ AlreadyLinkedIsTrue /\ RightAnswer

\* Sessions that are only marked, and not as complete, and a callback that is
\* over keep what is known.
LEMMA MarkedKnown ==
  ASSUME IInv, TypeOK', UNCHANGED <<link, msg, granted>>,
         cb' = cb \/ \E c \in Callbacks : Done(c),
         \A s \in Sessions :
           /\ auth'[s].sender = auth[s].sender
           /\ auth'[s].user = auth[s].user
           /\ Exists(s)' <=> Exists(s)
           /\ auth'[s].status = "COMPLETE" => auth[s].status = "COMPLETE"
  PROVE  Known'
<1>1. SendersKnown'
  BY CallbacksStay
<1>2. InvitedSessionsExist' /\ RightAnswer'
  BY MessagesStay
<1>3. LinksAreGranted' /\ AlreadyLinkedIsTrue'
  BY DEF IInv, LinksAreGranted, AlreadyLinkedIsTrue
<1>. QED
  BY <1>1, <1>2, <1>3 DEF Known

\* Messages that go on or are over keep it, too.
LEMMA UnmarkedKnown ==
  ASSUME IInv, UNCHANGED <<rows, cb, granted>>,
         \A m \in Messages :
           \/ msg'[m].user = None /\ msg'[m].session = None
           \/ msg'[m].user = msg[m].user /\ msg'[m].key = msg[m].key
              /\ msg'[m].session = msg[m].session
  PROVE  Known'
<1>1. InvitedSessionsExist' /\ RightAnswer'
  BY MessagesStay DEF rows, Exists
<1>. QED
  BY <1>1
     DEF rows, Known, IInv, SendersKnown, Exists, Exchanging, LinksAreGranted,
         AlreadyLinkedIsTrue

\* A sign-in links the number the session is for.
LEMMA SignInKnown ==
  ASSUME IInv, TypeOK', NEW c \in Callbacks, NEW u \in Users, SignIn(c, u)
  PROVE  Known'
<1>. DEFINE s == cb[c].session
            k == SenderKey(c)
            new == Completed(c, u)
<1>1. /\ s \in Sessions /\ k \in Keys /\ k = <<"linq", auth[s].sender>>
      /\ new.sender = auth[s].sender
      /\ new.status \in {"COMPLETE", auth[s].status}
      /\ new.user \in {u, auth[s].user} /\ Exists(s)
  BY CompletedRow, SenderKeyIsKey DEF SignIn, IInv, SendersKnown
<1>2. /\ auth' = [auth EXCEPT ![s] = new]
      /\ link' = [link EXCEPT ![k] = [user |-> u, via |-> s]]
      /\ granted' = granted \cup {<<k, u>>}
      /\ Done(c) /\ msg' = msg
  BY DEF SignIn, Upsert
<1>. HIDE DEF s, k, new
<1>3. \A t \in Sessions : /\ auth'[t].sender = auth[t].sender
                          /\ Exists(t)' <=> Exists(t)
                          /\ \/ auth'[t].user = auth[t].user
                             \/ t = s /\ auth'[t].user = u
                          /\ t # s => auth'[t].status = auth[t].status
  <2>1. \A t \in Sessions : auth'[t] = IF t = s THEN new ELSE auth[t]
    BY <1>1, <1>2 DEF IInv, TypeOK
  <2>2. ASSUME NEW t \in Sessions, t # s
        PROVE  auth'[t] = auth[t]
    BY <2>1, <2>2
  <2>3. auth'[s] = new
    BY <1>1, <2>1
  <2>4. auth'[s].status # "none" /\ auth[s].status # "none"
    BY <1>1, <2>3 DEF Exists
  <2>. QED
    BY <1>1, <2>2, <2>3, <2>4 DEF Exists
<1>4. SendersKnown'
  BY <1>2, <1>3, CallbacksStay
<1>5. InvitedSessionsExist' /\ RightAnswer'
  BY <1>2, <1>3, MessagesStay
<1>6. \A l \in Keys : link'[l].user = IF l = k THEN u ELSE link[l].user
  BY <1>1, <1>2 DEF IInv, TypeOK
<1>7. LinksAreGranted'
  BY <1>1, <1>2, <1>3, <1>6 DEF IInv, LinksAreGranted
<1>8. AlreadyLinkedIsTrue'
  <2>1. u # None
    BY MemberAssumption
  <2>2. \A t \in Sessions : Exists(t) => <<"linq", auth[t].sender>> \in Keys
    BY DEF IInv, SendersKnown, Keys, Providers
  <2>. QED
    BY <1>1, <1>3, <1>6, <2>1, <2>2 DEF IInv, AlreadyLinkedIsTrue, Exists
<1>. QED
  BY <1>4, <1>5, <1>7, <1>8 DEF Known

\* Every step keeps what is known.
LEMMA KnownStep ==
  ASSUME IInv, TypeOK', [Next]_vars
  PROVE  Known'
<1>1. ASSUME NEW s \in Sessions, StartPage(s) PROVE Known'
  <2>1. ASSUME NEW t \in Sessions
        PROVE  /\ auth'[t].sender = auth[t].sender
               /\ auth'[t].user = auth[t].user
               /\ Exists(t)' <=> Exists(t)
               /\ auth'[t].status = "COMPLETE" => auth[t].status = "COMPLETE"
    BY <1>1 DEF StartPage, IInv, TypeOK, Row, Exists
  <2>. QED
    BY <1>1, <2>1, MarkedKnown DEF StartPage
<1>2. ASSUME NEW c \in Callbacks, NEW s \in Sessions,
             CallbackExpired(c, s) \/ CallbackCancelled(c, s)
      PROVE  Known'
  <2>0. \E x \in {"EXPIRED", "FAILED"} : auth' = [auth EXCEPT ![s].status = x]
    BY <1>2 DEF CallbackExpired, CallbackCancelled
  <2>1. ASSUME NEW t \in Sessions
        PROVE  /\ auth'[t].sender = auth[t].sender
               /\ auth'[t].user = auth[t].user
               /\ Exists(t)' <=> Exists(t)
               /\ auth'[t].status = "COMPLETE" => auth[t].status = "COMPLETE"
    BY <1>2, <2>0
       DEF CallbackExpired, CallbackCancelled, Calls, IInv, TypeOK, Row,
           Exists
  <2>. QED
    BY <1>2, <2>1, MarkedKnown DEF CallbackExpired, CallbackCancelled
<1>3. ASSUME NEW c \in Callbacks, ExchangeRefused(c) PROVE Known'
  <2>. DEFINE new == Write(c, [cb[c].seen EXCEPT !.status = "FAILED"])
  <2>1. /\ cb[c].session \in Sessions /\ Exists(cb[c].session)
        /\ new.sender = auth[cb[c].session].sender
        /\ new.status \in {"FAILED", auth[cb[c].session].status}
        /\ new.user = auth[cb[c].session].user
    BY <1>3, RefusedRow, SenderKeyIsKey
       DEF ExchangeRefused, IInv, SendersKnown
  <2>2. auth' = [auth EXCEPT ![cb[c].session] = new]
    BY <1>3 DEF ExchangeRefused
  <2>. HIDE DEF new
  <2>3. ASSUME NEW t \in Sessions
        PROVE  /\ auth'[t].sender = auth[t].sender
               /\ auth'[t].user = auth[t].user
               /\ Exists(t)' <=> Exists(t)
               /\ auth'[t].status = "COMPLETE" => auth[t].status = "COMPLETE"
    BY <2>1, <2>2 DEF IInv, TypeOK, Exists
  <2>. QED
    BY <1>3, <2>3, MarkedKnown DEF ExchangeRefused
<1>4. ASSUME NEW c \in Callbacks,
             ExchangeLost(c) \/ \E u \in Users : SignInRejected(c, u)
      PROVE  Known'
  BY <1>4, MarkedKnown DEF ExchangeLost, SignInRejected, rows, Exists
<1>5. ASSUME NEW c \in Callbacks, NEW s \in Sessions, BeginExchange(c, s)
      PROVE  Known'
  <2>1. ASSUME NEW d \in Callbacks
        PROVE  cb'[d] = IF d = c THEN [pc |-> "exchanging", session |-> s,
                                       seen |-> auth[s]] ELSE cb[d]
    BY <1>5 DEF BeginExchange, IInv, TypeOK
  <2>2. SendersKnown'
    BY <1>5, <2>1
       DEF BeginExchange, Calls, IInv, SendersKnown, Exchanging, Exists, rows
  <2>. QED
    BY <1>5, <2>2
       DEF BeginExchange, rows, Known, IInv, InvitedSessionsExist, Exists,
           LinksAreGranted, AlreadyLinkedIsTrue, RightAnswer
<1>6. ASSUME NEW k \in Keys, NEW u \in Users, AdminLink(k, u) PROVE Known'
  <2>1. \A l \in Keys : link'[l].user = IF l = k THEN u ELSE link[l].user
    BY <1>6 DEF AdminLink, Upsert, IInv, TypeOK
  <2>2. /\ granted' = granted \cup {<<k, u>>}
        /\ UNCHANGED <<auth, expired, cb, msg>>
    BY <1>6 DEF AdminLink
  <2>3. SendersKnown'
    BY <2>2 DEF IInv, SendersKnown, Exists, Exchanging
  <2>4. InvitedSessionsExist' /\ RightAnswer'
    BY <2>2, MessagesStay DEF Exists
  <2>5. LinksAreGranted'
    BY <2>1, <2>2 DEF IInv, LinksAreGranted
  <2>6. AlreadyLinkedIsTrue'
    <3>1. u # None
      BY MemberAssumption
    <3>2. \A t \in Sessions : Exists(t) => <<"linq", auth[t].sender>> \in Keys
      BY DEF IInv, SendersKnown, Keys, Providers
    <3>. QED
      BY <2>1, <2>2, <3>1, <3>2 DEF IInv, AlreadyLinkedIsTrue, Exists
  <2>. QED
    BY <2>3, <2>4, <2>5, <2>6 DEF Known
<1>7. ASSUME NEW c \in Callbacks, NEW u \in Users, SignIn(c, u) PROVE Known'
  BY <1>7, SignInKnown
<1>8. ASSUME NEW m \in Messages, NEW k \in Keys, NEW inline \in BOOLEAN,
             NEW s \in Sessions, Invite(m, k, inline, s)
      PROVE  Known'
  <2>1. /\ ~Exists(s) /\ k[1] = "linq" /\ k = <<"linq", k[2]>>
        /\ k[2] \in Addresses
    BY <1>8 DEF Invite, Keys
  <2>2. ASSUME NEW t \in Sessions
        PROVE  /\ t # s => auth'[t] = auth[t]
               /\ t = s => auth'[t].status = "PENDING"
                           /\ auth'[t].sender = k[2] /\ auth'[t].user = None
    BY <1>8 DEF Invite, NoRow, IInv, TypeOK
  <2>3. ASSUME NEW n \in Messages
        PROVE  \/ msg'[n].user = None /\ msg'[n].session = None
               \/ n # m /\ msg'[n] = msg[n]
               \/ msg'[n].user = None /\ msg'[n].session = s
                  /\ msg'[n].key = k
    BY <1>8 DEF Invite, NoMessage, MessageOver, IInv, TypeOK
  <2>4. UNCHANGED <<expired, link, cb, granted>>
    BY <1>8 DEF Invite
  <2>5. SendersKnown'
    BY <2>1, <2>2, <2>4 DEF IInv, SendersKnown, Exists, Exchanging
  <2>6. \A n \in Messages : msg[n].session # None =>
          msg[n].session \in Sessions /\ Exists(msg[n].session)
    BY DEF IInv, TypeOK, Maybe, InvitedSessionsExist
  <2>7. InvitedSessionsExist'
    BY <2>1, <2>2, <2>3, <2>6 DEF InvitedSessionsExist, Exists
  <2>8. RightAnswer'
    <3>1. ASSUME NEW n \in Messages, msg'[n].user # None
          PROVE  <<msg'[n].key, msg'[n].user>> \in granted'
      BY <2>3, <2>4, <3>1 DEF IInv, RightAnswer
    <3>2. ASSUME NEW n \in Messages, msg'[n].session # None
          PROVE  <<"linq", auth'[msg'[n].session].sender>> = msg'[n].key
      <4>1. CASE msg'[n] = msg[n]
        <5>1. msg[n].session \in Sessions /\ msg[n].session # s
          BY <2>1, <2>6, <3>2, <4>1
        <5>. QED
          BY <2>2, <3>2, <4>1, <5>1 DEF IInv, RightAnswer
      <4>2. CASE msg'[n].session = s /\ msg'[n].key = k
        BY <2>1, <2>2, <4>2
      <4>. QED
        BY <2>3, <3>2, <4>1, <4>2
    <3>. QED
      BY <3>1, <3>2 DEF RightAnswer
  <2>9. LinksAreGranted' /\ AlreadyLinkedIsTrue'
    BY <2>2, <2>4 DEF IInv, LinksAreGranted, AlreadyLinkedIsTrue
  <2>. QED
    BY <2>5, <2>7, <2>8, <2>9 DEF Known
<1>9. ASSUME NEW m \in Messages, NEW k \in Keys, NEW inline \in BOOLEAN,
             ReferToAdmin(m, k) \/ Accept(m, k, inline)
      PROVE  Known'
  <2>1. ASSUME NEW n \in Messages
        PROVE  /\ \/ msg'[n].user = None
                  \/ <<msg'[n].key, msg'[n].user>> \in granted
               /\ \/ msg'[n].session = None
                  \/ msg'[n] = msg[n]
    <3>1. CASE n # m
      BY <1>9, <3>1 DEF ReferToAdmin, Accept, IInv, TypeOK, RightAnswer
    <3>2. CASE n = m /\ ReferToAdmin(m, k)
      BY <3>2 DEF ReferToAdmin, MessageOver, NoMessage, IInv, TypeOK
    <3>3. CASE n = m /\ Accept(m, k, inline)
      <4>1. msg'[m] = [NoMessage EXCEPT !.pc = "asking", !.key = k,
                         !.inline = inline, !.user = link[k].user]
        BY <3>3 DEF Accept, LinkOf, IInv, TypeOK
      <4>2. msg'[m].key = k /\ msg'[m].user = link[k].user
            /\ msg'[m].session = None
        BY <4>1 DEF NoMessage
      <4>. QED
        BY <3>3, <4>2 DEF IInv, LinksAreGranted
    <3>. QED
      BY <1>9, <3>1, <3>2, <3>3
  <2>2. UNCHANGED <<rows, cb, granted>>
    BY <1>9 DEF ReferToAdmin, Accept
  <2>. QED
    BY <2>1, <2>2
       DEF rows, Known, IInv, SendersKnown, Exists, Exchanging,
           InvitedSessionsExist, LinksAreGranted, AlreadyLinkedIsTrue,
           RightAnswer
<1>10. ASSUME NEW m \in Messages, Reply(m) PROVE Known'
  <2>1. ASSUME NEW n \in Messages
        PROVE  \/ msg'[n].user = None /\ msg'[n].session = None
               \/ msg'[n].user = msg[n].user /\ msg'[n].key = msg[n].key
                  /\ msg'[n].session = msg[n].session
    BY <1>10
       DEF Reply, RuntimeAnswers, Posted, Lost, MessageOver, NoMessage, IInv,
           TypeOK
  <2>2. UNCHANGED <<rows, cb, granted>>
    BY <1>10 DEF Reply, RuntimeAnswers, Posted, Lost
  <2>. QED
    BY <2>1, <2>2, UnmarkedKnown
<1>11. CASE Refused
  <2>1. ASSUME NEW n \in Messages
        PROVE  \/ msg'[n].user = None /\ msg'[n].session = None
               \/ msg'[n] = msg[n]
    BY <1>11 DEF Refused, MessageOver, NoMessage, IInv, TypeOK
  <2>2. /\ UNCHANGED <<rows, granted>>
        /\ cb' = cb \/ \E c \in Callbacks : Done(c)
    BY <1>11 DEF Refused
  <2>3. SendersKnown'
    BY <2>2, CallbacksStay DEF rows, Exists
  <2>4. InvitedSessionsExist' /\ RightAnswer'
    BY <2>1, <2>2, MessagesStay DEF rows, Exists
  <2>. QED
    BY <2>2, <2>3, <2>4
       DEF rows, Known, IInv, LinksAreGranted, AlreadyLinkedIsTrue
<1>12. CASE Restart
  <2>1. ASSUME NEW n \in Messages
        PROVE  \/ msg'[n].user = None /\ msg'[n].session = None
               \/ msg'[n] = msg[n]
    BY <1>12 DEF Restart, MessageOver, NoMessage, IInv, TypeOK
  <2>2. UNCHANGED <<rows, granted>> /\ \A c \in Callbacks : ~Exchanging(c)'
    BY <1>12 DEF Restart, CallbackOver, NoCallback, Exchanging
  <2>3. SendersKnown'
    BY <2>2 DEF rows, Exists, IInv, SendersKnown
  <2>4. InvitedSessionsExist' /\ RightAnswer'
    BY <2>1, <2>2, MessagesStay DEF rows, Exists
  <2>. QED
    BY <2>2, <2>3, <2>4
       DEF rows, Known, IInv, LinksAreGranted, AlreadyLinkedIsTrue
<1>13. ASSUME NEW s \in Sessions, SessionExpires(s) PROVE Known'
  BY <1>13
     DEF SessionExpires, Known, IInv, SendersKnown, Exists, Exchanging,
         InvitedSessionsExist, LinksAreGranted, AlreadyLinkedIsTrue,
         RightAnswer
<1>14. CASE UNCHANGED vars
  BY <1>14
     DEF vars, rows, Known, IInv, SendersKnown, Exists, Exchanging,
         InvitedSessionsExist, LinksAreGranted, AlreadyLinkedIsTrue,
         RightAnswer
<1>. QED
  BY <1>1, <1>2, <1>3, <1>4, <1>5, <1>6, <1>7, <1>8, <1>9, <1>10, <1>11,
     <1>12, <1>13, <1>14
     DEF Next, Resume, InviteUnlinked, InviteAgain

\* It holds at the start.
LEMMA Start == Init => IInv
<1>. SUFFICES ASSUME Init PROVE IInv
  OBVIOUS
<1>1. TypeOK
  BY DEF Init, TypeOK, Row, Maybe, NoRow, NoCallback, NoMessage
<1>. QED
  BY <1>1
     DEF Init, IInv, SendersKnown, Exists, Exchanging, NoRow, NoCallback,
         NoMessage, InvitedSessionsExist, LinksAreGranted,
         AlreadyLinkedIsTrue, RightAnswer

-----------------------------------------------------------------------------
(***************************************************************************)
(* What overlapping callbacks of a session leave of it.                    *)
(***************************************************************************)

Answered(status) == status \notin {"none", "PENDING"}

\* What a callback has loaded of user and answer is still there to be kept.
LoadedStays ==
  \A c \in Callbacks : Exchanging(c) =>
    /\ cb[c].seen.user # None => auth[cb[c].session].user # None
    /\ Answered(cb[c].seen.status) => Answered(auth[cb[c].session].status)

LinkedInv == LoadedStays /\ LinkedSessionKeepsUser

\* A sign-in leaves its session answered and with a user.
LEMMA CompletedAnswered ==
  ASSUME IInv, LinkedInv, NEW c \in Callbacks, NEW u \in Users, Exchanging(c)
  PROVE  /\ Completed(c, u).user # None
         /\ Answered(Completed(c, u).status)
         /\ Completed(c, u).sender = auth[cb[c].session].sender
<1>. DEFINE old == auth[cb[c].session]
            seen == cb[c].seen
            row == [seen EXCEPT !.status = "COMPLETE", !.user = u]
<1>1. old \in Row /\ seen \in Row /\ u # None
  BY MemberAssumption DEF IInv, TypeOK, SendersKnown
<1>2. row.status = "COMPLETE" /\ row.user = u
  BY <1>1 DEF Row
<1>3. Completed(c, u) =
        [f \in {"status", "sender", "user"} |->
           IF row[f] = seen[f] THEN old[f] ELSE row[f]]
  BY <1>1 DEF Completed, Write, Row
<1>4. /\ seen.user # None => old.user # None
      /\ Answered(seen.status) => Answered(old.status)
  BY DEF LinkedInv, LoadedStays
<1>5. Completed(c, u).sender = old.sender
  BY CompletedRow
<1>. HIDE DEF row, old, seen
<1>6. Completed(c, u).user # None
  BY <1>1, <1>2, <1>3, <1>4
<1>7. Answered(Completed(c, u).status)
  BY <1>2, <1>3, <1>4 DEF Answered
<1>. QED
  BY <1>5, <1>6, <1>7 DEF old

\* No step takes the sender, the user or the answer of a session away.
LEMMA SessionsStay ==
  ASSUME IInv, LinkedInv, [Next]_vars, NEW s \in Sessions, Exists(s)
  PROVE  /\ auth'[s].sender = auth[s].sender
         /\ auth[s].user # None => auth'[s].user # None
         /\ Answered(auth[s].status) => Answered(auth'[s].status)
<1>. USE DEF Answered
<1>0. TypeOK /\ auth \in [Sessions -> Row]
  BY DEF IInv, TypeOK
<1>1. CASE \E t \in Sessions : StartPage(t)
  BY <1>0, <1>1 DEF StartPage, Row
<1>2. CASE \E c \in Callbacks, t \in Sessions :
             CallbackExpired(c, t) \/ CallbackCancelled(c, t)
  BY <1>0, <1>2 DEF CallbackExpired, CallbackCancelled, Row
<1>3. ASSUME NEW c \in Callbacks, ExchangeRefused(c)
      PROVE  /\ auth'[s].sender = auth[s].sender
             /\ auth[s].user # None => auth'[s].user # None
             /\ Answered(auth[s].status) => Answered(auth'[s].status)
  <2>. DEFINE new == Write(c, [cb[c].seen EXCEPT !.status = "FAILED"])
  <2>1. /\ cb[c].session \in Sessions
        /\ new.sender = auth[cb[c].session].sender
        /\ new.status \in {"FAILED", auth[cb[c].session].status}
        /\ new.user = auth[cb[c].session].user
    BY <1>3, RefusedRow, SenderKeyIsKey DEF ExchangeRefused
  <2>2. auth' = [auth EXCEPT ![cb[c].session] = new]
    BY <1>3 DEF ExchangeRefused
  <2>. HIDE DEF new
  <2>. QED
    BY <1>0, <2>1, <2>2
<1>4. ASSUME NEW c \in Callbacks, NEW u \in Users, SignIn(c, u)
      PROVE  /\ auth'[s].sender = auth[s].sender
             /\ auth[s].user # None => auth'[s].user # None
             /\ Answered(auth[s].status) => Answered(auth'[s].status)
  <2>1. /\ Completed(c, u).user # None
        /\ Answered(Completed(c, u).status)
        /\ Completed(c, u).sender = auth[cb[c].session].sender
    BY <1>4, CompletedAnswered DEF SignIn
  <2>2. auth' = [auth EXCEPT ![cb[c].session] = Completed(c, u)]
    BY <1>4 DEF SignIn
  <2>. QED
    BY <1>0, <2>1, <2>2
<1>5. ASSUME NEW m \in Messages, NEW k \in Keys, NEW inline \in BOOLEAN,
             NEW t \in Sessions, Invite(m, k, inline, t)
      PROVE  auth'[s] = auth[s]
  BY <1>0, <1>5 DEF Invite
<1>6. CASE auth' = auth
  BY <1>6
<1>. QED
  BY <1>1, <1>2, <1>3, <1>4, <1>5, <1>6
     DEF Next, Resume, InviteUnlinked, InviteAgain, SessionExpires,
         BeginExchange, ExchangeLost, SignInRejected, AdminLink, ReferToAdmin,
         Accept, Reply, RuntimeAnswers, Posted, Lost, Refused, Restart, vars,
         rows

\* Who touches a callback, and who a link.
LEMMA WhatChanges ==
  ASSUME [Next]_vars
  PROVE  /\ \/ cb' = cb
            \/ \E d \in Callbacks : Done(d)
            \/ \E d \in Callbacks, s \in Sessions : BeginExchange(d, s)
            \/ Restart
         /\ \/ link' = link
            \/ \E d \in Callbacks, u \in Users : SignIn(d, u)
            \/ \E k \in Keys, u \in Users : AdminLink(k, u)
<1>1. CASE \E s \in Sessions : StartPage(s) \/ SessionExpires(s)
  BY <1>1 DEF StartPage, SessionExpires
<1>2. CASE \E c \in Callbacks, s \in Sessions :
             \/ CallbackExpired(c, s) \/ CallbackCancelled(c, s)
             \/ BeginExchange(c, s)
  BY <1>2 DEF CallbackExpired, CallbackCancelled, BeginExchange, rows
<1>3. CASE \E c \in Callbacks : Resume(c)
  <2>1. PICK c \in Callbacks : Resume(c)
    BY <1>3
  <2>2. CASE ExchangeRefused(c) \/ ExchangeLost(c)
    BY <2>2 DEF ExchangeRefused, ExchangeLost, rows
  <2>3. CASE \E u \in Users : SignIn(c, u)
    BY <2>3 DEF SignIn
  <2>4. CASE \E u \in Users : SignInRejected(c, u)
    BY <2>4 DEF SignInRejected, rows
  <2>. QED
    BY <2>1, <2>2, <2>3, <2>4 DEF Resume
<1>4. CASE \E k \in Keys, u \in Users : AdminLink(k, u)
  BY <1>4 DEF AdminLink
<1>5. CASE \E m \in Messages, k \in Keys, inline \in BOOLEAN :
             \/ ReferToAdmin(m, k) \/ Accept(m, k, inline)
             \/ \E s \in Sessions : \/ InviteUnlinked(m, k, inline, s)
                                    \/ InviteAgain(m, k, inline, s)
  BY <1>5 DEF ReferToAdmin, Accept, InviteUnlinked, InviteAgain, Invite, rows
<1>6. CASE \E m \in Messages : Reply(m)
  BY <1>6 DEF Reply, RuntimeAnswers, Posted, Lost, rows
<1>7. CASE Refused
  BY <1>7 DEF Refused, rows
<1>8. CASE Restart
  BY <1>8 DEF Restart, rows
<1>9. CASE UNCHANGED vars
  BY <1>9 DEF vars, rows
<1>. QED
  BY <1>1, <1>2, <1>3, <1>4, <1>5, <1>6, <1>7, <1>8, <1>9 DEF Next

\* A callback under way is one that was, or has just loaded its session.
LEMMA LoadedStep ==
  ASSUME IInv, LinkedInv, [Next]_vars
  PROVE  LoadedStays'
<1>. SUFFICES ASSUME NEW c \in Callbacks, Exchanging(c)'
              PROVE  LET old == auth'[cb'[c].session]
                         seen == cb'[c].seen IN
                     /\ seen.user # None => old.user # None
                     /\ Answered(seen.status) => Answered(old.status)
  BY DEF LoadedStays
<1>0. cb \in [Callbacks -> CallbackRow]
  BY DEF IInv, TypeOK, CallbackRow
<1>1. \/ Exchanging(c) /\ cb'[c] = cb[c]
      \/ \E s \in Sessions : BeginExchange(c, s)
  <2>1. ASSUME NEW d \in Callbacks, Done(d)
        PROVE  Exchanging(c) /\ cb'[c] = cb[c]
    BY <1>0, <2>1 DEF Done, CallbackOver, NoCallback, Exchanging
  <2>2. CASE cb' = cb
    BY <2>2 DEF Exchanging
  <2>3. ASSUME NEW d \in Callbacks, NEW s \in Sessions, BeginExchange(d, s)
        PROVE  \/ Exchanging(c) /\ cb'[c] = cb[c]
               \/ BeginExchange(c, s)
    <3>1. CASE d = c
      BY <2>3, <3>1
    <3>2. CASE d # c
      BY <1>0, <2>3, <3>2 DEF BeginExchange, Exchanging
    <3>. QED
      BY <3>1, <3>2
  <2>4. CASE Restart
    <3>1. cb'[c] = IF Exchanging(c) THEN CallbackOver ELSE cb[c]
      BY <2>4 DEF Restart
    <3>. QED
      BY <3>1 DEF Exchanging, CallbackOver, NoCallback
  <2>. QED
    BY <2>1, <2>2, <2>3, <2>4, WhatChanges
<1>2. CASE Exchanging(c) /\ cb'[c] = cb[c]
  <2>1. cb[c].session \in Sessions /\ Exists(cb[c].session)
    BY <1>2 DEF IInv, SendersKnown
  <2>. QED
    BY <1>2, <2>1, SessionsStay DEF LinkedInv, LoadedStays
<1>3. CASE \E s \in Sessions : BeginExchange(c, s)
  <2>1. PICK s \in Sessions : BeginExchange(c, s)
    BY <1>3
  <2>2. /\ auth' = auth
        /\ cb'[c] = [pc |-> "exchanging", session |-> s, seen |-> auth[s]]
    BY <1>0, <2>1 DEF BeginExchange, rows
  <2>. QED
    BY <2>2
<1>. QED
  BY <1>1, <1>2, <1>3

\* A link is as it was, an administrator's, or the sign-in's just now.
LEMMA LinkedStep ==
  ASSUME IInv, LinkedInv, [Next]_vars
  PROVE  LinkedSessionKeepsUser'
<1>. SUFFICES ASSUME NEW k \in Keys, NEW s \in Sessions, link'[k].via = s
              PROVE  /\ k = <<"linq", auth'[s].sender>>
                     /\ auth'[s].user # None
                     /\ Answered(auth'[s].status)
  BY DEF LinkedSessionKeepsUser, Answered
<1>0. /\ auth \in [Sessions -> Row]
      /\ link \in [Keys -> [user : Maybe(Users),
                           via : Sessions \cup {None, "admin"}]]
  BY DEF IInv, TypeOK
<1>1. CASE link'[k] = link[k]
  <2>1. /\ k = <<"linq", auth[s].sender>> /\ auth[s].user # None
        /\ Answered(auth[s].status) /\ Exists(s)
    BY <1>1 DEF LinkedInv, LinkedSessionKeepsUser, Answered, Exists
  <2>. QED
    BY <2>1, SessionsStay
<1>2. ASSUME NEW c \in Callbacks, NEW u \in Users, SignIn(c, u),
             link'[k] # link[k]
      PROVE  /\ k = <<"linq", auth'[s].sender>>
             /\ auth'[s].user # None
             /\ Answered(auth'[s].status)
  <2>1. /\ SenderKey(c) \in Keys /\ cb[c].session \in Sessions
        /\ SenderKey(c) = <<"linq", auth[cb[c].session].sender>>
    BY <1>2, SenderKeyIsKey DEF SignIn
  <2>2. k = SenderKey(c) /\ s = cb[c].session
    BY <1>0, <1>2, <2>1 DEF SignIn, Upsert
  <2>3. auth'[s] = Completed(c, u)
    BY <1>0, <1>2, <2>2 DEF SignIn
  <2>. QED
    BY <1>2, <2>1, <2>2, <2>3, CompletedAnswered DEF SignIn
<1>3. ASSUME NEW l \in Keys, NEW u \in Users, AdminLink(l, u),
             link'[k] # link[k]
      PROVE  FALSE
  BY <1>0, <1>3, AdminAssumption DEF AdminLink, Upsert
<1>4. link' = link => link'[k] = link[k]
  OBVIOUS
<1>. QED
  BY <1>1, <1>2, <1>3, <1>4, WhatChanges

-----------------------------------------------------------------------------
(***************************************************************************)
(* Theorems.                                                               *)
(***************************************************************************)

\* The inductive invariant holds.
THEOREM Invariance == Spec => []IInv
<1>1. IInv /\ [Next]_vars => IInv'
  BY TypeStep, KnownStep DEF IInv, Known
<1>. QED
  BY Start, <1>1, PTL DEF Spec

\* Every row, callback and message keeps its type.
THEOREM TypeCorrect == Spec => []TypeOK
<1>1. IInv => TypeOK
  BY DEF IInv
<1>. QED
  BY <1>1, Invariance, PTL

\* A number is linked, and a session given, only to somebody who signed in for
\* that number or was named for it, however callbacks overlap.
THEOREM OnlyGranted == Spec => []LinksAreGranted
<1>1. IInv => LinksAreGranted
  BY DEF IInv
<1>. QED
  BY <1>1, Invariance, PTL

\* The number of a complete session is linked, as the start page says.
THEOREM CompleteMeansLinked == Spec => []AlreadyLinkedIsTrue
<1>1. IInv => AlreadyLinkedIsTrue
  BY DEF IInv
<1>. QED
  BY <1>1, Invariance, PTL

\* Replies are written by the runtime of a user granted for the number, and
\* sign-in links go to the number whose session they stand for.
THEOREM AnsweredByGranted == Spec => []RightAnswer
<1>1. IInv => RightAnswer
  BY DEF IInv
<1>. QED
  BY <1>1, Invariance, PTL

\* Callbacks that overlap, come twice or fail may rewrite the status of a
\* session that made a link, and which user it names, but leave it answered,
\* with a user, and of the number linked.
THEOREM LinkedKept == Spec => []LinkedSessionKeepsUser
<1>1. Init => LinkedInv
  BY NoneAssumption
     DEF Init, LinkedInv, LoadedStays, LinkedSessionKeepsUser, Exchanging,
         NoCallback
<1>2. IInv /\ LinkedInv /\ [Next]_vars => LinkedInv'
  BY LoadedStep, LinkedStep DEF LinkedInv
<1>3. LinkedInv => LinkedSessionKeepsUser
  BY DEF LinkedInv
<1>. QED
  BY <1>1, <1>2, <1>3, Invariance, PTL DEF Spec

=============================================================================
