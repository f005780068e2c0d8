--------------------------- MODULE AccountLinking ---------------------------
(***************************************************************************)
(* Linking the address a message comes from to an ACE user, and answering  *)
(* messages with the user's runtime (gateway/routers/messaging.py).        *)
(*                                                                         *)
(* A message from an unknown iMessage number is answered with a sign-in    *)
(* link, which stands for an auth session; the browser comes back to the   *)
(* callback with a code, the gateway exchanges the code at Supabase and    *)
(* links the number to the user who signed in.  WhatsApp numbers are       *)
(* linked by an administrator.                                             *)
(*                                                                         *)
(* The gateway is one process with one event loop and makes its database   *)
(* calls synchronously: a step lasts from one await to the next.  The only *)
(* awaits are the exchange, in the callback, and the runtime's answer and  *)
(* the posting of a reply, for a message.                                  *)
(***************************************************************************)
EXTENDS FiniteSets, Naturals

CONSTANTS
  Addresses,    \* phone numbers and handles; both providers may know one
  Users,        \* ids Supabase or an administrator may name
  Members,      \* those with a row in users, which foreign keys ask for
  Appointed,    \* bound: those an administrator may name
  Sessions,     \* ids of auth sessions
  Callbacks,    \* requests from browsers to the callback
  Messages,     \* deliveries of the webhooks
  None,         \* null
  Connections   \* database connections the gateway may have at once

ASSUME MemberAssumption == Members \subseteq Users /\ None \notin Users
ASSUME NoneAssumption == None \notin Sessions \cup {"admin"}
ASSUME AdminAssumption == "admin" \notin Sessions
ASSUME AppointedAssumption == Appointed \subseteq Users
ASSUME ConnectionAssumption == Connections \in Nat \ {0}

VARIABLES
  auth,     \* the auth_sessions rows
  expired,  \* sessions whose expires_at_epoch has come
  link,     \* the messaging_links rows, by provider and address
  cb,       \* where each callback is, and what it has loaded
  msg,      \* where each message is, and what became of it
  granted   \* history: who signed in, or was named, for which key

rows == <<auth, expired, link>>
vars == <<rows, cb, msg, granted>>

Providers == {"linq", "twilio"}
Keys == Providers \X Addresses
Maybe(S) == S \cup {None}

\* An auth_sessions row; the sender is part of its state parameter.  Tokens
\* and error text are written and never read.
Row == [status : {"none", "PENDING", "COMPLETE", "FAILED", "EXPIRED"},
        sender : Maybe(Addresses), user : Maybe(Users)]

NoRow == [status |-> "none", sender |-> None, user |-> None]
NoCallback == [pc |-> "idle", session |-> None, seen |-> NoRow]
NoMessage == [pc |-> "idle", key |-> None, inline |-> FALSE, user |-> None,
              session |-> None]

TypeOK ==
  /\ auth \in [Sessions -> Row]
  /\ expired \subseteq Sessions
  /\ link \in [Keys -> [user : Maybe(Users), via : Sessions \cup {None, "admin"}]]
  /\ \A k \in Keys : link[k].user = None <=> link[k].via = None
  /\ cb \in [Callbacks -> [pc : {"idle", "exchanging", "done"},
                           session : Maybe(Sessions), seen : Row]]
  /\ msg \in [Messages -> [pc : {"idle", "asking", "posting", "done"},
                           key : Maybe(Keys), inline : BOOLEAN,
                           user : Maybe(Users), session : Maybe(Sessions)]]
  /\ granted \subseteq Keys \X Users

Init ==
  /\ auth = [s \in Sessions |-> NoRow]
  /\ expired = {}
  /\ link = [k \in Keys |-> [user |-> None, via |-> None]]
  /\ cb = [c \in Callbacks |-> NoCallback]
  /\ msg = [m \in Messages |-> NoMessage]
  /\ granted = {}

Exchanging(c) == cb[c].pc = "exchanging"

\* A callback keeps its transaction, and with it a connection, while it waits
\* for Supabase.  Without one left, a handler waits on the event loop itself,
\* so that nobody can return one, until the pool's timeout fails it.
ConnectionLeft == Cardinality({c \in Callbacks : Exchanging(c)}) < Connections

-----------------------------------------------------------------------------
(***************************************************************************)
(* Sign-in: start_google_oauth, google_oauth_callback, admin_link.         *)
(***************************************************************************)
Exists(s) == auth[s].status # "none"

CallbackOver == [NoCallback EXCEPT !.pc = "done"]
Done(c) == cb' = [cb EXCEPT ![c] = CallbackOver]

\* The start page marks an expired session, complete or not; otherwise it
\* only answers, whatever the session's status.
StartPage(s) ==
  /\ Exists(s) /\ ConnectionLeft
  /\ s \in expired
  /\ auth' = [auth EXCEPT ![s].status = "EXPIRED"]
  /\ UNCHANGED <<expired, link, cb, msg, granted>>

Calls(c, s) == cb[c].pc = "idle" /\ Exists(s) /\ ConnectionLeft

CallbackExpired(c, s) ==
  /\ Calls(c, s)
  /\ s \in expired
  /\ auth' = [auth EXCEPT ![s].status = "EXPIRED"]
  /\ Done(c)
  /\ UNCHANGED <<expired, link, msg, granted>>

\* The browser brings an error, or no code.
CallbackCancelled(c, s) ==
  /\ Calls(c, s)
  /\ s \notin expired
  /\ auth' = [auth EXCEPT ![s].status = "FAILED"]
  /\ Done(c)
  /\ UNCHANGED <<expired, link, msg, granted>>

\* The status does not matter: a session can be called back again.
BeginExchange(c, s) ==
  /\ Calls(c, s)
  /\ s \notin expired
  /\ cb' = [cb EXCEPT ![c] =
              [pc |-> "exchanging", session |-> s, seen |-> auth[s]]]
  /\ UNCHANGED <<rows, msg, granted>>

\* Mutant: the whole row is written as the callback knows it.
WriteAll(c, new) == new

\* What SQLAlchemy writes of the attributes assigned after the exchange: those
\* whose value differs from the one loaded before it.
Write(c, new) ==
  LET old == auth[cb[c].session] IN
  [f \in DOMAIN old |-> IF new[f] = cb[c].seen[f] THEN old[f] ELSE new[f]]

\* Supabase refuses the code, or its answer is no object.
ExchangeRefused(c) ==
  /\ Exchanging(c)
  /\ auth' = [auth EXCEPT ![cb[c].session] =
       Write(c, [cb[c].seen EXCEPT !.status = "FAILED"])]
  /\ Done(c)
  /\ UNCHANGED <<expired, link, msg, granted>>

\* Timeout, broken connection, or an answer that names no user: nothing is
\* written.
ExchangeLost(c) ==
  /\ Exchanging(c)
  /\ Done(c)
  /\ UNCHANGED <<rows, msg, granted>>

Completed(c, u) ==
  Write(c, [cb[c].seen EXCEPT !.status = "COMPLETE", !.user = u])

SenderKey(c) == <<"linq", cb[c].seen.sender>>

\* Mutants: the link is stored without metadata, or under the other provider.
UpsertBare(k, u, via) == link' = [link EXCEPT ![k] = [user |-> u, via |-> None]]
UpsertWhatsApp(k, u, via) ==
  link' = [link EXCEPT ![<<"twilio", k[2]>>] = [user |-> u, via |-> via]]

\* _upsert_link.
Upsert(k, u, via) == link' = [link EXCEPT ![k] = [user |-> u, via |-> via]]

\* Session and link are committed together.
SignIn(c, u) ==
  /\ Exchanging(c)
  /\ granted' = granted \cup {<<SenderKey(c), u>>}
  /\ u \in Members
  /\ auth' = [auth EXCEPT ![cb[c].session] = Completed(c, u)]
  /\ Upsert(SenderKey(c), u, cb[c].session)
  /\ Done(c)
  /\ UNCHANGED <<expired, msg>>

\* Mutant: the session is committed before the link is tried.
SignInHalf(c, u) ==
  /\ Exchanging(c)
  /\ u \notin Members
  /\ auth' = [auth EXCEPT ![cb[c].session].status = "COMPLETE"]
  /\ Done(c)
  /\ UNCHANGED <<expired, link, msg, granted>>

\* The commit violates a foreign key: neither is written.
SignInRejected(c, u) ==
  /\ Exchanging(c)
  /\ u \notin Members
  /\ Done(c)
  /\ UNCHANGED <<rows, msg, granted>>

AdminLink(k, u) ==
  /\ ConnectionLeft
  /\ u \in Members \cap Appointed
  /\ link[k] # [user |-> u, via |-> "admin"]
  /\ granted' = granted \cup {<<k, u>>}
  /\ Upsert(k, u, "admin")
  /\ UNCHANGED <<auth, expired, cb, msg>>

SessionExpires(s) ==
  /\ Exists(s) /\ s \notin expired
  /\ expired' = expired \cup {s}
  /\ UNCHANGED <<auth, link, cb, msg, granted>>

-----------------------------------------------------------------------------
(***************************************************************************)
(* Messages: the two webhooks and the background tasks of the Linq one.    *)
(***************************************************************************)
Arrives(m) == msg[m].pc = "idle"
MessageOver == [NoMessage EXCEPT !.pc = "done"]

\* Mutant: the provider is not part of the query.
LinkOfAddress(k) == IF link[<<"linq", k[2]>>].user = None
                    THEN link[<<"twilio", k[2]>>] ELSE link[<<"linq", k[2]>>]

\* _messaging_link.
LinkOf(k) == link[k]

\* A new session for every invitation.  With a reply_url the invitation is
\* posted in the background, otherwise it is the response.
Invite(m, k, inline, s) ==
  /\ Arrives(m) /\ ConnectionLeft
  /\ k[1] = "linq"
  /\ ~Exists(s)
  /\ auth' = [auth EXCEPT ![s] =
                [NoRow EXCEPT !.status = "PENDING", !.sender = k[2]]]
  /\ msg' = [msg EXCEPT ![m] =
       IF inline THEN MessageOver
       ELSE [NoMessage EXCEPT !.pc = "posting", !.key = k, !.session = s]]
  /\ UNCHANGED <<expired, link, cb, granted>>

\* A keyword asks for a link, whether there is one or not.
InviteUnlinked(m, k, inline, s) == LinkOf(k).user = None /\ Invite(m, k, inline, s)
InviteAgain(m, k, inline, s) == LinkOf(k).user # None /\ Invite(m, k, inline, s)

\* An unlinked WhatsApp number is told to ask an administrator.
ReferToAdmin(m, k) ==
  /\ Arrives(m) /\ ConnectionLeft
  /\ k[1] = "twilio" /\ LinkOf(k).user = None
  /\ msg' = [msg EXCEPT ![m] = MessageOver]
  /\ UNCHANGED <<rows, cb, granted>>

\* The user is read now and asked later.  WhatsApp replies are inline.
Accept(m, k, inline) ==
  /\ Arrives(m) /\ ConnectionLeft
  /\ LinkOf(k).user # None
  /\ k[1] = "twilio" => inline
  /\ msg' = [msg EXCEPT ![m] =
       [NoMessage EXCEPT !.pc = "asking", !.key = k, !.inline = inline,
                         !.user = LinkOf(k).user]]
  /\ UNCHANGED <<rows, cb, granted>>

\* _send_runtime_message: a background reply is posted next, another one is
\* the response itself.
RuntimeAnswers(m) ==
  /\ msg[m].pc = "asking"
  /\ msg' = [msg EXCEPT ![m] =
       IF msg[m].inline THEN MessageOver ELSE [msg[m] EXCEPT !.pc = "posting"]]
  /\ UNCHANGED <<rows, cb, granted>>

Posted(m) ==
  /\ msg[m].pc = "posting"
  /\ msg' = [msg EXCEPT ![m] = MessageOver]
  /\ UNCHANGED <<rows, cb, granted>>

\* Mutant: a background reply that fails starts over.
RetryLost(m) ==
  /\ msg[m].pc \in {"asking", "posting"}
  /\ msg' = [msg EXCEPT ![m].pc = "asking"]
  /\ UNCHANGED <<rows, cb, granted>>

\* The runtime or the provider fails: an error response, or a log line after
\* the webhook was acknowledged.
Lost(m) ==
  /\ msg[m].pc \in {"asking", "posting"}
  /\ msg' = [msg EXCEPT ![m] = MessageOver]
  /\ UNCHANGED <<rows, cb, granted>>

\* A handler that gets no connection fails; nothing was acknowledged.
Refused ==
  /\ ~ConnectionLeft
  /\ \/ \E c \in Callbacks : cb[c].pc = "idle" /\ Done(c) /\ UNCHANGED msg
     \/ \E m \in Messages : /\ Arrives(m)
                            /\ msg' = [msg EXCEPT ![m] = MessageOver]
                            /\ UNCHANGED cb
  /\ UNCHANGED <<rows, granted>>

\* Requests and background tasks are gone, rows are not.
Restart ==
  /\ cb' = [c \in Callbacks |->
              IF Exchanging(c) THEN CallbackOver ELSE cb[c]]
  /\ msg' = [m \in Messages |->
               IF msg[m].pc \in {"asking", "posting"}
               THEN MessageOver ELSE msg[m]]
  /\ UNCHANGED <<rows, granted>>

-----------------------------------------------------------------------------
Resume(c) ==
  \/ ExchangeRefused(c) \/ ExchangeLost(c)
  \/ \E u \in Users : SignIn(c, u) \/ SignInRejected(c, u)

Reply(m) == RuntimeAnswers(m) \/ Posted(m) \/ Lost(m)

Next ==
  \/ \E s \in Sessions : StartPage(s) \/ SessionExpires(s)
  \/ \E c \in Callbacks, s \in Sessions :
       CallbackExpired(c, s) \/ CallbackCancelled(c, s) \/ BeginExchange(c, s)
  \/ \E c \in Callbacks : Resume(c)
  \/ \E k \in Keys, u \in Users : AdminLink(k, u)
  \/ \E m \in Messages, k \in Keys, inline \in BOOLEAN :
       \/ ReferToAdmin(m, k) \/ Accept(m, k, inline)
       \/ \E s \in Sessions : \/ InviteUnlinked(m, k, inline, s)
                              \/ InviteAgain(m, k, inline, s)
  \/ \E m \in Messages : Reply(m)
  \/ Refused
  \/ Restart

Spec == Init /\ [][Next]_vars

-----------------------------------------------------------------------------
(***************************************************************************)
(* Properties.                                                             *)
(***************************************************************************)

\* A number is linked only to a user who signed in with a link sent to that
\* number at that provider, or whom an administrator named for it, however
\* callbacks of its sessions overlap, fail or come twice; and a session names
\* only a user who signed in for its number.
LinksAreGranted ==
  /\ \A k \in Keys : link[k].user # None => <<k, link[k].user>> \in granted
  /\ \A s \in Sessions : auth[s].user # None =>
       <<<<"linq", auth[s].sender>>, auth[s].user>> \in granted

\* "This iMessage number is already linked", says the start page of a
\* complete session: it is.
AlreadyLinkedIsTrue ==
  \A s \in Sessions :
    auth[s].status = "COMPLETE" => link[<<"linq", auth[s].sender>>].user # None

\* Whatever callbacks that loaded a session earlier write over it later, a
\* session that made a link keeps a user and the number linked, and never
\* looks like one nobody has answered.  (Its status, and which of several
\* users it names, may be overwritten: see the last two.)
LinkedSessionKeepsUser ==
  \A k \in Keys, s \in Sessions : link[k].via = s =>
    /\ k = <<"linq", auth[s].sender>>
    /\ auth[s].user # None
    /\ auth[s].status \notin {"none", "PENDING"}

\* A reply to a number was written by the runtime of a user granted for it,
\* although the link may have changed since the message was accepted; and the
\* sign-in link a number is sent is for a session of its own.
RightAnswer ==
  \A m \in Messages :
    /\ msg[m].user # None => <<msg[m].key, msg[m].user>> \in granted
    /\ msg[m].session # None => <<"linq", auth[msg[m].session].sender>> = msg[m].key

\* False: a session whose sign-in made the link stays complete.
LinkedSessionComplete ==
  \A k \in Keys, s \in Sessions : link[k].via = s => auth[s].status = "COMPLETE"

\* False with three callbacks of one session: link and session name one user.
LinkMatchesSession ==
  \A k \in Keys, s \in Sessions : link[k].via = s => auth[s].user = link[k].user

=============================================================================
