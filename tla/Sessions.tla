------------------------------ MODULE Sessions ------------------------------
(***************************************************************************)
(* Accounts, sessions and connections: the AuthClient of a device and the  *)
(* connection state of its FileClient on one side; AuthServer with UsersDb *)
(* and SessionRegistry, and the binding of connections to sessions in      *)
(* FileServer, on the other.                                               *)
(*                                                                         *)
(* A device is a FileClient process that logs in as soon as it is          *)
(* connected.  Its connection may break, or the process end, at any time;  *)
(* the server notices later.  A process never connects twice: after a      *)
(* break the device is started anew.  A session id stands for the signed   *)
(* token that carries it.  A password is right or wrong.                   *)
(***************************************************************************)
EXTENDS Naturals, Sequences

CONSTANTS User,
          Device,       \* device names; one process each
          NoDevice,
          Connection,   \* what newConnection mints ids for, reused when closed
          NoConnection,
          MaxStarts,    \* bound on the processes started
          MaxSends,     \* bound on the requests the application makes
          MaxSessions,  \* bound on the sessions given out
          Operations,   \* what the application uses of AuthClient and FileClient:
                        \* a subset of Operation
          Passwords,    \* {TRUE}: the right password is given, {TRUE, FALSE}: or not
          Expiry        \* TRUE: tokens may expire

Operation == {"register", "login", "logout", "deleteAccount", "sync"}

ASSUME NamesAssumption  == NoDevice \notin Device /\ NoConnection \notin Connection
ASSUME BoundsAssumption == MaxStarts \in Nat /\ MaxSends \in Nat /\ MaxSessions \in Nat
ASSUME UseAssumption    == /\ Operations \subseteq Operation
                           /\ Passwords \subseteq BOOLEAN /\ Expiry \in BOOLEAN

VARIABLES
  starts, sends,    \* processes started and requests made so far
  users,            \* UsersDb: accounts
  sessions,         \* SessionRegistry: sessions[s], or NoSession
  issued,           \* session ids given out so far
  expired,          \* sessions whose token has expired
  device,           \* device[c]: whose connection the server has as c
  connToSession,    \* connToSession[c]: the session bound to c, or NoToken
  conn,             \* conn[d]: the connection of the device's process
  user,             \* user[d]: the account the process is configured with
  state,            \* state[d]: ClientState
  token,            \* token[d]: the token AuthClient holds, or NoToken
  waiting,          \* waiting[d]: a sync request has not been answered
  requests,         \* requests[c], answers[c]: the two directions of c
  answers

boundVars  == <<starts, sends>>
serverVars == <<users, sessions, issued, device, connToSession>>
clientVars == <<conn, user, state, token, waiting>>
vars == <<boundVars, expired, serverVars, clientVars, requests, answers>>

NoToken == 0
SessionId == 1..MaxSessions

NoSession == [open |-> FALSE, user |-> "none", device |-> NoDevice]
Session_Swapped(u, d) == [open |-> TRUE, user |-> d, device |-> u]
Session(u, d) == [open |-> TRUE, user |-> u, device |-> d]

ClientState == {"Disconnected", "Authenticating", "Authenticated", "Connected"}

IsActive(s) == s \in SessionId /\ sessions[s].open

HasSession_OfThisConnection(c, u, d) ==
  IsActive(connToSession[c]) /\ sessions[connToSession[c]] = Session(u, d)
HasSession(c, u, d) == \E s \in SessionId : sessions[s] = Session(u, d)

-----------------------------------------------------------------------------
Init ==
  /\ starts = 0 /\ sends = 0
  /\ users = User
  /\ sessions = [s \in SessionId |-> NoSession]
  /\ issued = 0
  /\ expired = {}
  /\ device = [c \in Connection |-> NoDevice]
  /\ connToSession = [c \in Connection |-> NoToken]
  /\ conn = [d \in Device |-> NoConnection]
  /\ user \in [Device -> User]
  /\ state = [d \in Device |-> "Disconnected"]
  /\ token = [d \in Device |-> NoToken]
  /\ waiting = [d \in Device |-> FALSE]
  /\ requests = [c \in Connection |-> <<>>]
  /\ answers = [c \in Connection |-> <<>>]

-----------------------------------------------------------------------------
(* The device *)

Request(type, u, d, t, right) ==
  [type |-> type, user |-> u, device |-> d, token |-> t, right |-> right]

Send(d, m) == requests' = [requests EXCEPT ![conn[d]] = Append(@, m)]

(* A process starts and connects; onConnected logs in.                     *)
Start(d, u, right) ==
  /\ starts < MaxStarts
  /\ conn[d] = NoConnection
  /\ starts' = starts + 1
  /\ \E c \in Connection :
       /\ device[c] = NoDevice
       /\ device' = [device EXCEPT ![c] = d]
       /\ conn' = [conn EXCEPT ![d] = c]
       /\ requests' = [requests EXCEPT ![c] = <<Request("login", u, d, NoToken, right)>>]
       /\ answers' = [answers EXCEPT ![c] = <<>>]
  /\ user' = [user EXCEPT ![d] = u]
  /\ state' = [state EXCEPT ![d] = "Authenticating"]
  /\ token' = [token EXCEPT ![d] = NoToken]
  /\ waiting' = [waiting EXCEPT ![d] = FALSE]
  /\ UNCHANGED <<sends, expired, users, sessions, issued, connToSession>>

(* The connection breaks, or the process ends.  What it has sent may still *)
(* arrive.                                                                 *)
Drop(d) ==
  /\ conn[d] # NoConnection
  /\ conn' = [conn EXCEPT ![d] = NoConnection]
  /\ state' = [state EXCEPT ![d] = "Disconnected"]
  /\ UNCHANGED <<boundVars, expired, serverVars, user, token, waiting, requests, answers>>

(* The application calls AuthClient.                                       *)
Ask(d, type, u, right) ==
  /\ type \in Operations \ {"sync"}
  /\ right \/ type \in {"login", "deleteAccount"}
  /\ sends < MaxSends
  /\ conn[d] # NoConnection
  /\ sends' = sends + 1
  /\ Send(d, Request(type, u, d, token[d], right))
  /\ UNCHANGED <<starts, expired, serverVars, clientVars, answers>>

(* clientTick sends the first message of a negotiation.                    *)
Sync(d) ==
  /\ "sync" \in Operations
  /\ sends < MaxSends
  /\ conn[d] # NoConnection
  /\ state[d] = "Authenticated"
  /\ ~waiting[d]
  /\ sends' = sends + 1
  /\ waiting' = [waiting EXCEPT ![d] = TRUE]
  /\ Send(d, Request("sync", user[d], d, token[d], TRUE))
  /\ UNCHANGED <<starts, expired, serverVars, conn, user, state, token, answers>>

(* authFailed, whatever failed, leaves the client Disconnected; the success *)
(* of a registration or of an account's deletion leaves its state alone.    *)
DeviceReceive(d) ==
  LET c == conn[d]
      m == Head(answers[c])
  IN
  /\ c # NoConnection
  /\ answers[c] # <<>>
  /\ answers' = [answers EXCEPT ![c] = Tail(@)]
  /\ token' = [token EXCEPT ![d] =
       IF ~m.success THEN @
       ELSE IF m.type = "login" THEN m.token
       ELSE IF m.type \in {"logout", "deleteAccount"} THEN NoToken
       ELSE @]
  /\ state' = [state EXCEPT ![d] =
       IF ~m.success /\ m.type \in {"login", "logout", "deleteAccount"} THEN "Disconnected"
       ELSE IF m.success /\ m.type = "login" THEN "Authenticated"
       ELSE IF m.success /\ m.type = "logout" THEN "Connected"
       ELSE @]
  /\ waiting' = [waiting EXCEPT ![d] = @ /\ m.type # "sync"]
  /\ UNCHANGED <<boundVars, expired, serverVars, conn, user, requests>>

-----------------------------------------------------------------------------
(* The server *)

Answer_OnSuccessOnly(c, type, success, t) ==
  answers' = IF success
             THEN [answers EXCEPT ![c] =
                    Append(@, [type |-> type, success |-> success, token |-> t])]
             ELSE answers

Answer(c, type, success, t) ==
  answers' = [answers EXCEPT ![c] =
    Append(@, [type |-> type, success |-> success, token |-> t])]

(* resolveSessionId: the signature and the time of the token, and the      *)
(* registry.                                                               *)
Resolves(t) == IsActive(t) /\ t \notin expired

(* The password's hash may fail for want of memory: no account is stored   *)
(* (storeUser), and the answer still says that it is registered.           *)
HandleRegister(c, m) ==
  /\ m.type = "register"
  /\ users' \in {users, users \cup {m.user}}
  /\ Answer(c, "register", m.user \notin users, NoToken)
  /\ UNCHANGED <<sessions, issued, connToSession>>

Accepted(c, m) == ~HasSession(c, m.user, m.device) /\ m.user \in users /\ m.right

NewSessionId_Reused == 1
NewSessionId == issued + 1

(* The new session is bound to the connection, whatever was bound to it.   *)
HandleLogin(c, m) ==
  /\ m.type = "login"
  /\ \/ /\ ~Accepted(c, m)
        /\ Answer(c, "login", FALSE, NoToken)
        /\ UNCHANGED <<users, sessions, issued, connToSession>>
     \/ /\ Accepted(c, m)
        /\ issued < MaxSessions
        /\ issued' = issued + 1
        /\ sessions' = [sessions EXCEPT ![NewSessionId] = Session(m.user, m.device)]
        /\ connToSession' = [connToSession EXCEPT ![c] = NewSessionId]
        /\ Answer(c, "login", TRUE, NewSessionId)
        /\ UNCHANGED users

(* The session of the token ends; the connection the request came on loses *)
(* its binding.                                                            *)
HandleLogout(c, m) ==
  /\ m.type = "logout"
  /\ \/ /\ ~Resolves(m.token)
        /\ Answer(c, "logout", FALSE, NoToken)
        /\ UNCHANGED <<users, sessions, issued, connToSession>>
     \/ /\ Resolves(m.token)
        /\ sessions' = [sessions EXCEPT ![m.token] = NoSession]
        /\ connToSession' = [connToSession EXCEPT ![c] = NoToken]
        /\ Answer(c, "logout", TRUE, NoToken)
        /\ UNCHANGED <<users, issued>>

WithoutSessionsOf_ThisOnly(t) == [sessions EXCEPT ![t] = NoSession]
(* revokeAllForUser, for the user of a session.                            *)
WithoutSessionsOf(t) ==
  [s \in SessionId |-> IF sessions[s].open /\ sessions[s].user = sessions[t].user
                       THEN NoSession ELSE sessions[s]]

HandleDeleteAccount(c, m) ==
  /\ m.type = "deleteAccount"
  /\ \/ /\ ~(Resolves(m.token) /\ m.right /\ sessions[m.token].user \in users)
        /\ Answer(c, "deleteAccount", FALSE, NoToken)
        /\ UNCHANGED <<users, sessions, issued, connToSession>>
     \/ /\ Resolves(m.token) /\ m.right /\ sessions[m.token].user \in users
        /\ users' = users \ {sessions[m.token].user}
        /\ sessions' = WithoutSessionsOf(m.token)
        /\ connToSession' = [connToSession EXCEPT ![c] = NoToken]
        /\ Answer(c, "deleteAccount", TRUE, NoToken)
        /\ UNCHANGED issued

Authorized_Inverted(c, m) ==
  connToSession[c] = NoToken /\ Resolves(m.token) /\ m.token = connToSession[c]

(* authorize: the connection is bound to a session, and the token is one   *)
(* of that session.                                                        *)
Authorized(c, m) ==
  connToSession[c] # NoToken /\ Resolves(m.token) /\ m.token = connToSession[c]

(* A request that is not authorized is dropped without an answer.          *)
HandleSync(c, m) ==
  /\ m.type = "sync"
  /\ \/ Authorized(c, m) /\ Answer(c, "sync", TRUE, NoToken)
     \/ ~Authorized(c, m) /\ UNCHANGED answers
  /\ UNCHANGED <<users, sessions, issued, connToSession>>

ServerReceive(c) ==
  /\ device[c] # NoDevice
  /\ requests[c] # <<>>
  /\ requests' = [requests EXCEPT ![c] = Tail(@)]
  /\ LET m == Head(requests[c])
     IN \/ HandleRegister(c, m)
        \/ HandleLogin(c, m)
        \/ HandleLogout(c, m)
        \/ HandleDeleteAccount(c, m)
        \/ HandleSync(c, m)
  /\ UNCHANGED <<boundVars, expired, device, clientVars>>

WithoutSession_Kept(s) == sessions
WithoutSession(s) == [x \in SessionId |-> IF x = s THEN NoSession ELSE sessions[x]]

(* onSocketDisconnected: the server notices that a connection is gone.     *)
ServerCloses(c) ==
  /\ device[c] # NoDevice
  /\ \A d \in Device : conn[d] # c
  /\ device' = [device EXCEPT ![c] = NoDevice]
  /\ connToSession' = [connToSession EXCEPT ![c] = NoToken]
  /\ sessions' = WithoutSession(connToSession[c])
  /\ requests' = [requests EXCEPT ![c] = <<>>]
  /\ answers' = [answers EXCEPT ![c] = <<>>]
  /\ UNCHANGED <<boundVars, expired, users, issued, clientVars>>

(* A week passes for a token; its session stays in the registry.           *)
Expire(s) ==
  /\ Expiry
  /\ s \in 1..issued /\ s \notin expired
  /\ expired' = expired \cup {s}
  /\ UNCHANGED <<boundVars, serverVars, clientVars, requests, answers>>

-----------------------------------------------------------------------------
Next ==
  \/ \E d \in Device :
       \/ \E u \in User, right \in Passwords :
            Start(d, u, right) \/ \E type \in Operations : Ask(d, type, u, right)
       \/ Drop(d) \/ Sync(d) \/ DeviceReceive(d)
  \/ \E c \in Connection : ServerReceive(c) \/ ServerCloses(c)
  \/ \E s \in SessionId : Expire(s)

Spec == Init /\ [][Next]_vars

(* Both ends read their sockets, and the server learns that a connection   *)
(* is gone.                                                                *)
FairSpec ==
  /\ Spec
  /\ \A d \in Device : WF_vars(DeviceReceive(d))
  /\ \A c \in Connection : WF_vars(ServerReceive(c)) /\ WF_vars(ServerCloses(c))

-----------------------------------------------------------------------------
(* Properties *)

RequestMessage == [type : Operation, user : User, device : Device,
                   token : SessionId \cup {NoToken}, right : BOOLEAN]
AnswerMessage  == [type : Operation, success : BOOLEAN, token : SessionId \cup {NoToken}]

SessionRecord == [open : {TRUE}, user : User, device : Device]

BoundsTyped == starts \in 0..MaxStarts /\ sends \in 0..MaxSends
ServerTyped ==
  /\ users \subseteq User
  /\ sessions \in [SessionId -> SessionRecord \cup {NoSession}]
  /\ issued \in 0..MaxSessions
  /\ connToSession \in [Connection -> 0..issued]
  /\ \A s \in SessionId : s > issued => ~sessions[s].open
  /\ expired \subseteq SessionId
LinesTyped ==
  /\ device \in [Connection -> Device \cup {NoDevice}]
  /\ requests \in [Connection -> Seq(RequestMessage)]
  /\ answers \in [Connection -> Seq(AnswerMessage)]
ClientTyped ==
  /\ conn \in [Device -> Connection \cup {NoConnection}]
  /\ user \in [Device -> User]
  /\ state \in [Device -> ClientState]
  /\ token \in [Device -> SessionId \cup {NoToken}]
  /\ waiting \in [Device -> BOOLEAN]

(* The variables stay in their types: a session that is live, or bound to a *)
(* connection, has an id that was given out.                                *)
TypeOK == BoundsTyped /\ ServerTyped /\ LinesTyped /\ ClientTyped

(* A user has at most one live session on a device, whatever connections   *)
(* of the device, old and new, the server still has.                       *)
OneSessionPerDevice ==
  \A s, t \in SessionId :
    sessions[s].open /\ sessions[t].open /\ s # t
      => sessions[s].user # sessions[t].user \/ sessions[s].device # sessions[t].device

(* A live session belongs to an account that exists: none outlives the     *)
(* deletion of its account.                                                *)
SessionsHaveAccounts == \A s \in SessionId : sessions[s].open => sessions[s].user \in users

(* A connection is never bound to a live session of another device, and no *)
(* two connections are bound to the same session.                          *)
BindingsAreOwn ==
  \A c \in Connection : connToSession[c] # NoToken =>
    /\ sessions[connToSession[c]].open => sessions[connToSession[c]].device = device[c]
    /\ \A b \in Connection \ {c} : connToSession[b] # connToSession[c]

(* A live session is bound to a connection that the server has: when the   *)
(* connection goes, the session goes with it and the device can log in     *)
(* again.                                                                  *)
SessionsDieWithConnection ==
  \A s \in SessionId : sessions[s].open =>
    \E c \in Connection : device[c] # NoDevice /\ connToSession[c] = s

(* A login is answered, unless the connection breaks.                      *)
LoginAnswered == \A d \in Device : state[d] = "Authenticating" ~> state[d] # "Authenticating"

(* A sync request of a client is answered, unless its connection breaks or *)
(* its session ends.                                                       *)
SyncAnswered ==
  \A d \in Device :
    waiting[d] ~> ~waiting[d] \/ conn[d] = NoConnection \/ ~Resolves(token[d])

(* A device that has connected again with the right password gets its      *)
(* session back, unless the connection breaks again.                       *)
ReloginOnReconnect ==
  \A d \in Device : state[d] = "Authenticating"
    ~> (state[d] = "Authenticated" \/ conn[d] = NoConnection)

(* A client whose account is gone does not count as logged in.             *)
AccountGoneMeansLoggedOut ==
  \A d \in Device : state[d] = "Authenticated" => token[d] # NoToken
=============================================================================
