-------------------------- MODULE Sessions_proofs --------------------------
(***************************************************************************)
(* Proofs about Sessions: the types, one live session per user and device, *)
(* no session without its account, no connection bound to the session of   *)
(* another device, and, for applications that leave logging in to the      *)
(* client itself, no live session without the connection it belongs to.    *)
(***************************************************************************)
EXTENDS Sessions, TLAPS

(* Appending to a queue of messages, and taking its first, leave a queue of *)
(* messages.                                                                *)
LEMMA AppendTyped ==
  ASSUME NEW S, NEW q \in Seq(S), NEW m \in S
  PROVE  Append(q, m) \in Seq(S)
  OBVIOUS

LEMMA TailTyped ==
  ASSUME NEW S, NEW q \in Seq(S), q # <<>>
  PROVE  Head(q) \in S /\ Tail(q) \in Seq(S)
  OBVIOUS

LEMMA EmptyTyped == ASSUME NEW S PROVE <<>> \in Seq(S)
  OBVIOUS

(* A session names its user and its device and is live; NoSession is not.   *)
LEMMA SessionTypes ==
  /\ \A u \in User, d \in Device :
       /\ Session(u, d) \in SessionRecord /\ Session(u, d).open
       /\ Session(u, d).user = u /\ Session(u, d).device = d
  /\ ~NoSession.open
  BY DEF Session, SessionRecord, NoSession

(* What the server does with the head of a queue, whatever the message is.  *)
ServerEffect(c, m) ==
  \/ HandleRegister(c, m) \/ HandleLogin(c, m) \/ HandleLogout(c, m)
  \/ HandleDeleteAccount(c, m) \/ HandleSync(c, m)

(* The head of a queue is a request.                                        *)
LEMMA HeadRequest ==
  ASSUME TypeOK, NEW c \in Connection, ServerReceive(c)
  PROVE  /\ Head(requests[c]) \in RequestMessage
         /\ ServerEffect(c, Head(requests[c]))
         /\ requests' = [requests EXCEPT ![c] = Tail(@)]
         /\ Tail(requests[c]) \in Seq(RequestMessage)
         /\ UNCHANGED <<boundVars, expired, device, clientVars>>
<1>1. requests[c] \in Seq(RequestMessage) /\ requests[c] # <<>>
  BY DEF TypeOK, LinesTyped, ServerReceive
<1>2. Head(requests[c]) \in RequestMessage /\ Tail(requests[c]) \in Seq(RequestMessage)
  BY <1>1, TailTyped
<1> QED
  BY <1>2 DEF ServerReceive, ServerEffect

-----------------------------------------------------------------------------
(* Type correctness, one step lemma for each part of the state *)

(* The server's own state keeps its types, whatever it handles.             *)
LEMMA ServerStaysTyped ==
  ASSUME TypeOK, [Next]_vars
  PROVE  ServerTyped'
<1> USE BoundsAssumption DEF SessionId, NoToken
<1>1. ServerTyped
  BY DEF TypeOK
<1>2. CASE UNCHANGED <<expired, users, sessions, issued, connToSession>>
  BY <1>1, <1>2 DEF ServerTyped
<1>3. ASSUME NEW c \in Connection, ServerReceive(c) PROVE ServerTyped'
  <2> DEFINE m == Head(requests[c])
  <2>1. m.user \in User /\ m.device \in Device /\ ServerEffect(c, m) /\ expired' = expired
    BY <1>3, HeadRequest DEF RequestMessage
  <2> HIDE DEF m
  <2>2. CASE HandleRegister(c, m)
    BY <1>1, <2>1, <2>2 DEF ServerTyped, HandleRegister
  <2>3. CASE HandleLogin(c, m)
    <3>1. CASE ~Accepted(c, m)
      BY <1>2, <2>1, <2>3, <3>1 DEF HandleLogin
    <3>2. CASE Accepted(c, m)
      <4>1. /\ issued + 1 \in SessionId
            /\ issued' = issued + 1 /\ users' = users
            /\ sessions' = [sessions EXCEPT ![issued + 1] = Session(m.user, m.device)]
            /\ connToSession' = [connToSession EXCEPT ![c] = issued + 1]
        BY <1>1, <2>3, <3>2 DEF HandleLogin, NewSessionId, ServerTyped
      <4>2. Session(m.user, m.device) \in SessionRecord
        BY <2>1, SessionTypes
      <4>3. sessions' \in [SessionId -> SessionRecord \cup {NoSession}]
        BY <1>1, <4>1, <4>2 DEF ServerTyped
      <4>4. connToSession' \in [Connection -> 0..issued']
        BY <1>1, <4>1 DEF ServerTyped
      <4>5. \A s \in SessionId : s > issued' => ~sessions'[s].open
        BY <1>1, <4>1 DEF ServerTyped
      <4> QED
        BY <1>1, <2>1, <4>1, <4>3, <4>4, <4>5 DEF ServerTyped
    <3> QED
      BY <3>1, <3>2
  <2>4. CASE HandleLogout(c, m)
    <3>1. CASE ~Resolves(m.token)
      BY <1>2, <2>1, <2>4, <3>1 DEF HandleLogout
    <3>2. CASE Resolves(m.token)
      <4>1. /\ sessions' = [sessions EXCEPT ![m.token] = NoSession]
            /\ connToSession' = [connToSession EXCEPT ![c] = NoToken]
            /\ users' = users /\ issued' = issued
        BY <2>4, <3>2 DEF HandleLogout
      <4>2. \A s \in SessionId : sessions'[s] \in {sessions[s], NoSession}
        BY <1>1, <4>1 DEF ServerTyped
      <4>3. sessions' \in [SessionId -> SessionRecord \cup {NoSession}]
        BY <1>1, <4>1 DEF ServerTyped
      <4>4. \A s \in SessionId : s > issued => ~sessions'[s].open
        BY <1>1, <4>2, SessionTypes DEF ServerTyped
      <4>5. connToSession' \in [Connection -> 0..issued]
        BY <1>1, <4>1 DEF ServerTyped
      <4> QED
        BY <1>1, <2>1, <4>1, <4>3, <4>4, <4>5 DEF ServerTyped
    <3> QED
      BY <3>1, <3>2
  <2>5. CASE HandleDeleteAccount(c, m)
    <3> DEFINE refused == ~(Resolves(m.token) /\ m.right /\ sessions[m.token].user \in users)
    <3>1. CASE refused
      BY <1>2, <2>1, <2>5, <3>1 DEF HandleDeleteAccount
    <3>2. CASE ~refused
      <4>1. /\ users' = users \ {sessions[m.token].user}
            /\ sessions' = WithoutSessionsOf(m.token)
            /\ connToSession' = [connToSession EXCEPT ![c] = NoToken]
            /\ issued' = issued
        BY <2>5, <3>2 DEF HandleDeleteAccount
      <4> QED
        BY <1>1, <2>1, <4>1, SessionTypes DEF ServerTyped, WithoutSessionsOf
    <3> QED
      BY <3>1, <3>2
  <2>6. CASE HandleSync(c, m)
    BY <1>2, <2>1, <2>6 DEF HandleSync
  <2> QED
    BY <2>1, <2>2, <2>3, <2>4, <2>5, <2>6 DEF ServerEffect
<1>4. ASSUME NEW c \in Connection, ServerCloses(c) PROVE ServerTyped'
  BY <1>1, <1>4, SessionTypes DEF ServerTyped, ServerCloses, WithoutSession
<1>5. ASSUME NEW s \in SessionId, Expire(s) PROVE ServerTyped'
  BY <1>1, <1>5 DEF ServerTyped, Expire, serverVars
<1>6. ASSUME NEW d \in Device, NEW u, NEW right, Start(d, u, right) PROVE ServerTyped'
  BY <1>2, <1>6 DEF Start
<1>7. ASSUME NEW d \in Device, NEW type, NEW u, NEW right, Ask(d, type, u, right)
      PROVE  ServerTyped'
  BY <1>2, <1>7 DEF Ask, serverVars
<1>8. ASSUME NEW d \in Device, Drop(d) \/ Sync(d) \/ DeviceReceive(d) PROVE ServerTyped'
  BY <1>2, <1>8 DEF Drop, Sync, DeviceReceive, serverVars
<1>9. CASE UNCHANGED vars
  BY <1>2, <1>9 DEF vars, serverVars
<1> QED
  BY <1>3, <1>4, <1>5, <1>6, <1>7, <1>8, <1>9 DEF Next

(* The queues hold messages, and the server's connections name devices.     *)
LEMMA LinesStayTyped ==
  ASSUME TypeOK, [Next]_vars
  PROVE  LinesTyped'
<1> USE BoundsAssumption, UseAssumption DEF SessionId, NoToken, Operation
<1>1. LinesTyped /\ ClientTyped /\ ServerTyped
  BY DEF TypeOK
<1>2. CASE UNCHANGED <<device, requests, answers>>
  BY <1>1, <1>2 DEF LinesTyped
<1>3. ASSUME NEW d \in Device, NEW u \in User, NEW right \in Passwords, Start(d, u, right)
      PROVE  LinesTyped'
  <2>1. Request("login", u, d, NoToken, right) \in RequestMessage
    BY <1>3 DEF Request, RequestMessage
  <2>2. <<Request("login", u, d, NoToken, right)>> \in Seq(RequestMessage)
    BY <2>1
  <2> QED
    BY <1>1, <1>3, <2>2, EmptyTyped DEF Start, LinesTyped
<1>4. ASSUME NEW d \in Device, NEW m \in RequestMessage, Send(d, m), UNCHANGED <<device, answers>>
      PROVE  LinesTyped'
  BY <1>1, <1>4, AppendTyped DEF Send, LinesTyped
<1>5. ASSUME NEW d \in Device, NEW type \in Operations, NEW u \in User, NEW right \in Passwords,
             Ask(d, type, u, right)
      PROVE  LinesTyped'
  <2>1. Request(type, u, d, token[d], right) \in RequestMessage
    BY <1>1, <1>5 DEF Request, RequestMessage, ClientTyped
  <2> QED
    BY <1>4, <1>5, <2>1 DEF Ask, serverVars
<1>6. ASSUME NEW d \in Device, Sync(d) PROVE LinesTyped'
  <2>1. Request("sync", user[d], d, token[d], TRUE) \in RequestMessage
    BY <1>1 DEF Request, RequestMessage, ClientTyped
  <2> QED
    BY <1>4, <1>6, <2>1 DEF Sync, serverVars
<1>7. ASSUME NEW d \in Device, DeviceReceive(d) PROVE LinesTyped'
  <2>1. conn[d] \in Connection /\ answers[conn[d]] # <<>>
    BY <1>1, <1>7 DEF DeviceReceive, ClientTyped
  <2>2. Tail(answers[conn[d]]) \in Seq(AnswerMessage)
    BY <1>1, <2>1, TailTyped DEF LinesTyped
  <2>3. /\ answers' = [answers EXCEPT ![conn[d]] = Tail(@)]
        /\ UNCHANGED <<device, requests>>
    BY <1>7 DEF DeviceReceive, serverVars
  <2> QED
    BY <1>1, <2>2, <2>3 DEF LinesTyped
<1>8. ASSUME NEW d \in Device, Drop(d) PROVE LinesTyped'
  BY <1>2, <1>8 DEF Drop, serverVars
<1>9. ASSUME NEW c \in Connection, ServerReceive(c) PROVE LinesTyped'
  <2> DEFINE m == Head(requests[c])
  <2>1. ServerEffect(c, m) /\ device' = device
        /\ requests' \in [Connection -> Seq(RequestMessage)]
    BY <1>1, <1>9, HeadRequest DEF LinesTyped
  <2> HIDE DEF m
  <2>2. ASSUME NEW type \in Operation, NEW success \in BOOLEAN, NEW t \in SessionId \cup {NoToken},
               Answer(c, type, success, t)
        PROVE  LinesTyped'
    <3>1. [type |-> type, success |-> success, token |-> t] \in AnswerMessage
      BY DEF AnswerMessage
    <3> QED
      BY <1>1, <2>1, <2>2, <3>1, AppendTyped DEF Answer, LinesTyped
  <2>3. CASE HandleRegister(c, m)
    <3>1. Answer(c, "register", m.user \notin users, NoToken)
      BY <2>3 DEF HandleRegister
    <3>2. (m.user \notin users) \in BOOLEAN
      OBVIOUS
    <3> QED
      BY <2>2, <3>1, <3>2
  <2>4. CASE HandleLogin(c, m)
    <3>1. \/ Answer(c, "login", FALSE, NoToken)
          \/ issued < MaxSessions /\ Answer(c, "login", TRUE, issued + 1)
      BY <2>4 DEF HandleLogin, NewSessionId
    <3>2. issued < MaxSessions => issued + 1 \in SessionId
      BY <1>1 DEF ServerTyped
    <3> QED
      BY <2>2, <3>1, <3>2
  <2>5. CASE HandleLogout(c, m)
    BY <2>2, <2>5 DEF HandleLogout
  <2>6. CASE HandleDeleteAccount(c, m)
    BY <2>2, <2>6 DEF HandleDeleteAccount
  <2>7. CASE HandleSync(c, m)
    BY <1>1, <2>1, <2>2, <2>7 DEF HandleSync, LinesTyped
  <2> QED
    BY <2>1, <2>3, <2>4, <2>5, <2>6, <2>7 DEF ServerEffect
<1>10. ASSUME NEW c \in Connection, ServerCloses(c) PROVE LinesTyped'
  BY <1>1, <1>10, EmptyTyped DEF LinesTyped, ServerCloses
<1>11. ASSUME NEW s \in SessionId, Expire(s) PROVE LinesTyped'
  BY <1>2, <1>11 DEF Expire, serverVars
<1>12. CASE UNCHANGED vars
  BY <1>2, <1>12 DEF vars, serverVars
<1> QED
  BY <1>3, <1>5, <1>6, <1>7, <1>8, <1>9, <1>10, <1>11, <1>12 DEF Next

(* The clients keep their types, and so do the counts of the bounds.        *)
LEMMA ClientsStayTyped ==
  ASSUME TypeOK, [Next]_vars
  PROVE  BoundsTyped' /\ ClientTyped'
<1> USE BoundsAssumption DEF SessionId, NoToken, ClientState
<1>1. BoundsTyped /\ ClientTyped
  BY DEF TypeOK
<1>2. CASE UNCHANGED <<boundVars, clientVars>>
  BY <1>1, <1>2 DEF BoundsTyped, ClientTyped, boundVars, clientVars
<1>3. ASSUME NEW d \in Device, NEW u \in User, NEW right \in Passwords, Start(d, u, right)
      PROVE  BoundsTyped' /\ ClientTyped'
  <2>1. BoundsTyped'
    BY <1>1, <1>3 DEF BoundsTyped, Start
  <2>2. /\ conn' \in [Device -> Connection \cup {NoConnection}]
        /\ user' \in [Device -> User]
        /\ state' \in [Device -> ClientState]
        /\ token' \in [Device -> SessionId \cup {NoToken}]
    BY <1>1, <1>3 DEF ClientTyped, Start
  <2>3. waiting' \in [Device -> BOOLEAN]
    BY <1>1, <1>3 DEF ClientTyped, Start
  <2> QED
    BY <2>1, <2>2, <2>3 DEF ClientTyped
<1>4. ASSUME NEW d \in Device, NEW type, NEW u, NEW right, Ask(d, type, u, right)
      PROVE  BoundsTyped' /\ ClientTyped'
  BY <1>1, <1>4 DEF Ask, clientVars, BoundsTyped, ClientTyped
<1>5. ASSUME NEW d \in Device, Drop(d) PROVE BoundsTyped' /\ ClientTyped'
  BY <1>1, <1>5 DEF Drop, boundVars, BoundsTyped, ClientTyped
<1>6. ASSUME NEW d \in Device, Sync(d) PROVE BoundsTyped' /\ ClientTyped'
  BY <1>1, <1>6 DEF Sync, BoundsTyped, ClientTyped
<1>7. ASSUME NEW d \in Device, DeviceReceive(d) PROVE BoundsTyped' /\ ClientTyped'
  <2> DEFINE m == Head(answers[conn[d]])
  <2>1. conn[d] \in Connection /\ answers[conn[d]] # <<>>
    BY <1>1, <1>7 DEF DeviceReceive, ClientTyped
  <2>2. m \in AnswerMessage
    BY <2>1, TailTyped DEF TypeOK, LinesTyped
  <2>3. m.token \in SessionId \cup {NoToken}
    BY <2>2 DEF AnswerMessage
  <2>4. token' \in [Device -> SessionId \cup {NoToken}]
    BY <1>1, <1>7, <2>3 DEF DeviceReceive, ClientTyped
  <2>5. state' \in [Device -> ClientState]
    BY <1>1, <1>7 DEF DeviceReceive, ClientTyped
  <2>6. waiting' \in [Device -> BOOLEAN]
    BY <1>1, <1>7 DEF DeviceReceive, ClientTyped
  <2> QED
    BY <1>1, <1>7, <2>4, <2>5, <2>6 DEF DeviceReceive, boundVars, BoundsTyped, ClientTyped
<1>8. ASSUME NEW c \in Connection, ServerReceive(c) \/ ServerCloses(c)
      PROVE  BoundsTyped' /\ ClientTyped'
  BY <1>2, <1>8 DEF ServerReceive, ServerCloses
<1>9. ASSUME NEW s \in SessionId, Expire(s) PROVE BoundsTyped' /\ ClientTyped'
  BY <1>2, <1>9 DEF Expire
<1>10. CASE UNCHANGED vars
  BY <1>2, <1>10 DEF vars
<1> QED
  BY <1>3, <1>4, <1>5, <1>6, <1>7, <1>8, <1>9, <1>10 DEF Next

(* The initial state is typed.                                              *)
LEMMA InitTyped == Init => TypeOK
<1> SUFFICES ASSUME Init PROVE TypeOK
  OBVIOUS
<1> USE BoundsAssumption DEF SessionId, NoToken, ClientState
<1>1. BoundsTyped /\ ServerTyped
  BY SessionTypes DEF Init, BoundsTyped, ServerTyped
<1>2. LinesTyped
  BY EmptyTyped DEF Init, LinesTyped
<1>3. ClientTyped
  BY DEF Init, ClientTyped
<1> QED
  BY <1>1, <1>2, <1>3 DEF TypeOK

(* The state of accounts, sessions, connections and clients is well typed,  *)
(* and no id above those given out is live or bound.                        *)
THEOREM TypeCorrect == Spec => []TypeOK
<1>1. TypeOK /\ [Next]_vars => TypeOK'
  BY ServerStaysTyped, LinesStayTyped, ClientsStayTyped DEF TypeOK
<1> QED
  BY <1>1, InitTyped, PTL DEF Spec

-----------------------------------------------------------------------------
(* The inductive invariant *)

(* A device's connection is the server's connection of that device, what is *)
(* sent on a connection carries its device's name, and a connection nobody  *)
(* has is bound to nothing.                                                 *)
Owners ==
  /\ \A d \in Device : conn[d] # NoConnection => device[conn[d]] = d
  /\ \A c \in Connection : \A i \in 1..Len(requests[c]) : requests[c][i].device = device[c]
  /\ \A c \in Connection : device[c] = NoDevice => connToSession[c] = NoToken

IInv == TypeOK /\ Owners /\ OneSessionPerDevice /\ SessionsHaveAccounts /\ BindingsAreOwn

(* A token on its way over a connection, or held by the device that has the *)
(* connection, is of a session that is over, or that is bound to it.        *)
Held(c, t) == t # NoToken => /\ t \in 1..issued
                             /\ sessions[t].open => connToSession[c] = t

TokensAreHeld ==
  \A c \in Connection :
    /\ \A i \in 1..Len(requests[c]) : Held(c, requests[c][i].token)
    /\ \A i \in 1..Len(answers[c]) : Held(c, answers[c][i].token)
    /\ \A d \in Device : conn[d] = c => Held(c, token[d])

(* A login is the first thing that arrives on a connection.                 *)
LoginIsFirst ==
  \A c \in Connection : \A i \in 1..Len(requests[c]) :
    requests[c][i].type = "login" => i = 1 /\ connToSession[c] = NoToken

BoundInv == IInv /\ TokensAreHeld /\ LoginIsFirst /\ SessionsDieWithConnection

(* What the server's handling of a message can do to the sessions: nothing, *)
(* open one, or end some.                                                   *)
Unaffected == UNCHANGED <<sessions, issued, connToSession>> /\ users \subseteq users'

Opened(c, m) ==
  /\ m.type = "login" /\ Accepted(c, m)
  /\ issued + 1 \in SessionId /\ issued' = issued + 1
  /\ users' = users
  /\ sessions' = [sessions EXCEPT ![issued + 1] = Session(m.user, m.device)]
  /\ connToSession' = [connToSession EXCEPT ![c] = issued + 1]

Ended(c, m) ==
  /\ IsActive(m.token)
  /\ issued' = issued
  /\ \A s \in SessionId : sessions'[s] \in {sessions[s], NoSession}
  /\ sessions'[m.token] = NoSession
  /\ \A s \in SessionId : sessions'[s].open /\ sessions[s].user \in users
                             => sessions[s].user \in users'
  /\ connToSession' = [connToSession EXCEPT ![c] = NoToken]

LEMMA ReceiveEffect ==
  ASSUME TypeOK, NEW c \in Connection, NEW m \in RequestMessage, ServerEffect(c, m)
  PROVE  Unaffected \/ Opened(c, m) \/ Ended(c, m)
<1> USE BoundsAssumption DEF SessionId, NoToken
<1>1. ServerTyped
  BY DEF TypeOK
<1>2. CASE HandleRegister(c, m)
  BY <1>2 DEF HandleRegister, Unaffected
<1>3. CASE HandleLogin(c, m)
  <2>1. CASE ~Accepted(c, m)
    BY <1>3, <2>1 DEF HandleLogin, Unaffected
  <2>2. CASE Accepted(c, m)
    <3>1. issued < MaxSessions => issued + 1 \in SessionId
      BY <1>1 DEF ServerTyped
    <3> QED
      BY <1>3, <2>2, <3>1 DEF HandleLogin, NewSessionId, Opened
  <2> QED
    BY <2>1, <2>2
<1>4. CASE HandleLogout(c, m)
  <2>1. CASE ~Resolves(m.token)
    BY <1>4, <2>1 DEF HandleLogout, Unaffected
  <2>2. CASE Resolves(m.token)
    <3>1. /\ sessions' = [sessions EXCEPT ![m.token] = NoSession]
          /\ connToSession' = [connToSession EXCEPT ![c] = NoToken]
          /\ users' = users /\ issued' = issued
      BY <1>4, <2>2 DEF HandleLogout
    <3>2. m.token \in SessionId /\ IsActive(m.token)
      BY <2>2 DEF Resolves, IsActive
    <3> QED
      BY <1>1, <3>1, <3>2 DEF Ended, ServerTyped
  <2> QED
    BY <2>1, <2>2
<1>5. CASE HandleDeleteAccount(c, m)
  <2> DEFINE refused == ~(Resolves(m.token) /\ m.right /\ sessions[m.token].user \in users)
  <2>1. CASE refused
    BY <1>5, <2>1 DEF HandleDeleteAccount, Unaffected
  <2>2. CASE ~refused
    <3>1. /\ users' = users \ {sessions[m.token].user}
          /\ sessions' = WithoutSessionsOf(m.token)
          /\ connToSession' = [connToSession EXCEPT ![c] = NoToken]
          /\ issued' = issued
      BY <1>5, <2>2 DEF HandleDeleteAccount
    <3>2. IsActive(m.token) /\ m.token \in SessionId /\ sessions[m.token].open
      BY <2>2 DEF Resolves, IsActive
    <3>3. \A s \in SessionId :
            sessions'[s] = IF sessions[s].open /\ sessions[s].user = sessions[m.token].user
                           THEN NoSession ELSE sessions[s]
      BY <3>1 DEF WithoutSessionsOf
    <3>4. sessions'[m.token] = NoSession
      BY <3>2, <3>3
    <3>5. \A s \in SessionId : sessions'[s].open /\ sessions[s].user \in users
                               => sessions[s].user \in users'
      BY <3>1, <3>3, SessionTypes
    <3> QED
      BY <3>1, <3>2, <3>3, <3>4, <3>5 DEF Ended
  <2> QED
    BY <2>1, <2>2
<1>6. CASE HandleSync(c, m)
  BY <1>6 DEF HandleSync, Unaffected
<1> QED
  BY <1>2, <1>3, <1>4, <1>5, <1>6 DEF ServerEffect

(* Ending sessions breaks neither of the two invariants about sessions.     *)
LEMMA EndingIsSafe ==
  ASSUME OneSessionPerDevice, SessionsHaveAccounts,
         \A s \in SessionId : sessions'[s] \in {sessions[s], NoSession},
         \A s \in SessionId : sessions'[s].open /\ sessions[s].user \in users
                              => sessions[s].user \in users'
  PROVE  OneSessionPerDevice' /\ SessionsHaveAccounts'
<1>1. \A s \in SessionId : sessions'[s].open => sessions'[s] = sessions[s]
  BY SessionTypes
<1>2. OneSessionPerDevice'
  BY <1>1 DEF OneSessionPerDevice
<1>3. SessionsHaveAccounts'
  BY <1>1 DEF SessionsHaveAccounts
<1> QED
  BY <1>2, <1>3

(* Every step keeps a user to one session on a device, and the sessions to  *)
(* the accounts that exist.                                                 *)
LEMMA SessionsStayRight ==
  ASSUME IInv, [Next]_vars
  PROVE  OneSessionPerDevice' /\ SessionsHaveAccounts'
<1> USE DEF IInv
<1>1. ASSUME UNCHANGED sessions, users \subseteq users'
      PROVE  OneSessionPerDevice' /\ SessionsHaveAccounts'
  BY <1>1 DEF OneSessionPerDevice, SessionsHaveAccounts
<1>2. ASSUME NEW c \in Connection, ServerReceive(c)
      PROVE  OneSessionPerDevice' /\ SessionsHaveAccounts'
  <2> DEFINE m == Head(requests[c])
  <2>1. m \in RequestMessage /\ ServerEffect(c, m)
    BY <1>2, HeadRequest
  <2> HIDE DEF m
  <2>2. CASE Unaffected
    BY <1>1, <2>2 DEF Unaffected
  <2>3. CASE Opened(c, m)
    <3> DEFINE n == issued + 1
    <3>1. /\ n \in SessionId /\ users' = users
          /\ sessions' = [sessions EXCEPT ![n] = Session(m.user, m.device)]
          /\ \A s \in SessionId : sessions[s] # Session(m.user, m.device)
          /\ m.user \in users
      BY <2>3 DEF Opened, Accepted, HasSession
    <3>2. m.user \in User /\ m.device \in Device
      BY <2>1 DEF RequestMessage
    <3>3. /\ sessions'[n] = Session(m.user, m.device)
          /\ \A s \in SessionId \ {n} : sessions'[s] = sessions[s]
      BY <3>1 DEF TypeOK, ServerTyped
    <3> HIDE DEF n
    <3>4. ASSUME NEW s \in SessionId, sessions[s].open
          PROVE  sessions[s].user # m.user \/ sessions[s].device # m.device
      <4>1. sessions[s] \in SessionRecord
        BY <3>4, SessionTypes DEF TypeOK, ServerTyped
      <4> QED
        BY <3>1, <4>1 DEF SessionRecord, Session
    <3>5. Session(m.user, m.device).user = m.user /\ Session(m.user, m.device).device = m.device
      BY <3>2, SessionTypes
    <3>6. OneSessionPerDevice'
      BY <3>3, <3>4, <3>5 DEF OneSessionPerDevice
    <3>7. SessionsHaveAccounts'
      BY <3>1, <3>3, <3>5 DEF SessionsHaveAccounts
    <3> QED
      BY <3>6, <3>7
  <2>4. CASE Ended(c, m)
    BY <2>4, EndingIsSafe DEF Ended
  <2> QED
    BY <2>1, <2>2, <2>3, <2>4, ReceiveEffect
<1>3. ASSUME NEW c \in Connection, ServerCloses(c)
      PROVE  OneSessionPerDevice' /\ SessionsHaveAccounts'
  <2>1. sessions' = WithoutSession(connToSession[c]) /\ users' = users
    BY <1>3 DEF ServerCloses
  <2>2. \A s \in SessionId : sessions'[s] \in {sessions[s], NoSession}
    BY <2>1 DEF WithoutSession
  <2> QED
    BY <2>1, <2>2, EndingIsSafe
<1>4. ASSUME NEW d \in Device, NEW u, NEW right, NEW type,
             \/ Start(d, u, right) \/ Ask(d, type, u, right)
             \/ Drop(d) \/ Sync(d) \/ DeviceReceive(d)
      PROVE  OneSessionPerDevice' /\ SessionsHaveAccounts'
  BY <1>1, <1>4 DEF Start, Ask, Drop, Sync, DeviceReceive, serverVars
<1>5. ASSUME NEW s \in SessionId, Expire(s)
      PROVE  OneSessionPerDevice' /\ SessionsHaveAccounts'
  BY <1>1, <1>5 DEF Expire, serverVars
<1>6. CASE UNCHANGED vars
  BY <1>1, <1>6 DEF vars, serverVars
<1> QED
  BY <1>2, <1>3, <1>4, <1>5, <1>6 DEF Next

(* The messages of a queue after one is appended, and after the first one   *)
(* is taken: no message is new but the appended one.                        *)
LEMMA AppendEach ==
  ASSUME NEW S, NEW q \in Seq(S), NEW m \in S, NEW i \in 1..Len(Append(q, m))
  PROVE  \/ i \in 1..Len(q) /\ Append(q, m)[i] = q[i]
         \/ i = Len(q) + 1 /\ Append(q, m)[i] = m
  OBVIOUS

LEMMA TailEach ==
  ASSUME NEW S, NEW q \in Seq(S), q # <<>>
  PROVE  /\ 1 \in 1..Len(q) /\ Head(q) = q[1]
         /\ \A i \in 1..Len(Tail(q)) : i + 1 \in 1..Len(q) /\ Tail(q)[i] = q[i + 1]
  OBVIOUS

(* What a device sends is put at the end of the queue of its connection.    *)
LEMMA SendEach ==
  ASSUME TypeOK, NEW d \in Device, conn[d] # NoConnection,
         NEW m \in RequestMessage, Send(d, m),
         NEW c \in Connection, NEW i \in 1..Len(requests'[c])
  PROVE  \/ i \in 1..Len(requests[c]) /\ requests'[c][i] = requests[c][i]
         \/ c = conn[d] /\ i = Len(requests[c]) + 1 /\ requests'[c][i] = m
<1>1. requests \in [Connection -> Seq(RequestMessage)] /\ conn[d] \in Connection
  BY DEF TypeOK, LinesTyped, ClientTyped
<1>2. requests'[c] = IF c = conn[d] THEN Append(requests[c], m) ELSE requests[c]
  BY <1>1 DEF Send
<1>3. CASE c = conn[d]
  BY <1>1, <1>2, <1>3, AppendEach
<1>4. CASE c # conn[d]
  BY <1>2, <1>4
<1> QED
  BY <1>3, <1>4

(* What the server has not received yet stays in its queue.                 *)
LEMMA ReceiveEach ==
  ASSUME TypeOK, NEW c \in Connection, ServerReceive(c)
  PROVE  /\ 1 \in 1..Len(requests[c]) /\ Head(requests[c]) = requests[c][1]
         /\ \A b \in Connection : \A i \in 1..Len(requests'[b]) :
              \/ b # c /\ i \in 1..Len(requests[b]) /\ requests'[b][i] = requests[b][i]
              \/ b = c /\ i + 1 \in 1..Len(requests[b]) /\ requests'[b][i] = requests[b][i + 1]
<1>1. requests \in [Connection -> Seq(RequestMessage)] /\ requests[c] # <<>>
  BY DEF TypeOK, LinesTyped, ServerReceive
<1>2. \A b \in Connection : requests'[b] = IF b = c THEN Tail(requests[b]) ELSE requests[b]
  BY <1>1 DEF ServerReceive
<1>3. /\ 1 \in 1..Len(requests[c]) /\ Head(requests[c]) = requests[c][1]
      /\ \A i \in 1..Len(Tail(requests[c])) :
           i + 1 \in 1..Len(requests[c]) /\ Tail(requests[c])[i] = requests[c][i + 1]
  <2>1. requests[c] \in Seq(RequestMessage) /\ requests[c] # <<>>
    BY <1>1
  <2> QED
    BY <2>1, TailEach
<1>4. ASSUME NEW b \in Connection, NEW i \in 1..Len(requests'[b])
      PROVE  \/ b # c /\ i \in 1..Len(requests[b]) /\ requests'[b][i] = requests[b][i]
             \/ b = c /\ i + 1 \in 1..Len(requests[b]) /\ requests'[b][i] = requests[b][i + 1]
  <2>1. CASE b = c
    BY <1>2, <1>3, <1>4, <2>1
  <2>2. CASE b # c
    BY <1>2, <1>4, <2>2
  <2> QED
    BY <2>1, <2>2
<1> QED
  BY <1>3, <1>4

(* Every step keeps connections, devices and bindings together.             *)
LEMMA BindingsStayOwn ==
  ASSUME IInv, [Next]_vars
  PROVE  Owners' /\ BindingsAreOwn'
<1> USE NamesAssumption DEF NoToken
<1>1. TypeOK /\ Owners /\ BindingsAreOwn
  BY DEF IInv
<1>2. ASSUME UNCHANGED <<sessions, device, connToSession, conn, requests>>
      PROVE  Owners' /\ BindingsAreOwn'
  BY <1>1, <1>2 DEF Owners, BindingsAreOwn
<1>3. ASSUME NEW d \in Device, NEW u \in User, NEW right \in Passwords, Start(d, u, right)
      PROVE  Owners' /\ BindingsAreOwn'
  <2> DEFINE m == Request("login", u, d, NoToken, right)
  <2>1. PICK c \in Connection :
          /\ device[c] = NoDevice
          /\ device' = [device EXCEPT ![c] = d]
          /\ conn' = [conn EXCEPT ![d] = c]
          /\ requests' = [requests EXCEPT ![c] = <<m>>]
    BY <1>3 DEF Start
  <2>2. UNCHANGED <<sessions, connToSession>>
    BY <1>3 DEF Start
  <2>3. connToSession[c] = NoToken /\ m.device = d
    BY <1>1, <2>1 DEF Owners, Request
  <2> HIDE DEF m
  <2>4. \A b \in Connection : device'[b] = IF b = c THEN d ELSE device[b]
    BY <1>1, <2>1 DEF TypeOK, LinesTyped
  <2>5. \A e \in Device : conn'[e] # NoConnection => device'[conn'[e]] = e
    <3> SUFFICES ASSUME NEW e \in Device, conn'[e] # NoConnection PROVE device'[conn'[e]] = e
      OBVIOUS
    <3>1. CASE e = d
      BY <1>1, <2>1, <2>4, <3>1 DEF TypeOK, ClientTyped
    <3>2. CASE e # d
      <4>1. conn'[e] = conn[e] /\ conn[e] \in Connection /\ device[conn[e]] = e
        BY <1>1, <2>1, <3>2 DEF TypeOK, ClientTyped, Owners
      <4>2. conn[e] # c
        BY <2>1, <4>1
      <4> QED
        BY <2>4, <4>1, <4>2
    <3> QED
      BY <3>1, <3>2
  <2>6. \A b \in Connection : \A i \in 1..Len(requests'[b]) : requests'[b][i].device = device'[b]
    <3>1. \A b \in Connection : requests'[b] = IF b = c THEN <<m>> ELSE requests[b]
      BY <1>1, <2>1 DEF TypeOK, LinesTyped
    <3>2. \A i \in 1..Len(<<m>>) : <<m>>[i] = m
      OBVIOUS
    <3> QED
      BY <1>1, <2>3, <2>4, <3>1, <3>2 DEF Owners
  <2>7. Owners'
    BY <1>1, <2>2, <2>3, <2>4, <2>5, <2>6 DEF Owners
  <2>8. BindingsAreOwn'
    BY <1>1, <2>2, <2>3, <2>4 DEF BindingsAreOwn
  <2> QED
    BY <2>7, <2>8
<1>4. ASSUME NEW d \in Device, NEW m \in RequestMessage, m.device = d, conn[d] # NoConnection,
             Send(d, m), UNCHANGED <<sessions, device, connToSession, conn>>
      PROVE  Owners' /\ BindingsAreOwn'
  <2>1. device[conn[d]] = d
    BY <1>1, <1>4 DEF Owners
  <2>2. \A c \in Connection : \A i \in 1..Len(requests'[c]) : requests'[c][i].device = device[c]
    BY <1>1, <1>4, <2>1, SendEach DEF Owners
  <2> QED
    BY <1>1, <1>4, <2>2 DEF Owners, BindingsAreOwn
<1>5. ASSUME NEW d \in Device, NEW type \in Operations, NEW u \in User, NEW right \in Passwords,
             Ask(d, type, u, right)
      PROVE  Owners' /\ BindingsAreOwn'
  <2> DEFINE m == Request(type, u, d, token[d], right)
  <2>1. m \in RequestMessage /\ m.device = d
    BY <1>1, <1>5, UseAssumption DEF Request, RequestMessage, TypeOK, ClientTyped
  <2>2. conn[d] # NoConnection /\ Send(d, m) /\ UNCHANGED <<sessions, device, connToSession, conn>>
    BY <1>5 DEF Ask, serverVars, clientVars
  <2> QED
    BY <1>4, <2>1, <2>2
<1>6. ASSUME NEW d \in Device, Sync(d)
      PROVE  Owners' /\ BindingsAreOwn'
  <2> DEFINE m == Request("sync", user[d], d, token[d], TRUE)
  <2>1. m \in RequestMessage /\ m.device = d
    BY <1>1 DEF Request, RequestMessage, Operation, TypeOK, ClientTyped
  <2>2. conn[d] # NoConnection /\ Send(d, m) /\ UNCHANGED <<sessions, device, connToSession, conn>>
    BY <1>6 DEF Sync, serverVars
  <2> QED
    BY <1>4, <2>1, <2>2
<1>7. ASSUME NEW d \in Device, Drop(d)
      PROVE  Owners' /\ BindingsAreOwn'
  <2>1. conn' = [conn EXCEPT ![d] = NoConnection]
        /\ UNCHANGED <<sessions, device, connToSession, requests>>
    BY <1>7 DEF Drop, serverVars
  <2>2. \A e \in Device : conn'[e] # NoConnection => conn'[e] = conn[e]
    BY <1>1, <2>1 DEF TypeOK, ClientTyped
  <2>3. Owners'
    BY <1>1, <2>1, <2>2 DEF Owners
  <2>4. BindingsAreOwn'
    BY <1>1, <2>1 DEF BindingsAreOwn
  <2> QED
    BY <2>3, <2>4
<1>8. ASSUME NEW d \in Device, DeviceReceive(d)
      PROVE  Owners' /\ BindingsAreOwn'
  BY <1>2, <1>8 DEF DeviceReceive, serverVars
<1>9. ASSUME NEW c \in Connection, ServerReceive(c)
      PROVE  Owners' /\ BindingsAreOwn'
  <2> DEFINE m == requests[c][1]
  <2>1. /\ m \in RequestMessage /\ ServerEffect(c, m)
        /\ UNCHANGED <<device, conn>> /\ device[c] # NoDevice
    BY <1>1, <1>9, HeadRequest, ReceiveEach DEF ServerReceive, clientVars
  <2>2. m.device = device[c] /\ m.user \in User /\ m.device \in Device
    BY <1>1, <1>9, <2>1, ReceiveEach DEF Owners, RequestMessage
  <2>3. \A b \in Connection : \A i \in 1..Len(requests'[b]) : requests'[b][i].device = device[b]
    BY <1>1, <1>9, ReceiveEach DEF Owners
  <2> HIDE DEF m
  <2>4. CASE Unaffected
    BY <1>1, <2>1, <2>3, <2>4 DEF Unaffected, Owners, BindingsAreOwn
  <2>5. ASSUME NEW t, connToSession' = [connToSession EXCEPT ![c] = t]
        PROVE  /\ Owners'
               /\ \A b \in Connection : connToSession'[b] = IF b = c THEN t ELSE connToSession[b]
    BY <1>1, <2>1, <2>3, <2>5 DEF Owners, TypeOK, ServerTyped
  <2>6. CASE Opened(c, m)
    <3>1. /\ issued + 1 \in SessionId
          /\ sessions' = [sessions EXCEPT ![issued + 1] = Session(m.user, m.device)]
          /\ connToSession' = [connToSession EXCEPT ![c] = issued + 1]
      BY <2>6 DEF Opened
    <3>2. \A b \in Connection : connToSession[b] \in 0..issued
      BY <1>1 DEF TypeOK, ServerTyped
    <3>3. issued \in Nat
      BY <1>1, BoundsAssumption DEF TypeOK, ServerTyped
    <3>4. sessions'[issued + 1].device = device[c]
      BY <1>1, <2>2, <3>1, SessionTypes DEF TypeOK, ServerTyped
    <3>5. \A b \in Connection : sessions'[connToSession[b]] = sessions[connToSession[b]]
      BY <1>1, <3>1, <3>2, <3>3 DEF TypeOK, ServerTyped
    <3>6. BindingsAreOwn'
      BY <1>1, <2>1, <2>5, <3>1, <3>2, <3>3, <3>4, <3>5 DEF BindingsAreOwn
    <3> QED
      BY <2>5, <3>1, <3>6
  <2>7. CASE Ended(c, m)
    <3>1. connToSession' = [connToSession EXCEPT ![c] = NoToken]
      BY <2>7 DEF Ended
    <3>2. \A b \in Connection : connToSession[b] # NoToken => connToSession[b] \in SessionId
      BY <1>1, BoundsAssumption DEF TypeOK, ServerTyped, SessionId
    <3>3. \A s \in SessionId : sessions'[s].open => sessions'[s] = sessions[s]
      BY <2>7, SessionTypes DEF Ended
    <3>4. BindingsAreOwn'
      BY <1>1, <2>1, <2>5, <3>1, <3>2, <3>3 DEF BindingsAreOwn
    <3> QED
      BY <2>5, <3>1, <3>4
  <2> QED
    BY <1>1, <2>1, <2>4, <2>6, <2>7, ReceiveEffect
<1>10. ASSUME NEW c \in Connection, ServerCloses(c)
       PROVE  Owners' /\ BindingsAreOwn'
  <2>1. /\ device' = [device EXCEPT ![c] = NoDevice]
        /\ connToSession' = [connToSession EXCEPT ![c] = NoToken]
        /\ sessions' = WithoutSession(connToSession[c])
        /\ requests' = [requests EXCEPT ![c] = <<>>]
        /\ conn' = conn /\ \A d \in Device : conn[d] # c
    BY <1>10 DEF ServerCloses, clientVars
  <2>2. \A b \in Connection :
          /\ device'[b] = IF b = c THEN NoDevice ELSE device[b]
          /\ connToSession'[b] = IF b = c THEN NoToken ELSE connToSession[b]
          /\ requests'[b] = IF b = c THEN <<>> ELSE requests[b]
    BY <1>1, <2>1 DEF TypeOK, LinesTyped, ServerTyped
  <2>3. \A s \in SessionId : sessions'[s].open => sessions'[s] = sessions[s]
    BY <2>1, SessionTypes DEF WithoutSession
  <2>4. \A b \in Connection : connToSession[b] # NoToken => connToSession[b] \in SessionId
    BY <1>1, BoundsAssumption DEF TypeOK, ServerTyped, SessionId
  <2>5. \A d \in Device : conn'[d] # NoConnection => device'[conn'[d]] = d
    BY <1>1, <2>1, <2>2 DEF TypeOK, ClientTyped, Owners
  <2>6. \A b \in Connection : \A i \in 1..Len(requests'[b]) : requests'[b][i].device = device'[b]
    BY <1>1, <2>2 DEF Owners
  <2>7. Owners'
    BY <1>1, <2>2, <2>5, <2>6 DEF Owners
  <2>8. BindingsAreOwn'
    BY <1>1, <2>2, <2>3, <2>4 DEF BindingsAreOwn
  <2> QED
    BY <2>7, <2>8
<1>11. ASSUME NEW s \in SessionId, Expire(s)
       PROVE  Owners' /\ BindingsAreOwn'
  BY <1>2, <1>11 DEF Expire, serverVars, clientVars
<1>12. CASE UNCHANGED vars
  BY <1>2, <1>12 DEF vars, serverVars, clientVars
<1> QED
  BY <1>3, <1>5, <1>6, <1>7, <1>8, <1>9, <1>10, <1>11, <1>12 DEF Next

-----------------------------------------------------------------------------
(* Sessions and the connections they are bound to *)

(* A message the server handles is answered with no token, or with that of  *)
(* the session just opened.                                                 *)
Answered(c, m) ==
  \/ answers' = answers
  \/ \E a \in AnswerMessage :
       /\ answers' = [answers EXCEPT ![c] = Append(@, a)]
       /\ a.token = NoToken \/ (a.token = issued + 1 /\ Opened(c, m))

LEMMA AnswerEffect ==
  ASSUME TypeOK, NEW c \in Connection, NEW m \in RequestMessage, ServerEffect(c, m)
  PROVE  Answered(c, m)
<1>1. ASSUME NEW type \in Operation, NEW success \in BOOLEAN, Answer(c, type, success, NoToken)
      PROVE  Answered(c, m)
  <2>1. [type |-> type, success |-> success, token |-> NoToken] \in AnswerMessage
    BY DEF AnswerMessage
  <2> QED
    BY <1>1, <2>1 DEF Answer, Answered
<1>2. CASE HandleRegister(c, m)
  <2>1. Answer(c, "register", m.user \notin users, NoToken) /\ (m.user \notin users) \in BOOLEAN
    BY <1>2 DEF HandleRegister
  <2>2. "register" \in Operation
    BY DEF Operation
  <2> QED
    BY <1>1, <2>1, <2>2
<1>3. CASE HandleLogin(c, m)
  <2>1. CASE ~Accepted(c, m)
    <3>1. Answer(c, "login", FALSE, NoToken) /\ "login" \in Operation
      BY <1>3, <2>1 DEF HandleLogin, Operation
    <3> QED
      BY <1>1, <3>1
  <2>2. CASE Accepted(c, m)
    <3>1. Answer(c, "login", TRUE, issued + 1)
      BY <1>3, <2>2 DEF HandleLogin, NewSessionId
    <3>2. Unaffected \/ Opened(c, m) \/ Ended(c, m)
      BY ReceiveEffect
    <3>3. issued' = issued + 1 /\ issued \in Nat
      BY <1>3, <2>2, BoundsAssumption DEF HandleLogin, TypeOK, ServerTyped
    <3>4. Opened(c, m) /\ issued + 1 \in SessionId
      BY <3>2, <3>3 DEF Unaffected, Opened, Ended
    <3>5. [type |-> "login", success |-> TRUE, token |-> issued + 1] \in AnswerMessage
      BY <3>4 DEF AnswerMessage, Operation
    <3> QED
      BY <3>1, <3>4, <3>5 DEF Answer, Answered
  <2> QED
    BY <2>1, <2>2
<1>4. CASE HandleLogout(c, m)
  <2>1. \E success \in BOOLEAN : Answer(c, "logout", success, NoToken)
    BY <1>4 DEF HandleLogout
  <2>2. "logout" \in Operation
    BY DEF Operation
  <2> QED
    BY <1>1, <2>1, <2>2
<1>5. CASE HandleDeleteAccount(c, m)
  <2>1. \E success \in BOOLEAN : Answer(c, "deleteAccount", success, NoToken)
    BY <1>5 DEF HandleDeleteAccount
  <2>2. "deleteAccount" \in Operation
    BY DEF Operation
  <2> QED
    BY <1>1, <2>1, <2>2
<1>6. CASE HandleSync(c, m)
  <2>1. answers' = answers \/ Answer(c, "sync", TRUE, NoToken)
    BY <1>6 DEF HandleSync
  <2>2. "sync" \in Operation
    BY DEF Operation
  <2> QED
    BY <1>1, <2>1, <2>2 DEF Answered
<1> QED
  BY <1>2, <1>3, <1>4, <1>5, <1>6 DEF ServerEffect

(* What the server handles leaves every held token held, on any connection, *)
(* and every live session bound: a session is opened on a connection that   *)
(* has none, and ended on the connection it is bound to.                    *)
LEMMA ReceiveKeepsHeld ==
  ASSUME BoundInv, [Next]_vars, NEW c \in Connection, ServerReceive(c)
  PROVE  /\ \A b \in Connection, t \in SessionId \cup {NoToken} : Held(b, t) => Held(b, t)'
         /\ \A b \in Connection : connToSession[b] = NoToken /\ b # c => connToSession'[b] = NoToken
         /\ Opened(c, requests[c][1]) => Held(c, issued)'
         /\ SessionsDieWithConnection'
<1> USE BoundsAssumption DEF NoToken, SessionId
<1> DEFINE m == requests[c][1]
<1>1. TypeOK /\ issued \in Nat /\ sessions \in [SessionId -> SessionRecord \cup {NoSession}]
      /\ connToSession \in [Connection -> 0..issued] /\ device' = device /\ device[c] # NoDevice
  BY DEF BoundInv, IInv, TypeOK, ServerTyped, ServerReceive
<1>2. m \in RequestMessage /\ ServerEffect(c, m) /\ 1 \in 1..Len(requests[c])
  BY <1>1, HeadRequest, ReceiveEach
<1>3. Held(c, m.token) /\ (m.type = "login" => connToSession[c] = NoToken)
  BY <1>2 DEF BoundInv, TokensAreHeld, LoginIsFirst
<1>4. \A s \in SessionId : sessions[s].open =>
        \E b \in Connection : device[b] # NoDevice /\ connToSession[b] = s
  BY DEF BoundInv, SessionsDieWithConnection
<1> HIDE DEF m
<1>5. CASE Unaffected
  <2>1. UNCHANGED <<sessions, issued, connToSession>>
    BY <1>5 DEF Unaffected
  <2>2. ~Opened(c, m)
    BY <1>1, <2>1 DEF Opened
  <2> QED
    BY <1>1, <1>4, <2>1, <2>2 DEF Held, SessionsDieWithConnection, m
<1>6. CASE Opened(c, m)
  <2>1. /\ connToSession[c] = NoToken /\ issued + 1 \in SessionId /\ issued' = issued + 1
        /\ \A s \in SessionId : s # issued + 1 => sessions'[s] = sessions[s]
        /\ \A b \in Connection : connToSession'[b] = IF b = c THEN issued + 1 ELSE connToSession[b]
    BY <1>1, <1>3, <1>6 DEF Opened
  <2>2. ASSUME NEW b \in Connection, NEW t \in SessionId \cup {NoToken}, Held(b, t)
        PROVE  Held(b, t)'
    <3> SUFFICES ASSUME t # NoToken PROVE t \in 1..issued' /\ (sessions'[t].open => connToSession'[b] = t)
      BY DEF Held
    <3>1. t \in 1..issued /\ t \in SessionId /\ (sessions[t].open => connToSession[b] = t)
      BY <2>2 DEF Held
    <3>2. sessions'[t] = sessions[t] /\ t \in 1..issued'
      BY <1>1, <2>1, <3>1
    <3>3. sessions[t].open => b # c
      BY <2>1, <3>1
    <3> QED
      BY <2>1, <3>1, <3>2, <3>3
  <2>3. Held(c, issued)'
    BY <1>1, <2>1 DEF Held
  <2>4. ASSUME NEW s \in SessionId, sessions'[s].open
        PROVE  \E b \in Connection : device[b] # NoDevice /\ connToSession'[b] = s
    <3>1. CASE s = issued + 1
      BY <1>1, <2>1, <3>1
    <3>2. CASE s # issued + 1
      BY <1>1, <1>4, <2>1, <2>4, <3>2
    <3> QED
      BY <3>1, <3>2
  <2>5. SessionsDieWithConnection'
    BY <1>1, <2>4 DEF SessionsDieWithConnection
  <2> QED
    BY <2>1, <2>2, <2>3, <2>5
<1>7. CASE Ended(c, m)
  <2>1. /\ connToSession[c] = m.token /\ m.token \in SessionId /\ issued' = issued
        /\ \A s \in SessionId : sessions'[s].open => sessions[s].open /\ s # m.token
        /\ \A b \in Connection : connToSession'[b] = IF b = c THEN NoToken ELSE connToSession[b]
    BY <1>1, <1>3, <1>7, SessionTypes DEF Ended, IsActive, Held
  <2>2. ASSUME NEW b \in Connection, NEW t \in SessionId \cup {NoToken}, Held(b, t)
        PROVE  Held(b, t)'
    BY <1>1, <2>1, <2>2 DEF Held
  <2>3. ~Opened(c, m)
    BY <1>1, <2>1 DEF Opened
  <2>4. SessionsDieWithConnection'
    BY <1>1, <1>4, <2>1 DEF SessionsDieWithConnection
  <2> QED
    BY <2>1, <2>2, <2>3, <2>4 DEF m
<1> QED
  BY <1>1, <1>2, <1>5, <1>6, <1>7, ReceiveEffect

(* Every step keeps the tokens with the connection of their session, and a  *)
(* live session bound to a connection, when only a starting client logs in. *)
LEMMA TokensStayHeld ==
  ASSUME "login" \notin Operations, BoundInv, [Next]_vars
  PROVE  TokensAreHeld' /\ LoginIsFirst' /\ SessionsDieWithConnection'
<1> DEFINE Goal == TokensAreHeld' /\ LoginIsFirst' /\ SessionsDieWithConnection'
<1> USE NamesAssumption
<1>1. TypeOK /\ Owners /\ TokensAreHeld /\ LoginIsFirst /\ SessionsDieWithConnection
  BY DEF BoundInv, IInv
<1>2. \A c \in Connection : Held(c, NoToken) /\ Held(c, NoToken)'
  BY DEF Held
<1>3. ASSUME NEW d \in Device, NEW u \in User, NEW right \in Passwords, Start(d, u, right)
      PROVE  Goal
  <2> DEFINE m == Request("login", u, d, NoToken, right)
  <2>1. PICK c \in Connection :
          /\ device[c] = NoDevice
          /\ device' = [device EXCEPT ![c] = d]
          /\ conn' = [conn EXCEPT ![d] = c]
          /\ requests' = [requests EXCEPT ![c] = <<m>>]
          /\ answers' = [answers EXCEPT ![c] = <<>>]
    BY <1>3 DEF Start
  <2>2. UNCHANGED <<issued, sessions, connToSession>> /\ token' = [token EXCEPT ![d] = NoToken]
    BY <1>3 DEF Start
  <2>3. connToSession[c] = NoToken /\ m.token = NoToken
    BY <1>1, <2>1 DEF Owners, Request
  <2> HIDE DEF m
  <2>4. \A b \in Connection :
          /\ requests'[b] = IF b = c THEN <<m>> ELSE requests[b]
          /\ answers'[b] = IF b = c THEN <<>> ELSE answers[b]
          /\ device'[b] = IF b = c THEN d ELSE device[b]
    BY <1>1, <2>1 DEF TypeOK, LinesTyped
  <2>5. \A e \in Device : /\ conn'[e] = IF e = d THEN c ELSE conn[e]
                          /\ token'[e] = IF e = d THEN NoToken ELSE token[e]
    BY <1>1, <2>1, <2>2 DEF TypeOK, ClientTyped
  <2>6. \A i \in 1..Len(<<m>>) : i = 1 /\ <<m>>[i] = m
    OBVIOUS
  <2>8. TokensAreHeld'
    <3>1. ASSUME NEW b \in Connection, NEW i \in 1..Len(requests'[b])
          PROVE  Held(b, requests[b][i].token)'
      <4>1. CASE b = c
        BY <1>2, <2>3, <2>4, <2>6, <3>1, <4>1 DEF Held
      <4>2. CASE b # c
        BY <1>1, <2>2, <2>4, <3>1, <4>2 DEF TokensAreHeld, Held
      <4> QED
        BY <4>1, <4>2
    <3>2. ASSUME NEW b \in Connection, NEW i \in 1..Len(answers'[b])
          PROVE  Held(b, answers[b][i].token)'
      BY <1>1, <2>2, <2>4, <3>2 DEF TokensAreHeld, Held
    <3>3. ASSUME NEW b \in Connection, NEW e \in Device, conn'[e] = b
          PROVE  Held(b, token[e])'
      BY <1>1, <2>2, <2>5, <3>3 DEF TokensAreHeld, Held
    <3> QED
      BY <3>1, <3>2, <3>3 DEF TokensAreHeld
  <2>9. LoginIsFirst'
    BY <1>1, <2>2, <2>3, <2>4, <2>6 DEF LoginIsFirst
  <2>10. SessionsDieWithConnection'
    <3>1. d # NoDevice
      OBVIOUS
    <3> QED
      BY <1>1, <2>2, <2>4, <3>1 DEF SessionsDieWithConnection
  <2> QED
    BY <2>8, <2>9, <2>10
<1>4. ASSUME NEW d \in Device, conn[d] # NoConnection, NEW m \in RequestMessage,
             m.token = token[d], m.type # "login", Send(d, m),
             UNCHANGED <<issued, sessions, connToSession, device, conn, token, answers>>
      PROVE  Goal
  <2>1. conn[d] \in Connection /\ Held(conn[d], token[d])
    BY <1>1, <1>4 DEF TypeOK, ClientTyped, TokensAreHeld
  <2>2. ASSUME NEW c \in Connection, NEW i \in 1..Len(requests'[c])
        PROVE  /\ Held(c, requests'[c][i].token)
               /\ requests'[c][i].type = "login" => i = 1 /\ connToSession[c] = NoToken
    BY <1>1, <1>4, <2>1, <2>2, SendEach, SMTT(30) DEF TokensAreHeld, LoginIsFirst
  <2>3. TokensAreHeld'
    BY <1>1, <1>4, <2>2 DEF TokensAreHeld, Held
  <2>4. LoginIsFirst'
    BY <1>4, <2>2 DEF LoginIsFirst
  <2>5. SessionsDieWithConnection'
    BY <1>1, <1>4 DEF SessionsDieWithConnection
  <2> QED
    BY <2>3, <2>4, <2>5
<1>5. ASSUME NEW d \in Device, NEW type \in Operations, NEW u \in User, NEW right \in Passwords,
             Ask(d, type, u, right)
      PROVE  Goal
  <2> DEFINE m == Request(type, u, d, token[d], right)
  <2>1. m \in RequestMessage /\ m.token = token[d] /\ m.type # "login"
    BY <1>1, <1>5, UseAssumption DEF Request, RequestMessage, TypeOK, ClientTyped
  <2>2. /\ conn[d] # NoConnection /\ Send(d, m)
        /\ UNCHANGED <<issued, sessions, connToSession, device, conn, token, answers>>
    BY <1>5 DEF Ask, serverVars, clientVars
  <2> QED
    BY <1>4, <2>1, <2>2
<1>6. ASSUME NEW d \in Device, Sync(d) PROVE Goal
  <2> DEFINE m == Request("sync", user[d], d, token[d], TRUE)
  <2>1. m \in RequestMessage /\ m.token = token[d] /\ m.type # "login"
    BY <1>1 DEF Request, RequestMessage, Operation, TypeOK, ClientTyped
  <2>2. /\ conn[d] # NoConnection /\ Send(d, m)
        /\ UNCHANGED <<issued, sessions, connToSession, device, conn, token, answers>>
    BY <1>6 DEF Sync, serverVars
  <2> QED
    BY <1>4, <2>1, <2>2
<1>7. ASSUME NEW d \in Device, Drop(d) PROVE Goal
  <2>1. /\ conn' = [conn EXCEPT ![d] = NoConnection]
        /\ UNCHANGED <<issued, sessions, connToSession, device, token, requests, answers>>
    BY <1>7 DEF Drop, serverVars
  <2>2. \A c \in Connection, e \in Device : conn'[e] = c => conn[e] = c
    BY <1>1, <2>1 DEF TypeOK, ClientTyped
  <2>3. TokensAreHeld'
    BY <1>1, <2>1, <2>2 DEF TokensAreHeld, Held
  <2>4. LoginIsFirst' /\ SessionsDieWithConnection'
    BY <1>1, <2>1 DEF LoginIsFirst, SessionsDieWithConnection
  <2> QED
    BY <2>3, <2>4
<1>8. ASSUME NEW d \in Device, DeviceReceive(d) PROVE Goal
  <2> DEFINE c == conn[d]
             a == Head(answers[c])
  <2>1. /\ c \in Connection /\ answers[c] # <<>>
        /\ answers' = [answers EXCEPT ![c] = Tail(@)]
        /\ UNCHANGED <<issued, sessions, connToSession, device, conn, requests>>
    BY <1>1, <1>8 DEF DeviceReceive, serverVars, TypeOK, ClientTyped
  <2>2. \A e \in Device : token'[e] = token[e] \/ (e = d /\ token'[e] \in {NoToken, a.token})
    BY <1>1, <1>8 DEF DeviceReceive, TypeOK, ClientTyped
  <2>3. answers[c] \in Seq(AnswerMessage)
    BY <1>1, <2>1 DEF TypeOK, LinesTyped
  <2>4. Held(c, a.token)
    BY <1>1, <2>1, <2>3, TailEach DEF TokensAreHeld
  <2>5. \A b \in Connection : answers'[b] = IF b = c THEN Tail(answers[b]) ELSE answers[b]
    BY <1>1, <2>1 DEF TypeOK, LinesTyped
  <2>6. ASSUME NEW b \in Connection, NEW i \in 1..Len(answers'[b])
        PROVE  Held(b, answers'[b][i].token)
    <3>1. CASE b = c
      BY <1>1, <2>1, <2>3, <2>5, <2>6, <3>1, TailEach DEF TokensAreHeld
    <3>2. CASE b # c
      BY <1>1, <2>5, <2>6, <3>2 DEF TokensAreHeld
    <3> QED
      BY <3>1, <3>2
  <2>7. ASSUME NEW b \in Connection, NEW e \in Device, conn[e] = b
        PROVE  Held(b, token'[e])
    BY <1>1, <1>2, <2>2, <2>4, <2>7 DEF TokensAreHeld
  <2>8. TokensAreHeld'
    <3>1. \A b \in Connection : \A i \in 1..Len(requests'[b]) : Held(b, requests[b][i].token)'
      BY <1>1, <2>1 DEF TokensAreHeld, Held
    <3>2. \A b \in Connection : \A i \in 1..Len(answers'[b]) : Held(b, answers[b][i].token)'
      BY <2>1, <2>6 DEF Held
    <3>3. \A b \in Connection : \A e \in Device : conn'[e] = b => Held(b, token[e])'
      BY <2>1, <2>7 DEF Held
    <3> QED
      BY <3>1, <3>2, <3>3 DEF TokensAreHeld
  <2>9. LoginIsFirst' /\ SessionsDieWithConnection'
    BY <1>1, <2>1 DEF LoginIsFirst, SessionsDieWithConnection
  <2> QED
    BY <2>8, <2>9
<1>9. ASSUME NEW c \in Connection, ServerReceive(c) PROVE Goal
  <2> DEFINE m == requests[c][1]
  <2>1. /\ m \in RequestMessage /\ ServerEffect(c, m) /\ UNCHANGED <<conn, token>>
    BY <1>1, <1>9, HeadRequest, ReceiveEach DEF clientVars
  <2>2. /\ \A b \in Connection, t \in SessionId \cup {NoToken} : Held(b, t) => Held(b, t)'
        /\ \A b \in Connection : connToSession[b] = NoToken /\ b # c => connToSession'[b] = NoToken
        /\ Opened(c, m) => Held(c, issued)'
        /\ SessionsDieWithConnection'
    BY <1>9, ReceiveKeepsHeld
  <2>3. Answered(c, m)
    BY <1>1, <2>1, AnswerEffect
  <2> HIDE DEF m
  <2>4. ASSUME NEW b \in Connection, NEW i \in 1..Len(requests'[b])
        PROVE  /\ requests'[b][i].token \in SessionId \cup {NoToken}
               /\ Held(b, requests'[b][i].token)
               /\ requests'[b][i].type = "login" => i = 1 /\ b # c /\ connToSession[b] = NoToken
    <3>1. PICK j \in 1..Len(requests[b]) :
            /\ requests'[b][i] = requests[b][j]
            /\ (j = i /\ b # c) \/ (j = i + 1 /\ b = c)
      BY <1>1, <1>9, <2>4, ReceiveEach
    <3>2. requests[b] \in Seq(RequestMessage)
      BY <1>1 DEF TypeOK, LinesTyped
    <3>3. requests[b][j] \in RequestMessage
      BY <3>2
    <3>4. requests[b][j].token \in SessionId \cup {NoToken}
      BY <3>3 DEF RequestMessage
    <3>5. Held(b, requests[b][j].token) /\ (requests[b][j].type = "login" => j = 1 /\ connToSession[b] = NoToken)
      BY <1>1 DEF TokensAreHeld, LoginIsFirst
    <3>6. ~(j = 1 /\ j = i + 1)
      OBVIOUS
    <3> QED
      BY <3>1, <3>4, <3>5, <3>6
  <2>5. ASSUME NEW b \in Connection, NEW i \in 1..Len(answers'[b])
        PROVE  \/ answers'[b][i].token \in SessionId \cup {NoToken} /\ Held(b, answers'[b][i].token)
               \/ b = c /\ Opened(c, m) /\ answers'[b][i].token = issued + 1
    <3>1. answers[b] \in Seq(AnswerMessage)
      BY <1>1 DEF TypeOK, LinesTyped
    <3>2. ASSUME NEW j \in 1..Len(answers[b]), answers'[b][i] = answers[b][j]
          PROVE  answers'[b][i].token \in SessionId \cup {NoToken} /\ Held(b, answers'[b][i].token)
      <4>1. answers[b][j] \in AnswerMessage
        BY <3>1
      <4>2. answers[b][j].token \in SessionId \cup {NoToken}
        BY <4>1 DEF AnswerMessage
      <4> QED
        BY <1>1, <3>2, <4>2 DEF TokensAreHeld
    <3>3. CASE answers' = answers
      BY <2>5, <3>2, <3>3
    <3>4. ASSUME NEW a \in AnswerMessage, answers' = [answers EXCEPT ![c] = Append(@, a)],
                 a.token = NoToken \/ (a.token = issued + 1 /\ Opened(c, m))
          PROVE  \/ answers'[b][i].token \in SessionId \cup {NoToken} /\ Held(b, answers'[b][i].token)
                 \/ b = c /\ Opened(c, m) /\ answers'[b][i].token = issued + 1
      <4>1. answers'[b] = IF b = c THEN Append(answers[b], a) ELSE answers[b]
        BY <1>1, <3>4 DEF TypeOK, LinesTyped
      <4>2. CASE b # c
        BY <2>5, <3>2, <4>1, <4>2
      <4>3. CASE b = c
        <5>1. \/ i \in 1..Len(answers[b]) /\ answers'[b][i] = answers[b][i]
              \/ answers'[b][i] = a
          BY <2>5, <3>1, <4>1, <4>3, AppendEach
        <5> QED
          BY <1>2, <3>2, <3>4, <4>3, <5>1
      <4> QED
        BY <4>2, <4>3
    <3> QED
      BY <2>3, <3>3, <3>4 DEF Answered
  <2>6. ASSUME NEW b \in Connection, NEW i \in 1..Len(answers'[b])
        PROVE  Held(b, answers[b][i].token)'
    <3>1. CASE b = c /\ Opened(c, m) /\ answers'[b][i].token = issued + 1
      <4>1. issued' = issued + 1
        BY <3>1 DEF Opened
      <4> QED
        BY <2>2, <3>1, <4>1 DEF Held
    <3>2. CASE answers'[b][i].token \in SessionId \cup {NoToken} /\ Held(b, answers'[b][i].token)
      BY <2>2, <3>2 DEF Held
    <3> QED
      BY <2>5, <3>1, <3>2
  <2>7. ASSUME NEW b \in Connection, NEW i \in 1..Len(requests'[b])
        PROVE  Held(b, requests[b][i].token)'
    BY <2>2, <2>4, <2>7 DEF Held
  <2>8. ASSUME NEW b \in Connection, NEW e \in Device, conn'[e] = b
        PROVE  Held(b, token[e])'
    <3>1. Held(b, token[e]) /\ token[e] \in SessionId \cup {NoToken}
      BY <1>1, <2>1, <2>8 DEF TokensAreHeld, TypeOK, ClientTyped
    <3> QED
      BY <2>1, <2>2, <3>1 DEF Held
  <2>9. TokensAreHeld'
    BY <2>6, <2>7, <2>8 DEF TokensAreHeld
  <2>10. LoginIsFirst'
    BY <2>2, <2>4 DEF LoginIsFirst
  <2> QED
    BY <2>2, <2>9, <2>10
<1>10. ASSUME NEW c \in Connection, ServerCloses(c) PROVE Goal
  <2>1. /\ device' = [device EXCEPT ![c] = NoDevice]
        /\ connToSession' = [connToSession EXCEPT ![c] = NoToken]
        /\ sessions' = WithoutSession(connToSession[c])
        /\ requests' = [requests EXCEPT ![c] = <<>>]
        /\ answers' = [answers EXCEPT ![c] = <<>>]
        /\ UNCHANGED <<conn, token, issued>> /\ \A d \in Device : conn[d] # c
    BY <1>10 DEF ServerCloses, clientVars
  <2>2. \A b \in Connection :
          /\ device'[b] = IF b = c THEN NoDevice ELSE device[b]
          /\ connToSession'[b] = IF b = c THEN NoToken ELSE connToSession[b]
          /\ requests'[b] = IF b = c THEN <<>> ELSE requests[b]
          /\ answers'[b] = IF b = c THEN <<>> ELSE answers[b]
    BY <1>1, <2>1 DEF TypeOK, LinesTyped, ServerTyped
  <2>3. \A s \in SessionId : sessions'[s].open => sessions[s].open /\ s # connToSession[c]
    BY <2>1, SessionTypes DEF WithoutSession
  <2>4. issued <= MaxSessions /\ issued \in Nat
    BY <1>1, BoundsAssumption DEF TypeOK, ServerTyped
  <2>5. ASSUME NEW b \in Connection, b # c, NEW t, Held(b, t)
        PROVE  Held(b, t)'
    BY <2>1, <2>2, <2>3, <2>4, <2>5, BoundsAssumption DEF Held, SessionId
  <2>6. TokensAreHeld'
    <3>1. ASSUME NEW b \in Connection, NEW i \in 1..Len(requests'[b])
          PROVE  Held(b, requests[b][i].token)'
      <4>1. b # c /\ requests'[b] = requests[b]
        BY <2>2, <3>1
      <4>2. Held(b, requests[b][i].token)
        BY <1>1, <3>1, <4>1 DEF TokensAreHeld
      <4>3. Held(b, requests[b][i].token)'
        BY <2>5, <4>1, <4>2 DEF Held
      <4> QED
        BY <4>3
    <3>2. ASSUME NEW b \in Connection, NEW i \in 1..Len(answers'[b])
          PROVE  Held(b, answers[b][i].token)'
      <4>1. b # c /\ answers'[b] = answers[b]
        BY <2>2, <3>2
      <4>2. Held(b, answers[b][i].token)
        BY <1>1, <3>2, <4>1 DEF TokensAreHeld
      <4>3. Held(b, answers[b][i].token)'
        BY <2>5, <4>1, <4>2 DEF Held
      <4> QED
        BY <4>3
    <3>3. ASSUME NEW b \in Connection, NEW e \in Device, conn'[e] = b
          PROVE  Held(b, token[e])'
      BY <1>1, <2>1, <2>5, <3>3 DEF TokensAreHeld, Held
    <3> QED
      BY <3>1, <3>2, <3>3 DEF TokensAreHeld
  <2>7. LoginIsFirst'
    BY <1>1, <2>2 DEF LoginIsFirst
  <2>8. SessionsDieWithConnection'
    BY <1>1, <2>2, <2>3 DEF SessionsDieWithConnection
  <2> QED
    BY <2>6, <2>7, <2>8
<1>11. ASSUME UNCHANGED <<issued, sessions, connToSession, device, conn, token, requests, answers>>
       PROVE  Goal
  BY <1>1, <1>11 DEF TokensAreHeld, Held, LoginIsFirst, SessionsDieWithConnection
<1>12. ASSUME NEW s \in SessionId, Expire(s) PROVE Goal
  BY <1>11, <1>12 DEF Expire, serverVars, clientVars
<1>13. CASE UNCHANGED vars
  BY <1>11, <1>13 DEF vars, serverVars, clientVars
<1> QED
  BY <1>3, <1>5, <1>6, <1>7, <1>8, <1>9, <1>10, <1>12, <1>13 DEF Next

-----------------------------------------------------------------------------
(* Theorems *)

(* The parts of the invariant hold at the start, and are inductive together. *)
LEMMA InitInvariant == Init => IInv
<1> SUFFICES ASSUME Init PROVE IInv
  OBVIOUS
<1>1. \A s \in SessionId : ~sessions[s].open
  BY SessionTypes DEF Init
<1>2. Owners
  BY DEF Init, Owners
<1>3. BindingsAreOwn
  BY DEF Init, BindingsAreOwn
<1> QED
  BY <1>1, <1>2, <1>3, InitTyped DEF IInv, OneSessionPerDevice, SessionsHaveAccounts

LEMMA StepInvariant == IInv /\ [Next]_vars => IInv'
<1>1. IInv /\ [Next]_vars => TypeOK'
  BY ServerStaysTyped, LinesStayTyped, ClientsStayTyped DEF TypeOK, IInv
<1> QED
  BY <1>1, SessionsStayRight, BindingsStayOwn DEF IInv

(* What the theorems below follow from, in every reachable state.           *)
THEOREM Invariance == Spec => []IInv
  BY InitInvariant, StepInvariant, PTL DEF Spec

(* Whatever old and new connections of a device the server still has, and   *)
(* however logins, logouts, deletions and closed connections interleave, a  *)
(* user has at most one live session on a device.                           *)
THEOREM OneSession == Spec => []OneSessionPerDevice
<1>1. IInv => OneSessionPerDevice
  BY DEF IInv
<1> QED
  BY <1>1, Invariance, PTL

(* No live session outlives the deletion of its account.                    *)
THEOREM SessionAccounts == Spec => []SessionsHaveAccounts
<1>1. IInv => SessionsHaveAccounts
  BY DEF IInv
<1> QED
  BY <1>1, Invariance, PTL

(* No connection is bound to the live session of another device, and no two *)
(* connections to one session, though ids of connections are used again.    *)
THEOREM OwnBindings == Spec => []BindingsAreOwn
<1>1. IInv => BindingsAreOwn
  BY DEF IInv
<1> QED
  BY <1>1, Invariance, PTL

(* When nobody but a starting client logs in, a live session is always that *)
(* of a connection the server has: the session goes with its connection     *)
(* (FileServer.cpp:208-217), and the device can log in again.               *)
THEOREM DieWithConnection ==
  ASSUME "login" \notin Operations
  PROVE  Spec => []SessionsDieWithConnection
<1>1. Init => BoundInv
  <2> SUFFICES ASSUME Init PROVE BoundInv
    OBVIOUS
  <2>1. IInv
    BY InitInvariant
  <2>2. TokensAreHeld
    BY DEF Init, TokensAreHeld, Held
  <2>3. LoginIsFirst
    BY DEF Init, LoginIsFirst
  <2>4. SessionsDieWithConnection
    BY SessionTypes DEF Init, SessionsDieWithConnection
  <2> QED
    BY <2>1, <2>2, <2>3, <2>4 DEF BoundInv
<1>2. BoundInv /\ [Next]_vars => BoundInv'
  BY StepInvariant, TokensStayHeld DEF BoundInv
<1>3. BoundInv => SessionsDieWithConnection
  BY DEF BoundInv
<1> QED
  BY <1>1, <1>2, <1>3, PTL DEF Spec
=============================================================================
