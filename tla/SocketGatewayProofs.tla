------------------------ MODULE SocketGatewayProofs ------------------------
(***************************************************************************)
(* Theorems about SocketGateway, for every set of users, sockets and       *)
(* events.                                                                 *)
(*                                                                         *)
(* They rest on one inductive invariant.  Its parts need each other: the   *)
(* second map names a user's own socket because a socket that connects is  *)
(* in neither map yet, and a message reaches its user because the socket   *)
(* it goes to is open, so that the first map knows its user.               *)
(***************************************************************************)
EXTENDS SocketGateway, TLAPS

\* A socket stays connected only with the `uid' of its token; one that never
\* connected has no user.
Authenticated ==
    /\ \A s \in open : userId[s] \in Users
    /\ \A s \in Sockets \ seen : userId[s] = None

Inv == TypeOK /\ Authenticated /\ KnowsTheOpenSockets /\ MapsAgree
----------------------------------------------------------------------------
\* A connection is refused before anything is stored.
LEMMA RefusedKeeps ==
    ASSUME Inv, NEW s \in Sockets, HandleConnectionRefused(s)
    PROVE  Inv'
BY DEF Inv, TypeOK, Authenticated, KnowsTheOpenSockets, MapsAgree,
       HandleConnectionRefused, handlerVars, maps

\* Both maps get the socket that connects, which neither had.
LEMMA ConnectionKeeps ==
    ASSUME Inv, NEW s \in Sockets, NEW u \in Users, HandleConnection(s, u)
    PROVE  Inv'
<1>1. s \notin open /\ userId[s] = None /\ socketIdToUserId[s] = None
  BY DEF Inv, TypeOK, Authenticated, KnowsTheOpenSockets, HandleConnection
<1>2. TypeOK'
  BY DEF Inv, TypeOK, HandleConnection, handlerVars
<1>3. Authenticated' /\ KnowsTheOpenSockets'
  BY <1>1 DEF Inv, TypeOK, Authenticated, KnowsTheOpenSockets, HandleConnection
<1>4. ASSUME NEW v \in Users, userIdToSocketId'[v] # None
      PROVE  socketIdToUserId'[userIdToSocketId'[v]] = v
  <2>1. CASE v = u
    BY <2>1 DEF Inv, TypeOK, HandleConnection
  <2>2. CASE v # u
    <3>1. userIdToSocketId'[v] = userIdToSocketId[v]
      BY <2>2 DEF Inv, TypeOK, HandleConnection
    <3>2. userIdToSocketId[v] # s
      BY <1>1, <1>4, <3>1, NoneAssumption DEF Inv, MapsAgree
    <3>. QED  BY <1>4, <3>1, <3>2 DEF Inv, TypeOK, MapsAgree, HandleConnection
  <2>. QED  BY <2>1, <2>2
<1>5. ASSUME NEW t \in Sockets
      PROVE  inbox'[t] \subseteq {userId'[t]}
  BY <1>1, NoneAssumption DEF Inv, TypeOK, MapsAgree, HandleConnection
<1>. QED  BY <1>2, <1>3, <1>4, <1>5 DEF Inv, MapsAgree

\* What is deleted for the user is right for the user, if not for its sockets.
LEMMA DisconnectKeeps ==
    ASSUME Inv, NEW s \in Sockets, HandleDisconnect(s)
    PROVE  Inv'
<1>. DEFINE u == socketIdToUserId[s]
<1>1. /\ s \in open
      /\ u = userId[s]
      /\ u \in Users
      /\ u # None
  BY NoneAssumption DEF Inv, Authenticated, KnowsTheOpenSockets, HandleDisconnect
<1>2. /\ open' = open \ {s}
      /\ socketIdToUserId' = [socketIdToUserId EXCEPT ![s] = None]
      /\ userIdToSocketId' = [userIdToSocketId EXCEPT ![u] = None]
      /\ UNCHANGED <<handlerVars, seen, userId, attached, inbox>>
  BY <1>1 DEF HandleDisconnect
<1>. HIDE DEF u
<1>3. TypeOK'
  BY <1>1, <1>2 DEF Inv, TypeOK, handlerVars
<1>4. Authenticated' /\ KnowsTheOpenSockets'
  BY <1>1, <1>2 DEF Inv, TypeOK, Authenticated, KnowsTheOpenSockets
<1>5. ASSUME NEW v \in Users, userIdToSocketId'[v] # None
      PROVE  socketIdToUserId'[userIdToSocketId'[v]] = v
  <2>1. v # u /\ userIdToSocketId'[v] = userIdToSocketId[v]
    BY <1>2, <1>5 DEF Inv, TypeOK
  <2>2. socketIdToUserId[userIdToSocketId[v]] = v
    BY <1>5, <2>1 DEF Inv, MapsAgree
  <2>3. userIdToSocketId[v] # s
    BY <2>1, <2>2 DEF u
  <2>. QED  BY <1>2, <1>5, <2>1, <2>2, <2>3 DEF Inv, TypeOK
<1>6. ASSUME NEW t \in Sockets
      PROVE  inbox'[t] \subseteq {userId'[t]}
  BY <1>2 DEF Inv, MapsAgree
<1>. QED  BY <1>3, <1>4, <1>5, <1>6 DEF Inv, MapsAgree

\* A message goes to an open socket of its user, or nowhere.
LEMMA EmitKeeps ==
    ASSUME Inv, NEW u \in Users, EmitToUser(u)
    PROVE  Inv'
<1>1. ASSUME NEW s \in Reached(u)
      PROVE  userId[s] = u
  BY <1>1, NoneAssumption
  DEF Inv, TypeOK, KnowsTheOpenSockets, MapsAgree, Reached
<1>2. TypeOK' /\ Authenticated' /\ KnowsTheOpenSockets'
  BY DEF Inv, TypeOK, Authenticated, KnowsTheOpenSockets, EmitToUser,
         handlerVars, socketVars, maps
<1>3. MapsAgree'
  BY <1>1 DEF Inv, TypeOK, MapsAgree, EmitToUser, socketVars, maps
<1>. QED  BY <1>2, <1>3 DEF Inv

LEMMA NextKeeps ==
    ASSUME Inv, [Next]_vars
    PROVE  Inv'
<1>1. CASE AfterInit
  BY <1>1 DEF Inv, TypeOK, Authenticated, KnowsTheOpenSockets, MapsAgree,
              AfterInit, socketVars, maps
<1>2. ASSUME NEW e \in Events, RegisterEventHandler(e)
      PROVE  Inv'
  BY <1>2 DEF Inv, TypeOK, Authenticated, KnowsTheOpenSockets, MapsAgree,
              RegisterEventHandler, socketVars, maps
<1>3. ASSUME NEW s \in Sockets, HandleDriverLocationUpdate(s)
      PROVE  Inv'
  <2>1. userId[s] \in Users
    BY <1>3 DEF Inv, Authenticated, HandleDriverLocationUpdate
  <2>. QED  BY <1>3, <2>1, EmitKeeps DEF HandleDriverLocationUpdate
<1>4. CASE UNCHANGED vars
  BY <1>4 DEF Inv, TypeOK, Authenticated, KnowsTheOpenSockets, MapsAgree, vars,
              handlerVars, socketVars, maps
<1>. QED
  BY <1>1, <1>2, <1>3, <1>4, RefusedKeeps, ConnectionKeeps, DisconnectKeeps,
     EmitKeeps DEF Next, OnDelivery

THEOREM Invariance == Spec => []Inv
<1>1. Init => Inv
  BY DEF Init, Inv, TypeOK, Authenticated, KnowsTheOpenSockets, MapsAgree
<1>. QED  BY <1>1, NextKeeps, PTL DEF Spec
----------------------------------------------------------------------------
\* Every reachable state has the types.
THEOREM TypeCorrect == Spec => []TypeOK
BY Invariance, PTL DEF Inv

\* handleConnection and handleDisconnect: the first map holds the open sockets
\* and nothing else, so it never outgrows them.
THEOREM NoLeak == Spec => []KnowsTheOpenSockets
BY Invariance, PTL DEF Inv

\* emitToUser: a message for a user is never sent to a socket of another.
THEOREM Delivered == Spec => []MapsAgree
BY Invariance, PTL DEF Inv
----------------------------------------------------------------------------
\* A handler waits, until afterInit, or attaches.
NoneLost ==
    /\ registered = handlers \cup pendingHandlers
    /\ server => pendingHandlers = {}

LEMMA NextLosesNone ==
    ASSUME NoneLost, [Next]_vars
    PROVE  NoneLost'
<1>1. ASSUME NEW e \in Events, RegisterEventHandler(e)
      PROVE  NoneLost'
  BY <1>1 DEF NoneLost, RegisterEventHandler
<1>2. CASE UNCHANGED handlerVars
  BY <1>2 DEF NoneLost, handlerVars
<1>3. CASE AfterInit
  BY <1>3 DEF NoneLost, AfterInit
<1>4. Next => \/ AfterInit
              \/ \E e \in Events : RegisterEventHandler(e)
              \/ UNCHANGED handlerVars
  BY DEF Next, HandleConnectionRefused, HandleConnection, HandleDisconnect,
         HandleDriverLocationUpdate, OnDelivery, EmitToUser
<1>. QED  BY <1>1, <1>2, <1>3, <1>4 DEF vars

\* registerEventHandler: every socket that connects has every handler that was
\* registered by then.
THEOREM HandlersReachSockets == Spec => HandlersAttach
<1>1. Init => TypeOK /\ NoneLost
  BY DEF Init, TypeOK, NoneLost
<1>2. TypeOK /\ NoneLost /\ [Next]_vars =>
          [\A s \in open' \ open : attached'[s] = registered]_vars
  <2>. SUFFICES ASSUME TypeOK, NoneLost, [Next]_vars, NEW s \in open' \ open
                PROVE  attached'[s] = registered
    OBVIOUS
  <2>1. PICK u \in Users : HandleConnection(s, u)
    BY DEF Next, AfterInit, RegisterEventHandler, HandleConnectionRefused,
           HandleConnection, HandleDisconnect, HandleDriverLocationUpdate,
           OnDelivery, EmitToUser, socketVars, vars
  <2>2. handlers = registered
    BY <2>1 DEF NoneLost, HandleConnection
  <2>3. s \in Sockets
    BY <2>1 DEF TypeOK, Next, AfterInit, RegisterEventHandler,
                HandleConnectionRefused, HandleConnection, HandleDisconnect,
                HandleDriverLocationUpdate, OnDelivery, EmitToUser, socketVars,
                vars
  <2>. QED  BY <2>1, <2>2, <2>3 DEF HandleConnection, TypeOK
<1>. QED
  BY <1>1, <1>2, NextLosesNone, TypeCorrect, PTL DEF Spec, HandlersAttach
=============================================================================
