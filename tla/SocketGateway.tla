--------------------------- MODULE SocketGateway ---------------------------
(***************************************************************************)
(* SocketGateway (src/src/socket/socket.gateway.ts) with the handler of    *)
(* LocationSockets: which socket a user is reached at.                     *)
(*                                                                         *)
(* Every handler of the gateway runs to its end without awaiting anything, *)
(* so each is one step.  The steps of different sockets come in any order: *)
(* a client that lost its connection opens a new socket, often before the  *)
(* server notices that the old one is gone.                                *)
(***************************************************************************)

CONSTANTS
    Users,      \* the users, as the `uid' of a token
    Sockets,    \* the socket ids; socket.io never gives one out twice
    Events,     \* the events that handlers are registered for; the handlers of
                \* ChatSockets change nothing
    Location,   \* one of them: `driver-location-update'
    None        \* undefined

ASSUME NoneAssumption == None \notin Users /\ None \notin Sockets

ASSUME LocationAssumption == Location \in Events

VARIABLES
    server,             \* afterInit has been called
    pendingHandlers,    \* the handlers that wait for it
    handlers,           \* those that attach to every socket that connects
    registered,         \* all that registerEventHandler was called with
    seen,               \* the sockets that ever connected
    open,               \* server.sockets.sockets, the ones that are connected
    userId,             \* userId[s]: client.userId
    attached,           \* attached[s]: the events that s has a handler for
    inbox,              \* inbox[s]: for whom the messages sent to s were meant
    socketIdToUserId,
    userIdToSocketId    \* the two maps of the gateway

handlerVars == <<server, pendingHandlers, handlers, registered>>
socketVars == <<seen, open, userId, attached>>
maps == <<socketIdToUserId, userIdToSocketId>>
vars == <<handlerVars, socketVars, inbox, maps>>

Init ==
    /\ server = FALSE
    /\ pendingHandlers = {}
    /\ handlers = {}
    /\ registered = {}
    /\ seen = {}
    /\ open = {}
    /\ userId = [s \in Sockets |-> None]
    /\ attached = [s \in Sockets |-> {}]
    /\ inbox = [s \in Sockets |-> {}]
    /\ socketIdToUserId = [s \in Sockets |-> None]
    /\ userIdToSocketId = [u \in Users |-> None]
----------------------------------------------------------------------------
\* Mutant: the list is emptied before it is read.
AfterInitCleared ==
    /\ ~server
    /\ server' = TRUE
    /\ pendingHandlers' = {}
    /\ handlers' = handlers \cup pendingHandlers'
    /\ UNCHANGED <<registered, socketVars, inbox, maps>>

AfterInit ==
    /\ ~server
    /\ server' = TRUE
    /\ handlers' = handlers \cup pendingHandlers
    /\ pendingHandlers' = {}
    /\ UNCHANGED <<registered, socketVars, inbox, maps>>

RegisterEventHandler(e) ==
    /\ e \notin registered
    /\ registered' = registered \cup {e}
    /\ IF server
       THEN /\ handlers' = handlers \cup {e}
            /\ UNCHANGED pendingHandlers
       ELSE /\ pendingHandlers' = pendingHandlers \cup {e}
            /\ UNCHANGED handlers
    /\ UNCHANGED <<server, socketVars, inbox, maps>>

\* handleConnection with no token, one that does not verify, or one without a
\* `uid': the socket is disconnected before anything is stored.
HandleConnectionRefused(s) ==
    /\ server
    /\ s \notin seen
    /\ seen' = seen \cup {s}
    /\ UNCHANGED <<handlerVars, open, userId, attached, inbox, maps>>

\* Mutant: key and value of the entries are swapped.
HandleConnectionSwapped(s, u) ==
    /\ server
    /\ s \notin seen
    /\ seen' = seen \cup {s}
    /\ open' = open \cup {s}
    /\ userId' = [userId EXCEPT ![s] = u]
    /\ attached' = [attached EXCEPT ![s] = handlers]
    /\ socketIdToUserId' = [socketIdToUserId EXCEPT ![s] = s]
    /\ userIdToSocketId' = [userIdToSocketId EXCEPT ![u] = u]
    /\ UNCHANGED <<handlerVars, inbox>>

\* handleConnection with the token of u, and the listeners that registerHandler
\* left on `connection'.
HandleConnection(s, u) ==
    /\ server
    /\ s \notin seen
    /\ seen' = seen \cup {s}
    /\ open' = open \cup {s}
    /\ userId' = [userId EXCEPT ![s] = u]
    /\ attached' = [attached EXCEPT ![s] = handlers]
    /\ socketIdToUserId' = [socketIdToUserId EXCEPT ![s] = u]
    /\ userIdToSocketId' = [userIdToSocketId EXCEPT ![u] = s]
    /\ UNCHANGED <<handlerVars, inbox>>

\* Mutant: the entry of the user stays.
HandleDisconnectKept(s) ==
    /\ s \in open
    /\ open' = open \ {s}
    /\ socketIdToUserId' = [socketIdToUserId EXCEPT ![s] = None]
    /\ UNCHANGED <<handlerVars, seen, userId, attached, inbox, userIdToSocketId>>

\* Mutant: nothing is deleted for a socket that a newer one has replaced.
HandleDisconnectReplaced(s) ==
    /\ s \in open
    /\ open' = open \ {s}
    /\ IF userIdToSocketId[socketIdToUserId[s]] = s
       THEN /\ socketIdToUserId' = [socketIdToUserId EXCEPT ![s] = None]
            /\ userIdToSocketId' =
                  [userIdToSocketId EXCEPT ![socketIdToUserId[s]] = None]
       ELSE UNCHANGED maps
    /\ UNCHANGED <<handlerVars, seen, userId, attached, inbox>>

\* socket.io has taken s out of the server's sockets when it calls
\* handleDisconnect, which deletes what it finds for s, and for its user.
HandleDisconnect(s) ==
    /\ s \in open
    /\ open' = open \ {s}
    /\ IF socketIdToUserId[s] # None
       THEN /\ socketIdToUserId' = [socketIdToUserId EXCEPT ![s] = None]
            /\ userIdToSocketId' =
                  [userIdToSocketId EXCEPT ![socketIdToUserId[s]] = None]
       ELSE UNCHANGED maps
    /\ UNCHANGED <<handlerVars, seen, userId, attached, inbox>>

\* The socket that emitToUser finds, if it answers true.
Reached(u) == {userIdToSocketId[u]} \cap open

\* emitToUser: it answers false, and does nothing, if it finds no socket.
EmitToUser(u) ==
    /\ inbox' = [s \in Sockets |->
                    IF s \in Reached(u) THEN inbox[s] \cup {u} ELSE inbox[s]]
    /\ UNCHANGED <<handlerVars, socketVars, maps>>

\* The listeners of SocketModule: each event of a delivery is passed on to one of
\* the users it concerns, connected or not.
OnDelivery(u) == EmitToUser(u)

\* The handler of LocationSockets: the acknowledgement goes to the user of the
\* client that sent the update, at whatever socket that is.
HandleDriverLocationUpdate(s) ==
    /\ s \in open
    /\ Location \in attached[s]
    /\ EmitToUser(userId[s])

Next ==
    \/ AfterInit
    \/ \E e \in Events : RegisterEventHandler(e)
    \/ \E s \in Sockets :
          \/ HandleConnectionRefused(s)
          \/ \E u \in Users : HandleConnection(s, u)
          \/ HandleDisconnect(s)
          \/ HandleDriverLocationUpdate(s)
    \/ \E u \in Users : OnDelivery(u)

Spec == Init /\ [][Next]_vars
----------------------------------------------------------------------------
(* Properties.                                                             *)

TypeOK ==
    /\ server \in BOOLEAN
    /\ pendingHandlers \subseteq Events
    /\ handlers \subseteq Events
    /\ registered \subseteq Events
    /\ seen \subseteq Sockets
    /\ open \subseteq seen
    /\ userId \in [Sockets -> Users \cup {None}]
    /\ attached \in [Sockets -> SUBSET Events]
    /\ inbox \in [Sockets -> SUBSET Users]
    /\ socketIdToUserId \in [Sockets -> Users \cup {None}]
    /\ userIdToSocketId \in [Users -> Sockets \cup {None}]

\* The first map knows every open socket, under the user of its token, and no
\* socket that was refused or is gone: the maps do not grow with reconnections.
KnowsTheOpenSockets ==
    \A s \in Sockets :
        socketIdToUserId[s] = IF s \in open THEN userId[s] ELSE None

\* emitToUser: where the second map sends the messages for a user, the first
\* says that user is, however connections and disconnections come; so what it
\* has sent went to a socket of the user it was meant for.
MapsAgree ==
    /\ \A u \in Users :
          userIdToSocketId[u] # None =>
              socketIdToUserId[userIdToSocketId[u]] = u
    /\ \A s \in Sockets : inbox[s] \subseteq {userId[s]}

\* registerEventHandler: whether it is called before afterInit or after, the
\* sockets that connect from then on get the handler.
HandlersAttach ==
    [][\A s \in open' \ open : attached'[s] = registered]_vars

\* emitToUser: a user who has a connected socket is reached.
ConnectedUserIsReached ==
    \A u \in Users :
        (\E s \in open : userId[s] = u) => Reached(u) # {}
=============================================================================
