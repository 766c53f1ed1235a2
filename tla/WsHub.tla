--------------------------------- MODULE WsHub ---------------------------------
(***************************************************************************)
(* The WebSocket hub (internal/pkg/ws/hub.go) and the handlers that send    *)
(* through it (service/websocket.go, service/chat.go).  A connection has two*)
(* goroutines: readPump serves the messages of its peer, and so puts        *)
(* messages into the Send channels of its own and of other connections;     *)
(* writePump empties the connection's own channel.  What a message says is  *)
(* left out: a channel is the number of messages in it.                     *)
(***************************************************************************)
EXTENDS Naturals, Sequences

CONSTANTS
    User,
    Conn, NoConn,     \* bound: the connections there ever are; each is used once
    Cap               \* the capacity of a Send channel, 256

ASSUME ConstantsAssumption ==
    /\ NoConn \notin Conn
    /\ Cap \in Nat \ {0}

VARIABLES
    clients,   \* clients[u]: the connection the hub has for u, NoConn if none
    owner,     \* owner[c]: Client.UID, chosen beforehand
    reader,    \* where c's readPump is
    todo,      \* the users that c's readPump still has to SendToUser
    held,      \* the client that c's readPump got from Load or LoadAndDelete
    writer,    \* whether c's writePump runs
    queue,     \* the number of messages in c's Send channel
    closed,    \* the connections whose Send channel is closed
    conn       \* the network connection: "gone" when the peer is, "closed" by Close

pumps == <<owner, reader, todo, held>>
vars == <<clients, owner, reader, todo, held, writer, queue, closed, conn>>

TypeOK ==
    /\ clients \in [User -> Conn \cup {NoConn}]
    /\ owner \in [Conn -> User]
    /\ reader \in [Conn -> {"off", "read", "load", "push", "unregister", "close", "done"}]
    /\ todo \in [Conn -> Seq(User)]
    /\ held \in [Conn -> Conn \cup {NoConn}]
    /\ writer \in [Conn -> {"off", "run", "done"}]
    /\ queue \in [Conn -> 0 .. Cap]
    /\ closed \subseteq Conn
    /\ conn \in [Conn -> {"none", "open", "gone", "closed"}]
    /\ \A c \in Conn : reader[c] = "load" => todo[c] # <<>>
    /\ \A c \in Conn : reader[c] \in {"push", "close"} => held[c] \in Conn

Init ==
    /\ clients = [u \in User |-> NoConn]
    /\ owner \in [Conn -> User]
    /\ reader = [c \in Conn |-> "off"]
    /\ todo = [c \in Conn |-> <<>>]
    /\ held = [c \in Conn |-> NoConn]
    /\ writer = [c \in Conn |-> "off"]
    /\ queue = [c \in Conn |-> 0]
    /\ closed = {}
    /\ conn = [c \in Conn |-> "none"]

At(c, label) == reader' = [reader EXCEPT ![c] = label]

\* A panic in a pump is recovered nowhere: the process ends with all its
\* connections, and a new one starts with an empty hub.
Panic ==
    /\ clients' = [u \in User |-> NoConn]
    /\ reader' = [c \in Conn |-> IF reader[c] = "off" THEN "off" ELSE "done"]
    /\ writer' = [c \in Conn |-> IF writer[c] = "off" THEN "off" ELSE "done"]
    /\ conn' = [c \in Conn |-> IF conn[c] = "none" THEN "none" ELSE "closed"]
    /\ todo' = [c \in Conn |-> <<>>]
    /\ held' = [c \in Conn |-> NoConn]
    /\ UNCHANGED <<owner, queue, closed>>

-----------------------------------------------------------------------------
(* Register, from WSHandler after the token was accepted and the upgrade done. *)

Register(c) ==
    /\ reader[c] = "off"
    /\ clients' = [clients EXCEPT ![owner[c]] = c]
    /\ At(c, "read")
    /\ writer' = [writer EXCEPT ![c] = "run"]
    /\ conn' = [conn EXCEPT ![c] = "open"]
    /\ UNCHANGED <<owner, todo, held, queue, closed>>

-----------------------------------------------------------------------------
(* readPump *)

\* ProcessMessage refuses an empty message and one to oneself, and stores the others,
\* which may fail: the sender is told, the receiver only of a message that is stored.
Told(from) == {<<from>>} \cup {<<from, to>> : to \in User \ {from}}

\* dispatch: a ping is answered to the sender, a chat message as ProcessMessage
\* decides; other messages are answered to nobody and leave nothing behind.
Receive(c) ==
    /\ reader[c] = "read" /\ conn[c] = "open"
    /\ \E sends \in Told(owner[c]) : todo' = [todo EXCEPT ![c] = sends]
    /\ At(c, "load")
    /\ UNCHANGED <<owner, clients, held, writer, queue, closed, conn>>

\* After a SendToUser: the next one of this message, or the next message.
Sent(c) ==
    /\ todo' = [todo EXCEPT ![c] = Tail(@)]
    /\ At(c, IF Len(todo[c]) > 1 THEN "load" ELSE "read")

\* SendToUser, Load: nothing is sent to a user who is not in the hub.
Load(c) ==
    LET found == clients[Head(todo[c])] IN
    /\ reader[c] = "load"
    /\ \/ /\ found # NoConn
          /\ held' = [held EXCEPT ![c] = found]
          /\ At(c, "push")
          /\ UNCHANGED todo
       \/ /\ found = NoConn
          /\ Sent(c)
          /\ UNCHANGED held
    /\ UNCHANGED <<owner, clients, writer, queue, closed, conn>>

\* Mutant: the capacity of the channel is not a limit.
PushUnbounded(c) ==
    /\ reader[c] = "push"
    /\ \/ /\ held[c] \in closed
          /\ Panic
       \/ /\ held[c] \notin closed /\ queue[held[c]] <= Cap
          /\ queue' = [queue EXCEPT ![held[c]] = @ + 1]
          /\ held' = [held EXCEPT ![c] = NoConn]
          /\ Sent(c)
          /\ UNCHANGED <<owner, clients, writer, closed, conn>>

\* SendToUser, Send <- msg: waits while the channel is full, panics when it is
\* closed, also when it is closed during the wait.
Push(c) ==
    /\ reader[c] = "push"
    /\ \/ /\ held[c] \in closed
          /\ Panic
       \/ /\ held[c] \notin closed /\ queue[held[c]] < Cap
          /\ queue' = [queue EXCEPT ![held[c]] = @ + 1]
          /\ held' = [held EXCEPT ![c] = NoConn]
          /\ Sent(c)
          /\ UNCHANGED <<owner, clients, writer, closed, conn>>

\* Mutant: readPump ends without the deferred Unregister.
ReadFailsQuietly(c) ==
    /\ reader[c] = "read" /\ conn[c] # "open"
    /\ At(c, "done")
    /\ UNCHANGED <<owner, clients, todo, held, writer, queue, closed, conn>>

\* ReadMessage fails: the peer has closed or is silent for pongWait, or Close was
\* called.  What the peer sent before it left has been read by then.
ReadFails(c) ==
    /\ reader[c] = "read" /\ conn[c] # "open"
    /\ At(c, "unregister")
    /\ UNCHANGED <<owner, clients, todo, held, writer, queue, closed, conn>>

\* Mutant: Load instead of LoadAndDelete, the entry stays until the next Store.
UnregisterLoad(c) ==
    LET found == clients[owner[c]] IN
    /\ reader[c] = "unregister"
    /\ held' = [held EXCEPT ![c] = found]
    /\ At(c, IF found = NoConn THEN "done" ELSE "close")
    /\ UNCHANGED <<owner, clients, todo, writer, queue, closed, conn>>

\* Unregister(UID), LoadAndDelete: the user's client, which may be a newer one.
Unregister(c) ==
    LET found == clients[owner[c]] IN
    /\ reader[c] = "unregister"
    /\ clients' = [clients EXCEPT ![owner[c]] = NoConn]
    /\ held' = [held EXCEPT ![c] = found]
    /\ At(c, IF found = NoConn THEN "done" ELSE "close")
    /\ UNCHANGED <<owner, todo, writer, queue, closed, conn>>

\* close(Send), which would panic for a channel closed before, and Conn.Close.
Close(c) ==
    /\ reader[c] = "close"
    /\ closed' = closed \cup {held[c]}
    /\ conn' = [conn EXCEPT ![held[c]] = "closed"]
    /\ held' = [held EXCEPT ![c] = NoConn]
    /\ At(c, "done")
    /\ UNCHANGED <<clients, owner, todo, writer, queue>>

-----------------------------------------------------------------------------
(* writePump *)

\* The deferred Conn.Close.
WriterEnds(c) ==
    /\ writer' = [writer EXCEPT ![c] = "done"]
    /\ conn' = [conn EXCEPT ![c] = "closed"]

\* The next message is written; when the peer is gone this may show, or not yet.
Write(c) ==
    /\ writer[c] = "run" /\ queue[c] > 0
    /\ queue' = [queue EXCEPT ![c] = @ - 1]
    /\ \/ conn[c] \in {"open", "gone"} /\ UNCHANGED <<writer, conn>>
       \/ conn[c] \in {"gone", "closed"} /\ WriterEnds(c)
    /\ UNCHANGED <<clients, pumps, closed>>

\* Mutant: no pings.
WriterStopsWithoutPing(c) ==
    /\ writer[c] = "run"
    /\ c \in closed /\ queue[c] = 0
    /\ WriterEnds(c)
    /\ UNCHANGED <<clients, pumps, queue, closed>>

\* The channel is closed and empty, or a ping cannot be written.
WriterStops(c) ==
    /\ writer[c] = "run"
    /\ (c \in closed /\ queue[c] = 0) \/ conn[c] # "open"
    /\ WriterEnds(c)
    /\ UNCHANGED <<clients, pumps, queue, closed>>

-----------------------------------------------------------------------------
\* The peer closes, or the network between is cut.
PeerLeaves(c) ==
    /\ conn[c] = "open"
    /\ conn' = [conn EXCEPT ![c] = "gone"]
    /\ UNCHANGED <<clients, pumps, writer, queue, closed>>

ReaderStep(c) ==
    Load(c) \/ Push(c) \/ ReadFails(c) \/ Unregister(c) \/ Close(c)
WriterStep(c) == Write(c) \/ WriterStops(c)

Next == \E c \in Conn :
    Register(c) \/ Receive(c) \/ PeerLeaves(c) \/ ReaderStep(c) \/ WriterStep(c)

\* The Go scheduler runs every pump that is ready, the read deadline ends a read
\* from a peer that is gone, and the ping ticker makes the writer notice.
Fairness == \A c \in Conn : WF_vars(ReaderStep(c)) /\ WF_vars(WriterStep(c))

Spec == Init /\ [][Next]_vars /\ Fairness

-----------------------------------------------------------------------------
(* Properties. *)

\* However users reconnect, no channel is closed twice: LoadAndDelete hands a client
\* to one Unregister, and Register never stores a client again.
ClosedOnce == \A c \in Conn : reader[c] = "close" => held[c] \notin closed

\* The hub never keeps a connection whose readPump has ended, though Unregister goes
\* by the user and may be called for a connection that another one replaced.
NoDeadEntries == \A u \in User : clients[u] # NoConn => reader[clients[u]] # "done"

\* A readPump that waits for room in a full channel.
Blocked(c) == reader[c] = "push" /\ held[c] \notin closed /\ queue[held[c]] = Cap

\* Both goroutines of a connection that is gone end, unless readPump waits for
\* room in a channel: nothing else makes a connection leak.
PumpsEnd == \A c \in Conn :
    conn[c] \in {"gone", "closed"} ~>
        (reader[c] = "done" /\ writer[c] = "done") \/ Blocked(c)

\* "Hub maintains all active connections" (hub.go:29): while a connection of a user
\* is open and read from, the hub knows one of his, or is closing this one.
OnlineUsersReachable == \A c \in Conn :
    reader[c] = "read" /\ conn[c] = "open" /\ clients[owner[c]] = NoConn =>
        \E d \in Conn : reader[d] = "close" /\ held[d] = c

=============================================================================
