-------------------------------- MODULE WsHub --------------------------------
(***************************************************************************)
(* The WebSocket hub of internal/ws/hub.go for the pages of one household: *)
(* one goroutine (Hub.Run) owns the set of clients and moves messages from *)
(* the broadcast channel to the buffer of each client; a reader and a      *)
(* writer per connection move them on and notice that it ended.  A client  *)
(* is a connection; its id is used again once nothing of it is left.       *)
(***************************************************************************)
EXTENDS Naturals, Sequences, FiniteSets

CONSTANTS
    Client,        \* connections of the household
    Message,       \* what is broadcast
    BroadcastCap,  \* capacity of the broadcast channel (256 in the code)
    SendCap,       \* capacity of a client's send channel (256 in the code)
    WireCap        \* frames TCP takes before a write blocks

ASSUME HubAssumption ==
    /\ BroadcastCap \in Nat \ {0}
    /\ SendCap \in Nat \ {0}
    /\ WireCap \in Nat \ {0}

VARIABLES
    broadcast,  \* the channel Hub.broadcast
    clients,    \* the registered clients, Hub.households[household]
    send,       \* the buffer of each client's send channel
    closes,     \* how often each client's send channel has been closed
    socket,     \* the connection, see SocketState
    evicting,   \* clients for which a goroutine waits to send an unregister
    wire,       \* frames written and not yet read by the page
    missed      \* history: clients that a broadcast skipped

hubVars == <<broadcast, clients, send, closes, socket, evicting, wire, missed>>

\* "joining": ServeWS waits for the hub; "open": reader and writer run;
\* "broken": the reader has returned and waits to unregister.
SocketState == {"none", "joining", "open", "broken"}

HubTypeOK ==
    /\ broadcast \in Seq(Message) /\ Len(broadcast) <= BroadcastCap
    /\ clients \subseteq Client
    /\ send \in [Client -> Seq(Message)]
    /\ \A c \in Client : Len(send[c]) <= SendCap
    /\ closes \in [Client -> Nat]
    /\ socket \in [Client -> SocketState]
    /\ evicting \subseteq Client
    /\ wire \in [Client -> Seq(Seq(Message))]
    /\ \A c \in Client : Len(wire[c]) <= WireCap
    /\ missed \subseteq Client

HubInit ==
    /\ broadcast = <<>>
    /\ clients = {}
    /\ send = [c \in Client |-> <<>>]
    /\ closes = [c \in Client |-> 0]
    /\ socket = [c \in Client |-> "none"]
    /\ evicting = {}
    /\ wire = [c \in Client |-> <<>>]
    /\ missed = {}

-----------------------------------------------------------------------------
\* Broadcast blocks while the channel is full.
CanPublish(n) == Len(broadcast) + n <= BroadcastCap

Publish(m) ==
    /\ CanPublish(1)
    /\ broadcast' = Append(broadcast, m)
    /\ UNCHANGED <<clients, send, closes, socket, evicting, wire, missed>>

\* ServeWS makes a client with an empty buffer.  A former connection of the
\* same id has left nothing behind: neither a goroutine nor a frame.
Connect(c) ==
    /\ socket[c] = "none"
    /\ c \notin evicting
    /\ wire[c] = <<>>
    /\ socket' = [socket EXCEPT ![c] = "joining"]
    /\ send' = [send EXCEPT ![c] = <<>>]
    /\ closes' = [closes EXCEPT ![c] = 0]
    /\ missed' = missed \ {c}
    /\ UNCHANGED <<broadcast, clients, evicting, wire>>

Register(c) ==
    /\ socket[c] = "joining"
    /\ clients' = clients \cup {c}
    /\ socket' = [socket EXCEPT ![c] = "open"]
    /\ UNCHANGED <<broadcast, send, closes, evicting, wire, missed>>

\* As wrong code might have it: closing without looking whether it is there.
RemovedBlindly(c) ==
    /\ clients' = clients \ {c}
    /\ closes' = [closes EXCEPT ![c] = @ + 1]

\* Hub.Run's unregister case.  A client that is still there is removed and its
\* channel closed; for one that is not, nothing happens.
Removed(c) ==
    IF c \in clients
    THEN /\ clients' = clients \ {c}
         /\ closes' = [closes EXCEPT ![c] = @ + 1]
    ELSE UNCHANGED <<clients, closes>>

UnregisterEvicted(c) ==
    /\ c \in evicting
    /\ Removed(c)
    /\ evicting' = evicting \ {c}
    /\ UNCHANGED <<broadcast, send, socket, wire, missed>>

\* The reader's deferred unregister; it ends the connection's last goroutine.
UnregisterReader(c) ==
    /\ socket[c] = "broken"
    /\ Removed(c)
    /\ socket' = [socket EXCEPT ![c] = "none"]
    /\ UNCHANGED <<broadcast, send, evicting, wire, missed>>

Full(c) == Len(send[c]) >= SendCap

Evicted(skipped) == evicting \cup skipped

\* Hub.Run's broadcast case: who has room gets the message, who has not loses
\* it and is to be removed, by a goroutine of its own.
Distribute ==
    LET full == {c \in clients : Full(c)} IN
    /\ broadcast # <<>>
    /\ broadcast' = Tail(broadcast)
    /\ send' = [c \in Client |-> IF c \in clients \ full
                                 THEN Append(send[c], Head(broadcast))
                                 ELSE send[c]]
    /\ evicting' = Evicted(full)
    /\ missed' = missed \cup full
    /\ UNCHANGED <<clients, closes, socket, wire>>

\* writePump takes a message and everything queued behind it into one frame,
\* separated by newlines.  (What it holds in its hand counts as queued here.)
WriteFrame(c) ==
    /\ socket[c] = "open"
    /\ send[c] # <<>>
    /\ Len(wire[c]) < WireCap
    /\ wire' = [wire EXCEPT ![c] = Append(@, send[c])]
    /\ send' = [send EXCEPT ![c] = <<>>]
    /\ UNCHANGED <<broadcast, clients, closes, socket, evicting, missed>>

\* The connection ends: the page or the network closes it, a write or a pong
\* is late, or the writer finds its channel closed and drained.  Frames on the
\* way may be lost with it.
Break(c) ==
    /\ socket[c] = "open"
    /\ socket' = [socket EXCEPT ![c] = "broken"]
    /\ wire' \in {wire, [wire EXCEPT ![c] = <<>>]}
    /\ UNCHANGED <<broadcast, clients, send, closes, evicting, missed>>

\* The page takes the next frame off the wire.
TakeFrame(c) ==
    /\ wire[c] # <<>>
    /\ wire' = [wire EXCEPT ![c] = Tail(@)]
    /\ UNCHANGED <<broadcast, clients, send, closes, socket, evicting, missed>>

\* ws.ts and useWebSocket.ts parse a frame as one JSON text: a frame of two
\* messages is not one, and is dropped.
Readable(frame) == Len(frame) = 1

\* The process ends and starts again: connections and buffers are gone.
HubRestart ==
    /\ broadcast' = <<>>
    /\ clients' = {}
    /\ send' = [c \in Client |-> <<>>]
    /\ closes' = [c \in Client |-> 0]
    /\ socket' = [c \in Client |-> "none"]
    /\ evicting' = {}
    /\ wire' = [c \in Client |-> <<>>]
    /\ missed' = {}

HubNext ==
    \/ \E m \in Message : Publish(m)
    \/ Distribute \/ HubRestart
    \/ \E c \in Client : \/ Connect(c) \/ Register(c) \/ UnregisterEvicted(c)
                         \/ UnregisterReader(c) \/ WriteFrame(c) \/ Break(c) \/ TakeFrame(c)

HubSpec == HubInit /\ [][HubNext]_hubVars

-----------------------------------------------------------------------------
\* A client that a broadcast has skipped is on its way out: it does not stay
\* registered with a gap in what it was sent.
NoSilentGap == missed \cap clients \subseteq evicting

\* The hub closes a send channel at most once and never sends on a closed one
\* (either panics and takes the server down), though the overflow goroutine
\* and the reader may both ask for the removal of the same client.
ClosedOnce ==
    \A c \in Client :
        /\ closes[c] <= 1
        /\ c \in clients => closes[c] = 0 /\ socket[c] \in {"open", "broken"}
=============================================================================
