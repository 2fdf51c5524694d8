--------------------------- MODULE WebSocketManager ---------------------------
(***************************************************************************)
(* class WebSocketManager of pilotprobe/dashboard/websocket_manager.py and *)
(* the handler of /ws/stream in dashboard/app.py.  The proxy threads       *)
(* schedule a broadcast of each message on the event loop; it iterates     *)
(* over the set of connections itself and awaits a send at each, while     *)
(* connections come and go and other broadcasts run.                       *)
(*                                                                         *)
(* A connection is one WebSocket object: it connects once.  Python's set   *)
(* is not rebuilt while fewer than five have been added to it, so an       *)
(* iteration visits a connection at most once, misses none that stays, and *)
(* may or may not meet one that is added; Connections is that small.       *)
(***************************************************************************)
EXTENDS Naturals, Sequences, FiniteSets

CONSTANTS Connection

ASSUME ConnectionAssumption == IsFiniteSet(Connection) /\ Cardinality(Connection) < 5

VARIABLES
    handler,        \* where the handler of each connection is
    closed,         \* connections that have ended
    connections,    \* self._connections
    scheduled,      \* messages whose broadcasts the loop has not begun
    broadcasts,     \* the broadcasts that are running
    received,       \* messages each browser received
    missed          \* pairs of a message and a connected browser it skipped

wsVars == <<handler, closed, connections, scheduled, broadcasts, received, missed>>

WSInit ==
    /\ handler = [b \in Connection |-> "away"]
    /\ closed = {} /\ connections = {}
    /\ scheduled = <<>>
    /\ broadcasts = {}
    /\ received = [b \in Connection |-> {}]
    /\ missed = {}

--------------------------------------------------------------------------------
(* Browsers and the handler, message_stream                                *)

\* connect: await ws.accept() ...
Accept(b) ==
    /\ handler[b] = "away"
    /\ handler' = [handler EXCEPT ![b] = "accepted"]
    /\ UNCHANGED <<closed, connections, scheduled, broadcasts, received, missed>>

\* A change of the set by somebody else than the broadcast itself.
Disturb(bs, b) == {[x EXCEPT !.disturbed = @ \cup {b}] : x \in bs}

\* ... and the connection is added.
Connect(b) ==
    /\ handler[b] = "accepted"
    /\ handler' = [handler EXCEPT ![b] = "open"]
    /\ connections' = connections \cup {b}
    /\ broadcasts' = Disturb(broadcasts, b)
    /\ UNCHANGED <<closed, scheduled, received, missed>>

\* The browser goes, or sends what receive_text does not take: any exception
\* but WebSocketDisconnect ends the connection too, and Disconnect never comes.
Close(b) ==
    /\ handler[b] # "away" /\ b \notin closed
    /\ closed' = closed \cup {b}
    /\ UNCHANGED <<handler, connections, scheduled, broadcasts, received, missed>>

\* Mutant: it is left to a broadcast to find out that the connection is dead.
DisconnectLazily(b) ==
    /\ handler[b] = "open" /\ b \in closed
    /\ handler' = [handler EXCEPT ![b] = "done"]
    /\ UNCHANGED <<closed, connections, scheduled, broadcasts, received, missed>>

\* receive_text raises WebSocketDisconnect; disconnect.
Disconnect(b) ==
    /\ handler[b] = "open" /\ b \in closed
    /\ handler' = [handler EXCEPT ![b] = "done"]
    /\ connections' = connections \ {b}
    /\ broadcasts' = IF b \in connections THEN Disturb(broadcasts, b) ELSE broadcasts
    /\ UNCHANGED <<closed, scheduled, received, missed>>

--------------------------------------------------------------------------------
(* Broadcasts                                                              *)

\* broadcast_sync.  The loop is set before the first connection is made.
Schedule(n) ==
    /\ scheduled' = IF connections = {} THEN scheduled ELSE Append(scheduled, n)
    /\ UNCHANGED <<handler, closed, connections, broadcasts, received, missed>>

\* The iterator compares the size of the set with the size it began with.
SizeChanged(x) == Cardinality(connections) # Cardinality(x.members)

\* await ws.send_json(data) in a broadcast that leaves behind the others.
\* At one the browser has closed it may raise or go nowhere.
SendJson(x, b, others) ==
    LET next == [x EXCEPT !.visited = @ \cup {b}]
    IN \/ /\ b \in closed
          /\ broadcasts' = others \cup {[next EXCEPT !.dead = @ \cup {b}]}
          /\ UNCHANGED received
       \/ /\ broadcasts' = others \cup {next}
          /\ received' = IF b \in closed THEN received ELSE [received EXCEPT ![b] = @ \cup {x.n}]

\* _broadcast begins to iterate and sends to the first connection, if there
\* is still one.
StartBroadcast ==
    /\ scheduled # <<>>
    /\ scheduled' = Tail(scheduled)
    /\ LET x == [n |-> Head(scheduled), members |-> connections, visited |-> {},
                 dead |-> {}, disturbed |-> {}]
       IN IF connections = {} THEN UNCHANGED <<broadcasts, received>>
          ELSE \E b \in connections : SendJson(x, b, broadcasts)
    /\ UNCHANGED <<handler, closed, connections, missed>>

\* Mutant: a dead connection is dropped where it is found.
DiscardInLoop(x, b) ==
    /\ x \in broadcasts /\ ~SizeChanged(x)
    /\ b \in connections \ x.visited
    /\ IF b \in closed
         THEN /\ connections' = connections \ {b}
              /\ broadcasts' = Disturb(broadcasts \ {x}, b) \cup {[x EXCEPT !.visited = @ \cup {b}]}
              /\ UNCHANGED received
         ELSE /\ broadcasts' = (broadcasts \ {x}) \cup {[x EXCEPT !.visited = @ \cup {b}]}
              /\ received' = [received EXCEPT ![b] = @ \cup {x.n}]
              /\ UNCHANGED connections
    /\ UNCHANGED <<handler, closed, scheduled, missed>>

\* The next connection.
NextConnection(x, b) ==
    /\ x \in broadcasts /\ ~SizeChanged(x)
    /\ b \in connections \ x.visited
    /\ SendJson(x, b, broadcasts \ {x})
    /\ UNCHANGED <<handler, closed, connections, scheduled, missed>>

\* Connections that were there all the time and did not get the message.
Missed(x) ==
    {[n |-> x.n, connection |-> b, disturbed |-> x.disturbed] :
        b \in ((x.members \cap connections) \ x.visited) \ closed}

\* RuntimeError: Set changed size during iteration.  The future that would
\* report it is dropped, and so are the dead connections.
BroadcastRaises(x) ==
    /\ x \in broadcasts /\ SizeChanged(x)
    /\ broadcasts' = broadcasts \ {x}
    /\ missed' = missed \cup Missed(x)
    /\ UNCHANGED <<handler, closed, connections, scheduled, received>>

\* The end of the loop; the dead are removed from the set in place.
EndBroadcast(x) ==
    /\ x \in broadcasts /\ ~SizeChanged(x)
    /\ x.members \cap connections \subseteq x.visited
    /\ LET gone == connections \cap x.dead
       IN /\ connections' = connections \ gone
          /\ broadcasts' = {[y EXCEPT !.disturbed = @ \cup gone] : y \in broadcasts \ {x}}
    /\ UNCHANGED <<handler, closed, scheduled, received, missed>>

BroadcastStep ==
    \/ StartBroadcast
    \/ \E x \in broadcasts : \E b \in connections : NextConnection(x, b)
    \/ \E x \in broadcasts : BroadcastRaises(x) \/ EndBroadcast(x)

BrowserStep(b) == Accept(b) \/ Connect(b) \/ Close(b) \/ Disconnect(b)

(***************************************************************************)
(* A browser that stays connected while a message is broadcast misses it   *)
(* only if meanwhile another one came or went.                             *)
(***************************************************************************)
MissedOnlyByChange == \A m \in missed : m.disturbed \ {m.connection} # {}
================================================================================
