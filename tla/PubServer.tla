------------------------------ MODULE PubServer ------------------------------
(***************************************************************************)
(* class ZmqPubServer of zmq_pub_server.py: every publication is three     *)
(* sends, of a topic, an operation and the data, on one PUB socket that    *)
(* the process thread and all task threads share without a lock.  The      *)
(* socket takes frames in the order they come, whoever sends them, and     *)
(* ends a message with a frame sent without SNDMORE, a data frame.         *)
(* (libzmq leaves what else concurrent sends on a socket may do undefined. *)
(* Only the order of the frames is modelled.)                              *)
(*                                                                         *)
(* A publication is known by its place n in the order they were begun in.  *)
(***************************************************************************)
EXTENDS Naturals, Sequences, FiniteSets

CONSTANTS
    Publisher,          \* the threads that publish
    Superconducting     \* system_type is SUPERCONDUCTING

ASSUME PubAssumption == Superconducting \in BOOLEAN /\ IsFiniteSet(Publisher)

VARIABLES
    running,        \* self.running
    open,           \* the socket is open
    publications,   \* the data of each publication, by n
    sending,        \* the publication and the frame each publisher sends next
    partial,        \* frames since the end of the last message
    wire,           \* whole messages under way to the subscriber
    subscribed,     \* the subscriber's connection is made
    heard,          \* it was when the message of partial began
    overlapped      \* publications between whose frames another one's fell

pubVars == <<running, open, publications, sending, partial, wire,
             subscribed, heard, overlapped>>

ChipOperations ==
    {"chip_update", "probe", "calibration_start", "calibration_done", "chip_protect"}

Idle(p) == sending[p].frame = "none"

Nothing == [n |-> 0, frame |-> "none"]

PubInit(early) ==
    /\ running = TRUE /\ open = TRUE
    /\ publications = <<>>
    /\ sending = [p \in Publisher |-> Nothing]
    /\ partial = <<>> /\ wire = <<>>
    /\ subscribed = early /\ heard = FALSE
    /\ overlapped = {}

Publish(p, allowed, data) ==
    /\ Idle(p)
    /\ IF allowed
         THEN /\ publications' = Append(publications, data)
              /\ sending' = [sending EXCEPT ![p] =
                                [n |-> Len(publications) + 1, frame |-> "topic"]]
         ELSE UNCHANGED <<publications, sending>>
    /\ UNCHANGED <<running, open, partial, wire, subscribed, heard, overlapped>>

\* publish_task_status
PublishTaskStatus(p, id, status) ==
    Publish(p, running, [operation |-> "task_status", msg_type |-> "TaskStatus",
                         task_id |-> id, status |-> status])

\* publish_chip_update, publish_chip_resource_status, publish_calibration_start,
\* publish_calibration_done, publish_chip_protect: data without a MsgType or
\* a task id.
PublishChip(p, operation) ==
    Publish(p, running /\ Superconducting, [operation |-> operation])

Frame(p) == [n |-> sending[p].n, kind |-> sending[p].frame]

\* Those that have sent a frame and not their last.
Midway == {sending[p].n : p \in {q \in Publisher : sending[q].frame \in {"operation", "data"}}}

\* A call of self.socket.send in the try block of a publication.  The
\* subscriber gets the messages that begin once it is subscribed.
SendFrame(p) ==
    /\ open /\ ~Idle(p)
    /\ LET frame == sending[p].frame
           begun == IF partial = <<>> THEN subscribed ELSE heard
       IN /\ sending' = [sending EXCEPT ![p] =
                IF frame = "topic" THEN [@ EXCEPT !.frame = "operation"]
                ELSE IF frame = "operation" THEN [@ EXCEPT !.frame = "data"] ELSE Nothing]
          /\ partial' = IF frame = "data" THEN <<>> ELSE Append(partial, Frame(p))
          /\ wire' = IF frame = "data" /\ begun THEN Append(wire, Append(partial, Frame(p))) ELSE wire
          /\ heard' = begun
          /\ overlapped' = IF frame = "topic" /\ Midway # {}
                           THEN overlapped \cup Midway \cup {sending[p].n} ELSE overlapped
    /\ UNCHANGED <<running, open, publications, subscribed>>

\* The socket is closed: send raises, the publication is given up.
SendRaises(p) ==
    /\ ~open /\ ~Idle(p)
    /\ sending' = [sending EXCEPT ![p] = Nothing]
    /\ UNCHANGED <<running, open, publications, partial, wire, subscribed, heard, overlapped>>

\* stop: clears the flag, then closes the socket.
StopPublishing ==
    /\ running
    /\ running' = FALSE
    /\ UNCHANGED <<open, publications, sending, partial, wire, subscribed, heard, overlapped>>

CloseSocket ==
    /\ ~running /\ open
    /\ open' = FALSE /\ partial' = <<>>
    /\ UNCHANGED <<running, publications, sending, wire, subscribed, heard, overlapped>>

\* The subscriber's subscription arrives.
Subscribe ==
    /\ open /\ ~subscribed
    /\ subscribed' = TRUE
    /\ UNCHANGED <<running, open, publications, sending, partial, wire, heard, overlapped>>
================================================================================
