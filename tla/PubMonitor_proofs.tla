--------------------------- MODULE PubMonitor_proofs ---------------------------
(***************************************************************************)
(* Proofs about the way of a status from the simulator to a browser, for   *)
(* every number of tasks, browsers and announcements.                      *)
(***************************************************************************)
EXTENDS PubMonitor, SequenceLemmas, FiniteSetTheorems

Status == {"PENDING", "RUNNING", "SUCCESSED", "FAILED"}

TaskData == [operation : {"task_status"}, msg_type : {"TaskStatus"}, task_id : Task,
             status : Status]

ChipData == [operation : ChipOperations]

FrameRecord == [n : Nat, kind : {"topic", "operation", "data"}]

MsgRecord == [channel : {"pub"}, direction : {"PUB"},
              msg_type : ChipOperations \cup {"task_status", "TaskStatus", "simulator_topic", Null},
              task_id : Task \cup {Null}, status : Status \cup {Null}]

CapturedRecord == [frames : Seq(FrameRecord), msg : MsgRecord, issues : SUBSET {"transition"}]

PubTypes ==
    /\ running \in BOOLEAN /\ open \in BOOLEAN
    /\ publications \in Seq(TaskData \cup ChipData)
    /\ sending \in [Publisher -> [n : Nat, frame : {"none", "topic", "operation", "data"}]]
    /\ partial \in Seq(FrameRecord)
    /\ wire \in Seq(Seq(FrameRecord))
    /\ overlapped \subseteq DOMAIN publications
    /\ captured \in Seq(CapturedRecord)
    /\ taskStatus \in [Task -> Status \cup {Null}]

\* The threads: each publishes something of its own; once the socket is
\* closed nothing is published.
Threads ==
    /\ \A p \in Publisher : ~Idle(p) => sending[p].n \in DOMAIN publications
    /\ \A p, q \in Publisher : ~Idle(p) /\ ~Idle(q) /\ sending[p].n = sending[q].n => p = q
    /\ ~open => ~running /\ partial = <<>>

\* A thread between two of its frames, and what it has sent.
Halfway(p) == sending[p].frame \in {"operation", "data"}

Sent(s) ==
    IF s.frame = "operation" THEN <<[n |-> s.n, kind |-> "topic"]>>
    ELSE <<[n |-> s.n, kind |-> "topic"], [n |-> s.n, kind |-> "operation"]>>

\* A data frame ends a message, and only that; a publication that overlapped
\* no other is a message.
Message(m) ==
    /\ m \in Seq(FrameRecord) /\ m # <<>> /\ m[Len(m)].kind = "data"
    /\ \A k \in DOMAIN m :
          /\ m[k].n \in DOMAIN publications
          /\ m[k].kind = "data" => k = Len(m)
          /\ m[k].n \notin overlapped => m = Frames(m[k].n)

(***************************************************************************)
(* The socket.  Of two publications that are both between two of their     *)
(* frames each has overlapped the other; so one that has overlapped none   *)
(* is alone there, and the frames since the last message are its own.      *)
(***************************************************************************)
Socket ==
    /\ \A p, q \in Publisher : Halfway(p) /\ Halfway(q) /\ p # q => sending[p].n \in overlapped
    /\ \A i \in DOMAIN partial :
          /\ partial[i].kind # "data"
          /\ \E p \in Publisher : Halfway(p) /\ sending[p].n = partial[i].n
    /\ \A p \in Publisher :
          open /\ Halfway(p) /\ sending[p].n \notin overlapped => partial = Sent(sending[p])
    /\ \A m \in Range(wire) : Message(m)
    /\ \A c \in Range(captured) : Message(c.frames) /\ c.msg = FromPubFrames(c.frames)

PubInv == PubTypes /\ Threads /\ Socket

--------------------------------------------------------------------------------
(* What is read from a message                                             *)

LEMMA CapturedData ==
    ASSUME NEW op, NEW d \in TaskData \cup ChipData
    PROVE  Captured(op, d) =
              IF d \in TaskData
                THEN [channel |-> "pub", direction |-> "PUB", msg_type |-> "TaskStatus",
                      task_id |-> d.task_id, status |-> d.status]
                ELSE [channel |-> "pub", direction |-> "PUB", msg_type |-> op,
                      task_id |-> Null, status |-> Null]
<1>1. CASE d \in TaskData
  <2>1. DOMAIN d = {"operation", "msg_type", "task_id", "status"} /\ d.msg_type = "TaskStatus"
    BY <1>1 DEF TaskData
  <2>2. QED
    BY <1>1, <2>1 DEF Captured
<1>2. CASE d \notin TaskData
  <2>1. DOMAIN d = {"operation"}
    BY <1>2 DEF ChipData
  <2>2. DOMAIN d # {}
    BY <2>1
  <2>3. QED
    BY <1>2, <2>1, <2>2 DEF Captured
<1>3. QED
  BY <1>1, <1>2

LEMMA CapturedNothing ==
    Captured("", <<>>) = [channel |-> "pub", direction |-> "PUB", msg_type |-> Null,
                          task_id |-> Null, status |-> Null]
<1>1. DOMAIN (<<>>) = {}
  OBVIOUS
<1>2. QED
  BY <1>1 DEF Captured

\* The publication whose data ended a message; publications about a task.
Of(m) == m[Len(m)].n

About(n, id) ==
    /\ n \in DOMAIN publications
    /\ publications[n] \in TaskData /\ publications[n].task_id = id

LEMMA PublicationTyped ==
    ASSUME PubTypes, NEW n \in DOMAIN publications
    PROVE  /\ n \in Nat \ {0} /\ publications[n] \in TaskData \cup ChipData
           /\ publications[n] \in TaskData <=> publications[n].operation = "task_status"
<1>1. n \in Nat \ {0} /\ publications[n] \in TaskData \cup ChipData
  BY LenProperties, ElementOfSeq DEF PubTypes
<1>2. publications[n] \in ChipData => publications[n].operation # "task_status"
  BY DEF ChipData, ChipOperations
<1>3. QED
  BY <1>1, <1>2 DEF TaskData

\* A message tells a status only with the data that ended it.
LEMMA ReadFacts ==
    ASSUME PubTypes, NEW m, Message(m)
    PROVE  /\ FromPubFrames(m) \in MsgRecord
           /\ \/ FromPubFrames(m).task_id = Null /\ FromPubFrames(m).status = Null
              \/ /\ Len(m) = 3
                 /\ About(Of(m), FromPubFrames(m).task_id)
                 /\ FromPubFrames(m).status = publications[Of(m)].status
<1>1. m \in Seq(FrameRecord) /\ Len(m) \in Nat /\ DOMAIN m = 1 .. Len(m)
  BY LenProperties DEF Message
<1>2. CASE Len(m) >= 3 /\ m[3].kind = "data"
  <2> DEFINE d == publications[m[3].n]
             op == Text(m[2])
  <2>1. Len(m) = 3 /\ m[3].n = Of(m) /\ m[3].n \in DOMAIN publications /\ m[2].n \in DOMAIN publications
    BY <1>1, <1>2 DEF Message, Of
  <2>2. d \in TaskData \cup ChipData /\ publications[m[2].n] \in TaskData \cup ChipData
    BY <2>1, PublicationTyped
  <2>3. op \in ChipOperations \cup {"task_status", "simulator_topic"}
    BY <2>2 DEF Text, TaskData, ChipData
  <2>4. FromPubFrames(m) = Captured(op, d)
    BY <1>2 DEF FromPubFrames
  <2> HIDE DEF op
  <2>5. CASE d \in TaskData
    <3>1. FromPubFrames(m) = [channel |-> "pub", direction |-> "PUB", msg_type |-> "TaskStatus",
                              task_id |-> d.task_id, status |-> d.status]
      BY <2>2, <2>4, <2>5, CapturedData
    <3>2. d.task_id \in Task /\ d.status \in Status
      BY <2>5 DEF TaskData
    <3>3. FromPubFrames(m) \in MsgRecord
      BY <3>1, <3>2 DEF MsgRecord
    <3>4. About(Of(m), d.task_id)
      BY <2>1, <2>5 DEF About
    <3>5. QED
      BY <2>1, <3>1, <3>3, <3>4
  <2>6. CASE d \notin TaskData
    <3>1. FromPubFrames(m) = [channel |-> "pub", direction |-> "PUB", msg_type |-> op,
                              task_id |-> Null, status |-> Null]
      BY <2>2, <2>4, <2>6, CapturedData
    <3>2. FromPubFrames(m) \in MsgRecord
      BY <2>3, <3>1 DEF MsgRecord
    <3>3. QED
      BY <3>1, <3>2
  <2>7. QED
    BY <2>5, <2>6
<1>3. CASE ~(Len(m) >= 3 /\ m[3].kind = "data")
  <2>1. FromPubFrames(m) = Captured("", <<>>)
    BY <1>3 DEF FromPubFrames
  <2>2. FromPubFrames(m) = [channel |-> "pub", direction |-> "PUB", msg_type |-> Null,
                            task_id |-> Null, status |-> Null]
    BY <2>1, CapturedNothing
  <2>3. FromPubFrames(m) \in MsgRecord
    BY <2>2 DEF MsgRecord
  <2>4. QED
    BY <2>2, <2>3
<1>4. QED
  BY <1>2, <1>3

\* The message of one publication is read as what was published.
LEMMA FramesRead ==
    ASSUME PubTypes, NEW n \in DOMAIN publications
    PROVE  /\ Len(Frames(n)) = 3 /\ Of(Frames(n)) = n
           /\ FromPubFrames(Frames(n)) = Captured(publications[n].operation, publications[n])
<1>1. /\ Frames(n)[2] = [n |-> n, kind |-> "operation"]
      /\ Frames(n)[3] = [n |-> n, kind |-> "data"]
  BY DEF Frames
<1>2. Len(Frames(n)) = 3
  <2>1. DOMAIN Frames(n) = 1 .. 3 /\ 3 \in Nat
    BY DEF Frames
  <2>2. Frames(n) \in Seq(FrameRecord)
    <3>1. \A i \in 1 .. 3 : <<"topic", "operation", "data">>[i] \in {"topic", "operation", "data"}
      OBVIOUS
    <3>2. n \in Nat
      BY PublicationTyped
    <3> DEFINE kinds == <<"topic", "operation", "data">>
    <3> HIDE DEF kinds
    <3>3. \A i \in 1 .. 3 : [n |-> n, kind |-> kinds[i]] \in FrameRecord
      BY <3>1, <3>2 DEF FrameRecord, kinds
    <3>4. Frames(n) = [i \in 1 .. 3 |-> [n |-> n, kind |-> kinds[i]]]
      BY DEF Frames, kinds
    <3>5. Frames(n) \in [1 .. 3 -> FrameRecord]
      BY <3>3, <3>4
    <3>6. Seq(FrameRecord) = UNION {[1 .. k -> FrameRecord] : k \in Nat}
      BY SeqDef
    <3>7. [1 .. 3 -> FrameRecord] \in {[1 .. k -> FrameRecord] : k \in Nat}
      BY <2>1
    <3>8. QED
      BY <3>5, <3>6, <3>7
  <2>3. QED
    BY <2>1, <2>2, LenProperties
<1>3. Text(Frames(n)[2]) = publications[n].operation
  BY <1>1 DEF Text
<1>4. QED
  BY <1>1, <1>2, <1>3 DEF FromPubFrames, Of

--------------------------------------------------------------------------------
(* The steps                                                               *)

\* The step that begins a publication.
Begin(p, data) ==
    /\ running /\ Idle(p)
    /\ publications' = Append(publications, data)
    /\ sending' = [sending EXCEPT ![p] = [n |-> Len(publications) + 1, frame |-> "topic"]]
    /\ UNCHANGED <<running, open, partial, wire, subscribed, heard, overlapped>>
    /\ UNCHANGED <<captured, taskStatus>>

\* The steps of the sockets and of the threads' ends.
SocketChange ==
    /\ \/ \E p \in Publisher : SendFrame(p) \/ SendRaises(p)
       \/ StopPublishing \/ CloseSocket \/ Subscribe
    /\ UNCHANGED <<captured, taskStatus, phase>>

LEMMA PubSteps ==
    ASSUME [Next]_vars
    PROVE  \/ \E p \in Publisher, data \in TaskData \cup ChipData : Begin(p, data)
           \/ SocketChange
           \/ CapturePub
           \/ UNCHANGED <<pubVars, captured, taskStatus>>
<1> USE DEF validatorVars
<1>t. Task \subseteq Publisher /\ Process \in Publisher /\ Chip \in Publisher
  BY MonitorAssumption
<1>1. ASSUME NEW p \in Publisher, NEW allowed, NEW data \in TaskData \cup ChipData,
             Publish(p, allowed, data), allowed => running, UNCHANGED <<captured, taskStatus>>
      PROVE  Begin(p, data) \/ UNCHANGED <<pubVars, captured, taskStatus>>
  BY <1>1 DEF Publish, Begin, pubVars
<1>2. ASSUME NEW p \in Publisher, NEW id \in Task, NEW status \in Status,
             PublishTaskStatus(p, id, status), UNCHANGED <<captured, taskStatus>>
      PROVE  \/ \E data \in TaskData \cup ChipData : Begin(p, data)
             \/ UNCHANGED <<pubVars, captured, taskStatus>>
  <2> DEFINE data == [operation |-> "task_status", msg_type |-> "TaskStatus",
                      task_id |-> id, status |-> status]
  <2>1. data \in TaskData \cup ChipData
    BY DEF TaskData
  <2>2. Publish(p, running, data)
    BY <1>2 DEF PublishTaskStatus
  <2> HIDE DEF data
  <2>3. QED
    BY <1>1, <1>2, <2>1, <2>2
<1>3. ASSUME NEW id \in Task,
             \/ PublishPending(id) \/ PublishRunning(id)
             \/ \E status \in {"SUCCESSED", "FAILED"} : PublishFinal(id, status)
      PROVE  \/ \E p \in Publisher, data \in TaskData \cup ChipData : Begin(p, data)
             \/ UNCHANGED <<pubVars, captured, taskStatus>>
  BY <1>t, <1>2, <1>3 DEF PublishPending, PublishRunning, PublishFinal, Status
<1>4. ASSUME NEW operation \in ChipOperations, Announce(operation)
      PROVE  \/ \E p \in Publisher, data \in TaskData \cup ChipData : Begin(p, data)
             \/ UNCHANGED <<pubVars, captured, taskStatus>>
  <2> DEFINE data == [operation |-> operation]
  <2>1. data \in TaskData \cup ChipData
    BY DEF ChipData
  <2>2. Publish(Chip, running /\ Superconducting, data) /\ UNCHANGED <<captured, taskStatus>>
    BY <1>4 DEF Announce, PublishChip
  <2> HIDE DEF data
  <2>3. QED
    BY <1>t, <1>1, <2>1, <2>2
<1>5. ASSUME NEW id \in Task, PublishNothing(id) PROVE UNCHANGED <<pubVars, captured, taskStatus>>
  BY <1>5 DEF PublishNothing
<1>6. SocketStep => SocketChange
  BY DEF SocketStep, SocketChange, monitorVars
<1>7. DashboardStep => UNCHANGED <<pubVars, captured, taskStatus>>
  BY DEF DashboardStep, monitorVars
<1>8. UNCHANGED vars => UNCHANGED <<pubVars, captured, taskStatus>>
  BY DEF vars, monitorVars
<1>9. QED
  BY <1>3, <1>4, <1>5, <1>6, <1>7, <1>8 DEF Next

LEMMA BeginFacts ==
    ASSUME PubInv, NEW p \in Publisher, NEW data \in TaskData \cup ChipData, Begin(p, data)
    PROVE  /\ publications' \in Seq(TaskData \cup ChipData)
           /\ Len(publications) \in Nat
           /\ DOMAIN publications = 1 .. Len(publications)
           /\ DOMAIN publications' = 1 .. Len(publications) + 1
           /\ \A n \in 1 .. Len(publications) : publications'[n] = publications[n]
           /\ publications'[Len(publications) + 1] = data
           /\ sending' \in [Publisher -> [n : Nat, frame : {"none", "topic", "operation", "data"}]]
           /\ sending'[p] = [n |-> Len(publications) + 1, frame |-> "topic"]
           /\ \A q \in Publisher \ {p} : sending'[q] = sending[q]
<1>1. publications \in Seq(TaskData \cup ChipData) /\ publications' = Append(publications, data)
  BY DEF PubInv, PubTypes, Begin
<1>2. /\ publications' \in Seq(TaskData \cup ChipData)
      /\ Len(publications) \in Nat
      /\ DOMAIN publications = 1 .. Len(publications)
      /\ DOMAIN publications' = 1 .. Len(publications) + 1
      /\ \A n \in 1 .. Len(publications) : publications'[n] = publications[n]
      /\ publications'[Len(publications) + 1] = data
  BY <1>1, Appended
<1>3. /\ sending \in [Publisher -> [n : Nat, frame : {"none", "topic", "operation", "data"}]]
      /\ sending' = [sending EXCEPT ![p] = [n |-> Len(publications) + 1, frame |-> "topic"]]
  BY DEF PubInv, PubTypes, Begin
<1>4. [n |-> Len(publications) + 1, frame |-> "topic"]
         \in [n : Nat, frame : {"none", "topic", "operation", "data"}]
  BY <1>2
<1>5. QED
  BY <1>2, <1>3, <1>4

\* The next frame of a publication, and what the socket makes of it.
LEMMA SendFrameFacts ==
    ASSUME PubInv, NEW p \in Publisher, SendFrame(p)
    PROVE  /\ open /\ ~Idle(p)
           /\ sending[p].n \in DOMAIN publications
           /\ Frame(p) = [n |-> sending[p].n, kind |-> sending[p].frame]
           /\ Frame(p) \in FrameRecord
           /\ sending' \in [Publisher -> [n : Nat, frame : {"none", "topic", "operation", "data"}]]
           /\ \A q \in Publisher \ {p} : sending'[q] = sending[q]
           /\ UNCHANGED <<running, open, publications, subscribed>>
           /\ \/ /\ sending[p].frame = "topic"
                 /\ sending'[p] = [n |-> sending[p].n, frame |-> "operation"]
                 /\ partial' = Append(partial, Frame(p)) /\ wire' = wire
                 /\ overlapped' = IF Midway = {} THEN overlapped
                                  ELSE overlapped \cup Midway \cup {sending[p].n}
              \/ /\ sending[p].frame = "operation"
                 /\ sending'[p] = [n |-> sending[p].n, frame |-> "data"]
                 /\ partial' = Append(partial, Frame(p)) /\ wire' = wire
                 /\ overlapped' = overlapped
              \/ /\ sending[p].frame = "data"
                 /\ sending'[p] = Nothing
                 /\ partial' = <<>>
                 /\ wire' = IF heard' THEN Append(wire, Append(partial, Frame(p))) ELSE wire
                 /\ overlapped' = overlapped
           /\ heard' = IF partial = <<>> THEN subscribed ELSE heard
<1>1. /\ sending \in [Publisher -> [n : Nat, frame : {"none", "topic", "operation", "data"}]]
      /\ open /\ ~Idle(p)
      /\ UNCHANGED <<running, open, publications, subscribed>>
  BY DEF PubInv, PubTypes, SendFrame
<1>2. sending[p] \in [n : Nat, frame : {"none", "topic", "operation", "data"}]
  BY <1>1
<1>3. sending[p].n \in Nat /\ sending[p].frame \in {"topic", "operation", "data"}
  BY <1>1, <1>2 DEF Idle
<1>4. sending[p].n \in DOMAIN publications
  BY <1>1 DEF PubInv, Threads
<1>5. Frame(p) = [n |-> sending[p].n, kind |-> sending[p].frame] /\ Frame(p) \in FrameRecord
  BY <1>3 DEF Frame, FrameRecord
<1> DEFINE next == IF sending[p].frame = "topic" THEN [sending[p] EXCEPT !.frame = "operation"]
                   ELSE IF sending[p].frame = "operation" THEN [sending[p] EXCEPT !.frame = "data"]
                   ELSE Nothing
<1>6. sending' = [sending EXCEPT ![p] = next]
  BY DEF SendFrame
<1>7. /\ next \in [n : Nat, frame : {"none", "topic", "operation", "data"}]
      /\ sending[p].frame = "topic" => next = [n |-> sending[p].n, frame |-> "operation"]
      /\ sending[p].frame = "operation" => next = [n |-> sending[p].n, frame |-> "data"]
      /\ sending[p].frame = "data" => next = Nothing
  BY <1>2, <1>3 DEF Nothing
<1> HIDE DEF next
<1>8. /\ sending' \in [Publisher -> [n : Nat, frame : {"none", "topic", "operation", "data"}]]
      /\ sending'[p] = next
      /\ \A q \in Publisher \ {p} : sending'[q] = sending[q]
  BY <1>1, <1>6, <1>7
<1>9. heard' = IF partial = <<>> THEN subscribed ELSE heard
  BY DEF SendFrame
<1>10. sending[p].frame \in {"topic", "operation"} =>
          partial' = Append(partial, Frame(p)) /\ wire' = wire
  BY DEF SendFrame
<1>11. sending[p].frame = "data" =>
          /\ partial' = <<>>
          /\ wire' = IF heard' THEN Append(wire, Append(partial, Frame(p))) ELSE wire
  BY <1>9 DEF SendFrame
<1>12. overlapped' = IF sending[p].frame = "topic" /\ Midway # {}
                     THEN overlapped \cup Midway \cup {sending[p].n} ELSE overlapped
  BY DEF SendFrame
<1>13. QED
  BY <1>1, <1>3, <1>4, <1>5, <1>7, <1>8, <1>9, <1>10, <1>11, <1>12

\* Capturing takes the first message; the status it tells is remembered.
LEMMA CaptureFacts ==
    ASSUME PubInv, CapturePub
    PROVE  LET m == Head(wire)
               msg == FromPubFrames(m)
               c == [frames |-> m, msg |-> msg, issues |-> Issues(msg)]
           IN /\ wire # <<>> /\ wire' = Tail(wire) /\ m \in Range(wire) /\ Message(m)
              /\ wire' \in Seq(Seq(FrameRecord)) /\ Range(wire) = Range(wire') \cup {m}
              /\ c \in CapturedRecord /\ captured' = Append(captured, c)
              /\ captured' \in Seq(CapturedRecord) /\ Range(captured') = Range(captured) \cup {c}
              /\ taskStatus' = IF msg.task_id = Null \/ msg.status = Null THEN taskStatus
                               ELSE [taskStatus EXCEPT ![msg.task_id] = msg.status]
              /\ taskStatus' \in [Task -> Status \cup {Null}]
              /\ Issues(msg) = IF InvalidTransition(msg) THEN {"transition"} ELSE {}
              /\ UNCHANGED <<running, open, publications, sending, partial, subscribed, heard,
                             overlapped, phase>>
<1> DEFINE m == Head(wire)
           msg == FromPubFrames(m)
           c == [frames |-> m, msg |-> msg, issues |-> Issues(msg)]
<1>1. /\ wire # <<>> /\ wire' = Tail(wire) /\ captured' = Append(captured, c) /\ Validate(msg)
      /\ UNCHANGED <<running, open, publications, sending, partial, subscribed, heard,
                     overlapped, phase>>
  BY DEF CapturePub
<1>2. /\ m \in Range(wire) /\ m \in Seq(FrameRecord)
      /\ wire' \in Seq(Seq(FrameRecord)) /\ Range(wire) = Range(wire') \cup {m}
  BY <1>1, Taken DEF PubInv, PubTypes
<1>3. Message(m)
  BY <1>2 DEF PubInv, Socket
<1>4. msg \in MsgRecord
  BY <1>3, ReadFacts DEF PubInv
<1> HIDE DEF m, msg
<1>5. msg.channel = "pub" /\ msg.task_id \in Task \cup {Null} /\ msg.status \in Status \cup {Null}
  BY <1>4 DEF MsgRecord
<1>6. Issues(msg) = IF InvalidTransition(msg) THEN {"transition"} ELSE {}
  BY <1>5 DEF Issues
<1>7. Issues(msg) \in SUBSET {"transition"}
  BY <1>6
<1>8. c \in CapturedRecord
  BY <1>2, <1>4, <1>7 DEF CapturedRecord
<1> HIDE DEF c
<1>9. captured' \in Seq(CapturedRecord) /\ Range(captured') = Range(captured) \cup {c}
  <2>1. captured \in Seq(CapturedRecord)
    BY DEF PubInv, PubTypes
  <2>2. QED
    BY <1>1, <1>8, <2>1, Appended
<1>10. taskStatus' = IF msg.task_id = Null \/ msg.status = Null THEN taskStatus
                     ELSE [taskStatus EXCEPT ![msg.task_id] = msg.status]
  BY <1>1, <1>5 DEF Validate, Lifecycle
<1>11. taskStatus' \in [Task -> Status \cup {Null}]
  <2>1. taskStatus \in [Task -> Status \cup {Null}]
    BY DEF PubInv, PubTypes
  <2>2. QED
    BY <1>5, <1>10, <2>1
<1>12. QED
  BY <1>1, <1>2, <1>3, <1>6, <1>8, <1>9, <1>10, <1>11 DEF m, msg, c

LEMMA PublicationsStay ==
    ASSUME PubInv, [Next]_vars
    PROVE  /\ \A n \in DOMAIN publications :
                 n \in DOMAIN publications' /\ publications'[n] = publications[n]
           /\ overlapped \subseteq overlapped'
<1>1. ASSUME NEW p \in Publisher, NEW data \in TaskData \cup ChipData, Begin(p, data)
      PROVE  /\ \A n \in DOMAIN publications :
                   n \in DOMAIN publications' /\ publications'[n] = publications[n]
             /\ overlapped \subseteq overlapped'
  BY <1>1, BeginFacts DEF Begin
<1>2. ASSUME NEW p \in Publisher, SendFrame(p)
      PROVE  publications' = publications /\ overlapped \subseteq overlapped'
  BY <1>2, SendFrameFacts
<1>3. SocketChange => publications' = publications /\ overlapped \subseteq overlapped'
  BY <1>2 DEF SocketChange, SendRaises, StopPublishing, CloseSocket, Subscribe
<1>4. CapturePub => publications' = publications /\ overlapped' = overlapped
  BY DEF CapturePub
<1>5. QED
  BY <1>1, <1>3, <1>4, PubSteps DEF pubVars

LEMMA MessageStays ==
    ASSUME NEW m, Message(m),
           \A n \in DOMAIN publications :
              n \in DOMAIN publications' /\ publications'[n] = publications[n],
           overlapped \subseteq overlapped'
    PROVE  Message(m)' /\ FromPubFrames(m)' = FromPubFrames(m)
<1>1. Message(m)'
  BY DEF Message
<1>2. m \in Seq(FrameRecord) /\ Len(m) \in Nat /\ DOMAIN m = 1 .. Len(m)
  BY LenProperties DEF Message
<1>3. CASE Len(m) >= 3
  <2>1. 2 \in DOMAIN m /\ 3 \in DOMAIN m
    BY <1>2, <1>3
  <2>2. publications'[m[2].n] = publications[m[2].n] /\ publications'[m[3].n] = publications[m[3].n]
    BY <2>1 DEF Message
  <2>3. Text(m[2])' = Text(m[2])
    BY <2>2 DEF Text
  <2>4. FromPubFrames(m)' = FromPubFrames(m)
    BY <2>2, <2>3 DEF FromPubFrames, Captured
  <2>5. QED
    BY <1>1, <2>4
<1>4. CASE ~(Len(m) >= 3)
  BY <1>1, <1>4 DEF FromPubFrames, Captured
<1>5. QED
  BY <1>3, <1>4

--------------------------------------------------------------------------------
(* The invariant of the socket                                             *)

LEMMA InitPubInv == Init => PubInv
<1> SUFFICES ASSUME Init PROVE PubInv
  OBVIOUS
<1>1. /\ running = TRUE /\ open = TRUE /\ publications = <<>> /\ partial = <<>> /\ wire = <<>>
      /\ sending = [p \in Publisher |-> Nothing]
      /\ overlapped = {} /\ captured = <<>>
      /\ taskStatus = [id \in Task |-> Null]
  BY DEF Init, PubInit, PVInit
<1>2. PubTypes
  <2>1. /\ publications \in Seq(TaskData \cup ChipData) /\ partial \in Seq(FrameRecord)
        /\ wire \in Seq(Seq(FrameRecord)) /\ captured \in Seq(CapturedRecord)
    BY <1>1, EmptySeq
  <2>2. Nothing \in [n : Nat, frame : {"none", "topic", "operation", "data"}]
    BY DEF Nothing
  <2>3. sending \in [Publisher -> [n : Nat, frame : {"none", "topic", "operation", "data"}]]
    BY <1>1, <2>2
  <2>4. taskStatus \in [Task -> Status \cup {Null}]
    BY <1>1
  <2>5. running \in BOOLEAN /\ open \in BOOLEAN /\ overlapped \subseteq DOMAIN publications
    BY <1>1
  <2>6. QED
    BY <2>1, <2>3, <2>4, <2>5 DEF PubTypes
<1>3. \A p \in Publisher : sending[p].frame = "none"
  BY <1>1 DEF Nothing
<1>4. DOMAIN partial = {} /\ Range(wire) = {} /\ Range(captured) = {}
  BY <1>1 DEF Range
<1>5. QED
  BY <1>1, <1>2, <1>3, <1>4 DEF PubInv, Threads, Socket, Idle, Halfway

\* The messages that were there stay.
LEMMA MessagesStay ==
    ASSUME PubInv, [Next]_vars
    PROVE  /\ \A m \in Range(wire) : Message(m)'
           /\ \A c \in Range(captured) :
                 Message(c.frames)' /\ c.msg = FromPubFrames(c.frames)'
<1>1. ASSUME NEW m \in Range(wire) PROVE Message(m)'
  <2>1. Message(m)
    BY DEF PubInv, Socket
  <2>2. QED
    BY <2>1, PublicationsStay, MessageStays
<1>2. ASSUME NEW c \in Range(captured)
      PROVE  Message(c.frames)' /\ c.msg = FromPubFrames(c.frames)'
  <2>1. Message(c.frames) /\ c.msg = FromPubFrames(c.frames)
    BY DEF PubInv, Socket
  <2>2. Message(c.frames)' /\ FromPubFrames(c.frames)' = FromPubFrames(c.frames)
    BY <2>1, PublicationsStay, MessageStays
  <2>3. QED
    BY <2>1, <2>2
<1>3. QED
  BY <1>1, <1>2

LEMMA BeginKeepsInv ==
    ASSUME PubInv, [Next]_vars,
           NEW p \in Publisher, NEW data \in TaskData \cup ChipData, Begin(p, data)
    PROVE  PubInv'
<1>1. /\ UNCHANGED <<running, open, partial, wire, subscribed, heard, overlapped>>
      /\ UNCHANGED <<captured, taskStatus>>
      /\ running /\ Idle(p)
  BY DEF Begin
<1>2. PubTypes'
  BY <1>1, BeginFacts DEF PubInv, PubTypes
<1>3. \A q \in Publisher : ~Idle(q)' => q = p \/ (~Idle(q) /\ sending'[q] = sending[q])
  BY BeginFacts DEF Idle
<1>4. \A q \in Publisher : Halfway(q)' => q # p /\ Halfway(q) /\ sending'[q] = sending[q]
  BY BeginFacts DEF Halfway
<1>5. \A q \in Publisher : Halfway(q) => Halfway(q)' /\ sending'[q] = sending[q]
  BY <1>1, BeginFacts DEF Halfway, Idle
<1>6. \A q \in Publisher \ {p} : ~Idle(q) => sending[q].n \in 1 .. Len(publications)
  BY BeginFacts DEF PubInv, Threads
<1>7. sending'[p].n = Len(publications) + 1
  BY BeginFacts
<1>8. Threads'
  <2>1. \A q \in Publisher : ~Idle(q)' => sending'[q].n \in DOMAIN publications'
    BY <1>3, <1>6, <1>7, BeginFacts
  <2>2. \A q, o \in Publisher : ~Idle(q)' /\ ~Idle(o)' /\ sending'[q].n = sending'[o].n => q = o
    BY <1>3, <1>6, <1>7, BeginFacts DEF PubInv, Threads
  <2>3. QED
    BY <1>1, <2>1, <2>2 DEF PubInv, Threads
<1>9. Socket'
  <2>1. \A q, o \in Publisher : Halfway(q)' /\ Halfway(o)' /\ q # o => sending'[q].n \in overlapped'
    BY <1>1, <1>4 DEF PubInv, Socket
  <2>2. \A i \in DOMAIN partial' :
           /\ partial'[i].kind # "data"
           /\ \E q \in Publisher : Halfway(q)' /\ sending'[q].n = partial'[i].n
    BY <1>1, <1>5 DEF PubInv, Socket
  <2>3. \A q \in Publisher :
           open' /\ Halfway(q)' /\ sending'[q].n \notin overlapped' => partial' = Sent(sending'[q])
    BY <1>1, <1>4 DEF PubInv, Socket
  <2>4. QED
    BY <1>1, <2>1, <2>2, <2>3, MessagesStay DEF Socket
<1>10. QED
  BY <1>2, <1>8, <1>9 DEF PubInv

LEMMA CaptureKeepsInv ==
    ASSUME PubInv, [Next]_vars, CapturePub
    PROVE  PubInv'
<1>1. /\ wire' \in Seq(Seq(FrameRecord)) /\ Range(wire') \subseteq Range(wire)
      /\ captured' \in Seq(CapturedRecord)
      /\ taskStatus' \in [Task -> Status \cup {Null}]
      /\ UNCHANGED <<running, open, publications, sending, partial, subscribed, heard, overlapped>>
  BY CaptureFacts
<1>2. PubTypes'
  BY <1>1 DEF PubInv, PubTypes
<1>3. Threads'
  BY <1>1 DEF PubInv, Threads, Idle
<1>4. \A c \in Range(captured') : Message(c.frames)' /\ c.msg = FromPubFrames(c.frames)'
  <2>1. PICK c : /\ c.frames \in Range(wire) /\ c.msg = FromPubFrames(c.frames)
                 /\ Range(captured') = Range(captured) \cup {c}
    BY CaptureFacts
  <2>2. Message(c.frames)
    BY <2>1 DEF PubInv, Socket
  <2>3. Message(c.frames)' /\ FromPubFrames(c.frames)' = FromPubFrames(c.frames)
    BY <2>2, PublicationsStay, MessageStays
  <2>4. QED
    BY <2>1, <2>3, MessagesStay
<1>5. \A m \in Range(wire') : Message(m)'
  BY <1>1, MessagesStay
<1>6. Socket'
  BY <1>1, <1>4, <1>5 DEF PubInv, Socket, Halfway
<1>7. QED
  BY <1>2, <1>3, <1>6 DEF PubInv

\* A publication on its own, frame by frame.
LEMMA SentOn ==
    ASSUME NEW n \in Nat
    PROVE  /\ Append(<<>>, [n |-> n, kind |-> "topic"]) = Sent([n |-> n, frame |-> "operation"])
           /\ Append(Sent([n |-> n, frame |-> "operation"]), [n |-> n, kind |-> "operation"])
                 = Sent([n |-> n, frame |-> "data"])
           /\ Append(Sent([n |-> n, frame |-> "data"]), [n |-> n, kind |-> "data"]) = Frames(n)
<1> DEFINE t == [n |-> n, kind |-> "topic"]
           o == [n |-> n, kind |-> "operation"]
           d == [n |-> n, kind |-> "data"]
<1>1. /\ Sent([n |-> n, frame |-> "operation"]) = <<t>>
      /\ Sent([n |-> n, frame |-> "data"]) = <<t, o>>
  BY DEF Sent
<1>2. Frames(n) = [i \in 1 .. 3 |-> <<t, o, d>>[i]]
  BY DEF Frames
<1> HIDE DEF t, o, d
<1>3. t \in FrameRecord /\ o \in FrameRecord /\ d \in FrameRecord
  BY DEF t, o, d, FrameRecord
<1>4. /\ Append(<<>>, t) = <<t>> /\ Append(<<t>>, o) = <<t, o>>
      /\ Append(<<t, o>>, d) = <<t, o, d>>
  BY <1>3, AppendedTuples
<1>5. [i \in 1 .. 3 |-> <<t, o, d>>[i]] = <<t, o, d>>
  OBVIOUS
<1>6. QED
  BY <1>1, <1>2, <1>4, <1>5 DEF t, o, d

LEMMA SendFrameKeepsTypes ==
    ASSUME PubInv, NEW p \in Publisher, SendFrame(p), UNCHANGED <<captured, taskStatus>>
    PROVE  PubTypes' /\ Threads'
<1> DEFINE n == sending[p].n
           F == Frame(p)
<1>1. /\ open /\ ~Idle(p) /\ n \in DOMAIN publications /\ F \in FrameRecord
      /\ sending' \in [Publisher -> [n : Nat, frame : {"none", "topic", "operation", "data"}]]
      /\ \A q \in Publisher \ {p} : sending'[q] = sending[q]
      /\ UNCHANGED <<running, open, publications, subscribed>>
  BY SendFrameFacts
<1>a. sending'[p].n = n \/ sending'[p].frame = "none"
  <2>1. \/ sending'[p] = [n |-> n, frame |-> "operation"]
        \/ sending'[p] = [n |-> n, frame |-> "data"]
        \/ sending'[p] = Nothing
    BY SendFrameFacts
  <2>2. QED
    BY <2>1 DEF Nothing
<1>2. partial \in Seq(FrameRecord) /\ wire \in Seq(Seq(FrameRecord))
  BY DEF PubInv, PubTypes
<1>3. /\ partial' = Append(partial, F) \/ partial' = <<>>
      /\ wire' = wire \/ wire' = Append(wire, Append(partial, F))
  <2>1. sending[p].frame \in {"topic", "operation", "data"}
    BY SendFrameFacts
  <2>2. CASE sending[p].frame = "data"
    <3>1. partial' = <<>>
      BY <2>2, SendFrameFacts
    <3>2. wire' = IF heard' THEN Append(wire, Append(partial, F)) ELSE wire
      BY <2>2, SendFrameFacts
    <3>3. QED
      BY <3>1, <3>2
  <2>3. CASE sending[p].frame # "data"
    BY <2>1, <2>3, SendFrameFacts
  <2>4. QED
    BY <2>2, <2>3
<1>4. overlapped' \subseteq overlapped \cup Midway \cup {n}
  BY SendFrameFacts
<1>5. \A q \in Publisher : Halfway(q) => sending[q].n \in DOMAIN publications
  BY DEF PubInv, Threads, Halfway, Idle
<1>6. Midway \subseteq DOMAIN publications
  BY <1>5 DEF Midway, Halfway
<1> HIDE DEF n, F
<1>7. Append(partial, F) \in Seq(FrameRecord) /\ <<>> \in Seq(FrameRecord)
  BY <1>1, <1>2, Appended, EmptySeq
<1>8. Append(wire, Append(partial, F)) \in Seq(Seq(FrameRecord))
  BY <1>2, <1>7, Appended
<1>9. overlapped' \subseteq DOMAIN publications'
  BY <1>1, <1>4, <1>6 DEF PubInv, PubTypes
<1>10. PubTypes'
  BY <1>1, <1>2, <1>3, <1>7, <1>8, <1>9 DEF PubInv, PubTypes
<1>11. \A q \in Publisher : ~Idle(q)' => ~Idle(q) /\ sending'[q].n = sending[q].n
  BY <1>1, <1>a DEF Idle, n
<1>12. Threads'
  BY <1>1, <1>11 DEF PubInv, Threads
<1>13. QED
  BY <1>10, <1>12

\* A topic: whoever is between two frames overlaps with it.
LEMMA TopicKeepsSocket ==
    ASSUME PubInv, [Next]_vars, NEW p \in Publisher, SendFrame(p), sending[p].frame = "topic",
           UNCHANGED <<captured, taskStatus>>
    PROVE  Socket'
<1> DEFINE n == sending[p].n
           F == Frame(p)
<1>1. /\ open /\ n \in DOMAIN publications /\ F = [n |-> n, kind |-> "topic"]
      /\ F \in FrameRecord
      /\ \A q \in Publisher \ {p} : sending'[q] = sending[q]
      /\ UNCHANGED <<running, open, publications, subscribed>>
      /\ sending'[p] = [n |-> n, frame |-> "operation"]
      /\ partial' = Append(partial, F) /\ wire' = wire
      /\ overlapped' = IF Midway = {} THEN overlapped ELSE overlapped \cup Midway \cup {n}
  BY SendFrameFacts
<1>2. ~Halfway(p) /\ \A q \in Publisher \ {p} : Halfway(q)' <=> Halfway(q)
  BY <1>1 DEF Halfway
<1>3. \A q \in Publisher : Halfway(q) => sending[q].n \in Midway
  BY DEF Halfway, Midway
<1> HIDE DEF F
<1>4. ASSUME NEW q \in Publisher, NEW o \in Publisher, Halfway(q)', Halfway(o)', q # o
      PROVE  sending'[q].n \in overlapped'
  BY <1>1, <1>2, <1>3, <1>4 DEF PubInv, Socket
<1>5. partial \in Seq(FrameRecord)
  BY DEF PubInv, PubTypes
<1>6. ASSUME NEW i \in DOMAIN partial'
      PROVE  /\ partial'[i].kind # "data"
             /\ \E q \in Publisher : Halfway(q)' /\ sending'[q].n = partial'[i].n
  <2>1. \/ i \in DOMAIN partial /\ partial'[i] = partial[i]
        \/ partial'[i] = F
    BY <1>1, <1>5, Appended
  <2>2. CASE i \in DOMAIN partial /\ partial'[i] = partial[i]
    <3>1. partial[i].kind # "data" /\ \E q \in Publisher : Halfway(q) /\ sending[q].n = partial[i].n
      BY <2>2 DEF PubInv, Socket
    <3>2. QED
      BY <1>1, <1>2, <2>2, <3>1
  <2>3. CASE partial'[i] = F
    BY <1>1, <2>3 DEF Halfway
  <2>4. QED
    BY <2>1, <2>2, <2>3
<1>7. ASSUME NEW q \in Publisher, Halfway(q)', sending'[q].n \notin overlapped'
      PROVE  partial' = Sent(sending'[q])
  <2>1. q = p
    BY <1>1, <1>2, <1>3, <1>7
  <2>2. Midway = {}
    BY <1>1, <1>7, <2>1
  <2>3. DOMAIN partial = {}
    BY <1>3, <2>2 DEF PubInv, Socket
  <2>4. partial = <<>>
    BY <1>5, <2>3, LenProperties, EmptySeq
  <2>5. n \in Nat
    BY <1>1, PublicationTyped DEF PubInv
  <2>6. QED
    BY <1>1, <2>1, <2>4, <2>5, SentOn
<1>8. QED
  BY <1>1, <1>4, <1>6, <1>7, MessagesStay DEF Socket

\* An operation.
LEMMA OperationKeepsSocket ==
    ASSUME PubInv, [Next]_vars, NEW p \in Publisher, SendFrame(p), sending[p].frame = "operation",
           UNCHANGED <<captured, taskStatus>>
    PROVE  Socket'
<1> DEFINE n == sending[p].n
           F == Frame(p)
<1>1. /\ open /\ n \in DOMAIN publications /\ F = [n |-> n, kind |-> "operation"]
      /\ F \in FrameRecord
      /\ \A q \in Publisher \ {p} : sending'[q] = sending[q]
      /\ UNCHANGED <<running, open, publications, subscribed>>
      /\ sending'[p] = [n |-> n, frame |-> "data"]
      /\ partial' = Append(partial, F) /\ wire' = wire /\ overlapped' = overlapped
  BY SendFrameFacts
<1>2. /\ \A q \in Publisher : Halfway(q)' <=> Halfway(q)
      /\ \A q \in Publisher : sending'[q].n = sending[q].n
  BY <1>1 DEF Halfway
<1> HIDE DEF F
<1>3. Halfway(p)
  BY DEF Halfway
<1>4. partial \in Seq(FrameRecord) /\ sending \in [Publisher -> [n : Nat, frame : {"none", "topic", "operation", "data"}]]
  BY DEF PubInv, PubTypes
<1>5. ASSUME NEW i \in DOMAIN partial'
      PROVE  /\ partial'[i].kind # "data"
             /\ \E q \in Publisher : Halfway(q)' /\ sending'[q].n = partial'[i].n
  <2>1. \/ i \in DOMAIN partial /\ partial'[i] = partial[i]
        \/ partial'[i] = F
    BY <1>1, <1>4, Appended
  <2>2. CASE i \in DOMAIN partial /\ partial'[i] = partial[i]
    <3>1. partial[i].kind # "data" /\ \E q \in Publisher : Halfway(q) /\ sending[q].n = partial[i].n
      BY <2>2 DEF PubInv, Socket
    <3>2. QED
      BY <1>2, <2>2, <3>1
  <2>3. CASE partial'[i] = F
    BY <1>1, <1>2, <1>3, <2>3
  <2>4. QED
    BY <2>1, <2>2, <2>3
<1>6. ASSUME NEW q \in Publisher, Halfway(q)', sending'[q].n \notin overlapped'
      PROVE  partial' = Sent(sending'[q])
  <2>1. q = p
    BY <1>1, <1>2, <1>3, <1>6 DEF PubInv, Socket
  <2>2. partial = Sent(sending[p])
    BY <1>1, <1>2, <1>3, <1>6, <2>1 DEF PubInv, Socket
  <2>3. sending[p] = [n |-> n, frame |-> "operation"] /\ n \in Nat
    BY <1>4
  <2>4. QED
    BY <1>1, <2>1, <2>2, <2>3, SentOn
<1>7. \A q, o \in Publisher : Halfway(q)' /\ Halfway(o)' /\ q # o => sending'[q].n \in overlapped'
  BY <1>1, <1>2 DEF PubInv, Socket
<1>8. QED
  BY <1>1, <1>5, <1>6, <1>7, MessagesStay DEF Socket

\* The data: what was sent since the last message, and it, are a message.
LEMMA DataKeepsSocket ==
    ASSUME PubInv, [Next]_vars, NEW p \in Publisher, SendFrame(p), sending[p].frame = "data",
           UNCHANGED <<captured, taskStatus>>
    PROVE  Socket'
<1> DEFINE n == sending[p].n
           F == Frame(p)
           M == Append(partial, F)
<1>1. /\ open /\ n \in DOMAIN publications /\ F = [n |-> n, kind |-> "data"]
      /\ F \in FrameRecord
      /\ \A q \in Publisher \ {p} : sending'[q] = sending[q]
      /\ UNCHANGED <<running, open, publications, subscribed>>
      /\ partial' = <<>> /\ overlapped' = overlapped
  BY SendFrameFacts
<1>2. sending'[p].frame = "none"
  <2>1. sending'[p] = Nothing
    BY SendFrameFacts
  <2>2. QED
    BY <2>1 DEF Nothing
<1>3. wire' = IF heard' THEN Append(wire, M) ELSE wire
  BY SendFrameFacts
<1>4. Halfway(p) /\ \A q \in Publisher : Halfway(q)' => q # p /\ Halfway(q) /\ sending'[q] = sending[q]
  BY <1>1, <1>2 DEF Halfway
<1>5. /\ partial \in Seq(FrameRecord) /\ wire \in Seq(Seq(FrameRecord))
      /\ sending \in [Publisher -> [n : Nat, frame : {"none", "topic", "operation", "data"}]]
  BY DEF PubInv, PubTypes
<1>6. sending[p] = [n |-> n, frame |-> "data"] /\ n \in Nat
  BY <1>5
<1>7. n \notin overlapped => M = Frames(n)
  <2>1. n \notin overlapped => partial = Sent(sending[p])
    BY <1>1, <1>4 DEF PubInv, Socket
  <2>2. Append(Sent([n |-> n, frame |-> "data"]), [n |-> n, kind |-> "data"]) = Frames(n)
    BY <1>6, SentOn
  <2>3. QED
    BY <1>1, <1>6, <2>1, <2>2
<1> HIDE DEF n, F
<1>8. /\ M \in Seq(FrameRecord) /\ M # <<>> /\ Len(partial) \in Nat /\ Len(M) = Len(partial) + 1
      /\ DOMAIN partial = 1 .. Len(partial) /\ DOMAIN M = 1 .. Len(partial) + 1
      /\ \A i \in 1 .. Len(partial) : M[i] = partial[i]
      /\ M[Len(partial) + 1] = F
  BY <1>1, <1>5, Appended
<1> HIDE DEF M
<1>9. ASSUME NEW k \in DOMAIN M
      PROVE  /\ M[k].n \in DOMAIN publications
             /\ M[k].kind = "data" => k = Len(M)
             /\ M[k].n \notin overlapped => M = Frames(M[k].n)
  <2>1. CASE k = Len(partial) + 1
    BY <1>1, <1>7, <1>8, <2>1
  <2>2. CASE k \in 1 .. Len(partial)
    <3>1. PICK q \in Publisher : Halfway(q) /\ sending[q].n = partial[k].n
      BY <1>8, <2>2 DEF PubInv, Socket
    <3>2. M[k] = partial[k] /\ partial[k].kind # "data"
      BY <1>8, <2>2 DEF PubInv, Socket
    <3>3. partial[k].n \in DOMAIN publications
      BY <3>1 DEF PubInv, Threads, Halfway, Idle
    <3>4. partial[k].n \notin overlapped => q = p
      BY <1>4, <3>1 DEF PubInv, Socket
    <3>5. partial[k].n \notin overlapped => M = Frames(partial[k].n)
      BY <1>7, <3>1, <3>4 DEF n
    <3>6. QED
      BY <3>2, <3>3, <3>5
  <2>3. QED
    BY <1>8, <2>1, <2>2
<1>10. Message(M)
  <2>1. M[Len(M)].kind = "data"
    BY <1>1, <1>8
  <2>2. QED
    BY <1>8, <1>9, <2>1 DEF Message
<1>11. ASSUME NEW m \in Range(wire') PROVE Message(m)'
  <2>1. Range(Append(wire, M)) = Range(wire) \cup {M}
    BY <1>5, <1>8, Appended
  <2>2. CASE m \in Range(wire)
    BY <2>2, MessagesStay
  <2>3. CASE m = M
    <3>1. Message(m)
      BY <1>10, <2>3
    <3>2. QED
      BY <3>1, PublicationsStay, MessageStays
  <2>4. QED
    BY <1>3, <2>1, <2>2, <2>3
<1>12. \A q, o \in Publisher : Halfway(q)' /\ Halfway(o)' /\ q # o => sending'[q].n \in overlapped'
  BY <1>1, <1>4 DEF PubInv, Socket
<1>13. \A q \in Publisher : Halfway(q)' => sending'[q].n \in overlapped'
  BY <1>1, <1>4 DEF PubInv, Socket
<1>14. DOMAIN partial' = {}
  BY <1>1
<1>15. QED
  BY <1>1, <1>11, <1>12, <1>13, <1>14, MessagesStay DEF Socket

\* The rest: a thread gives up, the socket is closed, somebody subscribes.
LEMMA OtherSocketSteps ==
    ASSUME PubInv, [Next]_vars, SocketChange,
           ~(\E p \in Publisher : SendFrame(p))
    PROVE  PubInv'
<1>1. UNCHANGED <<publications, wire, overlapped, captured, taskStatus>>
  BY DEF SocketChange, SendRaises, StopPublishing, CloseSocket, Subscribe
<1>2. ASSUME NEW p \in Publisher, SendRaises(p) PROVE PubInv'
  <2>1. /\ ~open /\ sending' = [sending EXCEPT ![p] = Nothing]
        /\ UNCHANGED <<running, open, partial>>
    BY <1>2 DEF SendRaises
  <2>2. sending \in [Publisher -> [n : Nat, frame : {"none", "topic", "operation", "data"}]]
    BY DEF PubInv, PubTypes
  <2>3. /\ sending' \in [Publisher -> [n : Nat, frame : {"none", "topic", "operation", "data"}]]
        /\ sending'[p].frame = "none"
        /\ \A q \in Publisher \ {p} : sending'[q] = sending[q]
    BY <2>1, <2>2 DEF Nothing
  <2>4. PubTypes'
    BY <1>1, <2>1, <2>3 DEF PubInv, PubTypes
  <2>5. \A q \in Publisher : ~Idle(q)' => ~Idle(q) /\ sending'[q] = sending[q]
    BY <2>3 DEF Idle
  <2>6. \A q \in Publisher : Halfway(q)' => Halfway(q) /\ sending'[q] = sending[q]
    BY <2>3 DEF Halfway
  <2>7. Threads'
    BY <1>1, <2>1, <2>5 DEF PubInv, Threads
  <2>8. DOMAIN partial' = {}
    BY <2>1 DEF PubInv, Threads
  <2>9. Socket'
    BY <1>1, <2>1, <2>6, <2>8, MessagesStay DEF PubInv, Socket
  <2>10. QED
    BY <2>4, <2>7, <2>9 DEF PubInv
<1>3. ASSUME UNCHANGED sending, running' \in BOOLEAN, open' \in BOOLEAN,
             open' => open, ~open' => ~running' /\ partial' = <<>>,
             partial' = partial \/ (partial' = <<>> /\ ~open')
      PROVE  PubInv'
  <2>1. <<>> \in Seq(FrameRecord) /\ DOMAIN (<<>>) = {}
    BY EmptySeq
  <2>2. PubTypes'
    BY <1>1, <1>3, <2>1 DEF PubInv, PubTypes
  <2>3. Threads'
    BY <1>1, <1>3 DEF PubInv, Threads, Idle
  <2>4. Socket'
    <3>1. \A q \in Publisher : Halfway(q)' <=> Halfway(q)
      BY <1>3 DEF Halfway
    <3>2. \A i \in DOMAIN partial' : i \in DOMAIN partial /\ partial'[i] = partial[i]
      BY <1>3, <2>1
    <3>3. QED
      BY <1>1, <1>3, <3>1, <3>2, MessagesStay DEF PubInv, Socket
  <2>5. QED
    BY <2>2, <2>3, <2>4 DEF PubInv
<1>b. running \in BOOLEAN /\ open \in BOOLEAN /\ (~open => ~running /\ partial = <<>>)
  BY DEF PubInv, PubTypes, Threads
<1>4. CASE StopPublishing
  BY <1>b, <1>3, <1>4 DEF StopPublishing
<1>5. CASE CloseSocket
  BY <1>b, <1>3, <1>5 DEF CloseSocket
<1>6. CASE Subscribe
  BY <1>b, <1>3, <1>6 DEF Subscribe
<1>7. QED
  BY <1>2, <1>4, <1>5, <1>6 DEF SocketChange

LEMMA NextPubInv == PubInv /\ [Next]_vars => PubInv'
<1> SUFFICES ASSUME PubInv, [Next]_vars PROVE PubInv'
  OBVIOUS
<1>1. ASSUME NEW p \in Publisher, SendFrame(p), SocketChange PROVE PubInv'
  <2>1. UNCHANGED <<captured, taskStatus>>
    BY <1>1 DEF SocketChange
  <2>2. PubTypes' /\ Threads'
    BY <1>1, <2>1, SendFrameKeepsTypes
  <2>3. sending[p].frame \in {"topic", "operation", "data"}
    BY <1>1, SendFrameFacts
  <2>4. Socket'
    BY <1>1, <2>1, <2>3, TopicKeepsSocket, OperationKeepsSocket, DataKeepsSocket
  <2>5. QED
    BY <2>2, <2>4 DEF PubInv
<1>2. CASE SocketChange
  BY <1>1, <1>2, OtherSocketSteps
<1>3. CASE UNCHANGED <<pubVars, captured, taskStatus>>
  <2>1. PubTypes' /\ Threads'
    BY <1>3 DEF pubVars, PubInv, PubTypes, Threads, Idle
  <2>2. Socket'
    BY <1>3, MessagesStay DEF pubVars, PubInv, Socket, Halfway
  <2>3. QED
    BY <2>1, <2>2 DEF PubInv
<1>4. QED
  BY <1>2, <1>3, PubSteps, BeginKeepsInv, CaptureKeepsInv

LEMMA AlwaysPubInv == Spec => []PubInv
<1>1. Init => PubInv
  BY InitPubInv
<1>2. PubInv /\ [Next]_vars => PubInv'
  BY NextPubInv
<1>3. QED
  BY <1>1, <1>2, PTL DEF Spec

(***************************************************************************)
(* WholeUnlessOverlap: the frames of ZmqPubServer's unlocked sends may mix *)
(* only for publications that overlap another one; any other reaches       *)
(* _capture_pub as one message with its own task and status.               *)
(***************************************************************************)
THEOREM OnlyOverlapsTear == Spec => []WholeUnlessOverlap
<1>1. PubInv => WholeUnlessOverlap
  <2> SUFFICES ASSUME PubInv, NEW i \in DOMAIN captured, NEW frame \in Range(captured[i].frames),
                      frame.n \notin overlapped
               PROVE  /\ captured[i].frames = Frames(frame.n)
                      /\ captured[i].msg = Captured(publications[frame.n].operation,
                                                    publications[frame.n])
    BY DEF WholeUnlessOverlap
  <2>1. Message(captured[i].frames) /\ captured[i].msg = FromPubFrames(captured[i].frames)
    BY DEF PubInv, Socket, Range
  <2>2. frame.n \in DOMAIN publications /\ captured[i].frames = Frames(frame.n)
    BY <2>1 DEF Message, Range
  <2>3. QED
    BY <2>1, <2>2, FramesRead DEF PubInv
<1>2. QED
  BY <1>1, AlwaysPubInv, PTL

--------------------------------------------------------------------------------
(***************************************************************************)
(* The statuses of one task.  They are begun one after the other, PENDING, *)
(* RUNNING and a final one, each when the frames of the one before are     *)
(* sent, so their messages are in that order on the wire and the validator *)
(* learns them in that order; only one may be missing between two.         *)
(***************************************************************************)
Stage(ph) ==
    IF ph = "queued" THEN 0 ELSE IF ph = "pending" THEN 1 ELSE IF ph = "running" THEN 2 ELSE 3

Rank(status) == IF status = "PENDING" THEN 1 ELSE IF status = "RUNNING" THEN 2 ELSE 3

RankOf(n) == Rank(publications[n].status)

\* A thread is sending publication n.
Sends(p, n) == ~Idle(p) /\ sending[p].n = n

\* The publications of a task and how far the task is.
Phases(id) ==
    /\ phase[id] \in {"queued", "pending", "running", "done"}
    /\ \A n \in DOMAIN publications : About(n, id) => RankOf(n) <= Stage(phase[id])
    /\ \A n, m \in DOMAIN publications :
          About(n, id) /\ About(m, id) /\ n < m => RankOf(n) < RankOf(m)
    /\ \A n \in DOMAIN publications, p \in Publisher : About(n, id) /\ Sends(p, n) =>
          RankOf(n) = Stage(phase[id]) /\ p = IF RankOf(n) = 1 THEN Process ELSE id
    /\ \/ phase[id] = "running" /\ running
       \/ \E n \in DOMAIN publications : About(n, id) /\ RankOf(n) = 3
       => \E r \in DOMAIN publications : About(r, id) /\ RankOf(r) = 2

\* What is still to come about a task is later than what has come.
Before(n, id) ==
    /\ \A i \in DOMAIN wire : About(Of(wire[i]), id) => n < Of(wire[i])
    /\ \A m \in DOMAIN publications, p \in Publisher : About(m, id) /\ Sends(p, m) => n < m

InOrder(id) ==
    /\ \A i, j \in DOMAIN wire :
          About(Of(wire[i]), id) /\ About(Of(wire[j]), id) /\ i < j => Of(wire[i]) < Of(wire[j])
    /\ \A i \in DOMAIN wire, m \in DOMAIN publications, p \in Publisher :
          About(Of(wire[i]), id) /\ About(m, id) /\ Sends(p, m) => Of(wire[i]) < m
    /\ taskStatus[id] # Null =>
          \E n \in DOMAIN publications :
             About(n, id) /\ publications[n].status = taskStatus[id] /\ Before(n, id)

\* As long as nobody was subscribed when the message began that is being
\* sent, nothing is known.
Hearing ==
    /\ subscribed \in BOOLEAN /\ heard \in BOOLEAN
    /\ ~subscribed \/ (partial # <<>> /\ ~heard) =>
          wire = <<>> /\ \A id \in Task : taskStatus[id] = Null
    /\ partial # <<>> /\ heard => subscribed

\* No PENDING is known of the task, and none is under way.
PendingOver(id) ==
    /\ taskStatus[id] # "PENDING"
    /\ \A i \in DOMAIN wire : About(Of(wire[i]), id) => RankOf(Of(wire[i])) # 1

\* What becomes of the RUNNING of a task that overlaps no other publication:
\* it is being sent, it is under way, its PENDING is over, or the server has
\* stopped and will not publish a final status.
Told(id) ==
    \A r \in DOMAIN publications : About(r, id) /\ RankOf(r) = 2 /\ r \notin overlapped =>
       \/ Sends(id, r)
       \/ Frames(r) \in Range(wire)
       \/ PendingOver(id)
       \/ ~running /\ \A n \in DOMAIN publications : About(n, id) => RankOf(n) # 3

Warned ==
    \A c \in Range(captured) : "transition" \in c.issues =>
       \E n \in overlapped : \E id \in Task :
          About(n, id) /\ RankOf(n) = 2 /\ c.msg.task_id = id /\ n < c.frames[3].n

TaskInv ==
    /\ DOMAIN phase = Task /\ Hearing /\ Warned
    /\ \A id \in Task : Phases(id) /\ InOrder(id) /\ Told(id)

\* Nobody is sending anything about a task.
Silent(id) ==
    \A n \in DOMAIN publications, p \in Publisher : About(n, id) => ~Sends(p, n)

\* The task goes on and publishes its next status.
Advance(id) ==
    \E p \in Publisher, data \in TaskData :
       /\ Begin(p, data) /\ data.task_id = id /\ Rank(data.status) = Stage(phase'[id])
       /\ p = IF Rank(data.status) = 1 THEN Process ELSE id
       /\ Stage(phase'[id]) = Stage(phase[id]) + 1 /\ Silent(id)

\* It goes on and publishes nothing.
Skip(id) ==
    /\ UNCHANGED <<pubVars, captured, taskStatus>>
    /\ Stage(phase'[id]) = Stage(phase[id]) + 1 /\ Silent(id)
    /\ ~running \/ phase'[id] = "done"

\* Somebody else publishes.
Elsewhere(id) ==
    /\ phase'[id] = phase[id]
    /\ \E p \in Publisher, data \in TaskData \cup ChipData :
          Begin(p, data) /\ ~(data \in TaskData /\ data.task_id = id)

\* Nothing happens to the task's publications.
Apart(id) ==
    /\ phase'[id] = phase[id]
    /\ UNCHANGED <<pubVars, captured, taskStatus>> \/ SocketChange \/ CapturePub

LEMMA PublishCases ==
    ASSUME NEW p \in Publisher, NEW id \in Task, NEW status \in Status,
           PublishTaskStatus(p, id, status), UNCHANGED <<captured, taskStatus>>
    PROVE  /\ Idle(p)
           /\ \/ \E data \in TaskData : Begin(p, data) /\ data.task_id = id /\ data.status = status
              \/ ~running /\ UNCHANGED <<pubVars, captured, taskStatus>>
<1> DEFINE data == [operation |-> "task_status", msg_type |-> "TaskStatus",
                    task_id |-> id, status |-> status]
<1>1. data \in TaskData /\ data.task_id = id /\ data.status = status
  BY DEF TaskData
<1>2. Publish(p, running, data)
  BY DEF PublishTaskStatus
<1> HIDE DEF data
<1>3. Idle(p)
  BY <1>2 DEF Publish
<1>4. CASE running
  BY <1>1, <1>2, <1>4 DEF Publish, Begin
<1>5. CASE ~running
  BY <1>2, <1>5 DEF Publish, pubVars
<1>6. QED
  BY <1>1, <1>3, <1>4, <1>5

\* A task goes on only when the thread that published last is through.
LEMMA QuietWhenIdle ==
    ASSUME PubInv, NEW id \in Task, Phases(id),
           \/ phase[id] = "queued"
           \/ phase[id] = "pending" /\ Idle(Process)
           \/ phase[id] = "running" /\ Idle(id)
    PROVE  Silent(id)
<1> SUFFICES ASSUME NEW n \in DOMAIN publications, NEW p \in Publisher, About(n, id), Sends(p, n)
             PROVE  FALSE
  BY DEF Silent
<1>1. RankOf(n) = Stage(phase[id]) /\ p = IF RankOf(n) = 1 THEN Process ELSE id
  BY DEF Phases
<1>2. RankOf(n) \in {1, 2, 3}
  BY DEF RankOf, Rank
<1>3. ~Idle(p)
  BY DEF Sends
<1>4. QED
  BY <1>1, <1>2, <1>3 DEF Stage

LEMMA TaskSteps ==
    ASSUME PubInv, DOMAIN phase = Task, \A i \in Task : Phases(i), [Next]_vars, NEW id \in Task
    PROVE  /\ DOMAIN phase' = Task
           /\ phase'[id] \in {"queued", "pending", "running", "done"}
           /\ Advance(id) \/ Skip(id) \/ Elsewhere(id) \/ Apart(id)
<1> USE DEF validatorVars
<1>t. Task \subseteq Publisher /\ Process \in Publisher /\ Chip \in Publisher /\ Process \notin Task
  BY MonitorAssumption
<1> DEFINE Goal == /\ DOMAIN phase' = Task
                   /\ phase'[id] \in {"queued", "pending", "running", "done"}
                   /\ Advance(id) \/ Skip(id) \/ Elsewhere(id) \/ Apart(id)
<1>0. phase[id] \in {"queued", "pending", "running", "done"}
  BY DEF Phases
<1>1. ASSUME NEW j \in Task, NEW p \in Publisher, NEW status \in Status, NEW new,
             PublishTaskStatus(p, j, status), UNCHANGED <<captured, taskStatus>>,
             phase' = [phase EXCEPT ![j] = new],
             new \in {"pending", "running", "done"},
             Stage(new) = Stage(phase[j]) + 1, Rank(status) = Stage(new),
             p = IF Rank(status) = 1 THEN Process ELSE j, Silent(j)
      PROVE  Goal
  <2>1. DOMAIN phase' = Task /\ phase'[j] = new /\ (j # id => phase'[id] = phase[id])
    BY <1>1
  <2>2. phase'[id] \in {"queued", "pending", "running", "done"}
    BY <1>0, <1>1, <2>1
  <2>3. CASE \E data \in TaskData : Begin(p, data) /\ data.task_id = j /\ data.status = status
    <3>1. CASE j = id
      <4>1. Advance(id)
        BY <1>1, <2>1, <2>3, <3>1 DEF Advance
      <4>2. QED
        BY <2>1, <2>2, <4>1
    <3>2. CASE j # id
      <4>1. Elsewhere(id)
        BY <1>1, <2>1, <2>3, <3>2 DEF Elsewhere
      <4>2. QED
        BY <2>1, <2>2, <4>1
    <3>3. QED
      BY <3>1, <3>2
  <2>4. CASE ~running /\ UNCHANGED <<pubVars, captured, taskStatus>>
    <3>1. CASE j = id
      <4>1. Skip(id)
        BY <1>1, <2>1, <2>4, <3>1 DEF Skip
      <4>2. QED
        BY <2>1, <2>2, <4>1
    <3>2. CASE j # id
      <4>1. Apart(id)
        BY <2>1, <2>4, <3>2 DEF Apart
      <4>2. QED
        BY <2>1, <2>2, <4>1
    <3>3. QED
      BY <3>1, <3>2
  <2>5. QED
    BY <1>1, <2>3, <2>4, PublishCases
<1>2. ASSUME NEW j \in Task, PublishPending(j) PROVE Goal
  <2>1. /\ phase[j] = "queued" /\ PublishTaskStatus(Process, j, "PENDING")
        /\ phase' = [phase EXCEPT ![j] = "pending"] /\ UNCHANGED <<captured, taskStatus>>
    BY <1>2 DEF PublishPending
  <2>2. Silent(j)
    BY <2>1, QuietWhenIdle
  <2>3. Stage("pending") = Stage(phase[j]) + 1 /\ Rank("PENDING") = Stage("pending")
        /\ Rank("PENDING") = 1
    BY <2>1 DEF Stage, Rank
  <2>4. QED
    BY <1>1, <1>t, <2>1, <2>2, <2>3 DEF Status
<1>3. ASSUME NEW j \in Task, PublishRunning(j) PROVE Goal
  <2>1. /\ phase[j] = "pending" /\ Idle(Process) /\ PublishTaskStatus(j, j, "RUNNING")
        /\ phase' = [phase EXCEPT ![j] = "running"] /\ UNCHANGED <<captured, taskStatus>>
    BY <1>3 DEF PublishRunning
  <2>2. Silent(j)
    BY <2>1, QuietWhenIdle
  <2>3. Stage("running") = Stage(phase[j]) + 1 /\ Rank("RUNNING") = Stage("running")
        /\ Rank("RUNNING") # 1
    BY <2>1 DEF Stage, Rank
  <2>4. QED
    BY <1>1, <1>t, <2>1, <2>2, <2>3 DEF Status
<1>4. ASSUME NEW j \in Task, NEW status \in {"SUCCESSED", "FAILED"}, PublishFinal(j, status)
      PROVE  Goal
  <2>1. /\ phase[j] = "running" /\ PublishTaskStatus(j, j, status)
        /\ phase' = [phase EXCEPT ![j] = "done"] /\ UNCHANGED <<captured, taskStatus>>
    BY <1>4 DEF PublishFinal
  <2>2. Silent(j)
    <3>1. Idle(j)
      BY <2>1 DEF PublishTaskStatus, Publish
    <3>2. QED
      BY <2>1, <3>1, QuietWhenIdle
  <2>3. Stage("done") = Stage(phase[j]) + 1 /\ Rank(status) = Stage("done") /\ Rank(status) # 1
    BY <2>1 DEF Stage, Rank
  <2>4. QED
    BY <1>1, <1>t, <2>1, <2>2, <2>3 DEF Status
<1>5. ASSUME NEW j \in Task, PublishNothing(j) PROVE Goal
  <2>1. /\ phase[j] = "running" /\ Idle(j) /\ phase' = [phase EXCEPT ![j] = "done"]
        /\ UNCHANGED <<pubVars, captured, taskStatus>>
    BY <1>5 DEF PublishNothing
  <2>2. DOMAIN phase' = Task /\ phase'[j] = "done" /\ (j # id => phase'[id] = phase[id])
    BY <2>1
  <2>3. CASE j = id
    <3>1. Silent(id)
      BY <2>1, <2>3, QuietWhenIdle
    <3>2. Stage(phase'[id]) = Stage(phase[id]) + 1
      BY <2>1, <2>2, <2>3 DEF Stage
    <3>3. Skip(id)
      BY <2>1, <2>2, <2>3, <3>1, <3>2 DEF Skip
    <3>4. QED
      BY <2>2, <2>3, <3>3
  <2>4. CASE j # id
    <3>1. Apart(id)
      BY <2>1, <2>2, <2>4 DEF Apart
    <3>2. QED
      BY <1>0, <2>2, <2>4, <3>1
  <2>5. QED
    BY <2>3, <2>4
<1>6. ASSUME NEW operation \in ChipOperations, Announce(operation) PROVE Goal
  <2> DEFINE data == [operation |-> operation]
  <2>1. data \in ChipData /\ data \notin TaskData
    <3>1. DOMAIN data = {"operation"}
      OBVIOUS
    <3>2. \A d \in TaskData : "task_id" \in DOMAIN d
      BY DEF TaskData
    <3>3. data \in ChipData
      BY DEF ChipData
    <3>4. QED
      BY <3>1, <3>2, <3>3
  <2>2. /\ Publish(Chip, running /\ Superconducting, data)
        /\ UNCHANGED <<captured, taskStatus, phase>>
    BY <1>6 DEF Announce, PublishChip
  <2> HIDE DEF data
  <2>3. Begin(Chip, data) \/ UNCHANGED <<pubVars, captured, taskStatus>>
    BY <2>2 DEF Publish, Begin, pubVars
  <2>4. Elsewhere(id) \/ Apart(id)
    BY <1>t, <2>1, <2>2, <2>3 DEF Elsewhere, Apart
  <2>5. QED
    BY <1>0, <2>2, <2>4
<1>7. CASE SocketStep
  <2>1. SocketChange /\ phase' = phase
    BY <1>7 DEF SocketStep, SocketChange, monitorVars
  <2>2. QED
    BY <1>0, <2>1 DEF Apart
<1>8. CASE CapturePub
  BY <1>0, <1>8 DEF Apart, CapturePub
<1>9. CASE DashboardStep \/ UNCHANGED vars
  <2>1. UNCHANGED <<pubVars, captured, taskStatus, phase>>
    BY <1>9 DEF DashboardStep, monitorVars, vars
  <2>2. QED
    BY <1>0, <2>1 DEF Apart
<1>10. QED
  BY <1>2, <1>3, <1>4, <1>5, <1>6, <1>7, <1>8, <1>9 DEF Next

--------------------------------------------------------------------------------
(* What a step does to the publications about a task and their senders     *)

LEMMA AboutStays ==
    ASSUME PubInv, [Next]_vars, NEW id \in Task, NEW n \in DOMAIN publications
    PROVE  /\ n \in DOMAIN publications' /\ publications'[n] = publications[n]
           /\ About(n, id)' <=> About(n, id)
           /\ RankOf(n)' = RankOf(n)
<1>1. n \in DOMAIN publications' /\ publications'[n] = publications[n]
  BY PublicationsStay
<1>2. QED
  BY <1>1 DEF About, RankOf

LEMMA Begun ==
    ASSUME PubInv, NEW id \in Task,
           NEW p \in Publisher, NEW data \in TaskData \cup ChipData, Begin(p, data),
           NEW new, new = Len(publications) + 1
    PROVE  /\ DOMAIN publications' = DOMAIN publications \cup {new}
           /\ \A n \in DOMAIN publications : n \in Nat /\ n < new
           /\ About(new, id)' <=> data \in TaskData /\ data.task_id = id
           /\ data \in TaskData => RankOf(new)' = Rank(data.status)
           /\ \A q \in Publisher, n \in DOMAIN publications : Sends(q, n)' => Sends(q, n)
           /\ Sends(p, new)' /\ \A q \in Publisher : Sends(q, new)' => q = p
           /\ \A q \in Publisher, n \in DOMAIN publications : Sends(q, n) => Sends(q, n)'
           /\ running /\ UNCHANGED <<running, wire, overlapped, taskStatus>>
           /\ UNCHANGED <<partial, heard, subscribed, captured>>
<1>1. /\ Len(publications) \in Nat
      /\ DOMAIN publications = 1 .. Len(publications)
      /\ DOMAIN publications' = 1 .. Len(publications) + 1
      /\ publications'[new] = data
      /\ sending'[p] = [n |-> new, frame |-> "topic"]
      /\ \A q \in Publisher \ {p} : sending'[q] = sending[q]
  BY BeginFacts
<1>2. /\ DOMAIN publications' = DOMAIN publications \cup {new}
      /\ \A n \in DOMAIN publications : n \in Nat /\ n < new
  BY <1>1
<1>3. About(new, id)' <=> data \in TaskData /\ data.task_id = id
  BY <1>1, <1>2 DEF About
<1>4. data \in TaskData => RankOf(new)' = Rank(data.status)
  BY <1>1 DEF RankOf
<1>5. \A q \in Publisher, n \in DOMAIN publications : Sends(q, n)' => Sends(q, n)
  BY <1>1, <1>2 DEF Sends, Idle
<1>6. \A q \in Publisher, n \in DOMAIN publications : Sends(q, n) => Sends(q, n)'
  <2>1. Idle(p)
    BY DEF Begin
  <2>2. QED
    BY <1>1, <2>1 DEF Sends, Idle
<1>7. Sends(p, new)'
  BY <1>1 DEF Sends, Idle
<1>8. \A q \in Publisher : Sends(q, new)' => q = p
  <2>1. \A q \in Publisher : Sends(q, new) => new \in DOMAIN publications
    BY DEF PubInv, Threads, Sends
  <2>2. new \notin DOMAIN publications
    BY <1>1
  <2>3. QED
    BY <1>1, <2>1, <2>2 DEF Sends, Idle
<1>9. /\ running /\ UNCHANGED <<running, wire, overlapped, taskStatus>>
      /\ UNCHANGED <<partial, heard, subscribed, captured>>
  BY DEF Begin
<1>10. QED
  BY <1>2, <1>3, <1>4, <1>5, <1>8, <1>9, <1>6, <1>7

\* The steps between two publications.
Quiet ==
    /\ publications' = publications
    /\ overlapped \subseteq overlapped'
    /\ running' => running
    /\ \A q \in Publisher, n \in DOMAIN publications : Sends(q, n)' => Sends(q, n)

LEMMA SocketQuiet ==
    ASSUME PubInv, SocketChange
    PROVE  /\ Quiet /\ UNCHANGED <<captured, taskStatus>>
           /\ \/ wire' = wire
              \/ \E p \in Publisher :
                    /\ SendFrame(p) /\ sending[p].frame = "data" /\ heard'
                    /\ wire' = Append(wire, Append(partial, Frame(p)))
<1>1. UNCHANGED <<captured, taskStatus>>
  BY DEF SocketChange
<1>2. ASSUME NEW p \in Publisher, SendFrame(p)
      PROVE  /\ Quiet
             /\ \/ wire' = wire
                \/ /\ sending[p].frame = "data" /\ heard'
                   /\ wire' = Append(wire, Append(partial, Frame(p)))
  <2>1. /\ ~Idle(p) /\ \A q \in Publisher \ {p} : sending'[q] = sending[q]
        /\ publications' = publications /\ running' = running
        /\ overlapped \subseteq overlapped'
    BY <1>2, SendFrameFacts
  <2>2. \/ sending'[p] = [n |-> sending[p].n, frame |-> "operation"]
        \/ sending'[p] = [n |-> sending[p].n, frame |-> "data"]
        \/ sending'[p] = Nothing
    BY <1>2, SendFrameFacts
  <2>3. Idle(p)' \/ sending'[p].n = sending[p].n
    BY <2>2 DEF Idle, Nothing
  <2>4. Quiet
    BY <2>1, <2>3 DEF Quiet, Sends, Idle
  <2>5. sending[p].frame \in {"topic", "operation", "data"}
    BY <1>2, SendFrameFacts
  <2>6. CASE sending[p].frame = "data"
    <3>1. wire' = IF heard' THEN Append(wire, Append(partial, Frame(p))) ELSE wire
      BY <1>2, <2>6, SendFrameFacts
    <3>2. QED
      BY <2>4, <2>6, <3>1
  <2>7. CASE sending[p].frame # "data"
    <3>1. wire' = wire
      BY <1>2, <2>5, <2>7, SendFrameFacts
    <3>2. QED
      BY <2>4, <3>1
  <2>8. QED
    BY <2>6, <2>7
<1>3. ASSUME NEW p \in Publisher, SendRaises(p) PROVE Quiet /\ wire' = wire
  <2>1. /\ sending' = [sending EXCEPT ![p] = Nothing]
        /\ UNCHANGED <<running, publications, wire, overlapped>>
    BY <1>3 DEF SendRaises
  <2>2. DOMAIN sending = Publisher
    BY DEF PubInv, PubTypes
  <2>3. sending'[p].frame = "none" /\ \A q \in Publisher \ {p} : sending'[q] = sending[q]
    BY <2>1, <2>2 DEF Nothing
  <2>4. QED
    BY <2>1, <2>3 DEF Quiet, Sends, Idle
<1>4. ASSUME StopPublishing \/ CloseSocket \/ Subscribe PROVE Quiet /\ wire' = wire
  BY <1>4 DEF StopPublishing, CloseSocket, Subscribe, Quiet, Sends, Idle
<1>5. QED
  BY <1>1, <1>2, <1>3, <1>4 DEF SocketChange

LEMMA ApartQuiet ==
    ASSUME PubInv, NEW id, Apart(id)
    PROVE  Quiet /\ phase'[id] = phase[id]
<1>1. CASE SocketChange
  BY <1>1, SocketQuiet DEF Apart
<1>2. CASE CapturePub
  BY <1>2 DEF Apart, CapturePub, Quiet, Sends, Idle
<1>3. CASE UNCHANGED <<pubVars, captured, taskStatus>>
  BY <1>3 DEF Apart, pubVars, Quiet, Sends, Idle
<1>4. QED
  BY <1>1, <1>2, <1>3 DEF Apart

\* A message ends with the data of a publication that its thread then leaves.
LEMMA NewMessage ==
    ASSUME PubInv, NEW p \in Publisher, SendFrame(p), sending[p].frame = "data", heard'
    PROVE  LET m == Append(partial, Frame(p))
           IN /\ m \in Seq(FrameRecord)
              /\ Of(m) = sending[p].n /\ Sends(p, Of(m)) /\ Of(m) \in DOMAIN publications
              /\ \A n \in DOMAIN publications : ~Sends(p, n)'
              /\ Of(m) \notin overlapped => m = Frames(Of(m))
              /\ wire' \in Seq(Seq(FrameRecord)) /\ Len(wire) \in Nat
              /\ DOMAIN wire = 1 .. Len(wire) /\ DOMAIN wire' = 1 .. Len(wire) + 1
              /\ \A i \in 1 .. Len(wire) : wire'[i] = wire[i]
              /\ wire'[Len(wire) + 1] = m
              /\ Range(wire') = Range(wire) \cup {m}
<1> DEFINE F == Frame(p)
           m == Append(partial, F)
<1>1. /\ open /\ ~Idle(p) /\ F = [n |-> sending[p].n, kind |-> "data"] /\ F \in FrameRecord
      /\ sending[p].n \in DOMAIN publications
  BY SendFrameFacts
<1>2. wire' = Append(wire, m)
  BY SendFrameFacts
<1>3. sending'[p].frame = "none"
  <2>1. sending'[p] = Nothing
    BY SendFrameFacts
  <2>2. QED
    BY <2>1 DEF Nothing
<1>4. /\ partial \in Seq(FrameRecord) /\ wire \in Seq(Seq(FrameRecord))
      /\ sending[p] \in [n : Nat, frame : {"none", "topic", "operation", "data"}]
  BY DEF PubInv, PubTypes
<1>5. m = Frames(sending[p].n) \/ sending[p].n \in overlapped
  <2>1. sending[p].n \notin overlapped => partial = Sent(sending[p])
    BY <1>1 DEF PubInv, Socket, Halfway
  <2>2. sending[p] = [n |-> sending[p].n, frame |-> "data"] /\ sending[p].n \in Nat
    BY <1>4
  <2>3. QED
    BY <1>1, <2>1, <2>2, SentOn
<1> HIDE DEF F
<1>6. /\ m \in Seq(FrameRecord) /\ Len(partial) \in Nat /\ Len(m) = Len(partial) + 1
      /\ m[Len(partial) + 1] = F
  BY <1>1, <1>4, Appended
<1> HIDE DEF m
<1>7. Of(m) = sending[p].n
  BY <1>1, <1>6 DEF Of
<1>8. /\ wire' \in Seq(Seq(FrameRecord)) /\ Len(wire) \in Nat
      /\ DOMAIN wire = 1 .. Len(wire) /\ DOMAIN wire' = 1 .. Len(wire) + 1
      /\ \A i \in 1 .. Len(wire) : wire'[i] = wire[i]
      /\ wire'[Len(wire) + 1] = m
      /\ Range(wire') = Range(wire) \cup {m}
  BY <1>2, <1>4, <1>6, Appended
<1>9. Sends(p, Of(m)) /\ \A n \in DOMAIN publications : ~Sends(p, n)'
  BY <1>1, <1>3, <1>7 DEF Sends, Idle
<1>10. QED
  BY <1>1, <1>5, <1>6, <1>7, <1>8, <1>9 DEF m, F

--------------------------------------------------------------------------------
(* The statuses of a task are begun in their order                         *)

LEMMA RanksAndStages ==
    ASSUME NEW s, NEW ph
    PROVE  /\ Rank(s) \in {1, 2, 3} /\ Stage(ph) \in {0, 1, 2, 3}
           /\ Stage(ph) = 2 <=> ph = "running"
BY DEF Rank, Stage

LEMMA PhasesKept ==
    ASSUME PubInv, DOMAIN phase = Task, \A i \in Task : Phases(i), [Next]_vars, NEW id \in Task
    PROVE  Phases(id)'
<1>1. /\ phase'[id] \in {"queued", "pending", "running", "done"}
      /\ Advance(id) \/ Skip(id) \/ Elsewhere(id) \/ Apart(id)
  BY TaskSteps
<1>2. Phases(id)
  OBVIOUS
<1>3. \A n \in DOMAIN publications :
         /\ n \in DOMAIN publications' /\ RankOf(n)' = RankOf(n)
         /\ About(n, id)' <=> About(n, id)
  BY AboutStays
<1>4. ASSUME NEW n PROVE RankOf(n) \in {1, 2, 3} /\ RankOf(n)' \in {1, 2, 3}
  BY RanksAndStages DEF RankOf
<1>5. /\ Stage(phase[id]) \in {0, 1, 2, 3} /\ Stage(phase'[id]) \in {0, 1, 2, 3}
      /\ Stage(phase[id]) = 2 <=> phase[id] = "running"
      /\ Stage(phase'[id]) = 2 <=> phase'[id] = "running"
  BY RanksAndStages
<1>6. CASE Advance(id)
  <2>1. PICK p \in Publisher, data \in TaskData :
           /\ Begin(p, data) /\ data.task_id = id /\ Rank(data.status) = Stage(phase'[id])
           /\ p = IF Rank(data.status) = 1 THEN Process ELSE id
           /\ Stage(phase'[id]) = Stage(phase[id]) + 1 /\ Silent(id)
    BY <1>6 DEF Advance
  <2>2. PICK new : new = Len(publications) + 1
    OBVIOUS
  <2>3. /\ DOMAIN publications' = DOMAIN publications \cup {new}
        /\ \A n \in DOMAIN publications : n \in Nat /\ n < new
        /\ About(new, id)' /\ RankOf(new)' = Rank(data.status)
        /\ \A q \in Publisher, n \in DOMAIN publications : Sends(q, n)' => Sends(q, n)
        /\ \A q \in Publisher : Sends(q, new)' => q = p
        /\ running /\ running' = running
    <3>1. Begin(p, data) /\ data \in TaskData /\ data \in TaskData \cup ChipData /\ data.task_id = id
      BY <2>1
    <3>2. About(new, id)' /\ RankOf(new)' = Rank(data.status)
      <4>1. About(new, id)' <=> data \in TaskData /\ data.task_id = id
        BY <2>2, <3>1, Begun
      <4>2. RankOf(new)' = Rank(data.status)
        BY <2>2, <3>1, BeginFacts DEF RankOf
      <4>3. QED
        BY <3>1, <4>1, <4>2
    <3>3. /\ DOMAIN publications' = DOMAIN publications \cup {new}
          /\ \A n \in DOMAIN publications : n \in Nat /\ n < new
          /\ \A q \in Publisher, n \in DOMAIN publications : Sends(q, n)' => Sends(q, n)
          /\ \A q \in Publisher : Sends(q, new)' => q = p
          /\ running /\ running' = running
      BY <2>2, <3>1, Begun
    <3>4. QED
      BY <3>2, <3>3
  <2>4. new \in Nat
    BY <2>2, <2>1, BeginFacts
  <2>5. \A n \in DOMAIN publications' : About(n, id)' => RankOf(n)' <= Stage(phase'[id])
    BY <1>2, <1>3, <1>4, <1>5, <2>1, <2>3 DEF Phases
  <2>6. \A n, m \in DOMAIN publications' :
           About(n, id)' /\ About(m, id)' /\ n < m => RankOf(n)' < RankOf(m)'
    <3> SUFFICES ASSUME NEW n \in DOMAIN publications', NEW m \in DOMAIN publications',
                        About(n, id)', About(m, id)', n < m
                 PROVE  RankOf(n)' < RankOf(m)'
      OBVIOUS
    <3>1. n \in DOMAIN publications
      BY <2>3, <2>4
    <3>2. CASE m \in DOMAIN publications
      BY <1>2, <1>3, <3>1, <3>2 DEF Phases
    <3>3. CASE m = new
      <4>1. RankOf(n)' <= Stage(phase[id])
        BY <1>2, <1>3, <3>1 DEF Phases
      <4>2. QED
        BY <1>4, <1>5, <2>1, <2>3, <3>3, <4>1
    <3>4. QED
      BY <2>3, <3>2, <3>3
  <2>7. \A n \in DOMAIN publications', q \in Publisher : About(n, id)' /\ Sends(q, n)' =>
           RankOf(n)' = Stage(phase'[id]) /\ q = IF RankOf(n)' = 1 THEN Process ELSE id
    BY <1>3, <2>1, <2>3 DEF Silent
  <2>8. \/ phase'[id] = "running" /\ running'
        \/ \E n \in DOMAIN publications' : About(n, id)' /\ RankOf(n)' = 3
        => \E r \in DOMAIN publications' : About(r, id)' /\ RankOf(r)' = 2
    <3>1. CASE phase'[id] = "running"
      BY <1>5, <2>1, <2>3, <3>1
    <3>2. CASE \E n \in DOMAIN publications' : About(n, id)' /\ RankOf(n)' = 3
      <4>1. \/ \E n \in DOMAIN publications : About(n, id) /\ RankOf(n) = 3
            \/ Rank(data.status) = 3
        BY <1>3, <2>3, <3>2
      <4>2. Rank(data.status) = 3 => phase[id] = "running" /\ running
        BY <1>5, <2>1, <2>3
      <4>3. \E r \in DOMAIN publications : About(r, id) /\ RankOf(r) = 2
        BY <1>2, <4>1, <4>2 DEF Phases
      <4>4. QED
        BY <1>3, <4>3
    <3>3. QED
      BY <3>1, <3>2
  <2>9. QED
    BY <1>1, <2>5, <2>6, <2>7, <2>8 DEF Phases
<1>7. CASE Skip(id)
  <2>1. /\ UNCHANGED pubVars /\ Stage(phase'[id]) = Stage(phase[id]) + 1 /\ Silent(id)
        /\ ~running \/ phase'[id] = "done"
    BY <1>7 DEF Skip
  <2>2. publications' = publications /\ running' = running /\ sending' = sending
    BY <2>1 DEF pubVars
  <2>3. \A n \in DOMAIN publications' : About(n, id)' => RankOf(n)' <= Stage(phase'[id])
    BY <1>2, <1>3, <1>4, <1>5, <2>1, <2>2 DEF Phases
  <2>4. \A n \in DOMAIN publications', q \in Publisher : ~(About(n, id)' /\ Sends(q, n)')
    BY <1>3, <2>1, <2>2 DEF Silent, Sends, Idle
  <2>5. \/ phase'[id] = "running" /\ running'
        \/ \E n \in DOMAIN publications' : About(n, id)' /\ RankOf(n)' = 3
        => \E r \in DOMAIN publications' : About(r, id)' /\ RankOf(r)' = 2
    BY <1>2, <1>3, <2>1, <2>2 DEF Phases
  <2>6. QED
    BY <1>1, <1>2, <1>3, <2>2, <2>3, <2>4, <2>5 DEF Phases
<1>8. CASE Elsewhere(id)
  <2>1. PICK p \in Publisher, data \in TaskData \cup ChipData :
           Begin(p, data) /\ ~(data \in TaskData /\ data.task_id = id)
    BY <1>8 DEF Elsewhere
  <2>2. PICK new : new = Len(publications) + 1
    OBVIOUS
  <2>3. /\ DOMAIN publications' = DOMAIN publications \cup {new} /\ ~About(new, id)'
        /\ \A q \in Publisher, n \in DOMAIN publications : Sends(q, n)' => Sends(q, n)
        /\ running' = running
    BY <2>1, <2>2, Begun
  <2>4. \A n \in DOMAIN publications' : About(n, id)' => n \in DOMAIN publications
    BY <2>3
  <2>5. QED
    BY <1>1, <1>2, <1>3, <1>8, <2>3, <2>4 DEF Phases, Elsewhere
<1>9. CASE Apart(id)
  <2>1. Quiet /\ phase'[id] = phase[id]
    BY <1>9, ApartQuiet
  <2>2. QED
    BY <1>2, <1>3, <2>1 DEF Phases, Quiet
<1>10. QED
  BY <1>1, <1>6, <1>7, <1>8, <1>9

--------------------------------------------------------------------------------
(* They arrive in their order                                              *)

LEMMA WireEnds ==
    ASSUME PubInv, NEW i \in DOMAIN wire
    PROVE  Of(wire[i]) \in DOMAIN publications
<1>1. Message(wire[i])
  BY DEF PubInv, Socket, Range
<1>2. Len(wire[i]) \in DOMAIN wire[i]
  BY <1>1, LenProperties, EmptySeq DEF Message
<1>3. QED
  BY <1>1, <1>2 DEF Message, Of

LEMMA CaptureTells ==
    ASSUME PubInv, CapturePub, NEW id \in Task, NEW f, f = Of(wire[1])
    PROVE  /\ Len(wire) \in Nat \ {0} /\ DOMAIN wire = 1 .. Len(wire)
           /\ DOMAIN wire' = 1 .. Len(wire) - 1 /\ Range(wire) = Range(wire') \cup {wire[1]}
           /\ \A i \in 1 .. Len(wire) - 1 : wire'[i] = wire[i + 1]
           /\ f \in DOMAIN publications
           /\ \/ FromPubFrames(wire[1]).task_id # id /\ taskStatus'[id] = taskStatus[id]
              \/ /\ About(f, id) /\ taskStatus'[id] = publications[f].status
                 /\ Len(wire[1]) = 3 /\ FromPubFrames(wire[1]).task_id = id
                 /\ FromPubFrames(wire[1]).status = publications[f].status
<1>1. wire # <<>> /\ wire' = Tail(wire) /\ wire \in Seq(Seq(FrameRecord))
  BY CaptureFacts DEF PubInv, PubTypes
<1>2. /\ Head(wire) = wire[1]
      /\ Len(wire) \in Nat \ {0} /\ DOMAIN wire = 1 .. Len(wire)
      /\ DOMAIN wire' = 1 .. Len(wire) - 1 /\ Range(wire) = Range(wire') \cup {wire[1]}
      /\ \A i \in 1 .. Len(wire) - 1 : wire'[i] = wire[i + 1]
  BY <1>1, Taken
<1>3. f \in DOMAIN publications
  BY <1>2, WireEnds
<1> DEFINE msg == FromPubFrames(wire[1])
<1>4. /\ Message(wire[1])
      /\ taskStatus' = IF msg.task_id = Null \/ msg.status = Null THEN taskStatus
                       ELSE [taskStatus EXCEPT ![msg.task_id] = msg.status]
  BY <1>2, CaptureFacts
<1>5. /\ msg.task_id \in Task \cup {Null}
      /\ \/ msg.task_id = Null
         \/ About(f, msg.task_id) /\ msg.status = publications[f].status /\ Len(wire[1]) = 3
  <2>1. /\ msg \in MsgRecord
        /\ \/ msg.task_id = Null /\ msg.status = Null
           \/ /\ Len(wire[1]) = 3 /\ About(Of(wire[1]), msg.task_id)
              /\ msg.status = publications[Of(wire[1])].status
    BY <1>4, ReadFacts DEF PubInv
  <2>2. msg.task_id \in Task \cup {Null}
    BY <2>1 DEF MsgRecord
  <2>3. QED
    BY <2>1, <2>2
<1>6. DOMAIN taskStatus = Task
  BY DEF PubInv, PubTypes
<1> HIDE DEF msg
<1>7. CASE msg.task_id = id
  <2>1. id # Null
    BY ValidatorAssumption
  <2>2. About(f, id) /\ msg.status = publications[f].status /\ Len(wire[1]) = 3
    BY <1>5, <1>7, <2>1
  <2>3. msg.status # Null
    BY <2>2, MonitorAssumption DEF About, TaskData, Status
  <2>4. taskStatus'[id] = msg.status
    BY <1>4, <1>6, <1>7, <2>1, <2>3
  <2>5. QED
    BY <1>2, <1>3, <1>7, <2>2, <2>4 DEF msg
<1>8. CASE msg.task_id # id
  <2>1. taskStatus'[id] = taskStatus[id]
    BY <1>4, <1>6, <1>8
  <2>2. QED
    BY <1>2, <1>3, <1>8, <2>1 DEF msg
<1>9. QED
  BY <1>7, <1>8

LEMMA InOrderKept ==
    ASSUME PubInv, [Next]_vars, NEW id \in Task, Phases(id), InOrder(id)
    PROVE  InOrder(id)'
<1>1. \A n \in DOMAIN publications :
         /\ n \in Nat /\ n \in DOMAIN publications' /\ publications'[n] = publications[n]
         /\ About(n, id)' <=> About(n, id)
  BY AboutStays, PublicationTyped DEF PubInv
<1>2. \A i \in DOMAIN wire : Of(wire[i]) \in DOMAIN publications
  BY WireEnds
<1>3. ASSUME NEW p \in Publisher, NEW data \in TaskData \cup ChipData, Begin(p, data)
      PROVE  InOrder(id)'
  <2>1. PICK new : new = Len(publications) + 1
    OBVIOUS
  <2>2. /\ DOMAIN publications' = DOMAIN publications \cup {new}
        /\ \A n \in DOMAIN publications : n \in Nat /\ n < new
        /\ \A q \in Publisher, n \in DOMAIN publications : Sends(q, n)' => Sends(q, n)
        /\ wire' = wire /\ taskStatus' = taskStatus
    BY <1>3, <2>1, Begun
  <2>3. \A i \in DOMAIN wire' : About(Of(wire[i]), id)' <=> About(Of(wire[i]), id)
    BY <1>1, <1>2, <2>2
  <2>4. \A i \in DOMAIN wire', m \in DOMAIN publications', q \in Publisher :
           About(Of(wire[i]), id)' /\ About(m, id)' /\ Sends(q, m)' => Of(wire'[i]) < m
    BY <1>1, <1>2, <2>2, <2>3 DEF InOrder
  <2>5. ASSUME taskStatus'[id] # Null
        PROVE  \E n \in DOMAIN publications' :
                  About(n, id)' /\ publications'[n].status = taskStatus'[id] /\ Before(n, id)'
    <3>1. PICK n \in DOMAIN publications :
             About(n, id) /\ publications[n].status = taskStatus[id] /\ Before(n, id)
      BY <2>2, <2>5 DEF InOrder
    <3>2. Before(n, id)'
      BY <1>1, <1>2, <2>2, <2>3, <3>1 DEF Before
    <3>3. QED
      BY <1>1, <2>2, <3>1, <3>2
  <2>6. QED
    BY <2>2, <2>3, <2>4, <2>5 DEF InOrder
<1>4. ASSUME Quiet, wire' = wire, taskStatus' = taskStatus PROVE InOrder(id)'
  <2>1. \A n : About(n, id)' <=> About(n, id)
    BY <1>4 DEF Quiet, About
  <2>2. \A n \in DOMAIN publications : Before(n, id) => Before(n, id)'
    BY <1>4, <2>1 DEF Quiet, Before
  <2>3. QED
    BY <1>4, <2>1, <2>2 DEF Quiet, InOrder
<1>5. ASSUME Quiet, UNCHANGED taskStatus,
             NEW p \in Publisher, SendFrame(p), sending[p].frame = "data", heard'
      PROVE  InOrder(id)'
  <2>1. PICK m : m = Append(partial, Frame(p))
    OBVIOUS
  <2>2. PICK k : k = Of(m)
    OBVIOUS
  <2>3. /\ Sends(p, k) /\ k \in DOMAIN publications
        /\ \A n \in DOMAIN publications : ~Sends(p, n)'
        /\ Len(wire) \in Nat /\ DOMAIN wire = 1 .. Len(wire) /\ DOMAIN wire' = 1 .. Len(wire) + 1
        /\ \A i \in 1 .. Len(wire) : wire'[i] = wire[i]
        /\ wire'[Len(wire) + 1] = m
    BY <1>5, <2>1, <2>2, NewMessage
  <2>4. \A n : About(n, id)' <=> About(n, id)
    BY <1>5 DEF Quiet, About
  <2>5. \A q \in Publisher, n \in DOMAIN publications : Sends(q, n)' => Sends(q, n) /\ q # p
    BY <1>5, <2>3 DEF Quiet
  <2>6. \A i \in DOMAIN wire' : i \in DOMAIN wire \/ i = Len(wire) + 1
    BY <2>3
  <2>7. ASSUME NEW i \in DOMAIN wire', NEW j \in DOMAIN wire',
               About(Of(wire[i]), id)', About(Of(wire[j]), id)', i < j
        PROVE  Of(wire'[i]) < Of(wire'[j])
    <3>1. i \in DOMAIN wire /\ wire'[i] = wire[i]
      BY <2>3, <2>7
    <3>2. CASE j \in DOMAIN wire
      BY <2>3, <2>4, <2>7, <3>1, <3>2 DEF InOrder
    <3>3. CASE j = Len(wire) + 1
      BY <2>2, <2>3, <2>4, <2>7, <3>1, <3>3 DEF InOrder
    <3>4. QED
      BY <2>6, <3>2, <3>3
  <2>8. ASSUME NEW i \in DOMAIN wire', NEW n \in DOMAIN publications', NEW q \in Publisher,
               About(Of(wire[i]), id)', About(n, id)', Sends(q, n)'
        PROVE  Of(wire'[i]) < n
    <3>1. Sends(q, n) /\ q # p /\ About(n, id) /\ n \in DOMAIN publications
      BY <1>5, <2>4, <2>5, <2>8 DEF Quiet
    <3>2. CASE i \in DOMAIN wire
      BY <2>3, <2>4, <2>8, <3>1, <3>2 DEF InOrder
    <3>3. CASE i = Len(wire) + 1
      <4>1. About(k, id)
        BY <2>2, <2>3, <2>4, <2>8, <3>3
      <4>2. q = p
        BY <2>3, <3>1, <4>1 DEF Phases
      <4>3. QED
        BY <3>1, <4>2
    <3>4. QED
      BY <2>6, <3>2, <3>3
  <2>9. ASSUME taskStatus'[id] # Null
        PROVE  \E n \in DOMAIN publications' :
                  About(n, id)' /\ publications'[n].status = taskStatus'[id] /\ Before(n, id)'
    <3>1. PICK n \in DOMAIN publications :
             About(n, id) /\ publications[n].status = taskStatus[id] /\ Before(n, id)
      BY <1>5, <2>9 DEF InOrder
    <3>2. \A i \in DOMAIN wire' : About(Of(wire[i]), id)' => n < Of(wire'[i])
      BY <2>2, <2>3, <2>4, <2>6, <3>1 DEF Before
    <3>3. Before(n, id)'
      BY <1>5, <2>4, <2>5, <3>1, <3>2 DEF Before, Quiet
    <3>4. QED
      BY <1>1, <1>5, <2>4, <3>1, <3>3
  <2>10. QED
    BY <2>7, <2>8, <2>9 DEF InOrder
<1>6. ASSUME CapturePub PROVE InOrder(id)'
  <2>1. PICK f : f = Of(wire[1])
    OBVIOUS
  <2>2. /\ Len(wire) \in Nat \ {0} /\ DOMAIN wire = 1 .. Len(wire)
        /\ DOMAIN wire' = 1 .. Len(wire) - 1
        /\ \A i \in 1 .. Len(wire) - 1 : wire'[i] = wire[i + 1]
        /\ f \in DOMAIN publications
        /\ \/ taskStatus'[id] = taskStatus[id]
           \/ About(f, id) /\ taskStatus'[id] = publications[f].status
    BY <1>6, <2>1, CaptureTells
  <2>3. UNCHANGED <<publications, sending>>
    BY <1>6 DEF CapturePub
  <2>4. /\ \A n : About(n, id)' <=> About(n, id)
        /\ \A n, q : Sends(q, n)' <=> Sends(q, n)
    BY <2>3 DEF About, Sends, Idle
  <2>5. \A i \in DOMAIN wire' : i + 1 \in DOMAIN wire /\ wire'[i] = wire[i + 1] /\ 1 < i + 1
    BY <2>2
  <2>6. ASSUME NEW i \in DOMAIN wire', NEW j \in DOMAIN wire',
               About(Of(wire[i]), id)', About(Of(wire[j]), id)', i < j
        PROVE  Of(wire'[i]) < Of(wire'[j])
    <3>1. i + 1 < j + 1
      BY <2>2, <2>6
    <3>2. QED
      BY <2>4, <2>5, <2>6, <3>1 DEF InOrder
  <2>7. ASSUME NEW i \in DOMAIN wire', NEW n \in DOMAIN publications', NEW q \in Publisher,
               About(Of(wire[i]), id)', About(n, id)', Sends(q, n)'
        PROVE  Of(wire'[i]) < n
    BY <2>3, <2>4, <2>5, <2>7 DEF InOrder
  <2>8. ASSUME taskStatus'[id] # Null
        PROVE  \E n \in DOMAIN publications' :
                  About(n, id)' /\ publications'[n].status = taskStatus'[id] /\ Before(n, id)'
    <3>1. CASE taskStatus'[id] = taskStatus[id]
      <4>1. PICK n \in DOMAIN publications :
               About(n, id) /\ publications[n].status = taskStatus[id] /\ Before(n, id)
        BY <2>8, <3>1 DEF InOrder
      <4>2. Before(n, id)'
        BY <2>3, <2>4, <2>5, <4>1 DEF Before
      <4>3. QED
        BY <2>3, <2>4, <3>1, <4>1, <4>2
    <3>2. CASE About(f, id) /\ taskStatus'[id] = publications[f].status
      <4>1. 1 \in DOMAIN wire
        BY <2>2
      <4>2. \A i \in DOMAIN wire' : About(Of(wire[i]), id)' => f < Of(wire'[i])
        BY <2>1, <2>4, <2>5, <3>2, <4>1 DEF InOrder
      <4>3. \A n \in DOMAIN publications, q \in Publisher : About(n, id) /\ Sends(q, n) => f < n
        BY <2>1, <3>2, <4>1 DEF InOrder
      <4>4. Before(f, id)'
        BY <2>3, <2>4, <4>2, <4>3 DEF Before
      <4>5. QED
        BY <2>2, <2>3, <2>4, <3>2, <4>4
    <3>3. QED
      BY <2>2, <3>1, <3>2
  <2>9. QED
    BY <2>6, <2>7, <2>8 DEF InOrder
<1>7. CASE SocketChange
  BY <1>4, <1>5, <1>7, SocketQuiet
<1>8. CASE UNCHANGED <<pubVars, captured, taskStatus>>
  BY <1>4, <1>8 DEF pubVars, Quiet, Sends, Idle
<1>9. QED
  BY <1>3, <1>6, <1>7, <1>8, PubSteps

--------------------------------------------------------------------------------
(* What the subscriber has missed                                          *)

LEMMA HearingKept ==
    ASSUME PubInv, [Next]_vars, Hearing
    PROVE  Hearing'
<1>1. CASE UNCHANGED <<partial, wire, subscribed, heard, taskStatus>>
  BY <1>1 DEF Hearing
<1>2. ASSUME NEW p \in Publisher, SendFrame(p), UNCHANGED <<captured, taskStatus>> PROVE Hearing'
  <2>1. /\ heard' = IF partial = <<>> THEN subscribed ELSE heard
        /\ subscribed' = subscribed
    BY <1>2 DEF SendFrame
  <2>2. /\ subscribed' \in BOOLEAN /\ heard' \in BOOLEAN
        /\ heard' => subscribed
    BY <2>1 DEF Hearing
  <2>3. ~heard' \/ ~subscribed =>
           ~subscribed \/ (partial # <<>> /\ ~heard)
    BY <2>1
  <2>4. ~heard' => wire' = wire
    BY <1>2, SendFrameFacts
  <2>5. (partial' # <<>> /\ ~heard') \/ ~subscribed => ~heard'
    BY <2>2
  <2>6. ~subscribed' \/ (partial' # <<>> /\ ~heard') =>
           wire' = <<>> /\ \A id \in Task : taskStatus'[id] = Null
    BY <1>2, <2>1, <2>2, <2>3, <2>4, <2>5 DEF Hearing
  <2>7. QED
    BY <2>1, <2>2, <2>6 DEF Hearing
<1>3. ASSUME NEW p \in Publisher, SendRaises(p), taskStatus' = taskStatus PROVE Hearing'
  BY <1>3 DEF SendRaises, Hearing
<1>4. ASSUME StopPublishing \/ CloseSocket \/ Subscribe, taskStatus' = taskStatus PROVE Hearing'
  <2>1. CASE StopPublishing
    BY <1>4, <2>1 DEF StopPublishing, Hearing
  <2>2. CASE CloseSocket
    BY <1>4, <2>2 DEF CloseSocket, Hearing
  <2>3. CASE Subscribe
    BY <1>4, <2>3 DEF Subscribe, Hearing
  <2>4. QED
    BY <1>4, <2>1, <2>2, <2>3
<1>5. CASE CapturePub
  <2>1. wire # <<>> /\ UNCHANGED <<partial, subscribed, heard>>
    BY <1>5 DEF CapturePub
  <2>2. QED
    BY <2>1 DEF Hearing
<1>6. CASE SocketChange
  BY <1>2, <1>3, <1>4, <1>6 DEF SocketChange
<1>7. ASSUME NEW p \in Publisher, NEW data \in TaskData \cup ChipData, Begin(p, data) PROVE Hearing'
  BY <1>1, <1>7 DEF Begin
<1>8. QED
  BY <1>1, <1>5, <1>6, <1>7, PubSteps DEF pubVars

LEMMA FramesTell ==
    ASSUME PubInv, NEW id \in Task, NEW r, About(r, id)
    PROVE  Of(Frames(r)) = r /\ FromPubFrames(Frames(r)).task_id = id
<1>1. r \in DOMAIN publications /\ publications[r] \in TaskData /\ publications[r].task_id = id
  BY DEF About
<1>2. /\ Of(Frames(r)) = r
      /\ FromPubFrames(Frames(r)) = Captured(publications[r].operation, publications[r])
  BY <1>1, FramesRead DEF PubInv
<1>3. FromPubFrames(Frames(r)) = [channel |-> "pub", direction |-> "PUB", msg_type |-> "TaskStatus",
                                  task_id |-> publications[r].task_id,
                                  status |-> publications[r].status]
  BY <1>1, <1>2, CapturedData
<1>4. QED
  BY <1>1, <1>2, <1>3

\* The RUNNING that the thread of its task is sending.
LEMMA SentTold ==
    ASSUME PubInv, [Next]_vars, NEW id \in Task, Phases(id), Hearing,
           NEW r \in DOMAIN publications, About(r, id), RankOf(r) = 2, r \notin overlapped,
           Sends(id, r), SocketChange
    PROVE  \/ Sends(id, r)'
           \/ Frames(r) \in Range(wire')
           \/ PendingOver(id)'
           \/ ~running' /\ \A n \in DOMAIN publications : About(n, id) => RankOf(n) # 3
<1>1. id \in Publisher /\ sending[id].n = r /\ ~Idle(id)
  BY MonitorAssumption DEF Sends
<1>2. ASSUME NEW p \in Publisher, SendFrame(p), p # id PROVE Sends(id, r)'
  <2>1. sending'[id] = sending[id]
    BY <1>1, <1>2, SendFrameFacts
  <2>2. QED
    BY <1>1, <2>1 DEF Sends, Idle
<1>3. ASSUME SendFrame(id)
      PROVE  Sends(id, r)' \/ Frames(r) \in Range(wire') \/ PendingOver(id)'
  <2>1. CASE sending[id].frame # "data"
    <3>1. \/ sending'[id] = [n |-> r, frame |-> "operation"]
          \/ sending'[id] = [n |-> r, frame |-> "data"]
      BY <1>1, <1>3, <2>1, SendFrameFacts
    <3>2. QED
      BY <3>1 DEF Sends, Idle
  <2>2. CASE sending[id].frame = "data" /\ heard'
    <3>1. PICK m : m = Append(partial, Frame(id))
      OBVIOUS
    <3>2. Of(m) = r /\ m = Frames(r) /\ Range(wire') = Range(wire) \cup {m}
      BY <1>1, <1>3, <2>2, <3>1, NewMessage
    <3>3. QED
      BY <3>2
  <2>3. CASE sending[id].frame = "data" /\ ~heard'
    <3>1. open /\ wire' = wire /\ heard' = IF partial = <<>> THEN subscribed ELSE heard
      BY <1>1, <1>3, <2>3, SendFrameFacts
    <3>2. partial = Sent(sending[id])
      BY <1>1, <2>3, <3>1 DEF PubInv, Socket, Halfway
    <3>3. partial # <<>>
      BY <2>3, <3>2 DEF Sent
    <3>4. wire = <<>> /\ \A j \in Task : taskStatus[j] = Null
      BY <2>3, <3>1, <3>3 DEF Hearing
    <3>5. taskStatus' = taskStatus
      BY DEF SocketChange
    <3>6. DOMAIN wire' = {} /\ taskStatus'[id] # "PENDING"
      BY <3>1, <3>4, <3>5, MonitorAssumption
    <3>7. PendingOver(id)'
      BY <3>6 DEF PendingOver
    <3>8. QED
      BY <3>7
  <2>4. QED
    BY <2>1, <2>2, <2>3
<1>4. ASSUME NEW p \in Publisher, SendRaises(p)
      PROVE  ~running' /\ \A n \in DOMAIN publications : About(n, id) => RankOf(n) # 3
  <2>1. ~running'
    BY <1>4 DEF SendRaises, PubInv, Threads
  <2>2. Stage(phase[id]) = 2
    BY <1>1 DEF Phases
  <2>3. \A n \in DOMAIN publications : About(n, id) => RankOf(n) <= 2
    BY <2>2 DEF Phases
  <2>4. QED
    BY <2>1, <2>3
<1>5. ASSUME StopPublishing \/ CloseSocket \/ Subscribe PROVE Sends(id, r)'
  BY <1>1, <1>5 DEF StopPublishing, CloseSocket, Subscribe, Sends, Idle
<1>6. QED
  BY <1>2, <1>3, <1>4, <1>5 DEF SocketChange

\* A message is captured.
LEMMA CapturedTold ==
    ASSUME PubInv, CapturePub, NEW id \in Task, Phases(id), InOrder(id),
           NEW r \in DOMAIN publications, About(r, id), RankOf(r) = 2
    PROVE  /\ Frames(r) \in Range(wire) => Frames(r) \in Range(wire') \/ PendingOver(id)'
           /\ PendingOver(id) => PendingOver(id)'
<1>1. PICK f : f = Of(wire[1])
  OBVIOUS
<1>2. /\ Len(wire) \in Nat \ {0} /\ DOMAIN wire = 1 .. Len(wire)
      /\ DOMAIN wire' = 1 .. Len(wire) - 1 /\ Range(wire) = Range(wire') \cup {wire[1]}
      /\ \A i \in 1 .. Len(wire) - 1 : wire'[i] = wire[i + 1]
      /\ f \in DOMAIN publications
  BY <1>1, CaptureTells
<1>3. \/ FromPubFrames(wire[1]).task_id # id /\ taskStatus'[id] = taskStatus[id]
      \/ About(f, id) /\ taskStatus'[id] = publications[f].status
  BY <1>1, CaptureTells
<1>4. UNCHANGED publications
  BY DEF CapturePub
<1>5. \A n : (About(n, id)' <=> About(n, id)) /\ RankOf(n)' = RankOf(n)
  BY <1>4 DEF About, RankOf
<1>6. \A i \in DOMAIN wire' : i + 1 \in DOMAIN wire /\ wire'[i] = wire[i + 1] /\ 1 < i + 1
  BY <1>2
<1>7. 1 \in DOMAIN wire
  BY <1>2
<1>8. ASSUME Frames(r) = wire[1] PROVE PendingOver(id)'
  <2>1. f = r /\ FromPubFrames(wire[1]).task_id = id
    BY <1>1, <1>8, FramesTell
  <2>2. taskStatus'[id] # "PENDING"
    BY <1>3, <2>1 DEF RankOf, Rank
  <2>3. ASSUME NEW i \in DOMAIN wire', About(Of(wire[i]), id)' PROVE RankOf(Of(wire[i]))' # 1
    <3>1. About(Of(wire[i + 1]), id)
      BY <1>5, <1>6, <2>3
    <3>2. r < Of(wire[i + 1])
      BY <1>1, <1>6, <1>7, <2>1, <3>1 DEF InOrder
    <3>3. Of(wire[i + 1]) \in DOMAIN publications
      BY <1>6, WireEnds
    <3>4. RankOf(r) < RankOf(Of(wire[i + 1]))
      BY <3>1, <3>2, <3>3 DEF Phases
    <3>5. RankOf(Of(wire[i + 1])) # 1
      BY <3>4
    <3>6. QED
      BY <1>5, <1>6, <3>5
  <2>4. QED
    BY <2>2, <2>3 DEF PendingOver
<1>9. ASSUME PendingOver(id) PROVE PendingOver(id)'
  <2>1. About(f, id) => publications[f].status # "PENDING"
    BY <1>1, <1>7, <1>9 DEF PendingOver, RankOf, Rank
  <2>2. taskStatus'[id] # "PENDING"
    BY <1>3, <1>9, <2>1 DEF PendingOver
  <2>3. ASSUME NEW i \in DOMAIN wire', About(Of(wire[i]), id)' PROVE RankOf(Of(wire[i]))' # 1
    <3>1. About(Of(wire[i + 1]), id)
      BY <1>5, <1>6, <2>3
    <3>2. RankOf(Of(wire[i + 1])) # 1
      BY <1>6, <1>9, <3>1 DEF PendingOver
    <3>3. QED
      BY <1>5, <1>6, <3>2
  <2>4. QED
    BY <2>2, <2>3 DEF PendingOver
<1>10. QED
  BY <1>2, <1>8, <1>9

\* No PENDING comes after the RUNNING.
LEMMA PendingStaysOver ==
    ASSUME PubInv, SocketChange, NEW id \in Task, Phases(id), PendingOver(id),
           NEW r \in DOMAIN publications, About(r, id), RankOf(r) = 2
    PROVE  PendingOver(id)'
<1>1. Quiet /\ UNCHANGED <<captured, taskStatus>>
  BY SocketQuiet
<1>2. \A n : (About(n, id)' <=> About(n, id)) /\ RankOf(n)' = RankOf(n)
  BY <1>1 DEF Quiet, About, RankOf
<1>3. CASE wire' = wire
  BY <1>1, <1>2, <1>3 DEF PendingOver
<1>4. ASSUME NEW p \in Publisher, SendFrame(p), sending[p].frame = "data", heard'
      PROVE  PendingOver(id)'
  <2>1. PICK m : m = Append(partial, Frame(p))
    OBVIOUS
  <2>2. PICK k : k = Of(m)
    OBVIOUS
  <2>3. /\ Sends(p, k) /\ k \in DOMAIN publications
        /\ Len(wire) \in Nat /\ DOMAIN wire = 1 .. Len(wire) /\ DOMAIN wire' = 1 .. Len(wire) + 1
        /\ \A i \in 1 .. Len(wire) : wire'[i] = wire[i]
        /\ wire'[Len(wire) + 1] = m
    BY <1>4, <2>1, <2>2, NewMessage
  <2>4. About(k, id) => RankOf(k) # 1
    <3>1. About(k, id) => RankOf(k) = Stage(phase[id])
      BY <2>3 DEF Phases
    <3>2. 2 <= Stage(phase[id])
      BY DEF Phases
    <3>3. QED
      BY <3>1, <3>2
  <2>5. ASSUME NEW i \in DOMAIN wire', About(Of(wire[i]), id)' PROVE RankOf(Of(wire[i]))' # 1
    <3>1. CASE i \in DOMAIN wire
      BY <1>2, <2>3, <2>5, <3>1 DEF PendingOver
    <3>2. CASE i = Len(wire) + 1
      BY <1>2, <2>2, <2>3, <2>4, <2>5, <3>2
    <3>3. QED
      BY <2>3, <3>1, <3>2
  <2>6. QED
    BY <1>1, <2>5 DEF PendingOver
<1>5. QED
  BY <1>3, <1>4, SocketQuiet

LEMMA ToldKept ==
    ASSUME PubInv, DOMAIN phase = Task, \A i \in Task : Phases(i), [Next]_vars, Hearing,
           NEW id \in Task, InOrder(id), Told(id)
    PROVE  Told(id)'
<1> SUFFICES ASSUME NEW r \in DOMAIN publications', About(r, id)', RankOf(r)' = 2,
                    r \notin overlapped'
             PROVE  \/ Sends(id, r)'
                    \/ Frames(r) \in Range(wire')
                    \/ PendingOver(id)'
                    \/ ~running' /\ \A n \in DOMAIN publications' : About(n, id)' => RankOf(n)' # 3
  <2>1. \A r : Frames(r)' = Frames(r)
    BY DEF Frames
  <2>2. QED
    BY <2>1 DEF Told
<1> DEFINE Goal == \/ Sends(id, r)'
                   \/ Frames(r) \in Range(wire')
                   \/ PendingOver(id)'
                   \/ ~running' /\ \A n \in DOMAIN publications' : About(n, id)' => RankOf(n)' # 3
           Old == r \in DOMAIN publications /\ About(r, id) /\ RankOf(r) = 2 /\ r \notin overlapped
<1>1. Phases(id) /\ id \in Publisher
  BY MonitorAssumption
<1>2. \A n \in DOMAIN publications :
         /\ n \in DOMAIN publications' /\ RankOf(n)' = RankOf(n)
         /\ About(n, id)' <=> About(n, id)
  BY AboutStays
<1>3. overlapped \subseteq overlapped'
  BY PublicationsStay
<1>4. Old => \/ Sends(id, r)
             \/ Frames(r) \in Range(wire)
             \/ PendingOver(id)
             \/ ~running /\ \A n \in DOMAIN publications : About(n, id) => RankOf(n) # 3
  BY DEF Told
<1>5. ASSUME NEW p \in Publisher, NEW data \in TaskData \cup ChipData, Begin(p, data),
             data \in TaskData /\ data.task_id = id /\ Rank(data.status) = 2 => p = id
      PROVE  Goal
  <2>1. PICK new : new = Len(publications) + 1
    OBVIOUS
  <2>2. /\ DOMAIN publications' = DOMAIN publications \cup {new}
        /\ \A q \in Publisher, n \in DOMAIN publications : Sends(q, n) => Sends(q, n)'
        /\ running /\ wire' = wire /\ taskStatus' = taskStatus
    BY <1>5, <2>1, Begun
  <2>3. CASE r = new
    <3>1. (About(new, id)' <=> data \in TaskData /\ data.task_id = id) /\ Sends(p, new)'
      <4>1. Begin(p, data)
        BY <1>5
      <4>2. About(new, id)' <=> data \in TaskData /\ data.task_id = id
        <5>1. new \in DOMAIN publications' /\ publications'[new] = data
          BY <2>1, <4>1, BeginFacts
        <5>2. QED
          BY <5>1 DEF About
      <4>3. Sends(p, new)'
        BY <2>1, <4>1, BeginFacts DEF Sends, Idle
      <4>4. QED
        BY <4>2, <4>3
    <3>2. RankOf(new)' = Rank(data.status)
      BY <1>5, <2>1, BeginFacts DEF RankOf
    <3>3. p = id
      BY <1>5, <2>3, <3>1, <3>2
    <3>4. QED
      BY <2>3, <3>1, <3>3
  <2>4. CASE r # new
    <3>1. Old
      BY <1>2, <1>3, <2>2, <2>4
    <3>2. PendingOver(id) => PendingOver(id)'
      <4>1. \A i \in DOMAIN wire : Of(wire[i]) \in DOMAIN publications
        BY WireEnds
      <4>2. \A i \in DOMAIN wire : /\ About(Of(wire[i]), id)' <=> About(Of(wire[i]), id)
                                   /\ RankOf(Of(wire[i]))' = RankOf(Of(wire[i]))
        BY <1>2, <2>2, <4>1
      <4>3. QED
        BY <2>2, <4>2 DEF PendingOver
    <3>3. QED
      BY <1>1, <1>4, <2>2, <3>1, <3>2
  <2>5. QED
    BY <2>3, <2>4
<1>6. ASSUME Quiet PROVE Old /\ (\A n : (About(n, id)' <=> About(n, id)) /\ RankOf(n)' = RankOf(n))
  <2>1. publications' = publications
    BY <1>6 DEF Quiet
  <2>2. \A n : (About(n, id)' <=> About(n, id)) /\ RankOf(n)' = RankOf(n)
    BY <2>1 DEF About, RankOf
  <2>3. QED
    BY <1>3, <2>1, <2>2
<1>7. ASSUME Quiet, ~running, \A n \in DOMAIN publications : About(n, id) => RankOf(n) # 3
      PROVE  Goal
  BY <1>6, <1>7 DEF Quiet
<1>8. CASE SocketChange
  <2>1. Quiet /\ taskStatus' = taskStatus
    BY <1>8, SocketQuiet
  <2>2. Old /\ \A n : (About(n, id)' <=> About(n, id)) /\ RankOf(n)' = RankOf(n)
    BY <1>6, <2>1
  <2>3. CASE Sends(id, r)
    <3>1. \/ Sends(id, r)' \/ Frames(r) \in Range(wire') \/ PendingOver(id)'
          \/ ~running' /\ \A n \in DOMAIN publications : About(n, id) => RankOf(n) # 3
      BY <1>1, <1>8, <2>2, <2>3, SentTold
    <3>2. QED
      BY <2>1, <2>2, <3>1 DEF Quiet
  <2>4. CASE Frames(r) \in Range(wire)
    <3>1. CASE wire' = wire
      BY <2>4, <3>1
    <3>2. ASSUME NEW p \in Publisher, SendFrame(p), sending[p].frame = "data", heard'
          PROVE  Range(wire) \subseteq Range(wire')
      <4>1. Range(wire') = Range(wire) \cup {Append(partial, Frame(p))}
        BY <3>2, NewMessage
      <4>2. QED
        BY <4>1
    <3>3. QED
      BY <1>8, <2>4, <3>1, <3>2, SocketQuiet
  <2>5. CASE PendingOver(id)
    BY <1>1, <1>8, <2>2, <2>5, PendingStaysOver
  <2>6. QED
    BY <1>4, <1>7, <2>1, <2>2, <2>3, <2>4, <2>5
<1>9. CASE CapturePub
  <2>1. Quiet /\ (Sends(id, r) => Sends(id, r)')
    BY <1>9 DEF CapturePub, Quiet, Sends, Idle
  <2>2. Old
    BY <1>6, <2>1
  <2>3. /\ Frames(r) \in Range(wire) => Frames(r) \in Range(wire') \/ PendingOver(id)'
        /\ PendingOver(id) => PendingOver(id)'
    BY <1>1, <1>9, <2>2, CapturedTold
  <2>4. QED
    BY <1>4, <1>7, <2>1, <2>2, <2>3
<1>10. CASE UNCHANGED <<pubVars, captured, taskStatus>>
  <2>1. Quiet /\ UNCHANGED <<sending, wire, taskStatus>>
    BY <1>10 DEF pubVars, Quiet, Sends, Idle
  <2>2. Old /\ \A n : (About(n, id)' <=> About(n, id)) /\ RankOf(n)' = RankOf(n)
    BY <1>6, <2>1
  <2>3. PendingOver(id) => PendingOver(id)'
    BY <2>1, <2>2 DEF PendingOver
  <2>4. Sends(id, r) => Sends(id, r)'
    BY <2>1 DEF Sends, Idle
  <2>5. QED
    BY <1>4, <1>7, <2>1, <2>2, <2>3, <2>4
<1>11. CASE Advance(id)
  <2>1. PICK p \in Publisher, data \in TaskData :
           Begin(p, data) /\ p = IF Rank(data.status) = 1 THEN Process ELSE id
    BY <1>11 DEF Advance
  <2>2. data \in TaskData \cup ChipData /\ (Rank(data.status) = 2 => p = id)
    BY <2>1
  <2>3. QED
    BY <1>5, <2>1, <2>2
<1>12. CASE Skip(id)
  BY <1>10, <1>12 DEF Skip
<1>13. CASE Elsewhere(id)
  BY <1>5, <1>13 DEF Elsewhere
<1>14. CASE Apart(id)
  BY <1>8, <1>9, <1>10, <1>14 DEF Apart
<1>15. QED
  BY <1>11, <1>12, <1>13, <1>14, TaskSteps

--------------------------------------------------------------------------------
(* The warning                                                             *)

\* The statuses of a task are valid in their order; only a SUCCESSED that
\* follows a PENDING is not.
LEMMA OnlySuccessSkips ==
    ASSUME NEW msg, msg.status \in Status, InvalidTransition(msg),
           Rank(taskStatus[msg.task_id]) < Rank(msg.status)
    PROVE  taskStatus[msg.task_id] = "PENDING" /\ Rank(msg.status) = 3
<1> DEFINE old == taskStatus[msg.task_id]
           new == msg.status
<1>1. old \in DOMAIN ValidTransitions /\ new \notin ValidTransitions[old]
  BY DEF InvalidTransition
<1>2. /\ DOMAIN ValidTransitions = {"PENDING", "COMPILING", "COMPILED", "RUNNING", "RETRY"}
      /\ ValidTransitions["PENDING"] = {"RUNNING", "COMPILING", "FAILED"}
      /\ ValidTransitions["RUNNING"] = {"SUCCESSED", "FAILED", "RETRY"}
  BY DEF ValidTransitions
<1>3. Rank(old) < Rank(new) /\ new \in Status
  OBVIOUS
<1> HIDE DEF old, new
<1>4. old \in {"PENDING", "RUNNING"}
  BY <1>1, <1>2, <1>3 DEF Rank, Status
<1>5. old # "RUNNING"
  BY <1>1, <1>2, <1>3 DEF Rank, Status
<1>6. Rank(new) = 3
  BY <1>1, <1>2, <1>3, <1>4, <1>5 DEF Rank, Status
<1>7. QED
  BY <1>4, <1>5, <1>6 DEF old, new

LEMMA WarningTold ==
    ASSUME PubInv, TaskInv, CapturePub,
           LET msg == FromPubFrames(wire[1]) IN InvalidTransition(msg)
    PROVE  \E n \in overlapped : \E id \in Task :
              /\ About(n, id) /\ RankOf(n) = 2 /\ FromPubFrames(wire[1]).task_id = id
              /\ n < wire[1][3].n
<1> DEFINE msg == FromPubFrames(wire[1])
           id == msg.task_id
<1>1. PICK f : f = Of(wire[1])
  OBVIOUS
<1>2. msg \in MsgRecord
  <2>1. wire # <<>> /\ wire \in Seq(Seq(FrameRecord)) /\ Message(Head(wire))
    BY CaptureFacts DEF PubInv, PubTypes
  <2>2. Head(wire) = wire[1]
    BY <2>1, Taken
  <2>3. QED
    BY <2>1, <2>2, ReadFacts DEF PubInv
<1>3. id \in Task
  BY <1>2 DEF MsgRecord, InvalidTransition
<1>4. /\ Len(wire) \in Nat \ {0} /\ DOMAIN wire = 1 .. Len(wire) /\ f \in DOMAIN publications
      /\ About(f, id) /\ Len(wire[1]) = 3 /\ msg.status = publications[f].status
  BY <1>1, <1>3, CaptureTells
<1>5. 1 \in DOMAIN wire
  BY <1>4
<1>6. Phases(id) /\ InOrder(id) /\ Told(id)
  BY <1>3 DEF TaskInv
<1>7. taskStatus[id] # Null
  BY MonitorAssumption DEF InvalidTransition, ValidTransitions
<1>8. PICK n \in DOMAIN publications :
         About(n, id) /\ publications[n].status = taskStatus[id] /\ Before(n, id)
  BY <1>6, <1>7 DEF InOrder
<1>9. n < f /\ RankOf(n) < RankOf(f)
  BY <1>1, <1>4, <1>5, <1>6, <1>8 DEF Before, Phases
<1>10. msg.status \in Status
  BY <1>4 DEF About, TaskData
<1>11. taskStatus[id] = "PENDING" /\ RankOf(f) = 3
  BY <1>4, <1>8, <1>9, <1>10, OnlySuccessSkips DEF RankOf
<1>12. PICK r \in DOMAIN publications : About(r, id) /\ RankOf(r) = 2
  BY <1>4, <1>6, <1>11 DEF Phases
<1>13. r < f
  <2>1. r \in Nat /\ f \in Nat
    BY <1>4, PublicationTyped DEF PubInv
  <2>2. ~(f < r)
    BY <1>4, <1>6, <1>11, <1>12 DEF Phases
  <2>3. r # f
    BY <1>11, <1>12
  <2>4. QED
    BY <2>1, <2>2, <2>3
<1>14. r \in overlapped
  <2> SUFFICES ASSUME r \notin overlapped PROVE FALSE
    OBVIOUS
  <2>0. r \in Nat /\ f \in Nat
    BY <1>4, PublicationTyped DEF PubInv
  <2>1. ~Sends(id, r)
    <3>1. id \in Publisher
      BY <1>3, MonitorAssumption
    <3>2. Sends(id, r) => f < r
      BY <1>1, <1>4, <1>5, <1>6, <1>12, <3>1 DEF InOrder
    <3>3. QED
      BY <1>13, <2>0, <3>2
  <2>2. Frames(r) \notin Range(wire)
    <3> SUFFICES ASSUME NEW i \in DOMAIN wire, wire[i] = Frames(r) PROVE FALSE
      BY DEF Range
    <3>1. Of(wire[i]) = r
      BY <1>3, <1>12, FramesTell
    <3>2. i # 1
      BY <1>1, <1>13, <2>0, <3>1
    <3>3. 1 < i
      BY <1>4, <3>2
    <3>4. f < r
      BY <1>1, <1>4, <1>5, <1>6, <1>12, <3>1, <3>3 DEF InOrder
    <3>5. QED
      BY <1>13, <2>0, <3>4
  <2>3. ~PendingOver(id)
    BY <1>11 DEF PendingOver
  <2>4. ~ \A m \in DOMAIN publications : About(m, id) => RankOf(m) # 3
    BY <1>4, <1>11
  <2>5. QED
    BY <1>6, <1>12, <2>1, <2>2, <2>3, <2>4 DEF Told
<1>15. wire[1][3].n = f
  BY <1>1, <1>4 DEF Of
<1>16. QED
  BY <1>3, <1>12, <1>13, <1>14, <1>15

LEMMA WarnedKept ==
    ASSUME PubInv, TaskInv, [Next]_vars
    PROVE  Warned'
<1>1. ASSUME NEW c, NEW n \in overlapped, NEW id \in Task,
             About(n, id), RankOf(n) = 2, c.msg.task_id = id, n < c.frames[3].n
      PROVE  \E m \in overlapped' : \E j \in Task :
                About(m, j)' /\ RankOf(m)' = 2 /\ c.msg.task_id = j /\ m < c.frames[3].n
  <2>1. n \in DOMAIN publications /\ n \in overlapped'
    BY <1>1, PublicationsStay DEF About
  <2>2. About(n, id)' /\ RankOf(n)' = 2
    BY <1>1, <2>1, AboutStays
  <2>3. QED
    BY <1>1, <2>1, <2>2
<1>2. ASSUME NEW c \in Range(captured), "transition" \in c.issues
      PROVE  \E m \in overlapped' : \E j \in Task :
                About(m, j)' /\ RankOf(m)' = 2 /\ c.msg.task_id = j /\ m < c.frames[3].n
  <2>1. PICK n \in overlapped, id \in Task :
           About(n, id) /\ RankOf(n) = 2 /\ c.msg.task_id = id /\ n < c.frames[3].n
    BY <1>2 DEF TaskInv, Warned
  <2>2. QED
    BY <1>1, <2>1
<1>3. CASE captured' = captured
  BY <1>2, <1>3 DEF Warned
<1>4. CASE CapturePub
  <2>1. wire # <<>> /\ wire \in Seq(Seq(FrameRecord))
    BY <1>4, CaptureFacts DEF PubInv, PubTypes
  <2>2. Head(wire) = wire[1]
    BY <2>1, Taken
  <2>3. PICK c : c = [frames |-> wire[1], msg |-> FromPubFrames(wire[1]),
                      issues |-> Issues(FromPubFrames(wire[1]))]
    OBVIOUS
  <2>4. Range(captured') = Range(captured) \cup {c}
    BY <1>4, <2>2, <2>3, CaptureFacts
  <2>5. "transition" \in c.issues => InvalidTransition(FromPubFrames(wire[1]))
    BY <1>4, <2>2, <2>3, CaptureFacts
  <2>6. ASSUME "transition" \in c.issues
        PROVE  \E m \in overlapped' : \E j \in Task :
                  About(m, j)' /\ RankOf(m)' = 2 /\ c.msg.task_id = j /\ m < c.frames[3].n
    <3>1. PICK n \in overlapped, id \in Task :
             /\ About(n, id) /\ RankOf(n) = 2 /\ FromPubFrames(wire[1]).task_id = id
             /\ n < wire[1][3].n
      BY <1>4, <2>5, <2>6, WarningTold
    <3>2. c.msg.task_id = id /\ n < c.frames[3].n
      BY <2>3, <3>1
    <3>3. QED
      BY <1>1, <3>1, <3>2
  <2>7. QED
    BY <1>2, <2>4, <2>6 DEF Warned
<1>5. ASSUME NEW p \in Publisher, NEW data \in TaskData \cup ChipData, Begin(p, data)
      PROVE  captured' = captured
  BY <1>5 DEF Begin
<1>6. SocketChange => captured' = captured
  BY DEF SocketChange
<1>7. QED
  BY <1>3, <1>4, <1>5, <1>6, PubSteps

LEMMA InitTaskInv == Init => TaskInv
<1> SUFFICES ASSUME Init PROVE TaskInv
  OBVIOUS
<1>1. /\ publications = <<>> /\ partial = <<>> /\ wire = <<>> /\ captured = <<>>
      /\ heard = FALSE /\ subscribed = workload.steady /\ workload \in Workload
      /\ taskStatus = [id \in Task |-> Null] /\ phase = [id \in Task |-> "queued"]
  BY DEF Init, PubInit, PVInit
<1>2. DOMAIN publications = {} /\ DOMAIN wire = {} /\ Range(captured) = {} /\ Range(wire) = {}
  BY <1>1 DEF Range
<1>3. Hearing
  <2>1. workload.steady \in BOOLEAN
    BY <1>1, MonitorAssumption
  <2>2. QED
    BY <1>1, <2>1 DEF Hearing
<1>4. \A id \in Task : phase[id] = "queued" /\ taskStatus[id] = Null
  BY <1>1
<1>5. \A id \in Task : Phases(id) /\ InOrder(id) /\ Told(id)
  BY <1>2, <1>4 DEF Phases, InOrder, Told
<1>6. DOMAIN phase = Task /\ Warned
  BY <1>1, <1>2 DEF Warned
<1>7. QED
  BY <1>3, <1>5, <1>6 DEF TaskInv

LEMMA NextTaskInv == PubInv /\ TaskInv /\ [Next]_vars => TaskInv'
<1> SUFFICES ASSUME PubInv, TaskInv, [Next]_vars PROVE TaskInv'
  OBVIOUS
<1>1. DOMAIN phase = Task /\ Hearing /\ \A id \in Task : Phases(id) /\ InOrder(id) /\ Told(id)
  BY DEF TaskInv
<1>2. ASSUME NEW id \in Task PROVE DOMAIN phase' = Task /\ Phases(id)' /\ InOrder(id)' /\ Told(id)'
  BY <1>1, TaskSteps, PhasesKept, InOrderKept, ToldKept
<1>3. Task # {} => DOMAIN phase' = Task
  BY <1>2
<1>4. Task = {} => DOMAIN phase' = Task
  <2> SUFFICES ASSUME Task = {} PROVE phase' = phase
    BY <1>1
  <2>1. QED
    BY DEF Next, Announce, SocketStep, CapturePub, DashboardStep, monitorVars, vars
<1>5. Hearing' /\ Warned'
  BY <1>1, HearingKept, WarnedKept
<1>6. QED
  BY <1>2, <1>3, <1>4, <1>5 DEF TaskInv

LEMMA AlwaysTaskInv == Spec => []TaskInv
<1>1. Init => TaskInv
  BY InitTaskInv
<1>2. PubInv /\ TaskInv /\ [Next]_vars => TaskInv'
  BY NextTaskInv
<1>3. QED
  BY <1>1, <1>2, AlwaysPubInv, PTL DEF Spec

(***************************************************************************)
(* WarningNeedsTear: whatever the order of the threads' sends, the issue   *)
(* _validate_lifecycle reports of a status is due to an earlier status of  *)
(* the task that another publication tore up on the shared socket.         *)
(***************************************************************************)
THEOREM WarningsAreTears == Spec => []WarningNeedsTear
<1>1. PubInv /\ TaskInv => WarningNeedsTear
  <2> SUFFICES ASSUME PubInv, TaskInv, NEW i \in DOMAIN captured,
                      "transition" \in captured[i].issues
               PROVE  \E n \in overlapped :
                         /\ publications[n].operation = "task_status"
                         /\ publications[n].task_id = captured[i].msg.task_id
                         /\ publications[n].status \in {"PENDING", "RUNNING"}
                         /\ n < captured[i].frames[3].n
    BY DEF WarningNeedsTear
  <2>1. captured[i] \in Range(captured)
    BY DEF Range
  <2>2. PICK n \in overlapped, id \in Task :
           /\ About(n, id) /\ RankOf(n) = 2 /\ captured[i].msg.task_id = id
           /\ n < captured[i].frames[3].n
    BY <2>1 DEF TaskInv, Warned
  <2>3. publications[n].operation = "task_status" /\ publications[n].task_id = id
    BY <2>2 DEF About, TaskData
  <2>4. publications[n].status = "RUNNING"
    BY <2>2 DEF RankOf, Rank
  <2>5. QED
    BY <2>2, <2>3, <2>4
<1>2. QED
  BY <1>1, AlwaysPubInv, AlwaysTaskInv, PTL

--------------------------------------------------------------------------------
(***************************************************************************)
(* Broadcasts.  Whoever else changes the set of connections disturbs the   *)
(* broadcasts that run, so that whatever tells the set from the one a      *)
(* broadcast began with is among what has disturbed it.                    *)
(***************************************************************************)
Broadcast == [n : Nat, members : SUBSET Connection, visited : SUBSET Connection,
              dead : SUBSET Connection, disturbed : SUBSET Connection]

Watched(x) == (x.members \ connections) \cup (connections \ x.members) \subseteq x.disturbed

BroadcastInv ==
    /\ workload \in Workload
    /\ DOMAIN handler = Connection
    /\ connections \subseteq {b \in Connection : handler[b] = "open"}
    /\ scheduled \in Seq(Nat) /\ Range(scheduled) \subseteq DOMAIN captured
    /\ \A x \in broadcasts : x \in Broadcast /\ x.n \in DOMAIN captured /\ Watched(x)
    /\ MissedOnlyByChange

\* A send leaves what a broadcast began with, and what disturbed it.
LEMMA SendJsonFacts ==
    ASSUME NEW x \in Broadcast, NEW b \in Connection, NEW others, SendJson(x, b, others)
    PROVE  \A y \in broadcasts' : \/ y \in others
                                  \/ /\ y \in Broadcast /\ y.n = x.n
                                     /\ y.members = x.members /\ y.disturbed = x.disturbed
<1> DEFINE next == [x EXCEPT !.visited = @ \cup {b}]
           gone == [next EXCEPT !.dead = @ \cup {b}]
<1>1. broadcasts' = others \cup {gone} \/ broadcasts' = others \cup {next}
  BY DEF SendJson
<1>2. /\ next \in Broadcast /\ next.n = x.n
      /\ next.members = x.members /\ next.disturbed = x.disturbed
  BY DEF Broadcast
<1> HIDE DEF next
<1>3. /\ gone \in Broadcast /\ gone.n = x.n
      /\ gone.members = x.members /\ gone.disturbed = x.disturbed
  BY <1>2 DEF Broadcast
<1> HIDE DEF gone
<1>4. QED
  BY <1>1, <1>2, <1>3

\* A change of the set disturbs the broadcasts.
LEMMA ChangeWatched ==
    ASSUME NEW x \in Broadcast, Watched(x), NEW change \in SUBSET Connection,
           connections' = connections \cup change \/ connections' = connections \ change,
           NEW y, y = [x EXCEPT !.disturbed = @ \cup change]
    PROVE  y \in Broadcast /\ y.n = x.n /\ Watched(y)'
<1>1. y \in Broadcast /\ y.n = x.n /\ y.members = x.members /\ y.disturbed = x.disturbed \cup change
  BY DEF Broadcast
<1>2. Watched(y)'
  BY <1>1 DEF Watched
<1>3. QED
  BY <1>1, <1>2

LEMMA NextBroadcastInv == PubInv /\ BroadcastInv /\ [Next]_vars => BroadcastInv'
<1> SUFFICES ASSUME PubInv, BroadcastInv, [Next]_vars PROVE BroadcastInv'
  OBVIOUS
<1>w. workload \in Workload /\ workload' = workload
  <2>1. workload' = workload
    BY DEF Next, PublishPending, PublishRunning, PublishFinal, PublishNothing, Announce, SocketStep,
           CapturePub, DashboardStep, monitorVars, vars
  <2>2. QED
    BY <2>1 DEF BroadcastInv
<1>0. /\ DOMAIN handler = Connection
      /\ connections \subseteq {b \in Connection : handler[b] = "open"}
      /\ scheduled \in Seq(Nat) /\ Range(scheduled) \subseteq DOMAIN captured
      /\ \A x \in broadcasts : x \in Broadcast /\ x.n \in DOMAIN captured /\ Watched(x)
      /\ MissedOnlyByChange
  BY DEF BroadcastInv
<1>1. ASSUME UNCHANGED <<wsVars, captured>> PROVE BroadcastInv'
  BY <1>w, <1>0, <1>1 DEF BroadcastInv, wsVars, Watched, MissedOnlyByChange
<1>2. CASE CapturePub
  <2>1. /\ captured \in Seq(CapturedRecord) /\ captured' \in Seq(CapturedRecord)
        /\ Len(captured') = Len(captured) + 1
    <3>1. PICK c : c \in CapturedRecord /\ captured' = Append(captured, c)
      BY <1>2, CaptureFacts
    <3>2. captured \in Seq(CapturedRecord)
      BY DEF PubInv, PubTypes
    <3>3. QED
      BY <3>1, <3>2, Appended
  <2>2. /\ Len(captured) + 1 \in Nat /\ Len(captured) + 1 \in DOMAIN captured'
        /\ DOMAIN captured \subseteq DOMAIN captured'
    BY <2>1, LenProperties
  <2>3. Schedule(Len(captured) + 1)
    BY <1>2 DEF CapturePub
  <2>4. scheduled' = scheduled \/ scheduled' = Append(scheduled, Len(captured) + 1)
    BY <2>3 DEF Schedule
  <2>5. /\ Append(scheduled, Len(captured) + 1) \in Seq(Nat)
        /\ Range(Append(scheduled, Len(captured) + 1)) = Range(scheduled) \cup {Len(captured) + 1}
    BY <1>0, <2>2, Appended
  <2>6. scheduled' \in Seq(Nat) /\ Range(scheduled') \subseteq DOMAIN captured'
    BY <1>0, <2>2, <2>4, <2>5
  <2>7. UNCHANGED <<handler, connections, broadcasts, missed>>
    BY <2>3 DEF Schedule
  <2>8. QED
    BY <1>w, <1>0, <2>2, <2>6, <2>7 DEF BroadcastInv, Watched, MissedOnlyByChange
<1>3. ASSUME DashboardStep PROVE BroadcastInv'
  <2>1. captured' = captured
    BY <1>3 DEF DashboardStep, monitorVars
  <2>2. ASSUME NEW b \in Connection, Accept(b) \/ Close(b) PROVE BroadcastInv'
    <3>1. /\ UNCHANGED <<connections, scheduled, broadcasts, missed>>
          /\ DOMAIN handler' = Connection
          /\ connections \subseteq {c \in Connection : handler'[c] = "open"}
      BY <1>0, <2>2 DEF Accept, Close
    <3>2. QED
      BY <1>w, <1>0, <2>1, <3>1 DEF BroadcastInv, Watched, MissedOnlyByChange
  <2>3. ASSUME NEW b \in Connection, Connect(b) PROVE BroadcastInv'
    <3>1. /\ UNCHANGED <<scheduled, missed>>
          /\ DOMAIN handler' = Connection /\ connections' = connections \cup {b}
          /\ connections' \subseteq {c \in Connection : handler'[c] = "open"}
      BY <1>0, <2>3 DEF Connect
    <3>2. ASSUME NEW y \in broadcasts'
          PROVE  y \in Broadcast /\ y.n \in DOMAIN captured /\ Watched(y)'
      <4>1. PICK x \in broadcasts : y = [x EXCEPT !.disturbed = @ \cup {b}]
        BY <2>3, <3>2 DEF Connect, Disturb
      <4>2. x \in Broadcast /\ x.n \in DOMAIN captured /\ Watched(x) /\ {b} \in SUBSET Connection
        BY <1>0
      <4>3. QED
        BY <3>1, <4>1, <4>2, ChangeWatched
    <3>3. QED
      BY <1>w, <1>0, <2>1, <3>1, <3>2 DEF BroadcastInv, MissedOnlyByChange
  <2>4. ASSUME NEW b \in Connection, Disconnect(b) PROVE BroadcastInv'
    <3>1. /\ UNCHANGED <<scheduled, missed>>
          /\ DOMAIN handler' = Connection /\ connections' = connections \ {b}
          /\ connections' \subseteq {c \in Connection : handler'[c] = "open"}
      BY <1>0, <2>4 DEF Disconnect
    <3>2. ASSUME NEW y \in broadcasts'
          PROVE  y \in Broadcast /\ y.n \in DOMAIN captured /\ Watched(y)'
      <4>1. CASE b \in connections
        <5>1. PICK x \in broadcasts : y = [x EXCEPT !.disturbed = @ \cup {b}]
          BY <2>4, <3>2, <4>1 DEF Disconnect, Disturb
        <5>2. x \in Broadcast /\ x.n \in DOMAIN captured /\ Watched(x) /\ {b} \in SUBSET Connection
          BY <1>0
        <5>3. QED
          BY <3>1, <5>1, <5>2, ChangeWatched
      <4>2. CASE b \notin connections
        <5>1. y \in broadcasts /\ connections' = connections
          BY <2>4, <3>1, <3>2, <4>2 DEF Disconnect
        <5>2. QED
          BY <1>0, <5>1 DEF Watched
      <4>3. QED
        BY <4>1, <4>2
    <3>3. QED
      BY <1>w, <1>0, <2>1, <3>1, <3>2 DEF BroadcastInv, MissedOnlyByChange
  <2>5. ASSUME StartBroadcast PROVE BroadcastInv'
    <3>1. /\ scheduled # <<>> /\ scheduled' = Tail(scheduled)
          /\ UNCHANGED <<handler, connections, missed>>
      BY <2>5 DEF StartBroadcast
    <3>2. /\ scheduled' \in Seq(Nat) /\ Head(scheduled) \in Nat
          /\ Range(scheduled) = Range(scheduled') \cup {Head(scheduled)}
      BY <1>0, <3>1, Taken
    <3> DEFINE x == [n |-> Head(scheduled), members |-> connections, visited |-> {},
                     dead |-> {}, disturbed |-> {}]
    <3>3. x \in Broadcast /\ x.n \in DOMAIN captured /\ Watched(x)
      <4>1. connections \in SUBSET Connection /\ Head(scheduled) \in DOMAIN captured
        BY <1>0, <3>2
      <4>2. QED
        BY <3>2, <4>1 DEF Broadcast, Watched
    <3>4. \/ broadcasts' = broadcasts
          \/ \E b \in connections : SendJson(x, b, broadcasts)
      BY <2>5 DEF StartBroadcast
    <3> HIDE DEF x
    <3>5. ASSUME NEW y \in broadcasts'
          PROVE  y \in Broadcast /\ y.n \in DOMAIN captured /\ Watched(y)'
      <4>1. CASE y \in broadcasts
        BY <1>0, <3>1, <4>1 DEF Watched
      <4>2. CASE y \in Broadcast /\ y.n = x.n /\ y.members = x.members /\ y.disturbed = x.disturbed
        BY <3>1, <3>3, <4>2 DEF Watched
      <4>3. QED
        BY <1>0, <3>3, <3>4, <3>5, <4>1, <4>2, SendJsonFacts
    <3>6. QED
      BY <1>w, <1>0, <2>1, <3>1, <3>2, <3>5 DEF BroadcastInv, MissedOnlyByChange
  <2>6. ASSUME NEW x \in broadcasts, NEW b \in connections, NextConnection(x, b)
        PROVE  BroadcastInv'
    <3>1. /\ SendJson(x, b, broadcasts \ {x})
          /\ UNCHANGED <<handler, connections, scheduled, missed>>
      BY <2>6 DEF NextConnection
    <3>2. x \in Broadcast /\ x.n \in DOMAIN captured /\ Watched(x) /\ b \in Connection
      BY <1>0
    <3>3. ASSUME NEW y \in broadcasts'
          PROVE  y \in Broadcast /\ y.n \in DOMAIN captured /\ Watched(y)'
      <4>1. CASE y \in broadcasts
        BY <1>0, <3>1, <4>1 DEF Watched
      <4>2. CASE y \in Broadcast /\ y.n = x.n /\ y.members = x.members /\ y.disturbed = x.disturbed
        BY <3>1, <3>2, <4>2 DEF Watched
      <4>3. QED
        BY <3>1, <3>2, <3>3, <4>1, <4>2, SendJsonFacts
    <3>4. QED
      BY <1>w, <1>0, <2>1, <3>1, <3>3 DEF BroadcastInv, MissedOnlyByChange
  <2>7. ASSUME NEW x \in broadcasts, BroadcastRaises(x) PROVE BroadcastInv'
    <3>1. /\ SizeChanged(x) /\ broadcasts' = broadcasts \ {x} /\ missed' = missed \cup Missed(x)
          /\ UNCHANGED <<handler, connections, scheduled>>
      BY <2>7 DEF BroadcastRaises
    <3>2. x.members # connections
      BY <3>1 DEF SizeChanged
    <3>3. ASSUME NEW m \in Missed(x) PROVE m.disturbed \ {m.connection} # {}
      <4>1. m.disturbed = x.disturbed /\ m.connection \in x.members \cap connections
        BY <3>3 DEF Missed
      <4>2. PICK e : e \in (x.members \ connections) \cup (connections \ x.members)
        BY <3>2
      <4>3. e \in x.disturbed /\ e # m.connection
        BY <1>0, <4>1, <4>2 DEF Watched
      <4>4. QED
        BY <4>1, <4>3
    <3>4. MissedOnlyByChange'
      BY <1>0, <3>1, <3>3 DEF MissedOnlyByChange
    <3>5. QED
      BY <1>w, <1>0, <2>1, <3>1, <3>4 DEF BroadcastInv, Watched
  <2>8. ASSUME NEW x \in broadcasts, EndBroadcast(x) PROVE BroadcastInv'
    <3>1. PICK gone : gone = connections \cap x.dead
      OBVIOUS
    <3>2. /\ connections' = connections \ gone
          /\ broadcasts' = {[y EXCEPT !.disturbed = @ \cup gone] : y \in broadcasts \ {x}}
          /\ UNCHANGED <<handler, scheduled, missed>>
      BY <2>8, <3>1 DEF EndBroadcast
    <3>3. gone \in SUBSET Connection
      BY <1>0, <3>1
    <3>4. ASSUME NEW y \in broadcasts'
          PROVE  y \in Broadcast /\ y.n \in DOMAIN captured /\ Watched(y)'
      <4>1. PICK z \in broadcasts : y = [z EXCEPT !.disturbed = @ \cup gone]
        BY <3>2, <3>4
      <4>2. z \in Broadcast /\ z.n \in DOMAIN captured /\ Watched(z)
        BY <1>0
      <4>3. QED
        BY <3>2, <3>3, <4>1, <4>2, ChangeWatched
    <3>5. QED
      BY <1>w, <1>0, <2>1, <3>2, <3>4 DEF BroadcastInv, MissedOnlyByChange
  <2>9. workload.browsers \subseteq Connection
    BY <1>w, MonitorAssumption
  <2>10. QED
    BY <1>3, <2>2, <2>3, <2>4, <2>5, <2>6, <2>7, <2>8, <2>9 DEF DashboardStep, BroadcastStep, BrowserStep
<1>4. QED
  <2>1. \/ UNCHANGED <<wsVars, captured>> \/ CapturePub \/ DashboardStep
    BY DEF Next, PublishPending, PublishRunning, PublishFinal, PublishNothing, Announce, SocketStep,
           monitorVars, vars
  <2>2. QED
    BY <1>1, <1>2, <1>3, <2>1

LEMMA AlwaysBroadcastInv == Spec => []BroadcastInv
<1>1. Init => BroadcastInv
  <2> SUFFICES ASSUME Init PROVE BroadcastInv
    OBVIOUS
  <2>1. /\ workload \in Workload /\ handler = [b \in Connection |-> "away"] /\ connections = {}
        /\ scheduled = <<>> /\ broadcasts = {} /\ missed = {}
    BY DEF Init, WSInit
  <2>2. scheduled \in Seq(Nat) /\ Range(scheduled) = {}
    BY <2>1, EmptySeq DEF Range
  <2>3. QED
    BY <2>1, <2>2 DEF BroadcastInv, MissedOnlyByChange
<1>2. PubInv /\ BroadcastInv /\ [Next]_vars => BroadcastInv'
  BY NextBroadcastInv
<1>3. QED
  BY <1>1, <1>2, AlwaysPubInv, PTL DEF Spec

(***************************************************************************)
(* MissedOnlyByChange: _broadcast, which iterates over the set while       *)
(* others change it, fails a browser that stays only if another one came   *)
(* or went meanwhile.                                                      *)
(***************************************************************************)
THEOREM OnlyChangeLosesBroadcasts == Spec => []MissedOnlyByChange
<1>1. BroadcastInv => MissedOnlyByChange
  BY DEF BroadcastInv
<1>2. QED
  BY <1>1, AlwaysBroadcastInv, PTL

--------------------------------------------------------------------------------
(***************************************************************************)
(* How long a message can become: a thread has at most a topic and an      *)
(* operation among the frames since the last message.                      *)
(***************************************************************************)
Distinct ==
    /\ IsInjective(partial)
    /\ \A i \in DOMAIN partial, p \in Publisher :
          partial[i].kind = "operation" /\ Halfway(p) /\ sending[p].n = partial[i].n =>
             sending[p].frame = "data"
    /\ \A i \in DOMAIN wire : Len(wire[i]) <= 3 * Cardinality(Publisher)

LEMMA PartialIsShort ==
    ASSUME PubInv, Distinct
    PROVE  /\ Len(partial) \in Nat /\ Cardinality(Publisher) \in Nat
           /\ Len(partial) + 1 <= 3 * Cardinality(Publisher)
<1>1. partial \in Seq(FrameRecord) /\ Len(partial) \in Nat /\ DOMAIN partial = 1 .. Len(partial)
  BY LenProperties DEF PubInv, PubTypes
<1> DEFINE owner(i) == CHOOSE p \in Publisher : Halfway(p) /\ sending[p].n = partial[i].n
           f == [i \in 1 .. Len(partial) |-> <<owner(i), partial[i].kind>>]
           T == Publisher \X {"topic", "operation"}
<1>2. \A i \in DOMAIN partial : owner(i) \in Publisher /\ sending[owner(i)].n = partial[i].n
  BY DEF PubInv, Socket
<1>3. \A i \in DOMAIN partial : partial[i] \in FrameRecord /\ partial[i].kind \in {"topic", "operation"}
  <2>1. \A i \in DOMAIN partial : partial[i] \in FrameRecord /\ partial[i].kind # "data"
    BY <1>1, ElementOfSeq DEF PubInv, Socket
  <2>2. QED
    BY <2>1 DEF FrameRecord
<1> HIDE DEF owner
<1>4. f \in [1 .. Len(partial) -> T]
  BY <1>1, <1>2, <1>3
<1>5. IsInjective(f)
  <2> SUFFICES ASSUME NEW i \in 1 .. Len(partial), NEW j \in 1 .. Len(partial), f[i] = f[j]
               PROVE  i = j
    BY DEF IsInjective
  <2>1. owner(i) = owner(j) /\ partial[i].kind = partial[j].kind
    OBVIOUS
  <2>2. partial[i].n = partial[j].n
    BY <1>1, <1>2, <2>1
  <2>3. partial[i] = partial[j]
    <3>1. partial[i] \in FrameRecord /\ partial[j] \in FrameRecord
      BY <1>1, <1>3
    <3>2. QED
      BY <2>1, <2>2, <3>1 DEF FrameRecord
  <2>4. QED
    BY <1>1, <2>3 DEF Distinct, IsInjective
<1>6. f \in Injection(1 .. Len(partial), T)
  BY <1>4, <1>5 DEF Injection
<1> HIDE DEF f
<1>7. IsFiniteSet(Publisher) /\ Cardinality(Publisher) \in Nat /\ Cardinality(Publisher) # 0
  <2>1. IsFiniteSet(Publisher) /\ Publisher # {}
    BY PubAssumption, MonitorAssumption
  <2>2. QED
    BY <2>1, FS_CardinalityType, FS_EmptySet
<1>8. IsFiniteSet({"topic", "operation"}) /\ Cardinality({"topic", "operation"}) = 2
  <2>1. IsFiniteSet({"topic"}) /\ Cardinality({"topic"}) = 1
    BY FS_Singleton
  <2>2. /\ IsFiniteSet({"topic"} \cup {"operation"})
        /\ Cardinality({"topic"} \cup {"operation"}) = 2
    BY <2>1, FS_AddElement
  <2>3. {"topic"} \cup {"operation"} = {"topic", "operation"}
    OBVIOUS
  <2>4. QED
    BY <2>2, <2>3
<1>9. IsFiniteSet(T) /\ Cardinality(T) = Cardinality(Publisher) * 2
  BY <1>7, <1>8, FS_Product
<1> HIDE DEF T
<1>10. Cardinality(1 .. Len(partial)) <= Cardinality(T)
  BY <1>6, <1>9, FS_Injection
<1>11. Cardinality(1 .. Len(partial)) = Len(partial)
  BY <1>1, FS_Interval
<1>12. QED
  BY <1>1, <1>7, <1>9, <1>10, <1>11

LEMMA DistinctKept == PubInv /\ Distinct /\ [Next]_vars => Distinct'
<1> SUFFICES ASSUME PubInv, Distinct, [Next]_vars PROVE Distinct'
  OBVIOUS
<1>1. ASSUME partial' = partial \/ partial' = <<>>,
             \A p \in Publisher : Halfway(p)' => Halfway(p) /\ sending'[p] = sending[p],
             \A i \in DOMAIN wire' : Len(wire'[i]) <= 3 * Cardinality(Publisher)
      PROVE  Distinct'
  <2>1. IsInjective(partial)
    BY DEF Distinct
  <2>2. IsInjective(partial')
    BY <1>1, <2>1 DEF IsInjective
  <2>3. \A i \in DOMAIN partial' : i \in DOMAIN partial /\ partial'[i] = partial[i]
    BY <1>1
  <2>4. \A i \in DOMAIN partial', p \in Publisher :
           partial'[i].kind = "operation" /\ Halfway(p)' /\ sending'[p].n = partial'[i].n =>
              sending'[p].frame = "data"
    BY <1>1, <2>3 DEF Distinct
  <2>5. QED
    BY <1>1, <2>2, <2>4 DEF Distinct
<1>2. \A i \in DOMAIN wire : Len(wire[i]) <= 3 * Cardinality(Publisher)
  BY DEF Distinct
<1>3. ASSUME NEW p \in Publisher, NEW data \in TaskData \cup ChipData, Begin(p, data)
      PROVE  Distinct'
  <2>1. partial' = partial /\ wire' = wire
    BY <1>3 DEF Begin
  <2>2. \A q \in Publisher : Halfway(q)' => Halfway(q) /\ sending'[q] = sending[q]
    BY <1>3, BeginFacts DEF Halfway
  <2>3. QED
    BY <1>1, <1>2, <2>1, <2>2
<1>4. ASSUME CapturePub PROVE Distinct'
  <2>1. /\ UNCHANGED <<partial, sending>> /\ wire # <<>> /\ wire' = Tail(wire)
        /\ wire \in Seq(Seq(FrameRecord))
    BY <1>4, CaptureFacts DEF PubInv, PubTypes
  <2>2. \A i \in DOMAIN wire' : i + 1 \in DOMAIN wire /\ wire'[i] = wire[i + 1]
    BY <2>1, Taken
  <2>3. QED
    BY <1>1, <1>2, <2>1, <2>2 DEF Halfway
<1>5. ASSUME NEW p \in Publisher, SendFrame(p) PROVE Distinct'
  <2> DEFINE n == sending[p].n
             F == Frame(p)
  <2>1. /\ n \in DOMAIN publications /\ F = [n |-> n, kind |-> sending[p].frame] /\ F \in FrameRecord
        /\ \A q \in Publisher \ {p} : sending'[q] = sending[q]
        /\ sending[p].frame \in {"topic", "operation", "data"} /\ ~Idle(p)
    <3>1. F = [n |-> n, kind |-> sending[p].frame]
      BY DEF Frame
    <3>2. QED
      BY <1>5, <3>1, SendFrameFacts
  <2>2. partial \in Seq(FrameRecord) /\ wire \in Seq(Seq(FrameRecord)) /\ IsInjective(partial)
    BY DEF PubInv, PubTypes, Distinct
  <2>3. CASE sending[p].frame = "data"
    <3>1. partial' = <<>> /\ sending'[p] = Nothing
      BY <1>5, <2>3, SendFrameFacts
    <3>2. \A q \in Publisher : Halfway(q)' => Halfway(q) /\ sending'[q] = sending[q]
      BY <2>1, <3>1 DEF Halfway, Nothing
    <3>3. wire' = wire \/ wire' = Append(wire, Append(partial, F))
      <4>1. wire' = IF heard' THEN Append(wire, Append(partial, F)) ELSE wire
        BY <1>5, <2>3, SendFrameFacts
      <4>2. QED
        BY <4>1
    <3> HIDE DEF F
    <3>4. /\ Append(partial, F) \in Seq(FrameRecord)
          /\ Len(Append(partial, F)) = Len(partial) + 1
      BY <2>1, <2>2, Appended
    <3>5. Len(Append(partial, F)) <= 3 * Cardinality(Publisher)
      BY <3>4, PartialIsShort
    <3>6. \A i \in DOMAIN wire' : Len(wire'[i]) <= 3 * Cardinality(Publisher)
      <4>1. CASE wire' = wire
        BY <1>2, <4>1
      <4>2. CASE wire' = Append(wire, Append(partial, F))
        <5>1. /\ DOMAIN wire = 1 .. Len(wire) /\ DOMAIN wire' = 1 .. Len(wire) + 1
              /\ Len(wire) \in Nat
              /\ \A i \in 1 .. Len(wire) : wire'[i] = wire[i]
              /\ wire'[Len(wire) + 1] = Append(partial, F)
          BY <2>2, <3>4, <4>2, Appended
        <5>2. \A i \in DOMAIN wire' : i \in DOMAIN wire \/ i = Len(wire) + 1
          BY <5>1
        <5>3. QED
          BY <1>2, <3>5, <5>1, <5>2
      <4>3. QED
        BY <3>3, <4>1, <4>2
    <3>7. QED
      BY <1>1, <3>1, <3>2, <3>6
  <2>4. CASE sending[p].frame \in {"topic", "operation"}
    <3>1. partial' = Append(partial, F) /\ wire' = wire
      BY <1>5, <2>4, SendFrameFacts
    <3>2. /\ sending'[p].n = n
          /\ sending'[p].frame = IF sending[p].frame = "topic" THEN "operation" ELSE "data"
      <4>1. CASE sending[p].frame = "topic"
        <5>1. sending'[p] = [n |-> n, frame |-> "operation"]
          BY <1>5, <4>1, SendFrameFacts
        <5>2. QED
          BY <4>1, <5>1
      <4>2. CASE sending[p].frame = "operation"
        <5>1. sending'[p] = [n |-> n, frame |-> "data"]
          BY <1>5, <4>2, SendFrameFacts
        <5>2. QED
          BY <4>2, <5>1
      <4>3. QED
        BY <2>4, <4>1, <4>2
    <3>3. \A q \in Publisher \ {p} : Halfway(q) => sending[q].n # n
      BY <2>1 DEF PubInv, Threads, Halfway, Idle
    <3>4. F \notin Range(partial)
      <4> SUFFICES ASSUME NEW i \in DOMAIN partial, partial[i] = F PROVE FALSE
        BY DEF Range
      <4>1. partial[i].n = n /\ partial[i].kind = sending[p].frame
        BY <2>1
      <4>2. PICK q \in Publisher : Halfway(q) /\ sending[q].n = partial[i].n
        BY DEF PubInv, Socket
      <4>3. q = p
        BY <3>3, <4>1, <4>2
      <4>4. sending[p].frame = "operation"
        BY <2>4, <4>2, <4>3 DEF Halfway
      <4>5. sending[p].frame = "data"
        BY <4>1, <4>2, <4>3, <4>4 DEF Distinct
      <4>6. QED
        BY <4>4, <4>5
    <3> HIDE DEF n, F
    <3>5. /\ IsInjective(partial')
          /\ DOMAIN partial = 1 .. Len(partial) /\ DOMAIN partial' = 1 .. Len(partial) + 1
          /\ Len(partial) \in Nat
          /\ \A i \in 1 .. Len(partial) : partial'[i] = partial[i]
          /\ partial'[Len(partial) + 1] = F
      BY <2>1, <2>2, <3>1, <3>4, Appended
    <3>6. ASSUME NEW i \in DOMAIN partial', NEW q \in Publisher, partial'[i].kind = "operation",
                 Halfway(q)', sending'[q].n = partial'[i].n
          PROVE  sending'[q].frame = "data"
      <4>1. CASE i \in DOMAIN partial
        <5>1. partial'[i] = partial[i]
          BY <3>5, <4>1
        <5>2. CASE q # p
          BY <2>1, <3>6, <4>1, <5>1, <5>2 DEF Distinct, Halfway
        <5>3. CASE q = p
          <6>1. partial[i].n = n
            BY <3>2, <3>6, <5>1, <5>3
          <6>2. PICK o \in Publisher : Halfway(o) /\ sending[o].n = partial[i].n
            BY <4>1 DEF PubInv, Socket
          <6>3. o = p
            BY <3>3, <6>1, <6>2
          <6>4. sending[p].frame = "operation"
            BY <2>4, <6>2, <6>3 DEF Halfway
          <6>5. QED
            BY <3>2, <5>3, <6>4
        <5>4. QED
          BY <5>2, <5>3
      <4>2. CASE i = Len(partial) + 1
        <5>1. partial'[i] = F /\ F.n = n /\ F.kind = sending[p].frame
          BY <2>1, <3>5, <4>2
        <5>2. q = p
          <6>1. ASSUME q # p PROVE FALSE
            BY <2>1, <3>3, <3>6, <5>1, <6>1 DEF Halfway
          <6>2. QED
            BY <6>1
        <5>3. sending[p].frame = "operation"
          BY <3>6, <5>1
        <5>4. QED
          BY <3>2, <5>2, <5>3
      <4>3. QED
        BY <3>5, <4>1, <4>2
    <3>7. QED
      BY <1>2, <3>1, <3>5, <3>6 DEF Distinct
  <2>5. QED
    BY <2>1, <2>3, <2>4
<1>6. ASSUME NEW p \in Publisher, SendRaises(p) PROVE Distinct'
  <2>1. sending' = [sending EXCEPT ![p] = Nothing] /\ UNCHANGED <<partial, wire>>
    BY <1>6 DEF SendRaises
  <2>2. DOMAIN sending = Publisher
    BY DEF PubInv, PubTypes
  <2>3. \A q \in Publisher : Halfway(q)' => Halfway(q) /\ sending'[q] = sending[q]
    BY <2>1, <2>2 DEF Halfway, Nothing
  <2>4. QED
    BY <1>1, <1>2, <2>1, <2>3
<1>7. ASSUME StopPublishing \/ CloseSocket \/ Subscribe PROVE Distinct'
  <2>1. UNCHANGED <<sending, wire>> /\ (partial' = partial \/ partial' = <<>>)
    BY <1>7 DEF StopPublishing, CloseSocket, Subscribe
  <2>2. QED
    BY <1>1, <1>2, <2>1 DEF Halfway
<1>8. CASE UNCHANGED <<pubVars, captured, taskStatus>>
  BY <1>1, <1>2, <1>8 DEF pubVars, Halfway
<1>9. CASE SocketChange
  BY <1>5, <1>6, <1>7, <1>9 DEF SocketChange
<1>10. QED
  BY <1>3, <1>4, <1>8, <1>9, PubSteps

LEMMA AlwaysDistinct == Spec => []Distinct
<1>1. Init => Distinct
  <2> SUFFICES ASSUME Init PROVE Distinct
    OBVIOUS
  <2>1. DOMAIN partial = {} /\ DOMAIN wire = {}
    BY DEF Init, PubInit
  <2>2. QED
    BY <2>1 DEF Distinct, IsInjective
<1>2. PubInv /\ Distinct /\ [Next]_vars => Distinct'
  BY DistinctKept
<1>3. QED
  BY <1>1, <1>2, AlwaysPubInv, PTL DEF Spec

(***************************************************************************)
(* MonitorTypeOK: the state of the socket, the validator and the           *)
(* connections stays what the code of the three takes it to be, and a      *)
(* message on the wire never has more than three frames of each thread.    *)
(***************************************************************************)
THEOREM MonitorType == Spec => []MonitorTypeOK
<1>1. PubInv /\ BroadcastInv /\ Distinct => MonitorTypeOK
  <2> SUFFICES ASSUME PubInv, BroadcastInv, Distinct PROVE MonitorTypeOK
    OBVIOUS
  <2>1. running \in BOOLEAN /\ open \in BOOLEAN
    BY DEF PubInv, PubTypes
  <2>2. \A p \in Publisher : ~Idle(p) => sending[p].n \in DOMAIN publications
    BY DEF PubInv, Threads
  <2>3. \A i \in DOMAIN wire : Len(wire[i]) <= 3 * Cardinality(Publisher)
    BY DEF Distinct
  <2>4. taskStatus \in [Task -> {Null, "PENDING", "RUNNING", "SUCCESSED", "FAILED"}]
    <3>1. Status \cup {Null} = {Null, "PENDING", "RUNNING", "SUCCESSED", "FAILED"}
      BY DEF Status
    <3>2. QED
      BY <3>1 DEF PubInv, PubTypes
  <2>5. connections \subseteq {b \in Connection : handler[b] = "open"}
    BY DEF BroadcastInv
  <2>6. \A x \in broadcasts : x.visited \subseteq Connection /\ x.n \in DOMAIN captured
    BY DEF BroadcastInv, Broadcast
  <2>7. QED
    BY <2>1, <2>2, <2>3, <2>4, <2>5, <2>6 DEF MonitorTypeOK
<1>2. QED
  BY <1>1, AlwaysPubInv, AlwaysBroadcastInv, AlwaysDistinct, PTL
================================================================================
