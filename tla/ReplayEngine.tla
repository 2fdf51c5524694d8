----------------------------- MODULE ReplayEngine -----------------------------
(***************************************************************************)
(* class ReplayEngine of pilotprobe/replay/engine.py: sends the recorded   *)
(* requests of one quantum system to its simulator again and compares the  *)
(* replies with the recorded responses.                                    *)
(*                                                                         *)
(* The simulator is external: it answers requests in the order they come   *)
(* and sends the result of an accepted task at any time, even before the   *)
(* acknowledgement (module RouterServer; its table does not fill up here). *)
(* Requests of a type without a reply are "silent", those whose handler    *)
(* raises "broken".  External too is the recording of what it says to its  *)
(* clients, by the router proxy (module RouterProxy): a PilotProbe that    *)
(* is restarted on its database has missed responses, and has recorded     *)
(* some to requests it lost.                                               *)
(*                                                                         *)
(* A row of messages is known by its id, its place.  A response carries    *)
(* the id of the request it answers, or 0 if that was not recorded, which  *)
(* no code reads.                                                          *)
(***************************************************************************)
EXTENDS Naturals, Sequences, FiniteSets, SequencesExt

CONSTANTS
    Task,           \* task ids
    Offered,        \* requests clients may send
    Unasked,        \* responses to requests that were not recorded
    Null,           \* no SN, no task id
    MaxWork         \* bound: recorded requests and replay sessions together

\* How a request is answered, if it is.
AnswerType == [MsgTask |-> "MsgTaskAck", MsgGetToken |-> "MsgGetTokenAck",
               broken |-> "UndefinedMsg"]

ResponseTypes == {"MsgTaskAck", "MsgTaskResult", "MsgGetTokenAck", "UndefinedMsg"}

ASSUME ReplayAssumption == MaxWork \in Nat
ASSUME OfferedAssumption ==
    \A request \in Offered :
        /\ DOMAIN request = {"msg_type", "sn", "task_id"}
        /\ request.msg_type \in {"MsgTask", "MsgGetToken", "broken", "silent"}
ASSUME UnaskedAssumption ==
    \A row \in Unasked :
        /\ row = [direction |-> "RESPONSE", msg_type |-> row.msg_type, err_code |-> row.err_code,
                  sn |-> row.sn, task_id |-> row.task_id, of |-> 0]
        /\ row.msg_type \in ResponseTypes /\ row.err_code \in {0, 1}

VARIABLES
    messages,       \* the table messages
    toSimulator,    \* requests the simulator has not taken
    held,           \* task ids in its table
    outstanding,    \* requests of accepted tasks without a result
    at,             \* record, next, wait, poll, closing, done
    session,        \* number of the replay session
    requests,       \* ids of the requests to replay
    sent,           \* how many of them were sent
    reachable,      \* the simulator can be reached
    inbox,          \* replies the DEALER socket holds
    replies,        \* replayed_responses
    results,        \* the replies the session reports, per request
    answers,        \* what the simulator answered to each request of the session
    late            \* requests a reply to which came when nobody waited for it

simulatorVars == <<toSimulator, held, outstanding>>
sessionVars == <<at, session, requests, sent, reachable, replies, results>>
vars == <<messages, simulatorVars, sessionVars, inbox, answers, late>>

Init ==
    /\ messages = <<>>
    /\ toSimulator = <<>> /\ held = {} /\ outstanding = {}
    /\ at = "record" /\ session = 0
    /\ requests = <<>> /\ sent = 0
    /\ reachable = TRUE
    /\ inbox = <<>> /\ replies = <<>> /\ results = <<>>
    /\ answers = <<>> /\ late = {}

--------------------------------------------------------------------------------
\* The numbers of S in their order, and the rows at those places.
Ascending(S) == [k \in 1 .. Cardinality(S) |-> CHOOSE i \in S : Cardinality({j \in S : j <= i}) = k]

Selected(rows, S) == [k \in 1 .. Cardinality(S) |-> rows[Ascending(S)[k]]]

--------------------------------------------------------------------------------
(* The simulator                                                           *)

\* A token is granted without an SN, and what went wrong is told under SN 0.
Response(request, msg_type, err_code) ==
    [direction |-> "RESPONSE", msg_type |-> msg_type, err_code |-> err_code,
     sn |-> IF request.msg_type = "MsgGetToken" THEN Null
            ELSE IF request.msg_type = "broken" THEN 0 ELSE request.sn,
     task_id |-> IF msg_type = "MsgTaskResult" THEN request.task_id ELSE Null,
     of |-> request.id]

\* What the simulator says to a request, and whether it owes a result.
Answers(request) ==
    LET ack(err_code) == Response(request, AnswerType[request.msg_type], err_code)
    IN IF request.msg_type = "MsgTask" /\ request.task_id \notin held
         THEN {[replies |-> <<ack(0)>>, owes |-> TRUE],
               [replies |-> <<Response(request, "MsgTaskResult", 0), ack(0)>>, owes |-> FALSE]}
         ELSE IF request.msg_type = "silent" THEN {[replies |-> <<>>, owes |-> FALSE]}
         ELSE {[replies |-> <<ack(IF request.msg_type = "MsgGetToken" THEN 0 ELSE 1)>>, owes |-> FALSE]}

\* It takes the next request; Say(rs) is where its replies go.
TakeRequest(Say(_, _)) ==
    /\ toSimulator # <<>>
    /\ toSimulator' = Tail(toSimulator)
    /\ LET request == Head(toSimulator)
       IN /\ held' = held \cup (IF request.msg_type = "MsgTask" THEN {request.task_id} ELSE {})
          /\ \E answer \in Answers(request) :
                /\ Say(request, answer.replies)
                /\ outstanding' = outstanding \cup (IF answer.owes THEN {request} ELSE {})

FinishTask(request, Say(_, _)) ==
    /\ request \in outstanding
    /\ outstanding' = outstanding \ {request}
    /\ Say(request, <<Response(request, "MsgTaskResult", 0)>>)
    /\ UNCHANGED <<toSimulator, held>>

--------------------------------------------------------------------------------
(* The recording                                                           *)

IsRequest(row) == row.direction = "REQUEST"

Recorded == Cardinality({i \in DOMAIN messages : IsRequest(messages[i]) \/ messages[i].of = 0})

RecordRequest(request) ==
    LET row == [id |-> Len(messages) + 1, direction |-> "REQUEST", session |-> 0,
                msg_type |-> request.msg_type, sn |-> request.sn, task_id |-> request.task_id]
    IN /\ at = "record" /\ Recorded < MaxWork
       /\ messages' = Append(messages, row)
       /\ toSimulator' = Append(toSimulator, row)
       /\ UNCHANGED <<held, outstanding, sessionVars, inbox, answers, late>>

\* Responses are recorded unless PilotProbe is down when they come.
RecordResponse ==
    LET record(request, rs) ==
            \E heard \in SUBSET DOMAIN rs : messages' = messages \o Selected(rs, heard)
    IN /\ at = "record"
       /\ TakeRequest(record) \/ \E request \in outstanding : FinishTask(request, record)
       /\ UNCHANGED <<sessionVars, inbox, answers, late>>

RecordUnasked(row) ==
    /\ at = "record" /\ Recorded < MaxWork
    /\ messages' = Append(messages, row)
    /\ UNCHANGED <<simulatorVars, sessionVars, inbox, answers, late>>

--------------------------------------------------------------------------------
(* What the engine reads from the database                                 *)

\* Mutant: whatever was recorded of the task is replayed.
GetMessages(task_id) ==
    Ascending({i \in DOMAIN messages : task_id \in {Null, messages[i].task_id}})

\* get_requests, in the order of time, in which they were recorded.
GetRequests(task_id) ==
    Ascending({i \in DOMAIN messages :
                  IsRequest(messages[i]) /\ task_id \in {Null, messages[i].task_id}})

\* WHERE sn = ?, which NULL fails.
SameSn(row, sn) == row.sn = sn /\ sn # Null

RequestPlaces(sn) == {i \in DOMAIN messages : IsRequest(messages[i]) /\ SameSn(messages[i], sn)}
ResponsePlaces(sn) == {i \in DOMAIN messages : ~IsRequest(messages[i]) /\ SameSn(messages[i], sn)}

ResponsesOf(sn) == Selected(messages, ResponsePlaces(sn))

EndsInAck(row) == row.msg_type \in {"MsgTaskAck", "MsgGetTokenAck"}

\* Mutant: the group before the first acknowledgement counts even when empty.
GroupFromFirstAck(rows) ==
    LET begins == Ascending({i \in DOMAIN rows : EndsInAck(rows[i])})
        from(g) == IF g = 1 THEN 1 ELSE begins[g - 1]
        to(g) == IF g = Len(begins) + 1 THEN Len(rows) ELSE begins[g] - 1
    IN IF rows = <<>> THEN <<>>
       ELSE [g \in 1 .. Len(begins) + 1 |-> SubSeq(rows, from(g), to(g))]

\* A group begins with the first response and with each acknowledgement.
Groups(rows) ==
    LET begins == Ascending({i \in DOMAIN rows : i = 1 \/ EndsInAck(rows[i])})
        end(g) == IF g = Len(begins) THEN Len(rows) ELSE begins[g + 1] - 1
    IN [g \in DOMAIN begins |-> SubSeq(rows, begins[g], end(g))]

\* Mutant: the place among the requests that are replayed.
GroupOfReplayed(id) ==
    LET sn == messages[id].sn
        index == Cardinality({i \in RequestPlaces(sn) \cap Range(requests) : i <= id})
        groups == Groups(ResponsesOf(sn))
    IN IF index \in DOMAIN groups THEN groups[index] ELSE <<>>

\* get_recorded_responses: the group in the place of the request among those
\* of its SN.
GetRecordedResponses(id) ==
    LET sn == messages[id].sn
        index == Cardinality({i \in RequestPlaces(sn) : i <= id})
        groups == Groups(ResponsesOf(sn))
    IN IF id \in RequestPlaces(sn) /\ index <= Len(groups) THEN groups[index] ELSE <<>>

\* The fields that count in _compare_responses; ProbCount does not.
Fields(row) == <<row.msg_type, row.err_code, row.task_id, row.sn>>

CompareResponses(original, replayed) ==
    /\ Len(original) = Len(replayed)
    /\ \A i \in DOMAIN original : Fields(original[i]) = Fields(replayed[i])

\* "match" in the report on the i-th request: the recording does not change.
Matches(i) == CompareResponses(GetRecordedResponses(requests[i]), results[i])

--------------------------------------------------------------------------------
(* replay_session                                                          *)

\* The engine is started anew, against the simulator as it is (what it owes
\* to the clients that were recorded is of no matter any more) or restarted,
\* which forgets its tasks.  Without requests it returns at once.
StartSession(task_id) ==
    /\ at \in {"record", "done"}
    /\ Recorded + session < MaxWork
    /\ requests' = GetRequests(task_id)
    /\ requests' # <<>>
    /\ session' = session + 1
    /\ at' = "next" /\ sent' = 0
    /\ replies' = <<>> /\ results' = <<>> /\ inbox' = <<>>
    /\ answers' = [i \in DOMAIN requests' |-> <<>>]
    /\ late' = {}
    /\ reachable' \in BOOLEAN
    /\ \/ LET ours == Selected(toSimulator, {i \in DOMAIN toSimulator : toSimulator[i].session > 0})
              others == {r \in Range(toSimulator) : r.session = 0 /\ r.msg_type = "MsgTask"}
          IN /\ toSimulator' = ours
             /\ held' = held \cup {r.task_id : r \in others}
             /\ outstanding' = {r \in outstanding : r.session > 0}
       \/ toSimulator' = <<>> /\ held' = {} /\ outstanding' = {}
    /\ UNCHANGED messages

\* The next request is sent; the engine waits for its first reply.
SendRequest ==
    /\ at = "next" /\ sent < Len(requests)
    /\ at' = "wait" /\ sent' = sent + 1
    /\ replies' = <<>>
    /\ toSimulator' = Append(toSimulator,
            [messages[requests[sent + 1]] EXCEPT !.id = sent + 1, !.session = session])
    /\ UNCHANGED <<held, outstanding, messages, inbox, session, requests, reachable,
                   results, answers, late>>

\* The simulator's replies go to the identity of the engine's socket, which
\* every session gives itself, and nowhere when there is no session.
Reply ==
    LET waitedFor(i) == i = sent /\ at \in {"wait", "poll"}
        say(request, rs) ==
            /\ inbox' = IF at \in {"closing", "done"} THEN inbox ELSE inbox \o rs
            /\ IF rs = <<>> THEN UNCHANGED <<answers, late>>
               ELSE IF request.session = session
                 THEN /\ answers' = [answers EXCEPT ![request.id] = @ \o rs]
                      /\ late' = IF waitedFor(request.id) THEN late ELSE late \cup {request.id}
                 ELSE /\ late' = late \cup {0}
                      /\ UNCHANGED answers
    IN /\ at # "record" /\ reachable
       /\ TakeRequest(say) \/ \E request \in outstanding : FinishTask(request, say)
       /\ UNCHANGED <<messages, sessionVars>>

\* sock.recv
Receive ==
    /\ at \in {"wait", "poll"}
    /\ inbox # <<>>
    /\ replies' = Append(replies, Head(inbox))
    /\ inbox' = Tail(inbox)
    /\ at' = "poll"
    /\ UNCHANGED <<messages, simulatorVars, session, requests, sent, reachable,
                   results, answers, late>>

\* Mutant: the engine waits until there is a reply.
GiveUpOnSilence ==
    /\ at = "poll"
    /\ inbox = <<>>
    /\ at' = "next"
    /\ UNCHANGED <<messages, simulatorVars, session, requests, sent, reachable, inbox,
                   replies, answers, late>>
    /\ results' = Append(results, replies)

\* No first reply for 5 s, or no further one for 300 ms.
GiveUp ==
    /\ at \in {"wait", "poll"}
    /\ inbox = <<>>
    /\ at' = "next"
    /\ UNCHANGED <<messages, simulatorVars, session, requests, sent, reachable, inbox,
                   replies, answers, late>>
    /\ results' = Append(results, replies)

\* The sockets are closed ...
CloseSockets ==
    /\ at = "next" /\ sent = Len(requests)
    /\ at' = "closing"
    /\ UNCHANGED <<messages, simulatorVars, session, requests, sent, reachable, inbox,
                   replies, results, answers, late>>

\* ... and context.term waits until what they sent is transmitted: LINGER is
\* left at its default, for ever.
Terminate ==
    /\ at = "closing" /\ reachable
    /\ at' = "done"
    /\ UNCHANGED <<messages, simulatorVars, session, requests, sent, reachable, inbox,
                   replies, results, answers, late>>

EngineStep == SendRequest \/ Receive \/ GiveUp \/ CloseSockets \/ Terminate

Next ==
    \/ \E request \in Offered : RecordRequest(request)
    \/ RecordResponse
    \/ \E row \in Unasked : RecordUnasked(row)
    \/ \E task_id \in Task \cup {Null} : StartSession(task_id)
    \/ Reply
    \/ EngineStep

\* The engine's thread runs.  Replies come to an end: each request has two.
Spec == Init /\ [][Next]_vars /\ WF_vars(EngineStep)

--------------------------------------------------------------------------------
ReplayTypeOK ==
    /\ at \in {"record", "next", "wait", "poll", "closing", "done"}
    /\ sent \in 0 .. Len(requests)
    /\ Len(results) = IF at \in {"wait", "poll"} THEN sent - 1 ELSE sent
    /\ \A i \in DOMAIN requests : IsRequest(messages[requests[i]])
    /\ at = "poll" => replies # <<>>

\* The request was acknowledged under the SN, and where.
Acknowledged(sn, id) == {p \in ResponsePlaces(sn) : EndsInAck(messages[p]) /\ messages[p].of = id}

\* A response of the SN was recorded but its request, or the acknowledgement
\* of it, was not, or later: it overtook it, or was told under another SN.
Stray(sn) ==
    \E p \in ResponsePlaces(sn) :
        \/ messages[p].of = 0
        \/ \A q \in Acknowledged(sn, messages[p].of) : q > p

\* A request of the SN is recorded without an acknowledgement under it,
\* because its type has none, or none with an SN, or it was missed, and a
\* later request of the SN with one.
Skipped(sn) ==
    \E i, j \in RequestPlaces(sn) :
        i < j /\ Acknowledged(sn, i) = {} /\ Acknowledged(sn, j) # {}

(***************************************************************************)
(* The responses get_recorded_responses finds for a request begin with its *)
(* own acknowledgement, whoever else used its SN and however late the      *)
(* results came, unless a response of the SN was recorded without the      *)
(* acknowledgement of its own request before it, or a request of the SN    *)
(* without an acknowledgement before one that has it.                      *)
(***************************************************************************)
GroupBeginsWithOwnAck ==
    \A id \in DOMAIN messages :
        LET sn == messages[id].sn
            group == GetRecordedResponses(id)
        IN IsRequest(messages[id]) /\ ~Stray(sn) /\ ~Skipped(sn) /\ group # <<>> =>
              EndsInAck(group[1]) /\ group[1].of = id

\* The recorded responses of the SN of a request come request by request,
\* and its own have this SN.
Regular(id) ==
    LET sn == messages[id].sn
    IN /\ sn # Null /\ ~Stray(sn) /\ ~Skipped(sn)
       /\ \A p, q \in ResponsePlaces(sn) : p < q => messages[p].of <= messages[q].of
       /\ \A p \in DOMAIN messages :
             ~IsRequest(messages[p]) /\ messages[p].of = id => messages[p].sn = sn

(***************************************************************************)
(* A request whose responses were recorded regularly and which has the     *)
(* same answers again is reported as a match, if no reply of the session   *)
(* came when its request was no longer waited for, and none of an earlier  *)
(* session came.                                                           *)
(***************************************************************************)
PunctualReplayMatches ==
    \A i \in DOMAIN results :
        LET id == requests[i]
            recorded == Selected(messages, {j \in DOMAIN messages :
                                               ~IsRequest(messages[j]) /\ messages[j].of = id})
        IN late = {} /\ Regular(id) /\ CompareResponses(recorded, answers[i]) => Matches(i)

(***************************************************************************)
(* A replay session of a simulator that can be reached comes to its end,   *)
(* whatever it answers.                                                    *)
(***************************************************************************)
SessionEnds == at = "next" /\ reachable ~> at = "done"
================================================================================
