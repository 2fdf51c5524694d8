------------------------- MODULE ReplayEngine_proofs -------------------------
(***************************************************************************)
(* Proofs about the replay engine, for every recording: every number of    *)
(* requests, sequence numbers, tasks and sessions, with a simulator that   *)
(* sends results whenever it likes.                                        *)
(***************************************************************************)
EXTENDS ReplayEngine, SequenceLemmas, FiniteSetTheorems

--------------------------------------------------------------------------------
(***************************************************************************)
(* What the queries return.  The place of a number in the order of a set   *)
(* is the number of members up to it; that Ascending lists each member at  *)
(* that place needs no induction: an injection of a finite set into as     *)
(* many numbers reaches each of them.                                      *)
(***************************************************************************)
Rank(S, i) == Cardinality({j \in S : j <= i})

\* What maps one to one and onto has the same number of members.
LEMMA SameCount ==
    ASSUME NEW S, NEW T, IsFiniteSet(S), NEW f \in [S -> T],
           \A x, y \in S : f[x] = f[y] => x = y,
           \A t \in T : \E x \in S : f[x] = t
    PROVE  Cardinality(T) = Cardinality(S)
<1>1. f \in Bijection(S, T)
  BY DEF Bijection, Injection, Surjection, IsInjective
<1>2. QED
  BY <1>1, FS_Bijection DEF ExistsBijection

LEMMA RankType ==
    ASSUME NEW S, IsFiniteSet(S), S \subseteq Nat
    PROVE  /\ Cardinality(S) \in Nat
           /\ \A i \in S : Rank(S, i) \in 1 .. Cardinality(S)
           /\ \A i, j \in S : i < j => Rank(S, i) < Rank(S, j)
           /\ \A i, j \in S : Rank(S, i) = Rank(S, j) => i = j
<1> DEFINE Upto(i) == {j \in S : j <= i}
<1>1. Cardinality(S) \in Nat
  BY FS_CardinalityType
<1>2. \A i \in S : /\ IsFiniteSet(Upto(i)) /\ Cardinality(Upto(i)) \in Nat
                   /\ Cardinality(Upto(i)) <= Cardinality(S)
  <2>1. ASSUME NEW i \in S PROVE Upto(i) \in SUBSET S
    OBVIOUS
  <2>2. QED
    BY <2>1, FS_Subset, FS_CardinalityType
<1>3. \A i \in S : Cardinality(Upto(i)) # 0
  <2>1. \A i \in S : i \in Upto(i)
    OBVIOUS
  <2>2. QED
    BY <1>2, <2>1, FS_EmptySet
<1>4. \A i \in S : Rank(S, i) \in 1 .. Cardinality(S)
  BY <1>1, <1>2, <1>3 DEF Rank
<1>5. ASSUME NEW i \in S, NEW j \in S, i < j PROVE Rank(S, i) < Rank(S, j)
  <2>0. (\A m \in S : m \in Nat) /\ i \in Nat /\ j \in Nat /\ i < j
    BY <1>5
  <2>1. Upto(i) \subseteq Upto(j) /\ j \in Upto(j) /\ j \notin Upto(i)
    <3>1. ASSUME NEW m \in S, m <= i PROVE m <= j
      BY <2>0, <3>1
    <3>2. j <= j /\ ~ j <= i
      BY <2>0
    <3>3. QED
      BY <3>1, <3>2
  <2>2. Upto(i) \in SUBSET Upto(j) /\ Upto(i) # Upto(j) /\ IsFiniteSet(Upto(j))
    BY <2>1, <1>2
  <2> HIDE DEF Upto
  <2>3. /\ Cardinality(Upto(i)) <= Cardinality(Upto(j))
        /\ Cardinality(Upto(i)) # Cardinality(Upto(j))
    BY <2>2, FS_Subset
  <2>4. Cardinality(Upto(i)) \in Nat /\ Cardinality(Upto(j)) \in Nat
    BY <1>2
  <2>5. QED
    BY <2>3, <2>4 DEF Rank, Upto
<1>6. ASSUME NEW i \in S, NEW j \in S, Rank(S, i) = Rank(S, j) PROVE i = j
  <2>1. i \in Nat /\ j \in Nat /\ Rank(S, i) \in Nat
    BY <1>2 DEF Rank
  <2>2. QED
    BY <1>5, <1>6, <2>1
<1>7. QED
  BY <1>1, <1>4, <1>5, <1>6

LEMMA AscendingLists ==
    ASSUME NEW S, IsFiniteSet(S), S \subseteq Nat
    PROVE  /\ Ascending(S) \in Seq(S) /\ Len(Ascending(S)) = Cardinality(S)
           /\ \A k \in 1 .. Cardinality(S) : Ascending(S)[k] \in S /\ Rank(S, Ascending(S)[k]) = k
           /\ \A i \in S : Ascending(S)[Rank(S, i)] = i
           /\ \A k, l \in 1 .. Cardinality(S) : k < l => Ascending(S)[k] < Ascending(S)[l]
<1> DEFINE n == Cardinality(S)
           f == [i \in S |-> Rank(S, i)]
<1>1. f \in Injection(S, 1 .. n)
  BY RankType DEF Injection, IsInjective
<1>2. n \in Nat /\ IsFiniteSet(1 .. n) /\ Cardinality(1 .. n) = n
  <2>1. n \in Nat
    BY RankType
  <2> HIDE DEF n
  <2>2. 0 \in Int /\ 1 \in Int /\ n \in Int
    BY <2>1
  <2>3. QED
    BY <2>1, <2>2, FS_Interval
<1>3. f \in Surjection(S, 1 .. n)
  BY <1>1, <1>2, FS_Injection
<1>4. \A k \in 1 .. n : \E i \in S : Rank(S, i) = k
  BY <1>3 DEF Surjection
<1>5. \A k \in 1 .. n : Ascending(S)[k] \in S /\ Rank(S, Ascending(S)[k]) = k
  BY <1>4 DEF Ascending, Rank
<1>6. ASSUME NEW i \in S PROVE Ascending(S)[Rank(S, i)] = i
  <2>1. Rank(S, i) \in 1 .. n
    BY RankType
  <2>2. /\ Ascending(S)[Rank(S, i)] \in S
        /\ Rank(S, Ascending(S)[Rank(S, i)]) = Rank(S, i)
    BY <1>5, <2>1
  <2>3. QED
    BY <2>2, RankType
<1>7. Ascending(S) \in [1 .. n -> S]
  BY <1>5 DEF Ascending
<1>8. Ascending(S) \in Seq(S) /\ Len(Ascending(S)) = n
  <2>1. Ascending(S) \in UNION {[1 .. m -> S] : m \in Nat}
    BY <1>2, <1>7
  <2>2. DOMAIN Ascending(S) = 1 .. n
    BY <1>7
  <2>3. QED
    BY <1>2, <2>1, <2>2, SeqDef, LenProperties
<1>9. ASSUME NEW k \in 1 .. n, NEW l \in 1 .. n, k < l PROVE Ascending(S)[k] < Ascending(S)[l]
  <2>1. Ascending(S)[k] \in S /\ Ascending(S)[l] \in S /\ k \in Nat /\ l \in Nat
    BY <1>2, <1>5
  <2>2. Rank(S, Ascending(S)[k]) = k /\ Rank(S, Ascending(S)[l]) = l
    BY <1>5
  <2>3. ~ Ascending(S)[l] < Ascending(S)[k]
    <3>1. Ascending(S)[l] < Ascending(S)[k] => Rank(S, Ascending(S)[l]) < Rank(S, Ascending(S)[k])
      BY <2>1, RankType
    <3>2. QED
      BY <3>1, <2>1, <2>2, <1>9
  <2>4. Ascending(S)[k] # Ascending(S)[l]
    BY <2>1, <2>2, <1>9
  <2>5. Ascending(S)[k] \in Nat /\ Ascending(S)[l] \in Nat
    BY <2>1
  <2>6. QED
    BY <2>3, <2>4, <2>5
<1>10. QED
  BY <1>5, <1>6, <1>8, <1>9
--------------------------------------------------------------------------------
(***************************************************************************)
(* Types.                                                                  *)
(***************************************************************************)
SnRange == {request.sn : request \in Offered} \cup {row.sn : row \in Unasked} \cup {0, Null}

TaskRange == {request.task_id : request \in Offered} \cup {row.task_id : row \in Unasked} \cup {Null}

RequestRow == [id : Nat, direction : {"REQUEST"}, session : Nat,
               msg_type : {"MsgTask", "MsgGetToken", "broken", "silent"},
               sn : SnRange, task_id : TaskRange]

ResponseRow == [direction : {"RESPONSE"}, msg_type : ResponseTypes,
                err_code : {0, 1}, sn : SnRange, task_id : TaskRange, of : Nat]

Row == RequestRow \cup ResponseRow

SimulatorTypes == toSimulator \in Seq(RequestRow) /\ outstanding \subseteq RequestRow

SessionTypes ==
    /\ at \in {"record", "next", "wait", "poll", "closing", "done"}
    /\ session \in Nat
    /\ requests \in Seq(Nat)
    /\ \A i \in DOMAIN requests : requests[i] \in DOMAIN messages /\ IsRequest(messages[requests[i]])
    /\ sent \in 0 .. Len(requests)
    /\ results \in Seq(Seq(ResponseRow))
    /\ Len(results) = IF at \in {"wait", "poll"} THEN sent - 1 ELSE sent
    /\ at \in {"wait", "poll"} => sent # 0
    /\ at \in {"closing", "done"} => sent = Len(requests)
    /\ inbox \in Seq(ResponseRow) /\ replies \in Seq(ResponseRow)
    /\ at = "poll" => replies # <<>>
    /\ answers \in Seq(Seq(ResponseRow)) /\ Len(answers) = Len(requests)

Types == messages \in Seq(Row) /\ SimulatorTypes /\ SessionTypes

(***************************************************************************)
(* The recording.  A response is a response to a recorded request, or to   *)
(* one that was not recorded.  The acknowledgements that were recorded     *)
(* come in the order of the requests, under the SN they have, or none.     *)
(***************************************************************************)
IsAck(m, p) == ~IsRequest(m[p]) /\ EndsInAck(m[p]) /\ m[p].of # 0

UnderSn(row, request) == EndsInAck(row) => row.sn \in {request.sn, Null}

RecordingFits(m) ==
    /\ \A i \in DOMAIN m : IsRequest(m[i]) => m[i].id = i
    /\ \A p \in DOMAIN m : ~IsRequest(m[p]) /\ m[p].of # 0 =>
          m[p].of \in DOMAIN m /\ IsRequest(m[m[p].of]) /\ UnderSn(m[p], m[m[p].of])
    /\ \A p, q \in DOMAIN m : IsAck(m, p) /\ IsAck(m, q) /\ p < q => m[p].of < m[q].of

\* While the recording is made, the simulator has acknowledged none of the
\* requests in its queue.
Recording(m, queue, owed) ==
    /\ \A k \in DOMAIN queue : queue[k].id \in DOMAIN m /\ m[queue[k].id] = queue[k]
    /\ \A k, l \in DOMAIN queue : k < l => queue[k].id < queue[l].id
    /\ \A p \in DOMAIN m, k \in DOMAIN queue : IsAck(m, p) => m[p].of < queue[k].id
    /\ \A request \in owed : request.id \in DOMAIN m /\ m[request.id] = request

RecordInv ==
    /\ Types /\ RecordingFits(messages)
    /\ at = "record" => Recording(messages, toSimulator, outstanding)

(***************************************************************************)
(* A session.  As long as no reply came late, the socket and the engine    *)
(* have what was answered to the request that is waited for, and what is   *)
(* reported on the others is what was answered to them.                    *)
(***************************************************************************)
Punctual ==
    /\ \A i \in DOMAIN results : results[i] = answers[i]
    /\ at \in {"wait", "poll"} => answers[sent] = replies \o inbox
    /\ at \notin {"wait", "poll"} => inbox = <<>>
    /\ \A i \in DOMAIN answers : i > sent => answers[i] = <<>>

SessionInv == late = {} => Punctual
--------------------------------------------------------------------------------
(***************************************************************************)
(* The simulator's steps, whoever hears the replies.                       *)
(***************************************************************************)
Fits(row, request) == row \in ResponseRow /\ row.of = request.id /\ UnderSn(row, request)

\* What is said to a request that is taken: nothing, an answer, or a result
\* and an answer.
Says(request, rs) ==
    \/ rs = <<>>
    \/ \E ack : Fits(ack, request) /\ rs = <<ack>>
    \/ \E result, ack : /\ Fits(result, request) /\ ~EndsInAck(result) /\ Fits(ack, request)
                        /\ rs = <<result, ack>>

Takes(request, rs) ==
    /\ toSimulator # <<>> /\ request = Head(toSimulator) /\ toSimulator' = Tail(toSimulator)
    /\ outstanding' \in {outstanding, outstanding \cup {request}}
    /\ Says(request, rs)

Finishes(request, rs) ==
    /\ request \in outstanding /\ outstanding' = outstanding \ {request}
    /\ toSimulator' = toSimulator
    /\ \E result : Fits(result, request) /\ ~EndsInAck(result) /\ rs = <<result>>

LEMMA ResponseFits ==
    ASSUME NEW request \in RequestRow, NEW msg_type \in ResponseTypes, NEW err_code \in {0, 1},
           msg_type \in {"MsgTaskAck", "MsgGetTokenAck"} => request.msg_type # "broken"
    PROVE  /\ Fits(Response(request, msg_type, err_code), request)
           /\ msg_type = "MsgTaskResult" => ~EndsInAck(Response(request, msg_type, err_code))
<1> DEFINE r == Response(request, msg_type, err_code)
<1>1. /\ request.id \in Nat /\ request.sn \in SnRange /\ request.task_id \in TaskRange
      /\ 0 \in SnRange /\ Null \in SnRange /\ Null \in TaskRange
  BY DEF RequestRow, SnRange, TaskRange
<1>2. r \in ResponseRow /\ r.of = request.id /\ r.msg_type = msg_type
      /\ (request.msg_type # "broken" => r.sn \in {request.sn, Null})
  BY <1>1 DEF Response, ResponseRow
<1> HIDE DEF r
<1>3. Fits(r, request) /\ (msg_type = "MsgTaskResult" => ~EndsInAck(r))
  BY <1>2 DEF Fits, UnderSn, EndsInAck
<1>4. QED
  BY <1>3 DEF r

LEMMA AnswersSay ==
    ASSUME NEW request \in RequestRow, NEW answer \in Answers(request)
    PROVE  Says(request, answer.replies)
<1> DEFINE ack(e) == Response(request, AnswerType[request.msg_type], e)
           result == Response(request, "MsgTaskResult", 0)
<1>1. \/ /\ request.msg_type = "MsgTask"
         /\ \/ answer = [replies |-> <<ack(0)>>, owes |-> TRUE]
            \/ answer = [replies |-> <<result, ack(0)>>, owes |-> FALSE]
      \/ answer = [replies |-> <<>>, owes |-> FALSE]
      \/ request.msg_type # "silent" /\ \E e \in {0, 1} : answer = [replies |-> <<ack(e)>>, owes |-> FALSE]
  BY DEF Answers
<1>2. request.msg_type \in {"MsgTask", "MsgGetToken", "broken", "silent"}
  BY DEF RequestRow
<1>3. request.msg_type # "silent" => \A e \in {0, 1} : Fits(ack(e), request)
  <2>1. SUFFICES ASSUME request.msg_type # "silent", NEW e \in {0, 1} PROVE Fits(ack(e), request)
    OBVIOUS
  <2>2. /\ AnswerType[request.msg_type] \in ResponseTypes
        /\ request.msg_type = "broken" => AnswerType[request.msg_type] = "UndefinedMsg"
    BY <1>2, <2>1 DEF AnswerType, ResponseTypes
  <2>3. QED
    BY <2>2, ResponseFits
<1>4. Fits(result, request) /\ ~EndsInAck(result)
  <2>1. "MsgTaskResult" \in ResponseTypes /\ "MsgTaskResult" \notin {"MsgTaskAck", "MsgGetTokenAck"}
    BY DEF ResponseTypes
  <2>2. QED
    BY <2>1, ResponseFits
<1> HIDE DEF ack, result
<1>5. CASE request.msg_type = "MsgTask" /\ answer = [replies |-> <<ack(0)>>, owes |-> TRUE]
  <2>1. answer.replies = <<ack(0)>> /\ Fits(ack(0), request)
    BY <1>3, <1>5
  <2>2. QED
    BY <2>1, Zenon DEF Says
<1>6. CASE request.msg_type = "MsgTask" /\ answer = [replies |-> <<result, ack(0)>>, owes |-> FALSE]
  <2>1. answer.replies = <<result, ack(0)>> /\ Fits(ack(0), request)
    BY <1>3, <1>6
  <2>2. QED
    BY <1>4, <2>1, Zenon DEF Says
<1>7. CASE answer = [replies |-> <<>>, owes |-> FALSE]
  BY <1>7 DEF Says
<1>8. ASSUME request.msg_type # "silent", NEW e \in {0, 1}, answer = [replies |-> <<ack(e)>>, owes |-> FALSE]
      PROVE  Says(request, answer.replies)
  <2>1. answer.replies = <<ack(e)>> /\ Fits(ack(e), request)
    BY <1>3, <1>8
  <2>2. QED
    BY <2>1, Zenon DEF Says
<1>9. QED
  BY <1>1, <1>5, <1>6, <1>7, <1>8

\* The result of a task comes when it is finished.
LEMMA ResultSays ==
    ASSUME SimulatorTypes, NEW request \in outstanding,
           outstanding' = outstanding \ {request}, toSimulator' = toSimulator
    PROVE  Finishes(request, <<Response(request, "MsgTaskResult", 0)>>)
<1> DEFINE result == Response(request, "MsgTaskResult", 0)
<1>1. request \in RequestRow
  BY DEF SimulatorTypes
<1>2. "MsgTaskResult" \in ResponseTypes /\ "MsgTaskResult" \notin {"MsgTaskAck", "MsgGetTokenAck"}
  BY DEF ResponseTypes
<1>3. Fits(result, request) /\ ~EndsInAck(result)
  BY <1>1, <1>2, ResponseFits
<1> HIDE DEF result
<1>4. Finishes(request, <<result>>)
  BY <1>3, Zenon DEF Finishes
<1>5. QED
  BY <1>4 DEF result

LEMMA RecordResponseSays ==
    ASSUME SimulatorTypes, RecordResponse
    PROVE  \E request, rs : /\ Takes(request, rs) \/ Finishes(request, rs)
                            /\ \E heard \in SUBSET DOMAIN rs : messages' = messages \o Selected(rs, heard)
<1> DEFINE record(request, rs) ==
              \E heard \in SUBSET DOMAIN rs : messages' = messages \o Selected(rs, heard)
<1>0. TakeRequest(record) \/ \E request \in outstanding : FinishTask(request, record)
  BY DEF RecordResponse
<1> HIDE DEF record
<1>1. CASE TakeRequest(record)
  <2>1. /\ toSimulator # <<>> /\ toSimulator' = Tail(toSimulator)
        /\ \E answer \in Answers(Head(toSimulator)) :
              /\ record(Head(toSimulator), answer.replies)
              /\ outstanding' = outstanding \cup (IF answer.owes THEN {Head(toSimulator)} ELSE {})
    BY <1>1 DEF TakeRequest
  <2>2. PICK answer \in Answers(Head(toSimulator)) :
              /\ record(Head(toSimulator), answer.replies)
              /\ outstanding' = outstanding \cup (IF answer.owes THEN {Head(toSimulator)} ELSE {})
    BY <2>1
  <2>3. Says(Head(toSimulator), answer.replies)
    <3>1. Head(toSimulator) \in RequestRow
      BY <2>1, HeadTailProperties DEF SimulatorTypes
    <3>2. QED
      BY <3>1, AnswersSay
  <2>4. Takes(Head(toSimulator), answer.replies)
    BY <2>1, <2>2, <2>3 DEF Takes
  <2>5. QED
    BY <2>2, <2>4 DEF record
<1>2. CASE \E request \in outstanding : FinishTask(request, record)
  <2>1. PICK request \in outstanding : FinishTask(request, record)
    BY <1>2
  <2>2. Finishes(request, <<Response(request, "MsgTaskResult", 0)>>)
        /\ record(request, <<Response(request, "MsgTaskResult", 0)>>)
    BY <2>1, ResultSays DEF FinishTask
  <2>3. QED
    BY <2>2 DEF record
<1>3. QED
  BY <1>0, <1>1, <1>2

\* What a session hears of it.
Hears(request, rs) ==
    /\ inbox' = IF at \in {"closing", "done"} THEN inbox ELSE inbox \o rs
    /\ \/ rs = <<>> /\ answers' = answers /\ late' = late
       \/ /\ request.session = session
          /\ answers' = [answers EXCEPT ![request.id] = @ \o rs]
          /\ late' = late \/ late' = late \cup {request.id}
          /\ (request.id = sent /\ at \in {"wait", "poll"}) \/ request.id \in late'
       \/ answers' = answers /\ 0 \in late'
    /\ late \subseteq late'

LEMMA ReplySays ==
    ASSUME SimulatorTypes, Reply
    PROVE  \E request, rs : (Takes(request, rs) \/ Finishes(request, rs)) /\ Hears(request, rs)
<1> DEFINE waitedFor(i) == i = sent /\ at \in {"wait", "poll"}
           say(request, rs) ==
              /\ inbox' = IF at \in {"closing", "done"} THEN inbox ELSE inbox \o rs
              /\ IF rs = <<>> THEN UNCHANGED <<answers, late>>
                 ELSE IF request.session = session
                   THEN /\ answers' = [answers EXCEPT ![request.id] = @ \o rs]
                        /\ late' = IF waitedFor(request.id) THEN late ELSE late \cup {request.id}
                   ELSE /\ late' = late \cup {0}
                        /\ UNCHANGED answers
<1>1. ASSUME NEW request, NEW rs, say(request, rs) PROVE Hears(request, rs)
  BY <1>1 DEF Hears
<1>2. TakeRequest(say) \/ \E request \in outstanding : FinishTask(request, say)
  BY DEF Reply
<1> HIDE DEF say
<1>3. CASE TakeRequest(say)
  <2>1. /\ toSimulator # <<>> /\ toSimulator' = Tail(toSimulator)
        /\ \E answer \in Answers(Head(toSimulator)) :
              /\ say(Head(toSimulator), answer.replies)
              /\ outstanding' = outstanding \cup (IF answer.owes THEN {Head(toSimulator)} ELSE {})
    BY <1>3 DEF TakeRequest
  <2>2. PICK answer \in Answers(Head(toSimulator)) :
              /\ say(Head(toSimulator), answer.replies)
              /\ outstanding' = outstanding \cup (IF answer.owes THEN {Head(toSimulator)} ELSE {})
    BY <2>1
  <2>3. Says(Head(toSimulator), answer.replies)
    <3>1. Head(toSimulator) \in RequestRow
      BY <2>1, HeadTailProperties DEF SimulatorTypes
    <3>2. QED
      BY <3>1, AnswersSay
  <2>4. Takes(Head(toSimulator), answer.replies)
    BY <2>1, <2>2, <2>3 DEF Takes
  <2>5. QED
    BY <1>1, <2>2, <2>4
<1>4. CASE \E request \in outstanding : FinishTask(request, say)
  <2>1. PICK request \in outstanding : FinishTask(request, say)
    BY <1>4
  <2>2. Finishes(request, <<Response(request, "MsgTaskResult", 0)>>)
        /\ say(request, <<Response(request, "MsgTaskResult", 0)>>)
    BY <2>1, ResultSays DEF FinishTask
  <2>3. QED
    BY <1>1, <2>2
<1>5. QED
  BY <1>2, <1>3, <1>4

\* What is said to a request the simulator knows; only the last of it is an
\* acknowledgement, and only when it is taken.
Said(request, rs) ==
    /\ rs \in Seq(ResponseRow) /\ DOMAIN rs = 1 .. Len(rs) /\ Len(rs) \in {0, 1, 2}
    /\ \A k \in DOMAIN rs : Fits(rs[k], request)
    /\ \A k \in DOMAIN rs : EndsInAck(rs[k]) => k = Len(rs)

LEMMA SaidType ==
    ASSUME SimulatorTypes, NEW request, NEW rs, Takes(request, rs) \/ Finishes(request, rs)
    PROVE  /\ request \in RequestRow
           /\ Said(request, rs)
           /\ Finishes(request, rs) => \A k \in DOMAIN rs : ~EndsInAck(rs[k])
           /\ SimulatorTypes'
<1>1. request \in RequestRow
  BY HeadTailProperties DEF SimulatorTypes, Takes, Finishes
<1>2. SimulatorTypes'
  <2>1. CASE Takes(request, rs)
    BY <1>1, <2>1, HeadTailProperties DEF SimulatorTypes, Takes
  <2>2. CASE Finishes(request, rs)
    BY <2>2 DEF SimulatorTypes, Finishes
  <2>3. QED
    BY <2>1, <2>2
<1>3. CASE rs = <<>>
  BY <1>1, <1>2, <1>3 DEF Said
<1>4. ASSUME NEW r, Fits(r, request), rs = <<r>>
      PROVE  Said(request, rs) /\ (~EndsInAck(r) => \A k \in DOMAIN rs : ~EndsInAck(rs[k]))
  <2>1. r \in ResponseRow
    BY <1>4 DEF Fits
  <2>2. /\ rs \in Seq(ResponseRow) /\ DOMAIN rs = 1 .. 1 /\ Len(rs) = 1
        /\ \A k \in DOMAIN rs : rs[k] = r /\ k = 1
    BY <2>1, <1>4
  <2>3. QED
    BY <1>4, <2>2 DEF Said
<1>5. ASSUME NEW r, NEW q, Fits(r, request), ~EndsInAck(r), Fits(q, request), rs = <<r, q>>
      PROVE  Said(request, rs)
  <2>1. r \in ResponseRow /\ q \in ResponseRow
    BY <1>5 DEF Fits
  <2>2. /\ rs \in Seq(ResponseRow) /\ DOMAIN rs = 1 .. 2 /\ Len(rs) = 2
        /\ \A k \in DOMAIN rs : (k = 1 /\ rs[k] = r) \/ (k = 2 /\ rs[k] = q)
    BY <2>1, <1>5
  <2>3. QED
    BY <1>5, <2>2 DEF Said
<1>6. CASE Finishes(request, rs)
  <2>1. PICK result : Fits(result, request) /\ ~EndsInAck(result) /\ rs = <<result>>
    BY <1>6 DEF Finishes
  <2>2. QED
    BY <1>1, <1>2, <1>4, <2>1
<1>7. CASE Takes(request, rs) /\ ~Finishes(request, rs) /\ rs # <<>>
  <2>1. Said(request, rs)
    BY <1>4, <1>5, <1>7 DEF Takes, Says
  <2>2. QED
    BY <1>1, <1>2, <1>7, <2>1
<1>8. QED
  BY <1>3, <1>6, <1>7

\* What is selected from a table.
LEMMA PlacesFinite ==
    ASSUME NEW T, NEW rows \in Seq(T), NEW S, S \subseteq DOMAIN rows
    PROVE  /\ IsFiniteSet(S) /\ S \subseteq Nat /\ S \subseteq 1 .. Len(rows) /\ Cardinality(S) \in Nat
<1>1. DOMAIN rows = 1 .. Len(rows) /\ Len(rows) \in Nat
  BY LenProperties
<1>2. IsFiniteSet(1 .. Len(rows))
  BY <1>1, FS_Interval
<1>3. S \in SUBSET (1 .. Len(rows))
  BY <1>1
<1>4. IsFiniteSet(S) /\ Cardinality(S) \in Nat
  BY <1>2, <1>3, FS_Subset, FS_CardinalityType
<1>5. QED
  BY <1>1, <1>3, <1>4

LEMMA SelectedLists ==
    ASSUME NEW T, NEW rows \in Seq(T), NEW S, S \subseteq DOMAIN rows
    PROVE  /\ Selected(rows, S) \in Seq(T) /\ Len(Selected(rows, S)) = Cardinality(S)
           /\ DOMAIN Selected(rows, S) = 1 .. Cardinality(S)
           /\ \A k \in 1 .. Cardinality(S) : /\ Ascending(S)[k] \in S
                                             /\ Selected(rows, S)[k] = rows[Ascending(S)[k]]
<1>1. IsFiniteSet(S) /\ S \subseteq Nat /\ Cardinality(S) \in Nat
  BY PlacesFinite
<1>2. \A k \in 1 .. Cardinality(S) : Ascending(S)[k] \in S
  BY <1>1, AscendingLists
<1>3. \A i \in DOMAIN rows : rows[i] \in T
  BY ElementOfSeq, LenProperties
<1>4. Selected(rows, S) \in [1 .. Cardinality(S) -> T]
  BY <1>2, <1>3 DEF Selected
<1>5. Selected(rows, S) \in Seq(T)
  BY <1>1, <1>4, SeqDef
<1>6. Len(Selected(rows, S)) = Cardinality(S)
  BY <1>1, <1>4, <1>5, LenProperties
<1>7. QED
  BY <1>2, <1>4, <1>5, <1>6 DEF Selected

--------------------------------------------------------------------------------
(***************************************************************************)
(* The recording keeps its form.                                           *)
(***************************************************************************)
Grows(m, t) == DOMAIN m \subseteq DOMAIN t /\ \A i \in DOMAIN m : t[i] = m[i]

LEMMA AcksStay ==
    ASSUME NEW m, NEW t, Grows(m, t)
    PROVE  \A p \in DOMAIN m : IsAck(t, p) <=> IsAck(m, p)
BY DEF Grows, IsAck

LEMMA RequestRecorded ==
    ASSUME NEW m \in Seq(Row), NEW queue \in Seq(RequestRow), NEW owed,
           RecordingFits(m), Recording(m, queue, owed),
           NEW row \in RequestRow, row.id = Len(m) + 1
    PROVE  /\ Append(m, row) \in Seq(Row) /\ Append(queue, row) \in Seq(RequestRow)
           /\ RecordingFits(Append(m, row))
           /\ Recording(Append(m, row), Append(queue, row), owed)
<1> DEFINE n == Len(m)
           t == Append(m, row)
           longer == Append(queue, row)
<1>3. n \in Nat /\ DOMAIN m = 1 .. n
  BY LenProperties
<1>4. row \in RequestRow /\ row \in Row /\ IsRequest(row) /\ row.id = n + 1
  BY DEF RequestRow, Row, IsRequest
<1>5. /\ t \in Seq(Row) /\ DOMAIN t = 1 .. n + 1
      /\ \A i \in 1 .. n : t[i] = m[i]
      /\ t[n + 1] = row
  BY <1>3, <1>4, Appended
<1>6. Grows(m, t)
  BY <1>3, <1>5 DEF Grows
<1>7. \A p \in DOMAIN m : IsAck(t, p) <=> IsAck(m, p)
  BY <1>6, AcksStay
<1>8. ~ IsAck(t, n + 1) /\ \A p \in DOMAIN t : p \in DOMAIN m \/ p = n + 1
  BY <1>3, <1>4, <1>5 DEF IsAck
<1>9. \A i \in DOMAIN t : \/ i \in DOMAIN m /\ t[i] = m[i]
                          \/ i = n + 1 /\ t[i] = row
  BY <1>3, <1>5
<1>10. /\ longer \in Seq(RequestRow) /\ Len(queue) \in Nat
       /\ DOMAIN queue = 1 .. Len(queue) /\ DOMAIN longer = 1 .. Len(queue) + 1
       /\ \A k \in 1 .. Len(queue) : longer[k] = queue[k]
       /\ longer[Len(queue) + 1] = row
  BY Appended
<1> HIDE DEF n, t, longer
<1>11. RecordingFits(t)
  <2>1. \A i \in DOMAIN t : IsRequest(t[i]) => t[i].id = i
    BY <1>4, <1>9 DEF RecordingFits
  <2>2. ASSUME NEW p \in DOMAIN t, ~IsRequest(t[p]), t[p].of # 0
        PROVE  t[p].of \in DOMAIN t /\ IsRequest(t[t[p].of]) /\ UnderSn(t[p], t[t[p].of])
    <3>1. p \in DOMAIN m /\ t[p] = m[p] /\ ~IsRequest(m[p]) /\ m[p].of # 0
      BY <1>4, <1>9, <2>2
    <3>2. m[p].of \in DOMAIN m /\ t[m[p].of] = m[m[p].of]
      BY <3>1, <1>6 DEF RecordingFits, Grows
    <3>3. QED
      BY <3>1, <3>2, <1>6 DEF RecordingFits, Grows
  <2>3. ASSUME NEW p \in DOMAIN t, NEW q \in DOMAIN t, IsAck(t, p), IsAck(t, q), p < q
        PROVE  t[p].of < t[q].of
    BY <2>3, <1>7, <1>8, <1>9 DEF RecordingFits
  <2>4. QED
    BY <2>1, <2>2, <2>3 DEF RecordingFits
<1>12. Recording(t, longer, owed)
  <2>0. \A k \in DOMAIN longer : \/ k \in DOMAIN queue /\ longer[k] = queue[k]
                                 \/ k = Len(queue) + 1 /\ longer[k] = row
    BY <1>10
  <2>1. ASSUME NEW k \in DOMAIN longer
        PROVE  longer[k].id \in DOMAIN t /\ t[longer[k].id] = longer[k]
    <3>1. CASE k \in DOMAIN queue /\ longer[k] = queue[k]
      BY <3>1, <1>6 DEF Recording, Grows
    <3>2. CASE longer[k] = row
      BY <3>2, <1>3, <1>4, <1>5
    <3>3. QED
      BY <2>0, <3>1, <3>2
  <2>2. ASSUME NEW k \in DOMAIN longer, NEW l \in DOMAIN longer, k < l
        PROVE  longer[k].id < longer[l].id
    <3>1. k \in DOMAIN queue /\ longer[k] = queue[k]
      BY <2>2, <1>10
    <3>2. queue[k].id \in 1 .. n
      BY <3>1, <1>3 DEF Recording
    <3>3. CASE l \in DOMAIN queue /\ longer[l] = queue[l]
      BY <2>2, <3>1, <3>3 DEF Recording
    <3>4. CASE longer[l] = row
      BY <3>1, <3>2, <3>4, <1>3, <1>4
    <3>5. QED
      BY <2>0, <3>3, <3>4
  <2>3. ASSUME NEW p \in DOMAIN t, NEW k \in DOMAIN longer, IsAck(t, p)
        PROVE  t[p].of < longer[k].id
    <3>1. p \in DOMAIN m /\ t[p] = m[p] /\ IsAck(m, p)
      BY <2>3, <1>7, <1>8, <1>9
    <3>2. m[p].of \in 1 .. n
      BY <3>1, <1>3 DEF RecordingFits, IsAck
    <3>3. CASE k \in DOMAIN queue /\ longer[k] = queue[k]
      BY <3>1, <3>3 DEF Recording
    <3>4. CASE longer[k] = row
      BY <3>1, <3>2, <3>4, <1>3, <1>4
    <3>5. QED
      BY <2>0, <3>3, <3>4
  <2>4. ASSUME NEW r \in owed PROVE r.id \in DOMAIN t /\ t[r.id] = r
    BY <2>4, <1>6 DEF Recording, Grows
  <2>5. QED
    BY <2>1, <2>2, <2>3, <2>4 DEF Recording
<1>13. QED
  BY <1>5, <1>10, <1>11, <1>12 DEF t, longer

LEMMA Places ==
    ASSUME NEW a \in Nat, NEW b \in Nat, a <= b
    PROVE  /\ \A p \in 1 .. b : p \in 1 .. a \/ p \in a + 1 .. b
           /\ \A p \in a + 1 .. b : p \in 1 .. b /\ \A i \in 1 .. a : i < p
           /\ \A i \in 1 .. a : i \in 1 .. b /\ i \in Nat
OBVIOUS

\* Responses are recorded, to a request that was, or to others; only the last
\* of them may be an acknowledgement, that of the first request in the queue.
Heard(m, t, queue, request) ==
    /\ Len(m) <= Len(t) /\ \A i \in DOMAIN m : t[i] = m[i]
    /\ \A p \in Len(m) + 1 .. Len(t) :
          /\ ~IsRequest(t[p])
          /\ t[p].of # 0 => /\ t[p].of = request.id /\ UnderSn(t[p], request)
                            /\ IsRequest(request) /\ request.id \in DOMAIN m /\ m[request.id] = request
          /\ IsAck(t, p) => p = Len(t) /\ queue # <<>> /\ request = queue[1]

Left(m, t, queue, rest) ==
    /\ rest = queue \/ (queue # <<>> /\ rest = Tail(queue))
    /\ rest = queue => \A p \in Len(m) + 1 .. Len(t) : ~IsAck(t, p)

Owes(m, owed, owes) == \A r \in owes : r \in owed \/ (r.id \in DOMAIN m /\ m[r.id] = r)

LEMMA ResponsesRecorded ==
    ASSUME NEW m \in Seq(Row), NEW queue \in Seq(RequestRow), NEW owed,
           RecordingFits(m), Recording(m, queue, owed),
           NEW request, NEW t \in Seq(Row), Heard(m, t, queue, request),
           NEW rest, Left(m, t, queue, rest),
           NEW owes, Owes(m, owed, owes)
    PROVE  RecordingFits(t) /\ Recording(t, rest, owes) /\ Grows(m, t)
<1> DEFINE n == Len(m)
           new == n + 1 .. Len(t)
<1>1. /\ n \in Nat /\ DOMAIN m = 1 .. n /\ Len(t) \in Nat /\ DOMAIN t = 1 .. Len(t) /\ n <= Len(t)
  BY LenProperties DEF Heard
<1>2. /\ \A p \in DOMAIN t : (p \in DOMAIN m /\ t[p] = m[p]) \/ p \in new
      /\ \A p \in new : p \in DOMAIN t /\ \A i \in DOMAIN m : i < p
      /\ \A i \in DOMAIN m : i \in DOMAIN t
  <2>1. /\ \A p \in 1 .. Len(t) : p \in 1 .. n \/ p \in new
        /\ \A p \in new : p \in 1 .. Len(t) /\ \A i \in 1 .. n : i < p
        /\ \A i \in 1 .. n : i \in 1 .. Len(t)
    BY <1>1, Places
  <2>2. \A i \in DOMAIN m : t[i] = m[i]
    BY DEF Heard
  <2> HIDE DEF n, new
  <2>3. QED
    BY <2>1, <2>2, <1>1
<1>3. Grows(m, t)
  BY <1>2 DEF Grows
<1>4. \A p \in DOMAIN m : IsAck(t, p) <=> IsAck(m, p)
  BY <1>3, AcksStay
<1>5. /\ \A p \in new :
              /\ ~IsRequest(t[p])
              /\ t[p].of # 0 => /\ t[p].of = request.id /\ UnderSn(t[p], request)
                                /\ IsRequest(request) /\ request.id \in DOMAIN m /\ m[request.id] = request
              /\ IsAck(t, p) => p = Len(t) /\ queue # <<>> /\ request = queue[1]
      /\ rest = queue => \A p \in new : ~IsAck(t, p)
  BY DEF Heard, Left
<1> HIDE DEF n, new
<1>6. \A i \in DOMAIN m : t[i] = m[i]
  BY DEF Heard
<1>7. /\ DOMAIN queue = 1 .. Len(queue) /\ Len(queue) \in Nat
      /\ queue # <<>> => 1 \in DOMAIN queue
  <2>1. DOMAIN queue = 1 .. Len(queue) /\ Len(queue) \in Nat
    BY LenProperties
  <2>2. queue # <<>> => Len(queue) # 0
    BY EmptySeq
  <2>3. QED
    BY <2>1, <2>2
<1>8. ASSUME NEW p \in new, IsAck(t, p)
      PROVE  p = Len(t) /\ queue # <<>> /\ t[p].of = queue[1].id /\ 1 \in DOMAIN queue
  BY <1>5, <1>7, <1>8 DEF IsAck
<1>9. RecordingFits(t)
  <2>0. \A p \in DOMAIN t : p \in Nat /\ p <= Len(t)
    <3>1. \A l \in Nat : \A p \in 1 .. l : p \in Nat /\ p <= l
      OBVIOUS
    <3>2. QED
      BY <3>1, <1>1
  <2>1. \A i \in DOMAIN t : IsRequest(t[i]) => t[i].id = i
    BY <1>2, <1>5 DEF RecordingFits
  <2>2. ASSUME NEW p \in DOMAIN t, ~IsRequest(t[p]), t[p].of # 0
        PROVE  t[p].of \in DOMAIN t /\ IsRequest(t[t[p].of]) /\ UnderSn(t[p], t[t[p].of])
    <3>1. CASE p \in DOMAIN m /\ t[p] = m[p]
      <4>1. m[p].of \in DOMAIN m /\ t[m[p].of] = m[m[p].of]
        BY <2>2, <3>1, <1>3 DEF RecordingFits, Grows
      <4>2. QED
        BY <2>2, <3>1, <4>1, <1>2 DEF RecordingFits
    <3>2. CASE p \in new
      BY <2>2, <3>2, <1>2, <1>5, <1>6
    <3>3. QED
      BY <1>2, <3>1, <3>2
  <2>3. ASSUME NEW p \in DOMAIN t, NEW q \in DOMAIN t, IsAck(t, p), IsAck(t, q), p < q
        PROVE  t[p].of < t[q].of
    <3>1. CASE p \in DOMAIN m /\ q \in DOMAIN m
      BY <2>3, <3>1, <1>2, <1>4, <1>6 DEF RecordingFits
    <3>2. CASE p \in DOMAIN m /\ q \in new
      <4>1. t[p] = m[p] /\ IsAck(m, p) /\ t[q].of = queue[1].id /\ 1 \in DOMAIN queue
        BY <2>3, <3>2, <1>4, <1>6, <1>8
      <4>2. QED
        BY <3>2, <4>1 DEF Recording
    <3>3. p \notin new
      <4>1. p \in new => p = Len(t)
        BY <2>3, <1>8
      <4>2. p \in Nat /\ q \in Nat /\ q <= Len(t) /\ Len(t) \in Nat
        BY <2>0, <1>1
      <4>3. p # Len(t)
        <5>1. \A a, b, l \in Nat : a < b /\ b <= l => a # l
          OBVIOUS
        <5>2. QED
          BY <4>2, <5>1, <2>3
      <4>4. QED
        BY <4>1, <4>3
    <3>4. QED
      BY <1>2, <3>1, <3>2, <3>3
  <2>4. QED
    BY <2>1, <2>2, <2>3 DEF RecordingFits
<1>10. Recording(t, rest, owes)
  <2>1. ASSUME queue # <<>>
        PROVE  /\ Tail(queue) \in Seq(RequestRow) /\ DOMAIN Tail(queue) = 1 .. Len(queue) - 1
               /\ \A k \in DOMAIN Tail(queue) : k + 1 \in DOMAIN queue /\ Tail(queue)[k] = queue[k + 1]
    BY <2>1, Taken, <1>7
  <2>2. rest = queue \/ (queue # <<>> /\ rest = Tail(queue))
    BY DEF Left
  <2>3. \A k \in DOMAIN rest : \E l \in DOMAIN queue : rest[k] = queue[l]
    BY <2>1, <2>2
  <2>4. \A k \in DOMAIN rest : rest[k].id \in DOMAIN t /\ t[rest[k].id] = rest[k]
    BY <2>3, <1>3 DEF Recording, Grows
  <2>5. ASSUME NEW k \in DOMAIN rest, NEW l \in DOMAIN rest, k < l PROVE rest[k].id < rest[l].id
    <3>1. CASE rest = queue
      BY <2>5, <3>1 DEF Recording
    <3>2. CASE rest = Tail(queue) /\ queue # <<>>
      <4>1. /\ k + 1 \in DOMAIN queue /\ l + 1 \in DOMAIN queue /\ k + 1 < l + 1
            /\ rest[k] = queue[k + 1] /\ rest[l] = queue[l + 1]
        BY <2>1, <2>5, <3>2
      <4>2. QED
        BY <4>1 DEF Recording
    <3>3. QED
      BY <2>2, <3>1, <3>2
  <2>6. ASSUME NEW p \in DOMAIN t, NEW k \in DOMAIN rest, IsAck(t, p) PROVE t[p].of < rest[k].id
    <3>1. CASE p \in DOMAIN m /\ t[p] = m[p]
      BY <2>3, <2>6, <3>1, <1>4 DEF Recording
    <3>2. CASE p \in new
      <4>1. rest = Tail(queue) /\ queue # <<>>
        BY <3>2, <2>2, <2>6, <1>5
      <4>2. k + 1 \in DOMAIN queue /\ rest[k] = queue[k + 1] /\ 1 \in DOMAIN queue /\ 1 < k + 1
        <5>1. /\ DOMAIN rest = 1 .. Len(queue) - 1
              /\ k + 1 \in DOMAIN queue /\ rest[k] = queue[k + 1] /\ 1 \in DOMAIN queue
          BY <2>1, <4>1, <1>7
        <5>2. k \in 1 .. Len(queue) - 1 /\ Len(queue) \in Nat
          BY <5>1, <1>7
        <5>3. 1 < k + 1
          BY <5>2
        <5>4. QED
          BY <5>1, <5>3
      <4>3. queue[1].id < queue[k + 1].id
        BY <4>2 DEF Recording
      <4>4. QED
        BY <3>2, <2>6, <4>2, <4>3, <1>8
    <3>3. QED
      BY <1>2, <3>1, <3>2
  <2>7. ASSUME NEW r \in owes PROVE r.id \in DOMAIN t /\ t[r.id] = r
    BY <2>7, <1>3 DEF Recording, Grows, Owes
  <2>8. QED
    BY <2>4, <2>5, <2>6, <2>7 DEF Recording
<1>11. QED
  BY <1>3, <1>9, <1>10

\* What is heard of the replies to a request.
LEMMA HeardType ==
    ASSUME NEW request, NEW rs, Said(request, rs), NEW heard \in SUBSET DOMAIN rs
    PROVE  LET hs == Selected(rs, heard)
           IN /\ hs \in Seq(ResponseRow) /\ Len(hs) \in Nat /\ DOMAIN hs = 1 .. Len(hs)
              /\ \A k \in DOMAIN hs : /\ Fits(hs[k], request)
                                      /\ EndsInAck(hs[k]) => k = Len(hs) /\ \E l \in DOMAIN rs : EndsInAck(rs[l])
<1> DEFINE n == Cardinality(heard)
           hs == Selected(rs, heard)
           asc == Ascending(heard)
<1>1. /\ rs \in Seq(ResponseRow) /\ heard \subseteq DOMAIN rs /\ DOMAIN rs = 1 .. Len(rs) /\ Len(rs) \in Nat
      /\ \A k \in DOMAIN rs : Fits(rs[k], request) /\ (EndsInAck(rs[k]) => k = Len(rs))
  BY DEF Said
<1>2. IsFiniteSet(heard) /\ heard \subseteq Nat /\ n \in Nat
  BY <1>1, PlacesFinite
<1>3. /\ hs \in Seq(ResponseRow) /\ Len(hs) = n /\ DOMAIN hs = 1 .. n
      /\ \A k \in 1 .. n : asc[k] \in heard /\ hs[k] = rs[asc[k]]
  BY <1>1, SelectedLists
<1>4. \A k, l \in 1 .. n : k < l => asc[k] < asc[l]
  BY <1>2, AscendingLists
<1> HIDE DEF n, hs, asc
<1>5. ASSUME NEW k \in 1 .. n
      PROVE  /\ Fits(hs[k], request)
             /\ EndsInAck(hs[k]) => k = n /\ \E l \in DOMAIN rs : EndsInAck(rs[l])
  <2>1. asc[k] \in DOMAIN rs /\ hs[k] = rs[asc[k]]
    BY <1>1, <1>3
  <2>2. EndsInAck(hs[k]) => asc[k] = Len(rs)
    BY <1>1, <2>1
  <2>3. ASSUME asc[k] = Len(rs) PROVE k = n
    <3>1. n \in 1 .. n
      BY <1>2
    <3>2. asc[n] \in 1 .. Len(rs)
      BY <1>1, <1>3, <3>1
    <3>3. ~ asc[k] < asc[n]
      BY <1>1, <2>3, <3>2
    <3>4. ~ k < n
      BY <1>4, <3>1, <3>3
    <3>5. QED
      BY <1>2, <3>4
  <2>4. QED
    BY <1>1, <2>1, <2>2, <2>3
<1>6. QED
  BY <1>2, <1>3, <1>5 DEF hs

LEMMA ResponseRecordedFits ==
    ASSUME RecordInv, RecordResponse
    PROVE  /\ messages' \in Seq(Row) /\ SimulatorTypes'
           /\ RecordingFits(messages') /\ Recording(messages', toSimulator', outstanding')
           /\ Grows(messages, messages')
<1>1. at = "record" /\ SimulatorTypes
  BY DEF RecordResponse, RecordInv, Types
<1>2. PICK request, rs : /\ Takes(request, rs) \/ Finishes(request, rs)
                         /\ \E heard \in SUBSET DOMAIN rs : messages' = messages \o Selected(rs, heard)
  BY <1>1, RecordResponseSays
<1>h. PICK heard \in SUBSET DOMAIN rs : messages' = messages \o Selected(rs, heard)
  BY <1>2
<1>3. /\ messages \in Seq(Row) /\ toSimulator \in Seq(RequestRow)
      /\ RecordingFits(messages) /\ Recording(messages, toSimulator, outstanding)
  BY <1>1 DEF RecordInv, Types, SimulatorTypes
<1>4. /\ request \in RequestRow /\ Said(request, rs) /\ SimulatorTypes'
      /\ Finishes(request, rs) => \A k \in DOMAIN rs : ~EndsInAck(rs[k])
  BY <1>1, <1>2, SaidType
<1> DEFINE m == messages
           n == Len(messages)
           hs == Selected(rs, heard)
           c == Len(hs)
           t == messages \o hs
<1>5. /\ hs \in Seq(ResponseRow) /\ c \in Nat /\ DOMAIN hs = 1 .. c
      /\ \A k \in DOMAIN hs : /\ Fits(hs[k], request)
                              /\ EndsInAck(hs[k]) => k = c /\ \E l \in DOMAIN rs : EndsInAck(rs[l])
  BY <1>4, HeardType
<1> HIDE DEF hs
<1>6. n \in Nat /\ DOMAIN m = 1 .. n
  BY <1>3, LenProperties
<1>7. /\ t \in Seq(Row) /\ Len(t) = n + c
      /\ \A i \in 1 .. n : t[i] = m[i]
      /\ \A p \in n + 1 .. n + c : p - n \in DOMAIN hs /\ t[p] = hs[p - n]
  <2>1. hs \in Seq(Row)
    BY <1>5 DEF Row
  <2>2. t \in Seq(Row) /\ Len(t) = n + c
        /\ \A i \in 1 .. n + c : t[i] = IF i <= n THEN m[i] ELSE hs[i - n]
    BY <1>3, <2>1, ConcatProperties
  <2>3. \A i \in 1 .. n : i \in 1 .. n + c /\ i <= n
    BY <1>5, <1>6
  <2>4. \A p \in n + 1 .. n + c : p \in 1 .. n + c /\ ~ p <= n /\ p - n \in 1 .. c
    BY <1>5, <1>6
  <2> HIDE DEF t, n, c
  <2>5. QED
    BY <2>2, <2>3, <2>4, <1>5
<1>8. /\ toSimulator # <<>> => /\ toSimulator[1].id \in DOMAIN m /\ m[toSimulator[1].id] = toSimulator[1]
                               /\ Head(toSimulator) = toSimulator[1]
      /\ \A r \in outstanding : r.id \in DOMAIN m /\ m[r.id] = r
  <2>1. toSimulator # <<>> => 1 \in DOMAIN toSimulator /\ Head(toSimulator) = toSimulator[1]
    BY <1>3, Taken
  <2>2. QED
    BY <1>3, <2>1 DEF Recording
<1>9. request.id \in DOMAIN m /\ m[request.id] = request /\ IsRequest(request)
  BY <1>2, <1>4, <1>8 DEF Takes, Finishes, RequestRow, IsRequest
<1> HIDE DEF t, n, c
<1>10. ASSUME NEW p \in n + 1 .. Len(t)
       PROVE  /\ ~IsRequest(t[p])
              /\ t[p].of # 0 => /\ t[p].of = request.id /\ UnderSn(t[p], request)
                                /\ IsRequest(request) /\ request.id \in DOMAIN m /\ m[request.id] = request
              /\ IsAck(t, p) => p = Len(t) /\ ~Finishes(request, rs)
  <2>1. p - n \in DOMAIN hs /\ t[p] = hs[p - n]
    BY <1>7
  <2>2. p - n = c => p = Len(t)
    BY <1>5, <1>6, <1>7
  <2>3. t[p].of = request.id /\ UnderSn(t[p], request) /\ ~IsRequest(t[p])
    BY <2>1, <1>5 DEF Fits, ResponseRow, IsRequest
  <2>4. IsAck(t, p) => p - n = c /\ ~Finishes(request, rs)
    BY <2>1, <1>4, <1>5 DEF IsAck
  <2>5. QED
    BY <2>2, <2>3, <2>4, <1>9
<1>11. Len(m) = n /\ n <= Len(t) /\ \A i \in DOMAIN m : t[i] = m[i]
  BY <1>5, <1>6, <1>7 DEF n
<1> HIDE DEF m
<1>12. m \in Seq(Row) /\ RecordingFits(m) /\ Recording(m, toSimulator, outstanding)
  BY <1>3 DEF m
<1>13. /\ \A r \in outstanding' : r \in outstanding \/ (r.id \in DOMAIN m /\ m[r.id] = r)
       /\ toSimulator' = toSimulator \/ (toSimulator # <<>> /\ toSimulator' = Tail(toSimulator))
  BY <1>2, <1>9 DEF Takes, Finishes
<1>14. /\ ~Finishes(request, rs) => /\ toSimulator # <<>> /\ request = toSimulator[1]
                                    /\ toSimulator' = Tail(toSimulator)
       /\ toSimulator' = toSimulator => toSimulator = <<>> \/ Finishes(request, rs)
  <2>1. toSimulator # <<>> => Tail(toSimulator) # toSimulator
    <3>1. ASSUME toSimulator # <<>>
          PROVE  Len(Tail(toSimulator)) = Len(toSimulator) - 1 /\ Len(toSimulator) \in Nat
      BY <3>1, <1>3, HeadTailProperties, LenProperties
    <3>2. QED
      BY <3>1
  <2>2. QED
    BY <2>1, <1>2, <1>8 DEF Takes
<1>15. RecordingFits(t) /\ Recording(t, toSimulator', outstanding') /\ Grows(m, t)
  <2>1. \A p \in Len(m) + 1 .. Len(t) :
              /\ ~IsRequest(t[p])
              /\ t[p].of # 0 => /\ t[p].of = request.id /\ UnderSn(t[p], request)
                                /\ IsRequest(request) /\ request.id \in DOMAIN m /\ m[request.id] = request
              /\ IsAck(t, p) => p = Len(t) /\ toSimulator # <<>> /\ request = toSimulator[1]
    BY <1>10, <1>11, <1>14
  <2>2. toSimulator' = toSimulator => \A p \in Len(m) + 1 .. Len(t) : ~IsAck(t, p)
    BY <1>10, <1>11, <1>14, <2>1
  <2>3. t \in Seq(Row) /\ Len(m) <= Len(t) /\ toSimulator \in Seq(RequestRow) /\ m \in Seq(Row)
    BY <1>3, <1>7, <1>11, <1>12
  <2>4. \A i \in DOMAIN m : t[i] = m[i]
    BY <1>11
  <2>5. QED
    <3>1. Heard(m, t, toSimulator, request)
      BY <2>1, <2>3, <2>4 DEF Heard
    <3>2. Left(m, t, toSimulator, toSimulator')
      BY <2>2, <1>13 DEF Left
    <3>3. Owes(m, outstanding, outstanding')
      BY <1>13 DEF Owes
    <3>4. QED
      BY <2>3, <3>1, <3>2, <3>3, <1>12, ResponsesRecorded
<1>16. messages' = t
  BY <1>h DEF t, hs
<1>17. QED
  BY <1>4, <1>7, <1>15, <1>16 DEF m

LEMMA UnaskedType == \A row \in Unasked : row \in ResponseRow /\ row.of = 0 /\ ~IsRequest(row)
<1>1. SUFFICES ASSUME NEW row \in Unasked PROVE row \in ResponseRow /\ row.of = 0 /\ ~IsRequest(row)
  OBVIOUS
<1>2. row = [direction |-> "RESPONSE", msg_type |-> row.msg_type, err_code |-> row.err_code,
             sn |-> row.sn, task_id |-> row.task_id, of |-> 0]
  BY UnaskedAssumption
<1>3. row.msg_type \in ResponseTypes /\ row.err_code \in {0, 1} /\ row.sn \in SnRange /\ row.task_id \in TaskRange
  BY UnaskedAssumption DEF SnRange, TaskRange
<1> DEFINE T == row.msg_type
           e == row.err_code
           sn == row.sn
           id == row.task_id
<1> HIDE DEF T, e, sn, id
<1>4. row = [direction |-> "RESPONSE", msg_type |-> T, err_code |-> e, sn |-> sn, task_id |-> id, of |-> 0]
  BY <1>2 DEF T, e, sn, id
<1>5. T \in ResponseTypes /\ e \in {0, 1} /\ sn \in SnRange /\ id \in TaskRange
  BY <1>3 DEF T, e, sn, id
<1>6. QED
  BY <1>4, <1>5 DEF ResponseRow, IsRequest

LEMMA UnaskedRecordedFits ==
    ASSUME RecordInv, NEW row \in Unasked, RecordUnasked(row)
    PROVE  /\ messages' \in Seq(Row) /\ SimulatorTypes'
           /\ RecordingFits(messages') /\ Recording(messages', toSimulator', outstanding')
           /\ Grows(messages, messages')
<1>1. /\ at = "record" /\ messages' = Append(messages, row)
      /\ UNCHANGED <<toSimulator, outstanding>>
  BY DEF RecordUnasked, simulatorVars
<1>2. /\ messages \in Seq(Row) /\ toSimulator \in Seq(RequestRow) /\ SimulatorTypes
      /\ RecordingFits(messages) /\ Recording(messages, toSimulator, outstanding)
  BY <1>1 DEF RecordInv, Types, SimulatorTypes
<1> DEFINE t == Append(messages, row)
<1>3. row \in Row /\ row.of = 0 /\ ~IsRequest(row)
  BY UnaskedType DEF Row
<1>4. /\ t \in Seq(Row) /\ Len(t) = Len(messages) + 1 /\ Len(messages) \in Nat
      /\ \A i \in DOMAIN messages : t[i] = messages[i]
      /\ t[Len(messages) + 1] = row
  <2>1. /\ t \in Seq(Row) /\ DOMAIN t = 1 .. Len(messages) + 1 /\ Len(messages) \in Nat
        /\ DOMAIN messages = 1 .. Len(messages)
        /\ \A i \in DOMAIN messages : t[i] = messages[i]
        /\ t[Len(messages) + 1] = row
    BY <1>2, <1>3, Appended
  <2> HIDE DEF t
  <2>2. Len(t) = Len(messages) + 1
    BY <2>1, LenProperties
  <2>3. QED
    BY <2>1, <2>2
<1> HIDE DEF t
<1>5. \A p \in Len(messages) + 1 .. Len(t) : ~IsRequest(t[p]) /\ t[p].of = 0 /\ ~IsAck(t, p)
  <2>1. \A p \in Len(messages) + 1 .. Len(t) : p = Len(messages) + 1
    BY <1>4
  <2>2. QED
    BY <2>1, <1>3, <1>4 DEF IsAck
<1>6. Len(messages) <= Len(t)
  BY <1>4
<1>7. RecordingFits(t) /\ Recording(t, toSimulator, outstanding) /\ Grows(messages, t)
  <2>1. Heard(messages, t, toSimulator, row)
    BY <1>4, <1>5, <1>6 DEF Heard
  <2>2. Left(messages, t, toSimulator, toSimulator)
    BY <1>5 DEF Left
  <2>3. Owes(messages, outstanding, outstanding)
    BY DEF Owes
  <2>4. QED
    BY <2>1, <2>2, <2>3, <1>2, <1>4, ResponsesRecorded
<1>8. QED
  BY <1>1, <1>2, <1>4, <1>7 DEF t, SimulatorTypes

LEMMA RequestRowType ==
    ASSUME NEW request \in Offered, NEW n \in Nat
    PROVE  [id |-> n, direction |-> "REQUEST", session |-> 0,
            msg_type |-> request.msg_type, sn |-> request.sn, task_id |-> request.task_id] \in RequestRow
BY OfferedAssumption DEF RequestRow, SnRange, TaskRange

LEMMA StepsElsewhere ==
    ASSUME [Next]_vars
    PROVE  \/ \E request \in Offered : RecordRequest(request)
           \/ RecordResponse
           \/ \E row \in Unasked : RecordUnasked(row)
           \/ messages' = messages /\ at' # "record"
           \/ UNCHANGED vars
<1>1. CASE \E task_id \in Task \cup {Null} : StartSession(task_id)
  BY <1>1 DEF StartSession
<1>2. CASE Reply
  BY <1>2 DEF Reply, sessionVars
<1>3. CASE EngineStep
  BY <1>3 DEF EngineStep, SendRequest, Receive, GiveUp, CloseSockets, Terminate
<1>4. QED
  BY <1>1, <1>2, <1>3 DEF Next

LEMMA RecordingKept ==
    ASSUME RecordInv, [Next]_vars
    PROVE  /\ messages' \in Seq(Row) /\ RecordingFits(messages')
           /\ at' = "record" => Recording(messages', toSimulator', outstanding')
           /\ Grows(messages, messages')
<1>0. /\ messages \in Seq(Row) /\ toSimulator \in Seq(RequestRow) /\ RecordingFits(messages)
      /\ at = "record" => Recording(messages, toSimulator, outstanding)
  BY DEF RecordInv, Types, SimulatorTypes
<1>1. ASSUME NEW request \in Offered, RecordRequest(request)
      PROVE  /\ messages' \in Seq(Row) /\ RecordingFits(messages')
             /\ Recording(messages', toSimulator', outstanding')
             /\ Grows(messages, messages')
  <2> DEFINE row == [id |-> Len(messages) + 1, direction |-> "REQUEST", session |-> 0,
                     msg_type |-> request.msg_type, sn |-> request.sn, task_id |-> request.task_id]
  <2>1. /\ at = "record" /\ messages' = Append(messages, row)
        /\ toSimulator' = Append(toSimulator, row) /\ outstanding' = outstanding
    BY <1>1 DEF RecordRequest
  <2>2. Len(messages) \in Nat /\ DOMAIN messages = 1 .. Len(messages)
    BY <1>0, LenProperties
  <2>3. row \in RequestRow
    BY <2>2, RequestRowType
  <2>4. row.id = Len(messages) + 1
    OBVIOUS
  <2> HIDE DEF row
  <2>5. row \in Row
    BY <2>3 DEF Row
  <2>6. Grows(messages, Append(messages, row))
    BY <2>2, <2>5, <1>0, Appended DEF Grows
  <2>7. QED
    BY <2>1, <2>3, <2>4, <2>6, <1>0, RequestRecorded
<1>2. CASE RecordResponse \/ \E row \in Unasked : RecordUnasked(row)
  BY <1>2, ResponseRecordedFits, UnaskedRecordedFits
<1>3. CASE messages' = messages /\ at' # "record"
  BY <1>0, <1>3 DEF Grows
<1>4. CASE UNCHANGED vars
  BY <1>0, <1>4 DEF vars, simulatorVars, sessionVars, Grows
<1>5. QED
  BY <1>1, <1>2, <1>3, <1>4, StepsElsewhere

(***************************************************************************)
(* The types stay, and with them what the engine knows of its session.     *)
(***************************************************************************)
LEMMA InitRecord == Init => RecordInv /\ SessionInv
<1> SUFFICES ASSUME Init PROVE RecordInv /\ SessionInv
  OBVIOUS
<1>1. \A T : <<>> \in Seq(T) /\ Len(<<>>) = 0 /\ DOMAIN <<>> = {}
  BY EmptySeq
<1>2. Types
  BY <1>1 DEF Init, Types, SimulatorTypes, SessionTypes
<1>3. RecordingFits(messages) /\ Recording(messages, toSimulator, outstanding)
  BY <1>1 DEF Init, RecordingFits, Recording
<1>4. Punctual
  BY <1>1 DEF Init, Punctual
<1>5. QED
  BY <1>2, <1>3, <1>4 DEF RecordInv, SessionInv

LEMMA RecordSteps ==
    ASSUME RecordInv, SessionInv, [Next]_vars,
           \/ RecordResponse
           \/ \E request \in Offered : RecordRequest(request)
           \/ \E row \in Unasked : RecordUnasked(row)
    PROVE  SessionTypes' /\ SessionInv'
<1>1. /\ at = "record" /\ UNCHANGED <<sessionVars, inbox, answers, late>>
      /\ Grows(messages, messages') /\ SessionTypes
  BY RecordingKept DEF RecordRequest, RecordResponse, RecordUnasked, RecordInv, Types
<1>2. QED
  BY <1>1 DEF SessionTypes, SessionInv, Punctual, sessionVars, Grows

LEMMA RepeatedType ==
    ASSUME NEW T, NEW e \in T, NEW n \in Nat
    PROVE  /\ [i \in 1 .. n |-> e] \in Seq(T) /\ Len([i \in 1 .. n |-> e]) = n
           /\ DOMAIN [i \in 1 .. n |-> e] = 1 .. n
           /\ \A i \in 1 .. n : [j \in 1 .. n |-> e][i] = e
OBVIOUS

LEMMA StartTypes ==
    ASSUME RecordInv, NEW task_id, StartSession(task_id)
    PROVE  SimulatorTypes' /\ SessionTypes' /\ SessionInv'
<1>1. messages \in Seq(Row) /\ SimulatorTypes /\ SessionTypes
  BY DEF RecordInv, Types
<1> DEFINE S == {i \in DOMAIN messages : IsRequest(messages[i]) /\ task_id \in {Null, messages[i].task_id}}
<1>2. /\ S \subseteq DOMAIN messages /\ IsFiniteSet(S) /\ S \subseteq Nat
      /\ \A i \in S : i \in DOMAIN messages /\ IsRequest(messages[i])
  BY <1>1, PlacesFinite
<1>3. requests' = Ascending(S)
  BY DEF StartSession, GetRequests
<1> HIDE DEF S
<1>4. /\ requests' \in Seq(Nat) /\ Len(requests') = Cardinality(S) /\ Cardinality(S) \in Nat
      /\ DOMAIN requests' = 1 .. Cardinality(S)
      /\ \A k \in DOMAIN requests' : requests'[k] \in S
  <2>1. Ascending(S) \in Seq(S) /\ Len(Ascending(S)) = Cardinality(S) /\ Cardinality(S) \in Nat
    BY <1>2, AscendingLists, RankType
  <2>2. Ascending(S) \in Seq(Nat) /\ DOMAIN Ascending(S) = 1 .. Cardinality(S)
    BY <2>1, <1>2, LenProperties
  <2>3. \A k \in 1 .. Cardinality(S) : Ascending(S)[k] \in S
    BY <1>2, AscendingLists
  <2>4. QED
    BY <2>1, <2>2, <2>3, <1>3
<1>5. /\ at' = "next" /\ sent' = 0 /\ session' = session + 1 /\ messages' = messages
      /\ replies' = <<>> /\ results' = <<>> /\ inbox' = <<>> /\ late' = {}
      /\ answers' = [i \in DOMAIN requests' |-> <<>>]
  BY DEF StartSession
<1>6. \A T : <<>> \in Seq(T) /\ Len(<<>>) = 0 /\ DOMAIN <<>> = {}
  BY EmptySeq
<1>7. /\ answers' \in Seq(Seq(ResponseRow)) /\ Len(answers') = Len(requests')
      /\ \A i \in DOMAIN answers' : answers'[i] = <<>>
  <2>1. <<>> \in Seq(ResponseRow) /\ DOMAIN requests' = 1 .. Cardinality(S)
    BY <1>4, <1>6
  <2>2. answers' = [i \in 1 .. Cardinality(S) |-> <<>>]
    BY <1>5, <2>1
  <2>3. QED
    BY <2>1, <2>2, <1>4, RepeatedType
<1>8. SessionTypes'
  BY <1>1, <1>2, <1>4, <1>5, <1>6, <1>7 DEF SessionTypes
<1>9. SessionInv'
  BY <1>5, <1>6, <1>7 DEF SessionInv, Punctual
<1>10. SimulatorTypes'
  <2> DEFINE O == {i \in DOMAIN toSimulator : toSimulator[i].session > 0}
  <2>1. \/ toSimulator' = Selected(toSimulator, O) \/ toSimulator' = <<>>
    BY DEF StartSession
  <2>2. outstanding' \subseteq outstanding
    BY DEF StartSession
  <2>3. Selected(toSimulator, O) \in Seq(RequestRow)
    <3>1. O \subseteq DOMAIN toSimulator /\ toSimulator \in Seq(RequestRow)
      BY <1>1 DEF SimulatorTypes
    <3> HIDE DEF O
    <3>2. QED
      BY <3>1, SelectedLists
  <2>4. QED
    BY <1>1, <1>6, <2>1, <2>2, <2>3 DEF SimulatorTypes
<1>11. QED
  BY <1>8, <1>9, <1>10

LEMMA SentRowType ==
    ASSUME NEW row \in RequestRow, NEW i \in Nat, NEW n \in Nat
    PROVE  [row EXCEPT !.id = i, !.session = n] \in RequestRow
BY DEF RequestRow

LEMMA SendTypes ==
    ASSUME RecordInv, SessionInv, SendRequest
    PROVE  SimulatorTypes' /\ SessionTypes' /\ SessionInv'
<1>1. messages \in Seq(Row) /\ SimulatorTypes /\ SessionTypes
  BY DEF RecordInv, Types
<1> DEFINE row == messages[requests[sent + 1]]
           again == [row EXCEPT !.id = sent + 1, !.session = session]
<1>2. /\ at = "next" /\ sent < Len(requests) /\ at' = "wait" /\ sent' = sent + 1 /\ replies' = <<>>
      /\ toSimulator' = Append(toSimulator, again)
      /\ UNCHANGED <<outstanding, messages, inbox, session, requests, results, answers, late>>
  BY DEF SendRequest
<1>3. sent \in Nat /\ Len(requests) \in Nat /\ DOMAIN requests = 1 .. Len(requests) /\ session \in Nat
  BY <1>1, LenProperties DEF SessionTypes
<1>4. sent + 1 \in DOMAIN requests
  BY <1>2, <1>3
<1>5. requests[sent + 1] \in DOMAIN messages /\ IsRequest(row)
  BY <1>1, <1>4 DEF SessionTypes
<1>6. row \in RequestRow
  <2>1. row \in Row
    BY <1>1, <1>5, ElementOfSeq, LenProperties
  <2>2. QED
    BY <1>5, <2>1 DEF Row, RequestRow, ResponseRow, IsRequest
<1>7. again \in RequestRow
  <2>1. sent + 1 \in Nat
    BY <1>3
  <2>2. \A r \in RequestRow : [r EXCEPT !.id = sent + 1, !.session = session] \in RequestRow
    BY <2>1, <1>3, SentRowType
  <2>3. QED
    BY <2>2, <1>6
<1> HIDE DEF again, row
<1>8. SimulatorTypes'
  BY <1>1, <1>2, <1>7, Appended DEF SimulatorTypes
<1>9. \A T : <<>> \in Seq(T) /\ Len(<<>>) = 0 /\ DOMAIN <<>> = {}
  BY EmptySeq
<1>10. SessionTypes'
  BY <1>1, <1>2, <1>3, <1>9 DEF SessionTypes
<1>11. SessionInv'
  <2> SUFFICES ASSUME late = {} PROVE Punctual'
    BY <1>2 DEF SessionInv
  <2>1. Punctual
    BY <1>2 DEF SessionInv
  <2>2. /\ inbox = <<>> /\ DOMAIN answers = 1 .. Len(requests)
        /\ \A i \in DOMAIN answers : i > sent => answers[i] = <<>>
    BY <1>1, <1>2, <2>1, LenProperties DEF Punctual, SessionTypes
  <2>3. answers[sent + 1] = <<>>
    BY <2>2, <1>3, <1>4
  <2>4. <<>> \o <<>> = <<>>
    BY ConcatEmptySeq, <1>9
  <2>5. \A i \in DOMAIN answers : i > sent + 1 => answers[i] = <<>>
    BY <2>2, <1>3
  <2>6. QED
    BY <2>1, <2>2, <2>3, <2>4, <2>5, <1>2 DEF Punctual
<1>12. QED
  BY <1>8, <1>10, <1>11

LEMMA HeadMoves ==
    ASSUME NEW T, NEW s \in Seq(T), NEW u \in Seq(T), u # <<>>
    PROVE  s \o u = Append(s, Head(u)) \o Tail(u)
<1> DEFINE a == Append(s, Head(u))
<1>1. /\ Head(u) \in T /\ Tail(u) \in Seq(T) /\ Len(u) \in Nat \ {0} /\ Len(Tail(u)) = Len(u) - 1
      /\ Head(u) = u[1] /\ \A i \in 1 .. Len(u) - 1 : Tail(u)[i] = u[i + 1]
  BY Taken
<1>2. /\ a \in Seq(T) /\ Len(s) \in Nat /\ Len(a) = Len(s) + 1
      /\ \A i \in 1 .. Len(s) : a[i] = s[i]
      /\ a[Len(s) + 1] = Head(u)
  BY <1>1, Appended
<1> HIDE DEF a
<1>3. /\ s \o u \in Seq(T) /\ Len(s \o u) = Len(s) + Len(u)
      /\ \A i \in 1 .. Len(s) + Len(u) : (s \o u)[i] = IF i <= Len(s) THEN s[i] ELSE u[i - Len(s)]
  BY ConcatProperties
<1>4. /\ a \o Tail(u) \in Seq(T) /\ Len(a \o Tail(u)) = Len(a) + Len(Tail(u))
      /\ \A i \in 1 .. Len(a) + Len(Tail(u)) :
            (a \o Tail(u))[i] = IF i <= Len(a) THEN a[i] ELSE Tail(u)[i - Len(a)]
  BY <1>1, <1>2, ConcatProperties
<1>5. Len(s \o u) = Len(a \o Tail(u)) /\ Len(s) + Len(u) = Len(a) + Len(Tail(u))
  BY <1>1, <1>2, <1>3, <1>4
<1>6. ASSUME NEW i \in 1 .. Len(s) + Len(u) PROVE (s \o u)[i] = (a \o Tail(u))[i]
  <2>1. CASE i <= Len(s)
    BY <2>1, <1>1, <1>2, <1>3, <1>4
  <2>2. CASE i = Len(s) + 1
    <3>1. (s \o u)[i] = u[1]
      BY <2>2, <1>1, <1>2, <1>3
    <3>2. (a \o Tail(u))[i] = a[Len(s) + 1]
      BY <2>2, <1>1, <1>2, <1>4
    <3>3. QED
      BY <3>1, <3>2, <1>1, <1>2
  <2>3. CASE i > Len(s) + 1
    <3>1. i - Len(a) \in 1 .. Len(u) - 1 /\ (i - Len(a)) + 1 = i - Len(s)
      BY <2>3, <1>1, <1>2
    <3>2. (s \o u)[i] = u[i - Len(s)]
      BY <2>3, <1>2, <1>3
    <3>3. (a \o Tail(u))[i] = Tail(u)[i - Len(a)]
      BY <2>3, <1>2, <1>4, <1>5
    <3>4. QED
      BY <3>1, <3>2, <3>3, <1>1
  <2>4. QED
    BY <1>2, <2>1, <2>2, <2>3
<1>7. QED
  BY <1>3, <1>4, <1>5, <1>6, SeqEqual DEF a

\* The reply to one request goes to what was answered to it.
Answered(s, i, r) == [s EXCEPT ![i] = @ \o r]

LEMMA AnsweredType ==
    ASSUME NEW S, \A u, v \in S : u \o v \in S,
           NEW s \in Seq(S), NEW i \in Nat, NEW r \in S
    PROVE  /\ Answered(s, i, r) \in Seq(S) /\ Len(Answered(s, i, r)) = Len(s)
           /\ \A j \in DOMAIN s : j # i => Answered(s, i, r)[j] = s[j]
           /\ i \in DOMAIN s => Answered(s, i, r)[i] = s[i] \o r
<1> DEFINE t == Answered(s, i, r)
<1>1. Len(s) \in Nat /\ DOMAIN s = 1 .. Len(s) /\ \A j \in 1 .. Len(s) : s[j] \in S
  BY LenProperties, ElementOfSeq
<1>2. DOMAIN t = 1 .. Len(s) /\ \A j \in 1 .. Len(s) : t[j] = IF j = i THEN s[j] \o r ELSE s[j]
  BY <1>1 DEF Answered
<1>3. \A j \in 1 .. Len(s) : s[j] \o r \in S
  BY <1>1
<1>4. t \in [1 .. Len(s) -> S]
  <2>1. t = [j \in 1 .. Len(s) |-> t[j]]
    BY <1>1 DEF Answered
  <2>2. QED
    BY <1>1, <1>2, <1>3, <2>1
<1> HIDE DEF t
<1>5. t \in Seq(S)
  BY <1>1, <1>4, SeqDef
<1>6. Len(t) = Len(s)
  BY <1>1, <1>2, <1>5, LenProperties
<1>7. QED
  BY <1>1, <1>2, <1>5, <1>6 DEF t

LEMMA ReceiveTypes ==
    ASSUME RecordInv, SessionInv, Receive
    PROVE  SimulatorTypes' /\ SessionTypes' /\ SessionInv'
<1>1. SimulatorTypes /\ SessionTypes
  BY DEF RecordInv, Types
<1>2. /\ at \in {"wait", "poll"} /\ inbox # <<>> /\ at' = "poll"
      /\ replies' = Append(replies, Head(inbox)) /\ inbox' = Tail(inbox)
      /\ UNCHANGED <<toSimulator, outstanding, messages, session, requests, sent, results, answers, late>>
  BY DEF Receive, simulatorVars
<1>3. inbox \in Seq(ResponseRow) /\ replies \in Seq(ResponseRow)
  BY <1>1 DEF SessionTypes
<1>4. Head(inbox) \in ResponseRow /\ inbox' \in Seq(ResponseRow)
  BY <1>2, <1>3, Taken
<1>5. replies' \in Seq(ResponseRow) /\ replies' # <<>>
  BY <1>2, <1>3, <1>4, Appended
<1>6. replies \o inbox = replies' \o inbox'
  BY <1>2, <1>3, HeadMoves
<1>7. SimulatorTypes'
  BY <1>1, <1>2 DEF SimulatorTypes
<1>8. SessionTypes'
  BY <1>1, <1>2, <1>4, <1>5 DEF SessionTypes
<1>9. SessionInv'
  BY <1>2, <1>6 DEF SessionInv, Punctual
<1>10. QED
  BY <1>7, <1>8, <1>9

LEMMA GiveUpTypes ==
    ASSUME RecordInv, SessionInv, GiveUp
    PROVE  SimulatorTypes' /\ SessionTypes' /\ SessionInv'
<1>1. SimulatorTypes /\ SessionTypes
  BY DEF RecordInv, Types
<1>2. /\ at \in {"wait", "poll"} /\ inbox = <<>> /\ at' = "next"
      /\ results' = Append(results, replies)
      /\ UNCHANGED <<toSimulator, outstanding, messages, session, requests, sent, inbox, replies, answers, late>>
  BY DEF GiveUp, simulatorVars
<1>3. /\ replies \in Seq(ResponseRow) /\ results \in Seq(Seq(ResponseRow))
      /\ Len(results) = sent - 1 /\ sent # 0 /\ sent \in Nat
  BY <1>1, <1>2, LenProperties DEF SessionTypes
<1>4. /\ results' \in Seq(Seq(ResponseRow)) /\ Len(results') = sent
      /\ DOMAIN results' = 1 .. sent
      /\ DOMAIN results = 1 .. sent - 1
      /\ \A i \in 1 .. sent - 1 : results'[i] = results[i]
      /\ results'[sent] = replies
  BY <1>2, <1>3, Appended
<1>5. SimulatorTypes'
  BY <1>1, <1>2 DEF SimulatorTypes
<1>6. SessionTypes'
  BY <1>1, <1>2, <1>4 DEF SessionTypes
<1>7. SessionInv'
  <2> SUFFICES ASSUME late = {} PROVE Punctual'
    BY <1>2 DEF SessionInv
  <2>1. Punctual
    BY <1>2 DEF SessionInv
  <2>2. answers[sent] = replies
    <3>1. answers[sent] = replies \o <<>>
      BY <1>2, <2>1 DEF Punctual
    <3>2. QED
      BY <3>1, <1>3, ConcatEmptySeq
  <2>3. \A i \in 1 .. sent : i \in 1 .. sent - 1 \/ i = sent
    BY <1>3
  <2>4. \A i \in DOMAIN results' : results'[i] = answers[i]
    BY <1>4, <2>1, <2>2, <2>3 DEF Punctual
  <2>5. QED
    BY <1>2, <2>1, <2>4 DEF Punctual
<1>8. QED
  BY <1>5, <1>6, <1>7

LEMMA CloseTypes ==
    ASSUME RecordInv, SessionInv, CloseSockets \/ Terminate
    PROVE  SimulatorTypes' /\ SessionTypes' /\ SessionInv'
<1>1. SimulatorTypes /\ SessionTypes
  BY DEF RecordInv, Types
<1>2. /\ at \in {"next", "closing"} /\ at' \in {"closing", "done"} /\ sent = Len(requests)
      /\ UNCHANGED <<toSimulator, outstanding, messages, session, requests, sent, inbox, replies,
                     results, answers, late>>
  BY <1>1 DEF CloseSockets, Terminate, simulatorVars, SessionTypes
<1>3. SimulatorTypes'
  BY <1>1, <1>2 DEF SimulatorTypes
<1>4. SessionTypes'
  BY <1>1, <1>2 DEF SessionTypes
<1>5. SessionInv'
  BY <1>2 DEF SessionInv, Punctual
<1>6. QED
  BY <1>3, <1>4, <1>5

LEMMA ReplyTypes ==
    ASSUME RecordInv, SessionInv, Reply
    PROVE  SimulatorTypes' /\ SessionTypes' /\ SessionInv'
<1>1. messages \in Seq(Row) /\ SimulatorTypes /\ SessionTypes
  BY DEF RecordInv, Types
<1>2. PICK request, rs : (Takes(request, rs) \/ Finishes(request, rs)) /\ Hears(request, rs)
  BY <1>1, ReplySays
<1>3. request \in RequestRow /\ rs \in Seq(ResponseRow) /\ SimulatorTypes'
  BY <1>1, <1>2, SaidType DEF Said
<1>4. request.id \in Nat
  BY <1>3 DEF RequestRow
<1>5. /\ at # "record"
      /\ UNCHANGED <<messages, at, session, requests, sent, replies, results>>
  BY DEF Reply, sessionVars
<1> DEFINE more == Answered(answers, request.id, rs)
<1>6. answers \in Seq(Seq(ResponseRow)) /\ inbox \in Seq(ResponseRow) /\ replies \in Seq(ResponseRow)
  BY <1>1 DEF SessionTypes
<1>7. /\ more \in Seq(Seq(ResponseRow)) /\ Len(more) = Len(answers)
      /\ \A j \in DOMAIN answers : j # request.id => more[j] = answers[j]
      /\ request.id \in DOMAIN answers => more[request.id] = answers[request.id] \o rs
  <2> DEFINE Lists == Seq(ResponseRow)
  <2>1. (\A u, v \in Lists : u \o v \in Lists) /\ rs \in Lists /\ answers \in Seq(Lists)
    BY <1>3, <1>6, ConcatProperties
  <2> HIDE DEF Lists
  <2>2. \A s \in Seq(Lists), i \in Nat, r \in Lists :
           /\ Answered(s, i, r) \in Seq(Lists) /\ Len(Answered(s, i, r)) = Len(s)
           /\ \A j \in DOMAIN s : j # i => Answered(s, i, r)[j] = s[j]
           /\ i \in DOMAIN s => Answered(s, i, r)[i] = s[i] \o r
    BY <2>1, AnsweredType
  <2>3. /\ more \in Seq(Lists) /\ Len(more) = Len(answers)
        /\ \A j \in DOMAIN answers : j # request.id => more[j] = answers[j]
        /\ request.id \in DOMAIN answers => more[request.id] = answers[request.id] \o rs
    BY <2>1, <2>2, <1>4
  <2>4. QED
    BY <2>3 DEF Lists
<1>8. answers' = more \/ answers' = answers
  BY <1>2 DEF Hears, Answered
<1>9. inbox \o rs \in Seq(ResponseRow)
  BY <1>3, <1>6, ConcatProperties
<1>10. inbox' \in Seq(ResponseRow)
  BY <1>2, <1>6, <1>9 DEF Hears
<1> HIDE DEF more
<1>11. SessionTypes'
  BY <1>1, <1>5, <1>7, <1>8, <1>10 DEF SessionTypes
<1>12. SessionInv'
  <2> SUFFICES ASSUME late' = {} PROVE Punctual'
    BY DEF SessionInv
  <2>1. Punctual
    BY <1>2, <1>5 DEF Hears, SessionInv
  <2>n. CASE rs = <<>> /\ answers' = answers
    <3>1. inbox' = inbox
      BY <1>2, <1>6, <2>n, ConcatEmptySeq DEF Hears
    <3>2. QED
      BY <2>1, <2>n, <3>1, <1>5 DEF Punctual
  <2> SUFFICES ASSUME ~(rs = <<>> /\ answers' = answers) PROVE Punctual'
    BY <2>n
  <2>2. request.id = sent /\ at \in {"wait", "poll"} /\ answers' = more /\ inbox' = inbox \o rs
    BY <1>2 DEF Hears, more, Answered
  <2>3. /\ DOMAIN answers = 1 .. Len(requests) /\ DOMAIN answers' = DOMAIN answers
        /\ sent \in DOMAIN answers /\ Len(requests) \in Nat
        /\ DOMAIN results = 1 .. sent - 1 /\ sent \in Nat
    <3>1. /\ Len(answers) = Len(requests) /\ sent # 0 /\ Len(results) = sent - 1
          /\ sent \in 0 .. Len(requests) /\ Len(requests) \in Nat
      BY <1>1, <2>2, LenProperties DEF SessionTypes
    <3>2. DOMAIN answers = 1 .. Len(answers) /\ DOMAIN more = 1 .. Len(more) /\ DOMAIN results = 1 .. Len(results)
      BY <1>1, <1>6, <1>7, LenProperties DEF SessionTypes
    <3>3. QED
      BY <3>1, <3>2, <2>2, <1>7
  <2>4. answers'[sent] = replies \o inbox'
    <3>1. answers'[sent] = (replies \o inbox) \o rs
      BY <2>1, <2>2, <2>3, <1>7 DEF Punctual
    <3>2. QED
      BY <3>1, <2>2, <1>3, <1>6, ConcatAssociative
  <2>5. \A i \in DOMAIN results : i \in DOMAIN answers /\ i # sent
    BY <2>3
  <2>6. \A i \in DOMAIN results' : results'[i] = answers'[i]
    BY <2>1, <2>2, <2>5, <1>5, <1>7 DEF Punctual
  <2>7. \A i \in DOMAIN answers' : i > sent' => answers'[i] = <<>>
    <3>1. \A i \in DOMAIN answers : i > sent => i # sent
      BY <2>3
    <3>2. QED
      BY <3>1, <2>1, <2>2, <2>3, <1>5, <1>7 DEF Punctual
  <2>8. QED
    BY <2>2, <2>4, <2>6, <2>7, <1>5 DEF Punctual
<1>13. QED
  BY <1>3, <1>11, <1>12

LEMMA ReplayStep == RecordInv /\ SessionInv /\ [Next]_vars => RecordInv' /\ SessionInv'
<1> SUFFICES ASSUME RecordInv, SessionInv, [Next]_vars PROVE RecordInv' /\ SessionInv'
  OBVIOUS
<1>1. /\ messages' \in Seq(Row) /\ RecordingFits(messages')
      /\ at' = "record" => Recording(messages', toSimulator', outstanding')
  BY RecordingKept
<1>2. SimulatorTypes' /\ SessionTypes' /\ SessionInv'
  <2>1. ASSUME NEW request \in Offered, RecordRequest(request)
        PROVE  SimulatorTypes' /\ SessionTypes' /\ SessionInv'
    <3>1. SimulatorTypes
      BY DEF RecordInv, Types
    <3>2. messages \in Seq(Row)
      BY DEF RecordInv, Types
    <3> DEFINE row == [id |-> Len(messages) + 1, direction |-> "REQUEST", session |-> 0,
                       msg_type |-> request.msg_type, sn |-> request.sn, task_id |-> request.task_id]
    <3>3. row \in RequestRow
      <4>1. Len(messages) + 1 \in Nat
        BY <3>2, LenProperties
      <4>2. QED
        BY <4>1, RequestRowType
    <3>4. toSimulator' = Append(toSimulator, row) /\ outstanding' = outstanding
      BY <2>1 DEF RecordRequest
    <3> HIDE DEF row
    <3>5. SimulatorTypes'
      BY <3>1, <3>3, <3>4, Appended DEF SimulatorTypes
    <3>6. QED
      BY <2>1, <3>5, RecordSteps
  <2>2. CASE RecordResponse \/ \E row \in Unasked : RecordUnasked(row)
    <3>1. SimulatorTypes'
      BY <2>2, ResponseRecordedFits, UnaskedRecordedFits
    <3>2. QED
      BY <2>2, <3>1, RecordSteps
  <2>3. CASE \E task_id \in Task \cup {Null} : StartSession(task_id)
    BY <2>3, StartTypes
  <2>4. CASE Reply
    BY <2>4, ReplyTypes
  <2>5. CASE EngineStep
    BY <2>5, SendTypes, ReceiveTypes, GiveUpTypes, CloseTypes DEF EngineStep
  <2>6. CASE UNCHANGED vars
    BY <2>6 DEF vars, simulatorVars, sessionVars, RecordInv, Types, SimulatorTypes, SessionTypes,
                SessionInv, Punctual
  <2>7. QED
    BY <2>1, <2>2, <2>3, <2>4, <2>5, <2>6 DEF Next
<1>3. QED
  BY <1>1, <1>2 DEF RecordInv, Types

LEMMA ReplayInvariant == Spec => [](RecordInv /\ SessionInv)
BY InitRecord, ReplayStep, PTL DEF Spec

(***************************************************************************)
(* What the session holds has its type and fits together: as many results  *)
(* as requests the engine has given up waiting for, each request sent is a *)
(* recorded request.                                                       *)
(***************************************************************************)
THEOREM ReplayType == Spec => []ReplayTypeOK
<1>1. RecordInv /\ SessionInv => ReplayTypeOK
  BY DEF RecordInv, Types, SessionTypes, ReplayTypeOK
<1>2. QED
  BY <1>1, ReplayInvariant, PTL
--------------------------------------------------------------------------------
(***************************************************************************)
(* What get_recorded_responses finds.  A group runs from where it opens,   *)
(* at the first response or an acknowledgement, to where the next opens.   *)
(***************************************************************************)
Openings(rows) == {i \in DOMAIN rows : i = 1 \/ EndsInAck(rows[i])}

RunsTo(rows, b, e) ==
    /\ b <= e /\ e <= Len(rows)
    /\ \A j \in Openings(rows) : ~(b < j /\ j <= e)
    /\ e = Len(rows) \/ e + 1 \in Openings(rows)

LEMMA GroupsOpen ==
    ASSUME NEW T, NEW rows \in Seq(T)
    PROVE  /\ Openings(rows) \subseteq 1 .. Len(rows) /\ Openings(rows) \subseteq Nat
           /\ IsFiniteSet(Openings(rows)) /\ Cardinality(Openings(rows)) \in Nat
           /\ Len(Groups(rows)) = Cardinality(Openings(rows))
           /\ \A g \in 1 .. Cardinality(Openings(rows)) :
                 \E b \in Openings(rows), e \in Nat :
                    /\ RunsTo(rows, b, e)
                    /\ Rank(Openings(rows), b) = g
                    /\ Groups(rows)[g] = SubSeq(rows, b, e)
<1> DEFINE B == Openings(rows)
           nb == Cardinality(B)
           begins == Ascending(B)
           end(g) == IF g = nb THEN Len(rows) ELSE begins[g + 1] - 1
<1>1. /\ B \subseteq DOMAIN rows /\ B \subseteq 1 .. Len(rows) /\ B \subseteq Nat
      /\ IsFiniteSet(B) /\ nb \in Nat /\ Len(rows) \in Nat
  <2>1. B \subseteq DOMAIN rows
    BY DEF Openings
  <2>2. QED
    BY <2>1, PlacesFinite, LenProperties
<1>2. /\ Len(begins) = nb /\ DOMAIN begins = 1 .. nb
      /\ \A k \in 1 .. nb : begins[k] \in B /\ Rank(B, begins[k]) = k
      /\ \A i \in B : begins[Rank(B, i)] = i
      /\ \A k, l \in 1 .. nb : k < l => begins[k] < begins[l]
  BY <1>1, AscendingLists, LenProperties
<1>3. Groups(rows) = [g \in 1 .. nb |-> SubSeq(rows, begins[g], end(g))]
  <2>1. Groups(rows) = [g \in DOMAIN begins |-> SubSeq(rows, begins[g],
                           IF g = Len(begins) THEN Len(rows) ELSE begins[g + 1] - 1)]
    BY DEF Groups, Openings
  <2>2. QED
    BY <1>2, <2>1
<1>4. \A i \in B : Rank(B, i) \in 1 .. nb
  BY <1>1, RankType
<1> HIDE DEF B, nb, begins
<1>5. Len(Groups(rows)) = nb
  <2>1. Groups(rows) \in [1 .. nb -> {SubSeq(rows, begins[g], end(g)) : g \in 1 .. nb}]
    BY <1>3
  <2>2. QED
    BY <1>1, <2>1, LenProperties, SeqDef
<1>6. ASSUME NEW g \in 1 .. nb
      PROVE  \E b \in B, e \in Nat :
                    /\ b <= e /\ e <= Len(rows) /\ Rank(B, b) = g
                    /\ Groups(rows)[g] = SubSeq(rows, b, e)
                    /\ \A j \in B : ~(b < j /\ j <= e)
                    /\ e = Len(rows) \/ e + 1 \in B
  <2>1. begins[g] \in B /\ begins[g] \in 1 .. Len(rows) /\ Rank(B, begins[g]) = g
    BY <1>1, <1>2
  <2>2. Groups(rows)[g] = SubSeq(rows, begins[g], end(g))
    BY <1>3
  <2>3. CASE g = nb
    <3>1. end(g) = Len(rows)
      BY <2>3
    <3>2. ASSUME NEW j \in B, begins[g] < j PROVE FALSE
      <4>1. Rank(B, j) \in 1 .. nb /\ begins[Rank(B, j)] = j
        BY <1>2, <1>4
      <4>2. Rank(B, j) = nb \/ Rank(B, j) < nb
        BY <4>1, <1>1
      <4>3. j \in Nat /\ begins[g] \in Nat
        BY <1>1, <2>1
      <4>4. QED
        BY <3>2, <4>1, <4>2, <4>3, <1>2, <2>3
    <3>3. begins[g] <= Len(rows) /\ Len(rows) \in Nat /\ begins[g] \in Nat
      BY <1>1, <2>1
    <3>4. Groups(rows)[g] = SubSeq(rows, begins[g], Len(rows))
      BY <2>2, <3>1
    <3>5. Len(rows) <= Len(rows)
      BY <3>3
    <3> HIDE DEF end
    <3>6. QED
      BY <2>1, <3>2, <3>3, <3>4, <3>5
  <2>4. CASE g # nb
    <3>1. g + 1 \in 1 .. nb /\ g < g + 1
      BY <2>4, <1>1
    <3>2. begins[g + 1] \in B /\ begins[g + 1] \in 1 .. Len(rows) /\ begins[g] < begins[g + 1]
      BY <3>1, <1>1, <1>2
    <3>3. end(g) = begins[g + 1] - 1
      BY <2>4
    <3> DEFINE e == begins[g + 1] - 1
    <3>4. e \in Nat /\ begins[g] <= e /\ e <= Len(rows) /\ e + 1 = begins[g + 1]
      BY <3>2, <2>1, <1>1
    <3>5. ASSUME NEW j \in B, begins[g] < j, j <= e PROVE FALSE
      <4>1. Rank(B, j) \in 1 .. nb /\ begins[Rank(B, j)] = j /\ j \in Nat /\ begins[g] \in Nat
        BY <1>1, <1>2, <1>4, <2>1
      <4>2. j < begins[g + 1]
        BY <3>4, <3>5, <4>1
      <4>3. ~ Rank(B, j) < g /\ Rank(B, j) # g
        BY <3>5, <4>1, <1>2
      <4>4. ~ g + 1 < Rank(B, j) /\ Rank(B, j) # g + 1
        BY <3>1, <3>2, <4>1, <4>2, <1>2
      <4>5. QED
        BY <4>1, <4>3, <4>4
    <3>6. QED
      BY <2>1, <2>2, <3>2, <3>3, <3>4, <3>5
  <2>5. QED
    BY <2>3, <2>4
<1>7. QED
  BY <1>1, <1>5, <1>6 DEF B, nb, RunsTo

\* What the tables of one SN have to do with each other.
LEMMA PlacesFit ==
    ASSUME RecordInv, NEW sn, sn # Null, ~Stray(sn), ~Skipped(sn)
    PROVE  /\ \A p \in ResponsePlaces(sn) :
                 /\ messages[p].of \in RequestPlaces(sn)
                 /\ \E q \in ResponsePlaces(sn) :
                       q <= p /\ EndsInAck(messages[q]) /\ messages[q].of = messages[p].of
           /\ \A p, q \in ResponsePlaces(sn) :
                 EndsInAck(messages[p]) /\ EndsInAck(messages[q]) /\ p < q => messages[p].of < messages[q].of
           /\ \A p \in ResponsePlaces(sn), i \in RequestPlaces(sn) :
                 EndsInAck(messages[p]) /\ i <= messages[p].of
                 => \E q \in ResponsePlaces(sn) : EndsInAck(messages[q]) /\ messages[q].of = i
<1>1. RecordingFits(messages) /\ messages \in Seq(Row)
  BY DEF RecordInv, Types
<1>2. DOMAIN messages \subseteq Nat
  BY <1>1, LenProperties
<1>3. /\ \A i \in RequestPlaces(sn) : i \in DOMAIN messages
      /\ \A i \in DOMAIN messages : IsRequest(messages[i]) /\ messages[i].sn = sn => i \in RequestPlaces(sn)
      /\ \A p \in ResponsePlaces(sn) : p \in DOMAIN messages /\ ~IsRequest(messages[p]) /\ messages[p].sn = sn
  BY DEF RequestPlaces, ResponsePlaces, SameSn
<1>4. /\ \A p \in ResponsePlaces(sn) :
            messages[p].of # 0 /\ \E q \in Acknowledged(sn, messages[p].of) : ~ q > p
      /\ \A i, j \in RequestPlaces(sn) :
            ~ (i < j /\ Acknowledged(sn, i) = {} /\ Acknowledged(sn, j) # {})
  BY DEF Stray, Skipped
<1>5. \A id : \A q : q \in Acknowledged(sn, id) <=>
                        q \in ResponsePlaces(sn) /\ EndsInAck(messages[q]) /\ messages[q].of = id
  BY DEF Acknowledged
<1>6. ASSUME NEW p \in ResponsePlaces(sn)
      PROVE  /\ messages[p].of \in RequestPlaces(sn)
             /\ \E q \in ResponsePlaces(sn) :
                   q <= p /\ EndsInAck(messages[q]) /\ messages[q].of = messages[p].of
  <2>1. PICK q \in Acknowledged(sn, messages[p].of) : ~ q > p
    BY <1>4
  <2>2. q \in ResponsePlaces(sn) /\ EndsInAck(messages[q]) /\ messages[q].of = messages[p].of
    BY <1>5
  <2>3. q \in Nat /\ p \in Nat
    BY <1>2, <1>3, <2>2
  <2>4. q <= p
    BY <2>1, <2>3
  <2>5. /\ messages[q].of \in DOMAIN messages /\ IsRequest(messages[messages[q].of])
        /\ UnderSn(messages[q], messages[messages[q].of])
    BY <1>1, <1>3, <1>4, <2>2 DEF RecordingFits
  <2>6. messages[messages[q].of].sn = sn
    BY <1>3, <2>2, <2>5 DEF UnderSn
  <2>7. QED
    BY <1>3, <2>2, <2>4, <2>5, <2>6
<1>7. ASSUME NEW p \in ResponsePlaces(sn), NEW q \in ResponsePlaces(sn),
             EndsInAck(messages[p]), EndsInAck(messages[q]), p < q
      PROVE  messages[p].of < messages[q].of
  <2>1. p \in DOMAIN messages /\ q \in DOMAIN messages /\ IsAck(messages, p) /\ IsAck(messages, q)
    BY <1>3, <1>4, <1>7 DEF IsAck
  <2>2. QED
    BY <1>1, <1>7, <2>1 DEF RecordingFits
<1>8. ASSUME NEW p \in ResponsePlaces(sn), NEW i \in RequestPlaces(sn),
             EndsInAck(messages[p]), i <= messages[p].of
      PROVE  \E q \in ResponsePlaces(sn) : EndsInAck(messages[q]) /\ messages[q].of = i
  <2>1. messages[p].of \in RequestPlaces(sn) /\ p \in Acknowledged(sn, messages[p].of)
    BY <1>5, <1>6, <1>8
  <2>2. i \in Nat /\ messages[p].of \in Nat
    BY <1>2, <1>3, <2>1
  <2>3. i = messages[p].of \/ i < messages[p].of
    BY <1>8, <2>2
  <2>4. Acknowledged(sn, i) # {}
    BY <1>4, <2>1, <2>3
  <2>5. QED
    BY <1>5, <2>4
<1>9. QED
  BY <1>6, <1>7, <1>8

\* The place in the table of the j-th response of an SN.
Place(sn, j) == Ascending(ResponsePlaces(sn))[j]

LEMMA ResponsesListed ==
    ASSUME RecordInv, NEW sn
    PROVE  /\ ResponsesOf(sn) \in Seq(Row) /\ Len(ResponsesOf(sn)) \in Nat
           /\ DOMAIN ResponsesOf(sn) = 1 .. Len(ResponsesOf(sn))
           /\ ResponsePlaces(sn) \subseteq Nat
           /\ \A j \in DOMAIN ResponsesOf(sn) :
                 Place(sn, j) \in ResponsePlaces(sn) /\ ResponsesOf(sn)[j] = messages[Place(sn, j)]
           /\ \A j, k \in DOMAIN ResponsesOf(sn) : j < k => Place(sn, j) < Place(sn, k)
           /\ \A p \in ResponsePlaces(sn) : \E j \in DOMAIN ResponsesOf(sn) : Place(sn, j) = p
<1> DEFINE P == ResponsePlaces(sn)
<1>1. messages \in Seq(Row) /\ P \subseteq DOMAIN messages
  BY DEF RecordInv, Types, ResponsePlaces
<1>2. IsFiniteSet(P) /\ P \subseteq Nat /\ Cardinality(P) \in Nat
  BY <1>1, PlacesFinite
<1>3. /\ Selected(messages, P) \in Seq(Row) /\ Len(Selected(messages, P)) = Cardinality(P)
      /\ DOMAIN Selected(messages, P) = 1 .. Cardinality(P)
      /\ \A k \in 1 .. Cardinality(P) : /\ Ascending(P)[k] \in P
                                        /\ Selected(messages, P)[k] = messages[Ascending(P)[k]]
  BY <1>1, SelectedLists
<1>4. /\ \A k, l \in 1 .. Cardinality(P) : k < l => Ascending(P)[k] < Ascending(P)[l]
      /\ \A p \in P : Ascending(P)[Rank(P, p)] = p /\ Rank(P, p) \in 1 .. Cardinality(P)
  BY <1>2, AscendingLists, RankType
<1> HIDE DEF P
<1>5. QED
  BY <1>2, <1>3, <1>4 DEF P, Place, ResponsesOf

\* Each request of an SN opens the responses to it, in their order.
OpenedBy(rows, ids) ==
    /\ \A j \in DOMAIN rows : rows[j].of \in ids
    /\ \A j \in Openings(rows) : EndsInAck(rows[j])
    /\ \A j, k \in Openings(rows) : j < k => rows[j].of < rows[k].of
    /\ \A j \in DOMAIN rows : \E b \in Openings(rows) : b <= j /\ rows[b].of = rows[j].of
    /\ \A b \in Openings(rows), id \in ids :
          id <= rows[b].of => \E j \in Openings(rows) : rows[j].of = id

LEMMA ResponsesOpened ==
    ASSUME RecordInv, NEW sn, sn # Null, ~Stray(sn), ~Skipped(sn)
    PROVE  OpenedBy(ResponsesOf(sn), RequestPlaces(sn))
<1> DEFINE rows == ResponsesOf(sn)
           R == RequestPlaces(sn)
           P == ResponsePlaces(sn)
           B == Openings(rows)
<1>1. /\ DOMAIN rows = 1 .. Len(rows) /\ Len(rows) \in Nat /\ P \subseteq Nat
      /\ \A j \in DOMAIN rows : Place(sn, j) \in P /\ rows[j] = messages[Place(sn, j)]
      /\ \A j, k \in DOMAIN rows : j < k => Place(sn, j) < Place(sn, k)
      /\ \A p \in P : \E j \in DOMAIN rows : Place(sn, j) = p
  BY ResponsesListed
<1>2. /\ \A p \in P :
            /\ messages[p].of \in R
            /\ \E q \in P : q <= p /\ EndsInAck(messages[q]) /\ messages[q].of = messages[p].of
      /\ \A p, q \in P : EndsInAck(messages[p]) /\ EndsInAck(messages[q]) /\ p < q => messages[p].of < messages[q].of
      /\ \A p \in P, i \in R : EndsInAck(messages[p]) /\ i <= messages[p].of
                               => \E q \in P : EndsInAck(messages[q]) /\ messages[q].of = i
  BY PlacesFit
<1> HIDE DEF rows, R, P
<1>4. ASSUME NEW j \in DOMAIN rows
      PROVE  \E b \in DOMAIN rows : b <= j /\ EndsInAck(rows[b]) /\ rows[b].of = rows[j].of
  <2>1. PICK q \in P : q <= Place(sn, j) /\ EndsInAck(messages[q]) /\ messages[q].of = messages[Place(sn, j)].of
    BY <1>1, <1>2
  <2>2. PICK b \in DOMAIN rows : Place(sn, b) = q
    BY <1>1
  <2>3. rows[b] = messages[q] /\ rows[j] = messages[Place(sn, j)] /\ Place(sn, j) \in P
    BY <1>1, <2>2
  <2>4. ~ Place(sn, j) < Place(sn, b)
    <3>1. Place(sn, b) \in Nat /\ Place(sn, j) \in Nat
      BY <1>1, <2>3
    <3>2. Place(sn, b) <= Place(sn, j)
      BY <2>1, <2>2
    <3>3. QED
      BY <3>1, <3>2
  <2>5. ~ j < b
    BY <1>1, <2>4
  <2>6. b <= j
    BY <1>1, <2>5
  <2>7. QED
    BY <2>1, <2>3, <2>6
<1>5. \A j \in DOMAIN rows : j \in B <=> EndsInAck(rows[j])
  <2>1. ASSUME NEW j \in DOMAIN rows, j = 1 PROVE EndsInAck(rows[j])
    <3>1. PICK b \in DOMAIN rows : b <= j /\ EndsInAck(rows[b])
      BY <1>4
    <3>2. b = j
      BY <1>1, <2>1, <3>1
    <3>3. QED
      BY <3>1, <3>2
  <2>2. QED
    BY <2>1 DEF Openings
<1>6. B \subseteq DOMAIN rows
  BY DEF Openings
<1> HIDE DEF B
<1>7. \A j \in DOMAIN rows : rows[j].of \in R
  BY <1>1, <1>2
<1>8. ASSUME NEW j \in B, NEW k \in B, j < k PROVE rows[j].of < rows[k].of
  <2>1. /\ j \in DOMAIN rows /\ k \in DOMAIN rows
        /\ EndsInAck(rows[j]) /\ EndsInAck(rows[k])
    BY <1>5, <1>6
  <2>2. /\ Place(sn, j) \in P /\ Place(sn, k) \in P /\ Place(sn, j) < Place(sn, k)
        /\ rows[j] = messages[Place(sn, j)] /\ rows[k] = messages[Place(sn, k)]
    BY <1>1, <1>8, <2>1
  <2>3. messages[Place(sn, j)].of < messages[Place(sn, k)].of
    BY <1>2, <2>1, <2>2
  <2>4. QED
    BY <2>2, <2>3
<1>9. \A j \in DOMAIN rows : \E b \in B : b <= j /\ rows[b].of = rows[j].of
  BY <1>4, <1>5
<1>10. ASSUME NEW b \in B, NEW i \in R, i <= rows[b].of PROVE \E j \in B : rows[j].of = i
  <2>1. PICK q \in P : EndsInAck(messages[q]) /\ messages[q].of = i
    <3>1. b \in DOMAIN rows /\ EndsInAck(rows[b])
      BY <1>5, <1>6
    <3>2. Place(sn, b) \in P /\ rows[b] = messages[Place(sn, b)]
      BY <1>1, <3>1
    <3>3. EndsInAck(messages[Place(sn, b)]) /\ i <= messages[Place(sn, b)].of
      BY <1>10, <3>1, <3>2
    <3>4. QED
      BY <1>2, <3>2, <3>3
  <2>2. PICK j \in DOMAIN rows : Place(sn, j) = q
    BY <1>1
  <2>3. QED
    BY <1>1, <1>5, <2>1, <2>2
<1>11. OpenedBy(rows, R)
  BY <1>5, <1>6, <1>7, <1>8, <1>9, <1>10 DEF OpenedBy, B
<1>12. QED
  BY <1>11 DEF rows, R

LEMMA OpeningRank ==
    ASSUME NEW T, NEW rows \in Seq(T), NEW ids, ids \subseteq Nat, OpenedBy(rows, ids),
           NEW b \in Openings(rows)
    PROVE  Rank(ids, rows[b].of) = Rank(Openings(rows), b)
<1> DEFINE B == Openings(rows)
           S == {j \in B : j <= b}
           upto == {i \in ids : i <= rows[b].of}
           f == [j \in S |-> rows[j].of]
<1>1. B \subseteq DOMAIN rows /\ B \subseteq Nat /\ IsFiniteSet(B) /\ b \in B
  BY GroupsOpen DEF Openings
<1>2. /\ \A j \in B : rows[j].of \in ids
      /\ \A j, k \in B : j < k => rows[j].of < rows[k].of
      /\ \A id \in ids : id <= rows[b].of => \E j \in B : rows[j].of = id
  BY <1>1 DEF OpenedBy
<1> HIDE DEF B
<1>3. \A j \in B : rows[j].of \in Nat /\ j \in Nat
  BY <1>1, <1>2
<1>4. IsFiniteSet(S)
  <2>1. S \in SUBSET B
    OBVIOUS
  <2> HIDE DEF S
  <2>2. QED
    BY <1>1, <2>1, FS_Subset
<1>5. f \in [S -> upto]
  <2>1. ASSUME NEW j \in S PROVE rows[j].of \in upto
    <3>1. j \in B /\ (j < b \/ j = b)
      BY <1>1, <1>3
    <3>2. rows[j].of < rows[b].of \/ rows[j].of = rows[b].of
      BY <3>1, <1>1, <1>2
    <3>3. QED
      BY <3>1, <3>2, <1>1, <1>2, <1>3
  <2>2. QED
    BY <2>1
<1>6. \A x, y \in S : f[x] = f[y] => x = y
  <2>1. ASSUME NEW x \in B, NEW y \in B, rows[x].of = rows[y].of PROVE x = y
    <3>1. ~ x < y /\ ~ y < x
      BY <2>1, <1>2, <1>3
    <3>2. QED
      BY <3>1, <1>3
  <2>2. QED
    BY <2>1
<1>7. \A t \in upto : \E x \in S : f[x] = t
  <2>1. ASSUME NEW t \in upto PROVE \E x \in S : f[x] = t
    <3>1. PICK j \in B : rows[j].of = t
      BY <1>2
    <3>2. rows[j].of <= rows[b].of
      BY <3>1
    <3>3. ~ b < j
      BY <3>2, <1>1, <1>2, <1>3
    <3>4. j <= b
      BY <3>3, <1>1, <1>3
    <3>5. QED
      BY <3>1, <3>4
  <2>2. QED
    BY <2>1
<1> HIDE DEF S, upto, f
<1>8. Cardinality(upto) = Cardinality(S)
  BY <1>4, <1>5, <1>6, <1>7, SameCount
<1>9. QED
  BY <1>8 DEF Rank, S, upto, B

\* The group in the place of a request among those of its SN.
GroupFits(rows, ids, id) ==
    /\ Rank(ids, id) \in Nat \ {0} /\ Len(Groups(rows)) \in Nat
    /\ ~ Rank(ids, id) <= Len(Groups(rows)) => \A j \in DOMAIN rows : rows[j].of # id
    /\ Rank(ids, id) <= Len(Groups(rows)) =>
          \E b \in Openings(rows), e \in Nat :
             /\ RunsTo(rows, b, e) /\ rows[b].of = id
             /\ Groups(rows)[Rank(ids, id)] = SubSeq(rows, b, e)

LEMMA GroupOfRequest ==
    ASSUME NEW T, NEW rows \in Seq(T), NEW ids, ids \subseteq Nat, IsFiniteSet(ids), OpenedBy(rows, ids),
           NEW id \in ids
    PROVE  GroupFits(rows, ids, id)
<1> DEFINE B == Openings(rows)
           n == Cardinality(B)
           k == Rank(ids, id)
<1>1. /\ B \subseteq DOMAIN rows /\ B \subseteq Nat /\ IsFiniteSet(B) /\ n \in Nat /\ Len(Groups(rows)) = n
      /\ \A g \in 1 .. n :
                 \E b \in B, e \in Nat :
                    /\ RunsTo(rows, b, e)
                    /\ Rank(B, b) = g
                    /\ Groups(rows)[g] = SubSeq(rows, b, e)
  <2>1. B \subseteq DOMAIN rows
    BY DEF Openings
  <2>2. QED
    BY <2>1, GroupsOpen
<1>2. /\ k \in Nat \ {0}
      /\ \A i, j \in ids : Rank(ids, i) = Rank(ids, j) => i = j
  <2>1. k \in 1 .. Cardinality(ids) /\ Cardinality(ids) \in Nat
    BY RankType
  <2> HIDE DEF k
  <2>2. k \in Nat \ {0}
    BY <2>1
  <2>3. QED
    BY <2>2, RankType
<1>3. \A b \in B : Rank(ids, rows[b].of) = Rank(B, b) /\ rows[b].of \in ids /\ Rank(B, b) \in 1 .. n
  <2>1. \A b \in B : Rank(ids, rows[b].of) = Rank(B, b)
    BY OpeningRank
  <2>2. \A b \in B : rows[b].of \in ids
    BY <1>1 DEF OpenedBy
  <2>3. \A b \in B : Rank(B, b) \in 1 .. n
    BY <1>1, RankType
  <2>4. QED
    BY <2>1, <2>2, <2>3
<1>4. \A j \in DOMAIN rows : \E b \in B : rows[b].of = rows[j].of
  BY DEF OpenedBy
<1> HIDE DEF B, n
<1>5. ASSUME ~ k <= n, NEW j \in DOMAIN rows, rows[j].of = id PROVE FALSE
  <2>1. PICK b \in B : rows[b].of = id
    BY <1>4, <1>5
  <2>2. k \in 1 .. n
    BY <1>3, <2>1
  <2> HIDE DEF k
  <2>3. QED
    BY <1>1, <1>5, <2>2
<1>6. ASSUME k <= n
      PROVE  \E b \in B, e \in Nat :
                    /\ RunsTo(rows, b, e) /\ rows[b].of = id
                    /\ Groups(rows)[k] = SubSeq(rows, b, e)
  <2>1. k \in 1 .. n
    <3> HIDE DEF k
    <3>1. QED
      BY <1>1, <1>2, <1>6
  <2>2. PICK b \in B, e \in Nat :
           /\ RunsTo(rows, b, e)
           /\ Rank(B, b) = k
           /\ Groups(rows)[k] = SubSeq(rows, b, e)
    BY <1>1, <2>1
  <2>3. rows[b].of = id
    BY <1>2, <1>3, <2>2
  <2>4. QED
    BY <2>2, <2>3
<1>7. QED
  BY <1>1, <1>2, <1>5, <1>6 DEF B, GroupFits

\* What get_recorded_responses finds for a request of an SN.
LEMMA RecordedGroup ==
    ASSUME RecordInv, NEW id \in DOMAIN messages, IsRequest(messages[id]), messages[id].sn # Null
    PROVE  LET sn == messages[id].sn
           IN /\ id \in RequestPlaces(sn) /\ RequestPlaces(sn) \subseteq Nat /\ IsFiniteSet(RequestPlaces(sn))
              /\ GetRecordedResponses(id) =
                    IF Rank(RequestPlaces(sn), id) <= Len(Groups(ResponsesOf(sn)))
                      THEN Groups(ResponsesOf(sn))[Rank(RequestPlaces(sn), id)] ELSE <<>>
<1> DEFINE sn == messages[id].sn
<1>1. id \in RequestPlaces(sn)
  BY DEF RequestPlaces, SameSn
<1>2. messages \in Seq(Row) /\ RequestPlaces(sn) \subseteq DOMAIN messages
  BY DEF RecordInv, Types, RequestPlaces
<1>3. RequestPlaces(sn) \subseteq Nat /\ IsFiniteSet(RequestPlaces(sn))
  BY <1>2, PlacesFinite
<1>4. QED
  BY <1>1, <1>3 DEF GetRecordedResponses, Rank

LEMMA NoSnNoGroup ==
    ASSUME NEW id, messages[id].sn = Null PROVE GetRecordedResponses(id) = <<>>
BY DEF GetRecordedResponses, RequestPlaces, SameSn

(***************************************************************************)
(* The responses get_recorded_responses finds for a request begin with its *)
(* own acknowledgement, unless a response of the SN was recorded without   *)
(* the acknowledgement of its own request before it, or a request of the   *)
(* SN without an acknowledgement before one that has it.                   *)
(***************************************************************************)
THEOREM GroupsBeginWithOwnAck == Spec => []GroupBeginsWithOwnAck
<1>1. RecordInv => GroupBeginsWithOwnAck
  <2> SUFFICES ASSUME RecordInv, NEW id \in DOMAIN messages, IsRequest(messages[id]),
                      ~Stray(messages[id].sn), ~Skipped(messages[id].sn),
                      GetRecordedResponses(id) # <<>>
               PROVE  /\ EndsInAck(GetRecordedResponses(id)[1])
                      /\ GetRecordedResponses(id)[1].of = id
    BY DEF GroupBeginsWithOwnAck
  <2> DEFINE sn == messages[id].sn
             rows == ResponsesOf(sn)
             ids == RequestPlaces(sn)
  <2>1. sn # Null
    BY NoSnNoGroup
  <2>2. /\ id \in ids /\ ids \subseteq Nat /\ IsFiniteSet(ids)
        /\ GetRecordedResponses(id) = IF Rank(ids, id) <= Len(Groups(rows)) THEN Groups(rows)[Rank(ids, id)] ELSE <<>>
    BY <2>1, RecordedGroup
  <2>3. rows \in Seq(Row) /\ OpenedBy(rows, ids)
    BY <2>1, ResponsesListed, ResponsesOpened
  <2> HIDE DEF rows, ids
  <2>4. PICK b \in Openings(rows), e \in Nat :
           /\ RunsTo(rows, b, e) /\ rows[b].of = id
           /\ Groups(rows)[Rank(ids, id)] = SubSeq(rows, b, e)
    <3>1. GroupFits(rows, ids, id)
      BY <2>2, <2>3, GroupOfRequest
    <3>2. QED
      BY <2>2, <3>1 DEF GroupFits
  <2>5. GetRecordedResponses(id) = SubSeq(rows, b, e)
    BY <2>2, <2>4
  <2>6. b \in DOMAIN rows /\ DOMAIN rows = 1 .. Len(rows) /\ Len(rows) \in Nat
    BY <2>3, LenProperties DEF Openings
  <2>7. SubSeq(rows, b, e)[1] = rows[b]
    <3>1. b <= e /\ e <= Len(rows)
      BY <2>4 DEF RunsTo
    <3>2. QED
      BY <2>3, <2>4, <2>6, <3>1, SubSeqProperties
  <2>8. EndsInAck(rows[b])
    BY <2>3 DEF OpenedBy
  <2>9. QED
    BY <2>4, <2>5, <2>7, <2>8
<1>2. QED
  BY <1>1, ReplayInvariant, PTL
--------------------------------------------------------------------------------
(***************************************************************************)
(* When the responses come request by request, a group is all that was     *)
(* recorded of a request.                                                  *)
(***************************************************************************)
\* Its opening is the last up to a response.
InOrder(rows) == \A j, k \in DOMAIN rows : j < k => rows[j].of <= rows[k].of

LEMMA RegularRange ==
    ASSUME NEW T, NEW rows \in Seq(T), NEW ids, ids \subseteq Nat, OpenedBy(rows, ids), InOrder(rows),
           NEW b \in Openings(rows), NEW e \in Nat, RunsTo(rows, b, e)
    PROVE  \A j \in DOMAIN rows : rows[j].of = rows[b].of <=> b <= j /\ j <= e
<1> DEFINE B == Openings(rows)
<1> DEFINE of(j) == rows[j].of
<1>1. /\ DOMAIN rows \subseteq Nat /\ B \subseteq DOMAIN rows /\ b \in B
      /\ \A j \in DOMAIN rows : of(j) \in Nat
      /\ \A j, k \in DOMAIN rows : j < k => of(j) <= of(k)
      /\ \A j, k \in B : j < k => of(j) < of(k)
      /\ \A j \in DOMAIN rows : \E c \in B : c <= j /\ of(c) = of(j)
      /\ \A j \in B : ~(b < j /\ j <= e)
      /\ (\A j \in DOMAIN rows : j <= e) \/ e + 1 \in B
      /\ b <= e
  <2>1. DOMAIN rows = 1 .. Len(rows) /\ Len(rows) \in Nat
    BY LenProperties
  <2>2. (\A j \in DOMAIN rows : j <= e) \/ e + 1 \in B
    <3>1. e = Len(rows) \/ e + 1 \in B
      BY DEF RunsTo
    <3>2. ASSUME e = Len(rows), NEW j \in DOMAIN rows PROVE j <= e
      BY <2>1, <3>2
    <3>3. QED
      BY <3>1, <3>2
  <2>3. DOMAIN rows \subseteq Nat /\ B \subseteq DOMAIN rows /\ b \in B
    BY <2>1 DEF Openings
  <2>4. b <= e /\ \A j \in B : ~(b < j /\ j <= e)
    BY DEF RunsTo
  <2>5. /\ \A j \in DOMAIN rows : of(j) \in Nat
        /\ \A j, k \in B : j < k => of(j) < of(k)
        /\ \A j \in DOMAIN rows : \E c \in B : c <= j /\ of(c) = of(j)
    BY DEF OpenedBy
  <2>6. QED
    BY <2>2, <2>3, <2>4, <2>5 DEF InOrder
<1> HIDE DEF B
<1>2. ASSUME NEW j \in DOMAIN rows
      PROVE  of(j) = of(b) <=> b <= j /\ j <= e
  <2> HIDE DEF of
  <2>1. PICK c \in B : c <= j /\ of(c) = of(j)
    BY <1>1
  <2>2. b \in DOMAIN rows /\ c \in DOMAIN rows /\ b \in B
    BY <1>1, <2>1
  <2>3. b \in Nat /\ c \in Nat /\ j \in Nat /\ of(b) \in Nat /\ of(j) \in Nat
    BY <1>1, <2>2
  <2>4. (c < b => of(c) < of(b)) /\ (b < c => of(b) < of(c))
    BY <1>1, <2>1, <2>2
  <2>5. ASSUME of(j) = of(b), e < j PROVE FALSE
    <3>1. e + 1 \in B
      <4>1. \A x, y \in Nat : x < y => ~ y <= x
        OBVIOUS
      <4>2. ~ j <= e
        BY <4>1, <1>1, <2>3, <2>5
      <4>3. QED
        BY <1>1, <4>2
    <3>2. b < e + 1
      BY <1>1, <2>3
    <3>3. of(b) < of(e + 1)
      BY <1>1, <2>2, <3>1, <3>2
    <3>4. e + 1 \in DOMAIN rows /\ of(e + 1) \in Nat
      BY <1>1, <3>1
    <3>5. e + 1 < j \/ e + 1 = j
      BY <1>1, <2>3, <2>5
    <3>6. e + 1 < j => of(e + 1) <= of(j)
      BY <1>1, <3>4
    <3>7. of(e + 1) <= of(j)
      BY <2>3, <3>5, <3>6
    <3>8. QED
      BY <2>3, <2>5, <3>3, <3>4, <3>7
  <2>6. of(j) = of(b) => c = b
    BY <2>1, <2>3, <2>4
  <2>7. ASSUME b <= j, j <= e PROVE of(j) = of(b)
    <3>1. ~ b < c
      <4>1. c <= e
        BY <1>1, <2>1, <2>3, <2>7
      <4>2. QED
        BY <1>1, <2>1, <4>1
    <3>2. of(b) <= of(j)
      <4>1. b < j => of(b) <= of(j)
        BY <1>1, <2>2
      <4>2. b = j => of(b) <= of(j)
        BY <2>3
      <4>3. QED
        BY <2>3, <2>7, <4>1, <4>2
    <3>3. ~ c < b
      BY <2>1, <2>3, <2>4, <3>2
    <3>4. c = b
      BY <2>3, <3>1, <3>3
    <3>5. QED
      BY <2>1, <3>4
  <2>8. of(j) = of(b) => b <= j /\ j <= e
    <3>1. ~ e < j => j <= e
      BY <1>1, <2>3
    <3>2. QED
      BY <2>1, <2>5, <2>6, <3>1
  <2>9. QED
    BY <2>7, <2>8
<1>3. QED
  BY <1>2

\* What is selected from a stretch of the places of P.
Stretch(P, Q, b, e) == Q \subseteq P /\ \A p \in P : p \in Q <=> b <= Rank(P, p) /\ Rank(P, p) <= e

InPlace(P, Q, b, e) ==
    /\ Cardinality(Q) = e - b + 1
    /\ \A j \in b .. e : Ascending(Q)[j - b + 1] = Ascending(P)[j]

LEMMA StretchListed ==
    ASSUME NEW P, IsFiniteSet(P), P \subseteq Nat,
           NEW b \in Nat, b # 0, NEW e \in Nat, b <= e, e <= Cardinality(P),
           NEW Q, Stretch(P, Q, b, e)
    PROVE  InPlace(P, Q, b, e)
<1> DEFINE n == Cardinality(P)
           asc == Ascending(P)
<1>1. /\ n \in Nat
      /\ \A k \in 1 .. n : asc[k] \in P /\ Rank(P, asc[k]) = k
      /\ \A p \in P : asc[Rank(P, p)] = p /\ Rank(P, p) \in 1 .. n
      /\ \A k, l \in 1 .. n : k < l => asc[k] < asc[l]
  BY AscendingLists, RankType
<1>2. IsFiniteSet(Q) /\ Q \subseteq Nat
  BY FS_Subset DEF Stretch
<1> HIDE DEF n, asc
<1>3. \A j \in b .. e : j \in 1 .. n /\ asc[j] \in Q /\ asc[j] \in Nat
  <2>1. ASSUME NEW j \in b .. e PROVE j \in 1 .. n /\ asc[j] \in Q
    <3>1. j \in 1 .. n /\ b <= j /\ j <= e
      BY <1>1 DEF n
    <3>2. QED
      BY <3>1, <1>1 DEF Stretch
  <2>2. QED
    BY <2>1, <1>2
<1>4. \A q \in Q : \E j \in b .. e : asc[j] = q
  <2>1. ASSUME NEW q \in Q PROVE Rank(P, q) \in b .. e /\ asc[Rank(P, q)] = q
    <3>1. q \in P /\ b <= Rank(P, q) /\ Rank(P, q) <= e
      BY DEF Stretch
    <3>2. Rank(P, q) \in 1 .. n /\ asc[Rank(P, q)] = q
      BY <3>1, <1>1
    <3>3. QED
      BY <3>1, <3>2, <1>1
  <2>2. QED
    BY <2>1
<1>5. \A j, k \in b .. e : asc[j] <= asc[k] <=> j <= k
  <2>1. ASSUME NEW j \in b .. e, NEW k \in b .. e PROVE asc[j] <= asc[k] <=> j <= k
    <3>1. j \in 1 .. n /\ k \in 1 .. n /\ asc[j] \in Nat /\ asc[k] \in Nat
      BY <1>3
    <3>2. (j < k => asc[j] < asc[k]) /\ (k < j => asc[k] < asc[j]) /\ (j = k => asc[j] = asc[k])
      BY <3>1, <1>1
    <3>3. j \in Nat /\ k \in Nat
      BY <3>1, <1>1
    <3>4. QED
      BY <3>1, <3>2, <3>3
  <2>2. QED
    BY <2>1
<1>6. ASSUME NEW j \in b .. e PROVE Rank(Q, asc[j]) = j - b + 1
  <2> DEFINE upto == {q \in Q : q <= asc[j]}
             f == [k \in b .. j |-> asc[k]]
  <2>1. \A k \in b .. j : k \in b .. e /\ k <= j
    OBVIOUS
  <2>2. f \in [b .. j -> upto]
    <3>1. \A k \in b .. j : asc[k] \in upto
      BY <2>1, <1>3, <1>5
    <3> HIDE DEF upto
    <3>2. QED
      BY <3>1
  <2>3. \A x, y \in b .. j : f[x] = f[y] => x = y
    <3>1. ASSUME NEW x \in b .. j, NEW y \in b .. j, asc[x] = asc[y] PROVE x = y
      <4>1. x \in b .. e /\ y \in b .. e /\ asc[x] \in Nat /\ asc[y] \in Nat
        BY <2>1, <1>3
      <4>2. asc[x] <= asc[y] /\ asc[y] <= asc[x]
        BY <4>1, <3>1
      <4>3. x <= y /\ y <= x
        BY <4>1, <4>2, <1>5
      <4>4. QED
        BY <4>3
    <3>2. QED
      BY <3>1
  <2>4. \A t \in upto : \E x \in b .. j : f[x] = t
    <3>1. ASSUME NEW t \in Q, t <= asc[j] PROVE \E x \in b .. j : asc[x] = t
      <4>1. PICK x \in b .. e : asc[x] = t
        BY <1>4
      <4>2. x <= j
        BY <3>1, <4>1, <1>5
      <4>3. x \in b .. j
        BY <4>2
      <4>4. QED
        BY <4>1, <4>3
    <3>2. QED
      BY <3>1
  <2>5. IsFiniteSet(b .. j) /\ Cardinality(b .. j) = j - b + 1
    <3>1. b \in Int /\ j \in Int /\ b <= j
      OBVIOUS
    <3>2. QED
      BY <3>1, FS_Interval
  <2> HIDE DEF upto, f
  <2>6. Cardinality(upto) = Cardinality(b .. j)
    BY <2>2, <2>3, <2>4, <2>5, SameCount
  <2>7. QED
    BY <2>5, <2>6 DEF Rank, upto
<1>7. Cardinality(Q) = e - b + 1
  <2>1. e \in b .. e
    OBVIOUS
  <2>2. \A q \in Q : q <= asc[e]
    <3>1. ASSUME NEW q \in Q PROVE q <= asc[e]
      <4>1. PICK j \in b .. e : asc[j] = q
        BY <1>4
      <4>2. QED
        BY <4>1, <2>1, <1>5
    <3>2. QED
      BY <3>1
  <2>3. Q = {q \in Q : q <= asc[e]}
    BY <2>2
  <2>4. QED
    BY <2>1, <2>3, <1>6 DEF Rank
<1>8. \A j \in b .. e : Ascending(Q)[j - b + 1] = asc[j]
  <2>1. \A q \in Q : Ascending(Q)[Rank(Q, q)] = q
    BY <1>2, AscendingLists
  <2>2. QED
    BY <2>1, <1>3, <1>6
<1>9. QED
  BY <1>7, <1>8 DEF asc, InPlace

\* What was recorded in answer to a request.
RecordedOf(id) == {j \in DOMAIN messages : ~IsRequest(messages[j]) /\ messages[j].of = id}

LEMMA NothingSelected == Selected(messages, {}) = <<>>
<1>1. Cardinality({}) = 0
  BY FS_EmptySet
<1>2. Selected(messages, {}) = [k \in 1 .. 0 |-> messages[Ascending({})[k]]]
  BY <1>1 DEF Selected
<1>3. \A k : k \notin 1 .. 0
  OBVIOUS
<1>4. DOMAIN Selected(messages, {}) = {}
  BY <1>2, <1>3
<1>5. Selected(messages, {}) \in Seq({})
  <2>1. Selected(messages, {}) \in [1 .. 0 -> {}]
    BY <1>2, <1>3
  <2>2. QED
    BY <2>1, SeqDef
<1>6. QED
  BY <1>2, <1>3, <1>5, EmptySeq

\* Regularly recorded, that is what get_recorded_responses finds.
LEMMA RegularGroup ==
    ASSUME RecordInv, NEW id \in DOMAIN messages, IsRequest(messages[id]), Regular(id)
    PROVE  GetRecordedResponses(id) = Selected(messages, RecordedOf(id))
<1> DEFINE sn == messages[id].sn
           table == ResponsesOf(sn)
           asked == RequestPlaces(sn)
           places == ResponsePlaces(sn)
           found == RecordedOf(id)
<1>1. /\ sn # Null /\ ~Stray(sn) /\ ~Skipped(sn)
      /\ \A i, j \in places : i < j => messages[i].of <= messages[j].of
      /\ \A p \in DOMAIN messages : ~IsRequest(messages[p]) /\ messages[p].of = id => messages[p].sn = sn
  BY DEF Regular
<1>2. /\ id \in asked /\ asked \subseteq Nat /\ IsFiniteSet(asked)
      /\ GetRecordedResponses(id) = IF Rank(asked, id) <= Len(Groups(table)) THEN Groups(table)[Rank(asked, id)] ELSE <<>>
  BY <1>1, RecordedGroup
<1>3. table \in Seq(Row) /\ OpenedBy(table, asked)
  BY <1>1, ResponsesListed, ResponsesOpened
<1>4. /\ DOMAIN table = 1 .. Len(table) /\ Len(table) \in Nat /\ places \subseteq Nat
      /\ \A j \in DOMAIN table : Place(sn, j) \in places /\ table[j] = messages[Place(sn, j)]
      /\ \A j, k \in DOMAIN table : j < k => Place(sn, j) < Place(sn, k)
      /\ \A p \in places : \E j \in DOMAIN table : Place(sn, j) = p
  BY ResponsesListed
<1>5. found \subseteq places /\ \A p \in places : p \in found <=> messages[p].of = id
  <2>1. \A p \in DOMAIN messages : ~IsRequest(messages[p]) /\ messages[p].of = id => p \in places
    BY <1>1 DEF ResponsePlaces, SameSn
  <2>2. \A p \in places : p \in DOMAIN messages /\ ~IsRequest(messages[p])
    BY DEF ResponsePlaces
  <2> HIDE DEF places, asked
  <2>3. QED
    BY <2>1, <2>2 DEF RecordedOf
<1>6. messages \in Seq(Row) /\ places \subseteq DOMAIN messages
  BY DEF RecordInv, Types, ResponsePlaces
<1>7. IsFiniteSet(places) /\ Len(table) = Cardinality(places) /\ table = Selected(messages, places)
  BY <1>6, PlacesFinite, SelectedLists DEF ResponsesOf
<1>8. Openings(table) \subseteq DOMAIN table
  BY DEF Openings
<1>9. \A j \in DOMAIN table : Place(sn, j) = Ascending(places)[j] /\ Rank(places, Place(sn, j)) = j
  <2>1. \A k \in 1 .. Cardinality(places) : Rank(places, Ascending(places)[k]) = k
    BY <1>4, <1>7, AscendingLists
  <2>2. DOMAIN table = 1 .. Cardinality(places)
    BY <1>4, <1>7
  <2>3. \A j : Place(sn, j) = Ascending(places)[j]
    BY DEF Place
  <2> HIDE DEF places, table
  <2>4. QED
    BY <2>1, <2>2, <2>3
<1> HIDE DEF sn, table, asked, places, found
<1>10. /\ Rank(asked, id) \in Nat /\ Len(Groups(table)) \in Nat
       /\ ~ Rank(asked, id) <= Len(Groups(table)) => \A j \in DOMAIN table : table[j].of # id
       /\ Rank(asked, id) <= Len(Groups(table)) =>
             \E b \in Openings(table), e \in Nat :
                /\ RunsTo(table, b, e) /\ table[b].of = id
                /\ Groups(table)[Rank(asked, id)] = SubSeq(table, b, e)
  <2>1. /\ table \in Seq(Row) /\ asked \subseteq Nat /\ IsFiniteSet(asked)
        /\ OpenedBy(table, asked) /\ id \in asked
    BY <1>2, <1>3
  <2>2. GroupFits(table, asked, id)
    BY <2>1, GroupOfRequest
  <2>3. QED
    BY <2>2 DEF GroupFits
<1>11. CASE ~ Rank(asked, id) <= Len(Groups(table))
  <2>1. \A j \in DOMAIN table : table[j].of # id
    BY <1>10, <1>11
  <2>2. ASSUME NEW p \in places, messages[p].of = id PROVE FALSE
    <3>1. PICK j \in DOMAIN table : Place(sn, j) = p
      BY <1>4
    <3>2. table[j] = messages[p]
      BY <1>4, <3>1
    <3>3. QED
      BY <2>1, <2>2, <3>2
  <2>3. found = {}
    BY <1>5, <2>2
  <2>4. QED
    BY <1>2, <1>11, <2>3, NothingSelected DEF found
<1>12. CASE Rank(asked, id) <= Len(Groups(table))
  <2>1. PICK b \in Openings(table), e \in Nat :
           /\ RunsTo(table, b, e) /\ table[b].of = id
           /\ Groups(table)[Rank(asked, id)] = SubSeq(table, b, e)
    BY <1>10, <1>12
  <2>2. b \in DOMAIN table /\ Len(table) \in Nat /\ table \in Seq(Row) /\ DOMAIN table = 1 .. Len(table)
    BY <1>3, <1>4, <1>8
  <2>3. b \in Nat \ {0} /\ b <= e /\ e <= Len(table)
    <3>1. b <= e /\ e <= Len(table)
      BY <2>1 DEF RunsTo
    <3>2. b \in 1 .. Len(table)
      BY <2>2
    <3>3. b \in Nat \ {0}
      BY <3>2, <2>2
    <3>4. QED
      BY <3>1, <3>3
  <2>4. InOrder(table)
    <3>1. ASSUME NEW j \in DOMAIN table, NEW k \in DOMAIN table, j < k
          PROVE  table[j].of <= table[k].of
      <4>1. /\ Place(sn, j) \in places /\ Place(sn, k) \in places /\ Place(sn, j) < Place(sn, k)
            /\ table[j] = messages[Place(sn, j)] /\ table[k] = messages[Place(sn, k)]
        BY <3>1, <1>4
      <4>2. messages[Place(sn, j)].of <= messages[Place(sn, k)].of
        BY <4>1, <1>1
      <4>3. QED
        BY <4>1, <4>2
    <3>2. QED
      BY <3>1 DEF InOrder
  <2>5. \A j \in DOMAIN table : table[j].of = table[b].of <=> b <= j /\ j <= e
    BY <1>2, <1>3, <2>1, <2>4, RegularRange
  <2>6. \A p \in places : p \in found <=> b <= Rank(places, p) /\ Rank(places, p) <= e
    <3>1. ASSUME NEW p \in places PROVE p \in found <=> b <= Rank(places, p) /\ Rank(places, p) <= e
      <4>1. PICK j \in DOMAIN table : Place(sn, j) = p
        BY <1>4
      <4>2. table[j] = messages[p] /\ Rank(places, p) = j
        BY <1>4, <1>9, <4>1
      <4>3. p \in found <=> table[j].of = id
        BY <1>5, <4>2
      <4>4. QED
        BY <2>1, <2>5, <4>2, <4>3
    <3>2. QED
      BY <3>1
  <2>7. /\ Cardinality(found) = e - b + 1
        /\ \A j \in b .. e : Ascending(found)[j - b + 1] = Ascending(places)[j]
    <3>1. Stretch(places, found, b, e)
      BY <1>5, <2>6 DEF Stretch
    <3>2. IsFiniteSet(places) /\ places \subseteq Nat /\ e <= Cardinality(places)
      BY <1>4, <1>7, <2>3
    <3>3. b \in Nat /\ b # 0 /\ e \in Nat /\ b <= e
      BY <2>1, <2>3
    <3>4. InPlace(places, found, b, e)
      BY <3>1, <3>2, <3>3, StretchListed
    <3>5. QED
      BY <3>4 DEF InPlace
  <2>8. /\ SubSeq(table, b, e) \in Seq(Row) /\ Len(SubSeq(table, b, e)) = e - b + 1
        /\ \A i \in 1 .. e - b + 1 : SubSeq(table, b, e)[i] = table[b + i - 1]
    <3>1. b \in Int /\ e \in Int /\ b <= e
      BY <2>3
    <3>2. \A i \in b .. e : table[i] \in Row
      <4>1. \A i \in b .. e : i \in 1 .. Len(table)
        BY <2>2, <2>3
      <4>2. QED
        BY <2>2, <4>1, ElementOfSeq
    <3>3. QED
      BY <3>1, <3>2, SubSeqProperties
  <2>9. /\ Selected(messages, found) \in Seq(Row) /\ Len(Selected(messages, found)) = e - b + 1
        /\ \A i \in 1 .. e - b + 1 : Selected(messages, found)[i] = messages[Ascending(found)[i]]
    <3>1. found \subseteq DOMAIN messages
      BY <1>5, <1>6
    <3>2. QED
      BY <3>1, <1>6, <2>7, SelectedLists
  <2>10. \A i \in 1 .. e - b + 1 : SubSeq(table, b, e)[i] = Selected(messages, found)[i]
    <3>1. ASSUME NEW i \in 1 .. e - b + 1
          PROVE  SubSeq(table, b, e)[i] = Selected(messages, found)[i]
      <4>1. b + i - 1 \in b .. e /\ (b + i - 1) - b + 1 = i /\ b + i - 1 \in 1 .. Len(table)
        <5>1. /\ b \in Nat \ {0} /\ e \in Nat /\ Len(table) \in Nat
              /\ b <= e /\ e <= Len(table) /\ i \in 1 .. e - b + 1
          BY <2>2, <2>3
        <5>2. QED
          BY <5>1
      <4>2. Ascending(found)[i] = Ascending(places)[b + i - 1]
        BY <2>7, <4>1
      <4>3. table[b + i - 1] = messages[Ascending(places)[b + i - 1]]
        BY <1>4, <1>9, <4>1
      <4>4. QED
        BY <2>8, <2>9, <4>2, <4>3
    <3>2. QED
      BY <3>1
  <2>11. SubSeq(table, b, e) = Selected(messages, found)
    BY <2>8, <2>9, <2>10, SeqEqual
  <2>12. QED
    BY <1>2, <1>12, <2>1, <2>11 DEF found
<1>13. QED
  BY <1>11, <1>12

(***************************************************************************)
(* A request whose responses were recorded regularly and which has the     *)
(* same answers again is reported as a match, if no reply of the session   *)
(* came when its request was no longer waited for, and none of an earlier  *)
(* session came.                                                           *)
(***************************************************************************)
THEOREM PunctualReplaysMatch == Spec => []PunctualReplayMatches
<1>1. RecordInv /\ SessionInv => PunctualReplayMatches
  <2> SUFFICES ASSUME RecordInv, SessionInv, NEW i \in DOMAIN results, late = {},
                      Regular(requests[i]),
                      CompareResponses(Selected(messages, RecordedOf(requests[i])), answers[i])
               PROVE  Matches(i)
    BY DEF PunctualReplayMatches, RecordedOf
  <2>1. i \in DOMAIN requests
    <3>1. /\ results \in Seq(Seq(ResponseRow)) /\ requests \in Seq(Nat) /\ sent \in 0 .. Len(requests)
          /\ Len(results) = IF at \in {"wait", "poll"} THEN sent - 1 ELSE sent
      BY DEF RecordInv, Types, SessionTypes
    <3>2. DOMAIN results = 1 .. Len(results) /\ DOMAIN requests = 1 .. Len(requests) /\ Len(requests) \in Nat
      BY <3>1, LenProperties
    <3>3. QED
      BY <3>1, <3>2
  <2>2. requests[i] \in DOMAIN messages /\ IsRequest(messages[requests[i]])
    BY <2>1 DEF RecordInv, Types, SessionTypes
  <2>3. GetRecordedResponses(requests[i]) = Selected(messages, RecordedOf(requests[i]))
    BY <2>2, RegularGroup
  <2>4. results[i] = answers[i]
    BY DEF SessionInv, Punctual
  <2>5. QED
    BY <2>3, <2>4 DEF Matches
<1>2. QED
  BY <1>1, ReplayInvariant, PTL
================================================================================
