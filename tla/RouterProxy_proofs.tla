-------------------------- MODULE RouterProxy_proofs --------------------------
(***************************************************************************)
(* Proofs about the router proxy, for every number of clients, requests,   *)
(* sequence numbers and tasks and every threshold, with a simulator that   *)
(* answers, refuses and evicts as it likes.                                *)
(***************************************************************************)
EXTENDS RouterProxy, SequenceLemmas, FiniteSetTheorems

RequestRecord == [client : Peer, msg_type : {"MsgTask", "MsgGetToken", "silent", "broken"},
                  sn : SnRange \cup {Null}, task_id : Task \cup {Null},
                  captured : Nat \cup {Null}]

ResponseRecord == [n : Nat, msg_type : ResponseTypes, err_code : {0, 1},
                   sn : SnRange \cup {Null}, task_id : Task \cup {Null}]

ProxyTypes ==
    /\ requests \in Seq(RequestRecord)
    /\ frontend \in [Peer -> Seq(Nat)]
    /\ forwarded \in Seq(Nat) /\ toServer \in Seq(Nat)
    /\ toBackend \in Seq(ResponseRecord)
    /\ delivered \in [Peer -> Seq([response : ResponseRecord, after : Nat])]
    /\ now \in Nat \ {0}
    /\ at \in {"poll", "request", "both", "response", "stopped"}
    /\ pendingRequests \in [SnRange -> 1 .. now \cup {Null}]
    /\ taskIdsSeen \subseteq StringIds
    /\ authState \in BOOLEAN
    /\ earlier \subseteq Earlier

\* All responses sent so far, and the requests the simulator has taken.
Given == Range(toBackend) \cup {d.response : d \in Responses}

Handled == Range(forwarded) \ Range(toServer)

Suits(r, request) ==
    \/ request.msg_type = "MsgTask" /\ r.msg_type = "MsgTaskResult"
    \/ request.msg_type # "silent" /\ r.msg_type = AnswerType[request.msg_type]

\* A request waits in one place until it is forwarded, once; it is captured
\* then; whatever answers a request comes after the simulator took it, and has
\* a type that answers the request's.
Places ==
    /\ \A c \in Peer : IsInjective(frontend[c])
    /\ \A c \in Peer : \A n \in Range(frontend[c]) :
          n \in DOMAIN requests /\ n \notin Range(forwarded) /\ requests[n].client = c
    /\ IsInjective(forwarded) /\ IsInjective(toServer)
    /\ \A n \in Range(forwarded) : n \in DOMAIN requests /\ requests[n].captured \in 1 .. now
    /\ Range(toServer) \subseteq Range(forwarded)
    /\ \A n \in outstanding : n \in Handled /\ requests[n].msg_type = "MsgTask"
    /\ \A r \in Given : r.n # 0 => r.n \in Handled /\ Suits(r, requests[r.n])

\* The loop polls before it reads, and knows a client once it has forwarded.
LoopFits ==
    /\ at \in {"both", "response"} => toBackend # <<>>
    /\ at \in {"request", "both"} => HasRequest
    /\ forwarded # <<>> => lastClient = requests[forwarded[Len(forwarded)]].client
    /\ lastClient \in Peer \cup {Null}

ProxyInv == ProxyTypes /\ Places /\ LoopFits

--------------------------------------------------------------------------------
(* The steps                                                               *)

\* What a response has to do with its request, and an acknowledgement with
\* the table.
RespondsTo(r, n) == r \in ResponseRecord /\ r.n = n /\ Suits(r, requests[n])

Acknowledges(r, n) ==
    /\ RespondsTo(r, n)
    /\ r.msg_type # "MsgTaskResult" /\ requests[n].msg_type # "silent"
    /\ r.msg_type = "MsgTaskAck" /\ r.err_code = 1 => requests[n].task_id \in held

Accepted(n) == requests[n].msg_type = "MsgTask" /\ requests[n].task_id \notin held

LEMMA RequestsTyped ==
    ASSUME ProxyTypes, NEW n \in DOMAIN requests
    PROVE  requests[n] \in RequestRecord /\ n \in Nat
BY LenProperties, ElementOfSeq DEF ProxyTypes

LEMMA ResponseFits ==
    ASSUME ProxyTypes, NEW n \in DOMAIN requests,
           NEW msg_type, NEW err_code \in {0, 1}, NEW sn \in SnRange \cup {Null},
           \/ msg_type \in {"MsgTaskAck", "MsgTaskResult"} /\ requests[n].msg_type = "MsgTask"
           \/ msg_type = "MsgGetTokenAck" /\ requests[n].msg_type = "MsgGetToken"
           \/ msg_type = "UndefinedMsg" /\ requests[n].msg_type = "broken"
    PROVE  /\ RespondsTo(Response(n, msg_type, err_code, sn), n)
           /\ Response(n, msg_type, err_code, sn).msg_type = msg_type
           /\ Response(n, msg_type, err_code, sn).err_code = err_code
<1>1. requests[n] \in RequestRecord /\ n \in Nat
  BY RequestsTyped
<1>2. requests[n].task_id \in Task \cup {Null}
  BY <1>1 DEF RequestRecord
<1>3. Response(n, msg_type, err_code, sn) \in ResponseRecord
  BY <1>1, <1>2 DEF Response, ResponseRecord, ResponseTypes
<1>4. QED
  BY <1>3 DEF Response, RespondsTo, Suits, AnswerType

LEMMA AcknowledgementFits ==
    ASSUME ProxyTypes, NEW n \in DOMAIN requests,
           NEW msg_type, NEW err_code \in {0, 1}, NEW sn \in SnRange \cup {Null},
           \/ msg_type = "MsgTaskAck" /\ requests[n].msg_type = "MsgTask"
           \/ msg_type = "MsgGetTokenAck" /\ requests[n].msg_type = "MsgGetToken"
           \/ msg_type = "UndefinedMsg" /\ requests[n].msg_type = "broken",
           \/ err_code = 0 \/ msg_type # "MsgTaskAck" \/ requests[n].task_id \in held
    PROVE  Acknowledges(Response(n, msg_type, err_code, sn), n)
<1> DEFINE r == Response(n, msg_type, err_code, sn)
<1>1. RespondsTo(r, n) /\ r.msg_type = msg_type /\ r.err_code = err_code
  BY ResponseFits
<1> HIDE DEF r
<1>2. Acknowledges(r, n)
  BY <1>1 DEF Acknowledges
<1>3. QED
  BY <1>2 DEF r

\* What the simulator does with the next request: nothing, or an answer, or
\* an acknowledgement with the result before it.
Answer(n) ==
    \/ /\ requests[n].msg_type = "silent"
       /\ toBackend' = toBackend /\ outstanding' = outstanding
    \/ \E ack : /\ Acknowledges(ack, n)
                /\ \/ /\ toBackend' = Append(toBackend, ack)
                      /\ outstanding' = outstanding \cup (IF Accepted(n) THEN {n} ELSE {})
                   \/ /\ Accepted(n)
                      /\ \E result : /\ RespondsTo(result, n)
                                     /\ result.msg_type = "MsgTaskResult"
                                     /\ toBackend' = Append(Append(toBackend, result), ack)
                      /\ outstanding' = outstanding

Handles(n) ==
    /\ held' = held \cup (IF Accepted(n) THEN {requests[n].task_id} ELSE {})
    /\ Answer(n)

LEMMA AcknowledgeFacts ==
    ASSUME ProxyInv, Acknowledge
    PROVE  /\ toServer # <<>> /\ toServer' = Tail(toServer)
           /\ Head(toServer) \in DOMAIN requests
           /\ Handles(Head(toServer))
<1> DEFINE n == Head(toServer)
           sn == requests[n].sn
<1>1. toServer # <<>> /\ toServer' = Tail(toServer)
  BY DEF Acknowledge
<1>2. n \in Range(toServer)
  BY <1>1, Taken DEF ProxyInv, ProxyTypes
<1>3. n \in DOMAIN requests /\ ProxyTypes
  BY <1>2 DEF ProxyInv, Places
<1>4. sn \in SnRange \cup {Null} /\ 0 \in SnRange \cup {Null} /\ Null \in SnRange \cup {Null}
  BY <1>3, RequestsTyped, ProxyAssumption DEF RequestRecord
<1>c. SUFFICES Handles(n)
  BY <1>1, <1>3 DEF n
<1> HIDE DEF n, sn
<1>5. CASE /\ Accepted(n) /\ held' = held \cup {requests[n].task_id}
           /\ toBackend' = Append(toBackend, Response(n, "MsgTaskAck", 0, sn))
           /\ outstanding' = outstanding \cup {n}
  <2> DEFINE ack == Response(n, "MsgTaskAck", 0, sn)
  <2>1. requests[n].msg_type = "MsgTask"
    BY <1>5 DEF Accepted
  <2>2. Acknowledges(ack, n)
    BY ONLY <1>3, <1>4, <2>1, AcknowledgementFits
  <2> HIDE DEF ack
  <2>3. toBackend' = Append(toBackend, ack)
    BY <1>5 DEF ack
  <2>4. /\ outstanding' = outstanding \cup (IF Accepted(n) THEN {n} ELSE {})
        /\ held' = held \cup (IF Accepted(n) THEN {requests[n].task_id} ELSE {})
    BY <1>5
  <2>5. Answer(n)
    BY <1>5, <2>2, <2>3, <2>4, Zenon DEF Answer
  <2>6. QED
    BY <2>4, <2>5 DEF Handles
<1>6. CASE /\ Accepted(n) /\ held' = held \cup {requests[n].task_id}
           /\ toBackend' = Append(Append(toBackend, Response(n, "MsgTaskResult", 0, sn)),
                                  Response(n, "MsgTaskAck", 0, sn))
           /\ outstanding' = outstanding
  <2> DEFINE ack == Response(n, "MsgTaskAck", 0, sn)
             result == Response(n, "MsgTaskResult", 0, sn)
  <2>1. requests[n].msg_type = "MsgTask"
    BY <1>6 DEF Accepted
  <2>2. Acknowledges(ack, n)
    BY ONLY <1>3, <1>4, <2>1, AcknowledgementFits
  <2>3. RespondsTo(result, n) /\ result.msg_type = "MsgTaskResult"
    BY <1>3, <1>4, <2>1, ResponseFits
  <2> HIDE DEF ack, result
  <2>4. toBackend' = Append(Append(toBackend, result), ack)
    BY <1>6 DEF ack, result
  <2>5. held' = held \cup (IF Accepted(n) THEN {requests[n].task_id} ELSE {})
    BY <1>6, <2>2, <2>3, <2>4
  <2>6. Answer(n)
    BY <1>6, <2>2, <2>3, <2>4, <2>5, Zenon DEF Answer
  <2>7. QED
    BY <2>5, <2>6 DEF Handles
<1>7. CASE /\ requests[n].msg_type = "MsgTask" /\ ~Accepted(n) /\ held' = held
           /\ toBackend' = Append(toBackend, Response(n, "MsgTaskAck", 1, sn))
           /\ outstanding' = outstanding
  <2> DEFINE ack == Response(n, "MsgTaskAck", 1, sn)
  <2>1. requests[n].msg_type = "MsgTask" /\ requests[n].task_id \in held
    BY <1>7 DEF Accepted
  <2>2. Acknowledges(ack, n)
    BY ONLY <1>3, <1>4, <2>1, AcknowledgementFits
  <2> HIDE DEF ack
  <2>3. toBackend' = Append(toBackend, ack)
    BY <1>7 DEF ack
  <2>4. /\ outstanding' = outstanding \cup (IF Accepted(n) THEN {n} ELSE {})
        /\ held' = held \cup (IF Accepted(n) THEN {requests[n].task_id} ELSE {})
    BY <1>7, <2>2, <2>3
  <2>5. Answer(n)
    BY <1>7, <2>2, <2>3, <2>4, Zenon DEF Answer
  <2>6. QED
    BY <2>4, <2>5 DEF Handles
<1>8. CASE /\ requests[n].msg_type = "MsgGetToken" /\ held' = held
           /\ \E err_code \in {0, 1} :
                 toBackend' = Append(toBackend, Response(n, "MsgGetTokenAck", err_code, Null))
           /\ outstanding' = outstanding
  <2>1. PICK err_code \in {0, 1} :
            toBackend' = Append(toBackend, Response(n, "MsgGetTokenAck", err_code, Null))
    BY <1>8
  <2> DEFINE ack == Response(n, "MsgGetTokenAck", err_code, Null)
  <2>2. requests[n].msg_type = "MsgGetToken" /\ ~Accepted(n)
    BY <1>8 DEF Accepted
  <2>3. Acknowledges(ack, n)
    BY <1>3, <1>4, <2>2, AcknowledgementFits
  <2> HIDE DEF ack
  <2>4. toBackend' = Append(toBackend, ack)
    BY <2>1 DEF ack
  <2>5. /\ outstanding' = outstanding \cup (IF Accepted(n) THEN {n} ELSE {})
        /\ held' = held \cup (IF Accepted(n) THEN {requests[n].task_id} ELSE {})
    BY <1>8, <2>2, <2>3, <2>4
  <2>6. Answer(n)
    BY <1>8, <2>2, <2>3, <2>4, <2>5, Zenon DEF Answer
  <2>7. QED
    BY <2>5, <2>6 DEF Handles
<1>9. CASE /\ requests[n].msg_type = "broken" /\ held' = held
           /\ toBackend' = Append(toBackend, Response(n, "UndefinedMsg", 1, 0))
           /\ outstanding' = outstanding
  <2> DEFINE ack == Response(n, "UndefinedMsg", 1, 0)
  <2>1. requests[n].msg_type = "broken" /\ ~Accepted(n)
    BY <1>9 DEF Accepted
  <2>2. Acknowledges(ack, n)
    BY ONLY <1>3, <1>4, <2>1, AcknowledgementFits
  <2> HIDE DEF ack
  <2>3. toBackend' = Append(toBackend, ack)
    BY <1>9 DEF ack
  <2>4. /\ outstanding' = outstanding \cup (IF Accepted(n) THEN {n} ELSE {})
        /\ held' = held \cup (IF Accepted(n) THEN {requests[n].task_id} ELSE {})
    BY <1>9, <2>1, <2>2, <2>3
  <2>5. Answer(n)
    BY <1>9, <2>1, <2>2, <2>3, <2>4, Zenon DEF Answer
  <2>6. QED
    BY <2>4, <2>5 DEF Handles
<1>10. CASE requests[n].msg_type = "silent" /\ UNCHANGED <<held, toBackend, outstanding>>
  <2>1. ~Accepted(n) /\ Answer(n)
    BY <1>10 DEF Answer, Accepted
  <2>2. QED
    BY <1>10, <2>1 DEF Handles
<1>11. QED
  BY <1>5, <1>6, <1>7, <1>8, <1>9, <1>10 DEF Acknowledge, Accepted, n, sn

\* The responses after one, or two, more.
LEMMA GivenAppended ==
    ASSUME ProxyTypes, NEW r \in ResponseRecord, toBackend' = Append(toBackend, r),
           delivered' = delivered
    PROVE  toBackend' \in Seq(ResponseRecord) /\ toBackend' # <<>> /\ Given' = Given \cup {r}
<1>1. /\ toBackend' \in Seq(ResponseRecord) /\ toBackend' # <<>>
      /\ Range(toBackend') = Range(toBackend) \cup {r}
  BY Appended DEF ProxyTypes
<1>2. QED
  BY <1>1 DEF Given, Responses

LEMMA GivenPair ==
    ASSUME ProxyTypes, NEW r \in ResponseRecord, NEW q \in ResponseRecord,
           toBackend' = Append(Append(toBackend, r), q), delivered' = delivered
    PROVE  /\ toBackend' \in Seq(ResponseRecord) /\ toBackend' # <<>>
           /\ Given' = Given \cup {r, q}
<1> DEFINE b == Append(toBackend, r)
<1>1. b \in Seq(ResponseRecord) /\ Range(b) = Range(toBackend) \cup {r} /\ toBackend' = Append(b, q)
  BY Appended DEF ProxyTypes
<1> HIDE DEF b
<1>2. /\ toBackend' \in Seq(ResponseRecord) /\ toBackend' # <<>>
      /\ Range(toBackend') = Range(b) \cup {q}
  BY <1>1, Appended
<1>3. QED
  BY <1>1, <1>2 DEF Given, Responses

\* Once a request is answered, requests were forwarded, and the client of the
\* last one is known.
LEMMA LastClientKnown ==
    ASSUME ProxyInv, NEW r \in Given, r.n # 0
    PROVE  /\ Len(forwarded) \in Nat /\ Len(forwarded) \in DOMAIN forwarded
           /\ lastClient \in Peer /\ lastClient = requests[forwarded[Len(forwarded)]].client
<1>1. r.n \in Range(forwarded)
  BY DEF ProxyInv, Places, Handled
<1>2. forwarded \in Seq(Nat) /\ DOMAIN forwarded # {}
  BY <1>1 DEF ProxyInv, ProxyTypes, Range
<1>3. Len(forwarded) \in Nat /\ DOMAIN forwarded = 1 .. Len(forwarded)
  BY <1>2, LenProperties
<1>4. Len(forwarded) \in DOMAIN forwarded /\ forwarded # <<>>
  BY <1>2, <1>3
<1>5. forwarded[Len(forwarded)] \in DOMAIN requests
  BY <1>4 DEF ProxyInv, Places, Range
<1>6. lastClient = requests[forwarded[Len(forwarded)]].client
  BY <1>4 DEF ProxyInv, LoopFits
<1>7. QED
  BY <1>3, <1>4, <1>5, <1>6, RequestsTyped DEF ProxyInv, RequestRecord

\* The response branch hands a response to a client, or drops one that
\* answers no request.
Handed == [response |-> Head(toBackend), after |-> Len(forwarded)]

LEMMA ForwardFacts ==
    ASSUME ProxyInv, Forward
    PROVE  /\ toBackend # <<>> /\ toBackend' = Tail(toBackend)
           /\ toBackend' \in Seq(ResponseRecord)
           /\ Head(toBackend) \in Given /\ Head(toBackend) \in ResponseRecord
           /\ delivered' \in [Peer -> Seq([response : ResponseRecord, after : Nat])]
           /\ Given' \subseteq Given
           /\ \A r \in Given : r.n # 0 => r \in Given'
           /\ \/ lastClient = Null /\ Head(toBackend).n = 0 /\ delivered' = delivered
              \/ /\ lastClient \in Peer
                 /\ Handed \in [response : ResponseRecord, after : Nat]
                 /\ delivered' = [delivered EXCEPT ![lastClient] = Append(@, Handed)]
<1> DEFINE D == [response : ResponseRecord, after : Nat]
<1>1. /\ toBackend # <<>> /\ toBackend' = Tail(toBackend)
      /\ delivered' = IF lastClient = Null THEN delivered
                       ELSE [delivered EXCEPT ![lastClient] = Append(@, Handed)]
  BY DEF Forward, ProxyInv, LoopFits, Handed
<1>2. /\ toBackend' \in Seq(ResponseRecord) /\ Head(toBackend) \in ResponseRecord
      /\ Range(toBackend) = Range(toBackend') \cup {Head(toBackend)}
  BY <1>1, Taken DEF ProxyInv, ProxyTypes
<1>3. Head(toBackend) \in Given
  BY <1>2 DEF Given
<1>4. Handed \in D /\ Handed.response = Head(toBackend)
  BY <1>2, LenProperties DEF Handed, ProxyInv, ProxyTypes
<1>5. delivered \in [Peer -> Seq(D)]
  BY DEF ProxyInv, ProxyTypes
<1>6. CASE lastClient = Null
  <2>1. Head(toBackend).n = 0
    BY <1>3, <1>6, LastClientKnown, ProxyAssumption
  <2>2. delivered' = delivered /\ Responses' = Responses
    BY <1>1, <1>6 DEF Responses
  <2>3. Given = Given' \cup {Head(toBackend)}
    BY <1>2, <2>2 DEF Given
  <2>4. QED
    BY <1>1, <1>2, <1>3, <1>5, <1>6, <2>1, <2>2, <2>3
<1>7. CASE lastClient # Null
  <2>1. lastClient \in Peer
    BY <1>7 DEF ProxyInv, LoopFits
  <2> HIDE DEF D
  <2>2. delivered' = [delivered EXCEPT ![lastClient] = Append(@, Handed)]
    BY <1>1, <1>7
  <2>3. /\ Append(delivered[lastClient], Handed) \in Seq(D)
        /\ Range(Append(delivered[lastClient], Handed)) = Range(delivered[lastClient]) \cup {Handed}
    BY <1>4, <1>5, <2>1, Appended
  <2>4. /\ delivered' \in [Peer -> Seq(D)]
        /\ delivered'[lastClient] = Append(delivered[lastClient], Handed)
        /\ \A c \in Peer \ {lastClient} : delivered'[c] = delivered[c]
    BY <1>5, <2>1, <2>2, <2>3
  <2>5. /\ Range(delivered'[lastClient]) = Range(delivered[lastClient]) \cup {Handed}
        /\ \A c \in Peer \ {lastClient} : Range(delivered'[c]) = Range(delivered[c])
    BY <2>3, <2>4
  <2>6. Responses' = Responses \cup {Handed}
    BY <2>1, <2>5 DEF Responses
  <2>7. Given' = Given
    BY <1>2, <1>4, <2>6 DEF Given
  <2>8. QED
    BY <1>1, <1>2, <1>3, <1>4, <2>1, <2>2, <2>4, <2>7 DEF D
<1>8. QED
  BY <1>6, <1>7

\* A client's next request.
LEMMA SendFacts ==
    ASSUME ProxyInv, NEW request \in Offered, Send(request)
    PROVE  /\ Len(requests) \in Nat /\ DOMAIN requests = 1 .. Len(requests)
           /\ requests' \in Seq(RequestRecord) /\ DOMAIN requests' = 1 .. Len(requests) + 1
           /\ \A n \in DOMAIN requests : requests'[n] = requests[n]
           /\ requests'[Len(requests) + 1].client = request.client
           /\ requests'[Len(requests) + 1].msg_type = request.msg_type
           /\ request.client \in Peer
           /\ frontend' \in [Peer -> Seq(Nat)]
           /\ \A c \in Peer : IsInjective(frontend'[c])
           /\ Range(frontend'[request.client]) = Range(frontend[request.client]) \cup {Len(requests) + 1}
           /\ \A c \in Peer \ {request.client} : frontend'[c] = frontend[c]
           /\ frontend'[request.client] # <<>>
<1> DEFINE c == request.client
           n == Len(requests) + 1
<1>1. request \in [client : Peer, msg_type : {"MsgTask", "MsgGetToken", "silent", "broken"},
                    sn : SnRange \cup {Null}, task_id : Task \cup {Null}, captured : {Null}]
  BY ProxyAssumption
<1>3. request \in RequestRecord
  BY <1>1 DEF RequestRecord
<1>4. requests' = Append(requests, request) /\ frontend' = [frontend EXCEPT ![c] = Append(@, n)]
  BY DEF Send
<1> HIDE DEF c
<1>5. /\ Len(requests) \in Nat /\ DOMAIN requests = 1 .. Len(requests)
      /\ requests' \in Seq(RequestRecord) /\ DOMAIN requests' = 1 .. Len(requests) + 1
      /\ \A m \in DOMAIN requests : requests'[m] = requests[m]
      /\ requests'[Len(requests) + 1] = request
  BY <1>3, <1>4, Appended DEF ProxyInv, ProxyTypes
<1>6. c \in Peer /\ frontend \in [Peer -> Seq(Nat)] /\ n \in Nat
  BY <1>1, <1>5 DEF ProxyInv, ProxyTypes, c
<1>7. n \notin Range(frontend[c]) /\ IsInjective(frontend[c])
  BY <1>5, <1>6 DEF ProxyInv, Places
<1> HIDE DEF n
<1>8. /\ Append(frontend[c], n) \in Seq(Nat) /\ Append(frontend[c], n) # <<>>
      /\ IsInjective(Append(frontend[c], n))
      /\ Range(Append(frontend[c], n)) = Range(frontend[c]) \cup {n}
  <2>1. frontend[c] \in Seq(Nat)
    BY <1>6
  <2>2. QED
    BY <1>6, <1>7, <2>1, Appended
<1>9. /\ frontend' \in [Peer -> Seq(Nat)]
      /\ frontend'[c] = Append(frontend[c], n)
      /\ \A e \in Peer \ {c} : frontend'[e] = frontend[e]
  BY <1>4, <1>6, <1>8
<1>10. \A e \in Peer : IsInjective(frontend'[e])
  <2>1. ASSUME NEW e \in Peer PROVE IsInjective(frontend'[e])
    <3>1. CASE e = c
      BY <1>8, <1>9, <3>1
    <3>2. CASE e # c
      BY <1>9, <3>2 DEF ProxyInv, Places
    <3>3. QED
      BY <3>1, <3>2
  <2>2. QED
    BY <2>1
<1>11. Range(frontend'[c]) = Range(frontend[c]) \cup {n} /\ frontend'[c] # <<>>
  BY <1>8, <1>9
<1>12. QED
  BY <1>3, <1>5, <1>6, <1>9, <1>10, <1>11 DEF c, n

\* The request branch.
First(c) == Head(frontend[c])

LEMMA RequestFacts ==
    ASSUME ProxyInv, NEW c \in Peer, Request(c)
    PROVE  /\ First(c) \in DOMAIN requests /\ First(c) \notin Range(forwarded) /\ requests[First(c)].client = c
           /\ requests' \in Seq(RequestRecord) /\ DOMAIN requests' = DOMAIN requests
           /\ requests'[First(c)] = [requests[First(c)] EXCEPT !.captured = now]
           /\ \A m \in DOMAIN requests \ {First(c)} : requests'[m] = requests[m]
           /\ frontend' \in [Peer -> Seq(Nat)]
           /\ \A e \in Peer : /\ IsInjective(frontend'[e])
                              /\ Range(frontend'[e]) \subseteq Range(frontend[e]) \ {First(c)}
           /\ forwarded' = Append(forwarded, First(c)) /\ toServer' = Append(toServer, First(c))
           /\ forwarded' \in Seq(Nat) /\ IsInjective(forwarded')
           /\ Range(forwarded') = Range(forwarded) \cup {First(c)}
           /\ forwarded' # <<>> /\ forwarded'[Len(forwarded')] = First(c)
           /\ toServer' \in Seq(Nat) /\ IsInjective(toServer')
           /\ Range(toServer') = Range(toServer) \cup {First(c)} /\ First(c) \notin Range(toServer)
<1> DEFINE n == First(c)
<1>1. /\ frontend[c] # <<>>
      /\ frontend' = [frontend EXCEPT ![c] = Tail(@)]
      /\ requests' = [requests EXCEPT ![n].captured = now]
      /\ forwarded' = Append(forwarded, n) /\ toServer' = Append(toServer, n)
  BY DEF Request, First
<1>t. /\ frontend \in [Peer -> Seq(Nat)] /\ requests \in Seq(RequestRecord)
      /\ forwarded \in Seq(Nat) /\ toServer \in Seq(Nat) /\ now \in Nat
      /\ IsInjective(forwarded) /\ IsInjective(toServer)
      /\ \A e \in Peer : IsInjective(frontend[e])
  BY DEF ProxyInv, ProxyTypes, Places
<1> DEFINE s == frontend[c]
<1>2. /\ Tail(s) \in Seq(Nat) /\ IsInjective(Tail(s)) /\ n \notin Range(Tail(s))
      /\ Range(s) = Range(Tail(s)) \cup {n}
  <2>1. s \in Seq(Nat) /\ IsInjective(s) /\ s # <<>>
    BY <1>1, <1>t
  <2>2. QED
    BY <2>1, Taken DEF First
<1> HIDE DEF n
<1>3. n \in DOMAIN requests /\ n \notin Range(forwarded) /\ requests[n].client = c
  BY <1>2 DEF ProxyInv, Places
<1>4. n \notin Range(toServer)
  BY <1>3 DEF ProxyInv, Places
<1>5. /\ frontend' \in [Peer -> Seq(Nat)] /\ frontend'[c] = Tail(s)
      /\ \A e \in Peer \ {c} : frontend'[e] = frontend[e]
  BY <1>1, <1>2, <1>t
<1>6. ASSUME NEW e \in Peer
      PROVE  IsInjective(frontend'[e]) /\ Range(frontend'[e]) \subseteq Range(frontend[e]) \ {n}
  <2>1. CASE e = c
    BY <1>2, <1>5, <2>1
  <2>2. CASE e # c
    <3>1. frontend'[e] = frontend[e] /\ n \notin Range(frontend[e])
      BY <1>3, <1>5, <2>2 DEF ProxyInv, Places
    <3>2. QED
      BY <1>t, <3>1
  <2>3. QED
    BY <2>1, <2>2
<1>7. requests[n] \in RequestRecord /\ n \in Nat
  BY <1>3, RequestsTyped DEF ProxyInv
<1>8. [requests[n] EXCEPT !.captured = now] \in RequestRecord
  BY <1>7, <1>t DEF RequestRecord
<1>9. requests' = [requests EXCEPT ![n] = [requests[n] EXCEPT !.captured = now]]
  BY <1>1
<1>10. /\ requests' \in Seq(RequestRecord) /\ DOMAIN requests' = DOMAIN requests
       /\ requests'[n] = [requests[n] EXCEPT !.captured = now]
       /\ \A m \in DOMAIN requests \ {n} : requests'[m] = requests[m]
  <2>1. DOMAIN requests = 1 .. Len(requests)
    BY <1>t, LenProperties
  <2>2. requests' \in Seq(RequestRecord)
    BY <1>3, <1>8, <1>9, <1>t, <2>1, ExceptSeq
  <2>3. QED
    BY <1>3, <1>9, <2>2
<1>11. /\ forwarded' \in Seq(Nat) /\ IsInjective(forwarded')
       /\ Range(forwarded') = Range(forwarded) \cup {n}
  <2>1. /\ forwarded \in Seq(Nat) /\ n \in Nat /\ forwarded' = Append(forwarded, n)
        /\ IsInjective(forwarded) /\ n \notin Range(forwarded)
    BY <1>1, <1>3, <1>7, <1>t
  <2>2. QED
    BY <2>1, Appended
<1>12. /\ toServer' \in Seq(Nat) /\ IsInjective(toServer')
       /\ Range(toServer') = Range(toServer) \cup {n}
  <2>1. /\ toServer \in Seq(Nat) /\ n \in Nat /\ toServer' = Append(toServer, n)
        /\ IsInjective(toServer) /\ n \notin Range(toServer)
    BY <1>1, <1>4, <1>7, <1>t
  <2>2. QED
    BY <2>1, Appended
<1>13. forwarded' # <<>> /\ forwarded'[Len(forwarded')] = n
  <2>1. Len(forwarded') = Len(forwarded) + 1 /\ forwarded'[Len(forwarded) + 1] = n
    BY <1>1, <1>7, <1>t, AppendProperties
  <2>2. forwarded' # <<>>
    BY <1>1, <1>7, <1>t, AppendProperties
  <2>3. QED
    BY <2>1, <2>2
<1>14. QED
  BY <1>1, <1>3, <1>4, <1>5, <1>6, <1>10, <1>11, <1>12, <1>13 DEF n

\* What the validator keeps stays typed, whatever is captured.
LEMMA CaptureTyped ==
    ASSUME ProxyTypes, NEW n, NEW payload, NEW direction,
           payload.sn \in SnRange \cup {Null},
           Capture(n, payload, direction)
    PROVE  /\ pendingRequests' \in [SnRange -> 1 .. now \cup {Null}]
           /\ taskIdsSeen' \subseteq StringIds
           /\ authState' \in BOOLEAN
<1> DEFINE msg == FromRaw(payload, direction)
<1>1. /\ msg.sn = payload.sn /\ msg.task_id = payload.task_id /\ msg.channel = "router"
      /\ msg.timestamp = now
  BY DEF FromRaw
<1>2. PairRequests(msg) /\ Authenticate(msg) /\ RememberTask(msg)
  BY <1>1 DEF Capture, Validate, Semantics
<1> HIDE DEF msg
<1>3. pendingRequests' \in [SnRange -> 1 .. now \cup {Null}]
  <2>1. now \in 1 .. now /\ pendingRequests \in [SnRange -> 1 .. now \cup {Null}]
    BY DEF ProxyTypes
  <2>2. CASE msg.sn = Null
    BY <1>2, <2>1, <2>2 DEF PairRequests
  <2>3. CASE msg.sn # Null
    <3>1. PICK time \in {now, Null} : pendingRequests' = [pendingRequests EXCEPT ![msg.sn] = time]
      BY <1>1, <1>2, <2>3 DEF PairRequests
    <3>2. QED
      BY <2>1, <3>1
  <2>4. QED
    BY <2>2, <2>3
<1>4. taskIdsSeen' \subseteq StringIds
  BY <1>1, <1>2 DEF RememberTask, ProxyTypes
<1>5. authState' \in BOOLEAN
  BY <1>2 DEF Authenticate
<1>6. QED
  BY <1>3, <1>4, <1>5

\* The steps that neither move a request nor a response.
Quiet ==
    /\ UNCHANGED <<requests, frontend, forwarded, toServer, outstanding, toBackend, delivered,
                   flagged, lastClient, pendingRequests, taskIdsSeen, authState, earlier>>
    /\ held' \subseteq held
    /\ now' \in {now, now + 1}
    /\ \/ at' = at
       \/ at' \in {"poll", "stopped"}
       \/ at' \in {"request", "both"} /\ HasRequest /\ (at' = "both" => toBackend # <<>>)
       \/ at' = "response" /\ toBackend # <<>>

LEMMA Steps ==
    ASSUME [Next]_vars
    PROVE  \/ \E request \in Offered : Send(request)
           \/ Acknowledge
           \/ \E n \in outstanding : SendResult(n)
           \/ \E response \in earlier : SendEarlier(response)
           \/ \E c \in Peer : Request(c)
           \/ Forward
           \/ Quiet
<1> USE DEF Quiet, proxyVars, envVars, validatorVars, semanticVars
<1>1. ASSUME NEW id, Evict(id) PROVE Quiet
  BY <1>1 DEF Evict
<1>2. Tick => Quiet
  BY DEF Tick
<1>3. Poll => Quiet
  BY DEF Poll
<1>4. Stop => Quiet
  BY DEF Stop
<1>5. UNCHANGED vars => Quiet
  BY DEF vars
<1>6. QED
  BY <1>1, <1>2, <1>3, <1>4, <1>5 DEF Next, ProxyStep

\* Requests are only added and captured, and what was forwarded stays.
LEMMA StepKeepsRequests ==
    ASSUME ProxyInv, [Next]_vars
    PROVE  /\ \A n \in DOMAIN requests :
                 /\ n \in DOMAIN requests'
                 /\ requests'[n].client = requests[n].client
                 /\ requests'[n].msg_type = requests[n].msg_type
                 /\ requests'[n].sn = requests[n].sn
                 /\ requests'[n].task_id = requests[n].task_id
           /\ \A n \in Range(forwarded) : requests'[n] = requests[n] /\ n \in Range(forwarded')
<1>1. ASSUME NEW request \in Offered, Send(request)
      PROVE  /\ \A n \in DOMAIN requests : n \in DOMAIN requests' /\ requests'[n] = requests[n]
             /\ forwarded' = forwarded
  BY <1>1, SendFacts DEF Send
<1>2. ASSUME NEW c \in Peer, Request(c)
      PROVE  /\ \A n \in DOMAIN requests :
                   /\ n \in DOMAIN requests'
                   /\ requests'[n].client = requests[n].client
                   /\ requests'[n].msg_type = requests[n].msg_type
                   /\ requests'[n].sn = requests[n].sn
                   /\ requests'[n].task_id = requests[n].task_id
             /\ \A n \in Range(forwarded) : requests'[n] = requests[n] /\ n \in Range(forwarded')
  <2> DEFINE m == First(c)
  <2>1. /\ m \in DOMAIN requests /\ m \notin Range(forwarded) /\ DOMAIN requests' = DOMAIN requests
        /\ requests'[m] = [requests[m] EXCEPT !.captured = now]
        /\ \A n \in DOMAIN requests \ {m} : requests'[n] = requests[n]
        /\ Range(forwarded') = Range(forwarded) \cup {m}
    BY <1>2, RequestFacts
  <2>2. requests[m] \in RequestRecord
    BY <2>1, RequestsTyped DEF ProxyInv
  <2> HIDE DEF m
  <2>3. /\ requests'[m].client = requests[m].client
        /\ requests'[m].msg_type = requests[m].msg_type
        /\ requests'[m].sn = requests[m].sn
        /\ requests'[m].task_id = requests[m].task_id
    BY <2>1, <2>2 DEF RequestRecord
  <2>4. \A n \in Range(forwarded) : n \in DOMAIN requests \ {m}
    BY <2>1 DEF ProxyInv, Places
  <2>5. QED
    BY <2>1, <2>3, <2>4
<1>3. CASE \/ Acknowledge \/ (\E n \in outstanding : SendResult(n))
           \/ (\E response \in earlier : SendEarlier(response)) \/ Forward \/ Quiet
  <2>1. UNCHANGED <<requests, forwarded>>
    BY <1>3 DEF Acknowledge, SendResult, SendEarlier, Forward, Quiet, proxyVars
  <2>2. QED
    BY <2>1 DEF ProxyInv, Places
<1>4. \A n \in Range(forwarded) : n \in DOMAIN requests
  BY DEF ProxyInv, Places
<1>5. QED
  BY <1>1, <1>2, <1>3, <1>4, Steps

--------------------------------------------------------------------------------
(* ProxyInv is inductive.                                                  *)

LEMMA InitProxyInv == Init => ProxyInv
<1> SUFFICES ASSUME Init PROVE ProxyInv
  OBVIOUS
<1>1. /\ requests = <<>> /\ forwarded = <<>> /\ toServer = <<>> /\ toBackend = <<>>
      /\ frontend = [c \in Peer |-> <<>>] /\ delivered = [c \in Peer |-> <<>>]
      /\ at = "poll" /\ outstanding = {} /\ now = 1 /\ earlier = Earlier /\ lastClient = Null
      /\ pendingRequests = [sn \in SnRange |-> Null] /\ taskIdsSeen = {} /\ authState = FALSE
  BY DEF Init, PVInit
<1>2. ProxyTypes
  <2>1. /\ requests \in Seq(RequestRecord) /\ toBackend \in Seq(ResponseRecord)
        /\ forwarded \in Seq(Nat) /\ toServer \in Seq(Nat)
        /\ <<>> \in Seq(Nat) /\ <<>> \in Seq([response : ResponseRecord, after : Nat])
    BY <1>1, EmptySeq
  <2>2. /\ frontend \in [Peer -> Seq(Nat)]
        /\ delivered \in [Peer -> Seq([response : ResponseRecord, after : Nat])]
    BY <1>1, <2>1
  <2>3. pendingRequests \in [SnRange -> 1 .. now \cup {Null}]
    BY <1>1
  <2>4. /\ now \in Nat \ {0} /\ taskIdsSeen \subseteq StringIds /\ earlier \subseteq Earlier
        /\ at \in {"poll", "request", "both", "response", "stopped"}
    BY <1>1
  <2>5. authState \in BOOLEAN
    BY <1>1
  <2>6. QED
    BY <2>1, <2>2, <2>3, <2>4, <2>5 DEF ProxyTypes
<1>3. DOMAIN (<<>>) = {} /\ Range(<<>>) = {} /\ IsInjective(<<>>)
  BY DEF Range, IsInjective
<1>4. Given = {}
  BY <1>1, <1>3 DEF Given, Responses
<1>5. Places
  <2>1. \A c \in Peer : frontend[c] = <<>> /\ Range(frontend[c]) = {} /\ IsInjective(frontend[c])
    BY <1>1, <1>3
  <2>2. /\ Range(forwarded) = {} /\ Range(toServer) = {} /\ DOMAIN requests = {}
        /\ IsInjective(forwarded) /\ IsInjective(toServer)
    BY <1>1, <1>3
  <2>3. QED
    BY <1>1, <1>4, <2>1, <2>2 DEF Places
<1>6. LoopFits
  BY <1>1 DEF LoopFits
<1>7. QED
  BY <1>2, <1>5, <1>6 DEF ProxyInv

LEMMA QuietKeepsInv ==
    ASSUME ProxyInv, Quiet
    PROVE  ProxyInv'
<1>1. /\ UNCHANGED <<requests, frontend, forwarded, toServer, outstanding, toBackend, delivered,
                     lastClient, pendingRequests, taskIdsSeen, authState, earlier>>
      /\ now' \in Nat \ {0} /\ 1 .. now \subseteq 1 .. now'
  BY DEF Quiet, ProxyInv, ProxyTypes
<1>2. at' \in {"poll", "request", "both", "response", "stopped"}
  BY DEF Quiet, ProxyInv, ProxyTypes
<1>3. pendingRequests' \in [SnRange -> 1 .. now' \cup {Null}]
  BY <1>1 DEF ProxyInv, ProxyTypes
<1>4. ProxyTypes'
  BY <1>1, <1>2, <1>3 DEF ProxyInv, ProxyTypes
<1>5. Given' = Given /\ Handled' = Handled
  BY <1>1 DEF Given, Responses, Handled
<1>6. Places'
  BY <1>1, <1>5 DEF ProxyInv, Places
<1>7. LoopFits'
  BY <1>1, <1>2 DEF Quiet, ProxyInv, LoopFits, HasRequest
<1>8. QED
  BY <1>4, <1>6, <1>7 DEF ProxyInv

LEMMA SendKeepsInv ==
    ASSUME ProxyInv, NEW request \in Offered, Send(request)
    PROVE  ProxyInv'
<1> DEFINE n == Len(requests) + 1
           c == request.client
<1>1. /\ DOMAIN requests = 1 .. Len(requests) /\ Len(requests) \in Nat
      /\ requests' \in Seq(RequestRecord) /\ DOMAIN requests' = 1 .. n
      /\ \A m \in DOMAIN requests : requests'[m] = requests[m]
      /\ requests'[n].client = c
      /\ c \in Peer
      /\ frontend' \in [Peer -> Seq(Nat)]
      /\ \A e \in Peer : IsInjective(frontend'[e])
      /\ Range(frontend'[c]) = Range(frontend[c]) \cup {n}
      /\ \A e \in Peer \ {c} : frontend'[e] = frontend[e]
      /\ frontend'[c] # <<>>
  BY SendFacts
<1>2. /\ UNCHANGED <<at, lastClient, forwarded, toServer, outstanding, toBackend, delivered, now,
                     pendingRequests, taskIdsSeen, authState, earlier>>
  BY DEF Send, envVars, validatorVars, semanticVars
<1> HIDE DEF n, c
<1>3. ProxyTypes'
  BY <1>1, <1>2 DEF ProxyInv, ProxyTypes
<1>4. Given' = Given /\ Handled' = Handled
  BY <1>2 DEF Given, Responses, Handled
<1>5. n \notin Range(forwarded) /\ n \in DOMAIN requests' /\ DOMAIN requests \subseteq DOMAIN requests'
  BY <1>1 DEF ProxyInv, Places, n
<1>6. ASSUME NEW e \in Peer, NEW m \in Range(frontend'[e])
      PROVE  m \in DOMAIN requests' /\ m \notin Range(forwarded) /\ requests'[m].client = e
  <2>1. CASE e = c /\ m = n
    BY <1>1, <1>5, <2>1
  <2>2. CASE m \in Range(frontend[e])
    BY <1>1, <1>5, <2>2 DEF ProxyInv, Places
  <2>3. QED
    BY <1>1, <1>6, <2>1, <2>2
<1>7. \A m \in Range(forwarded) : m \in DOMAIN requests' /\ requests'[m].captured \in 1 .. now
  BY <1>1, <1>5 DEF ProxyInv, Places
<1>8. \A m \in Handled : m \in DOMAIN requests /\ requests'[m] = requests[m]
  BY <1>1 DEF ProxyInv, Places, Handled
<1>9. ASSUME NEW r \in Given, r.n # 0
      PROVE  r.n \in Handled /\ Suits(r, requests'[r.n])
  BY <1>8, <1>9 DEF ProxyInv, Places
<1>10. \A m \in outstanding : m \in Handled /\ requests'[m].msg_type = "MsgTask"
  BY <1>8 DEF ProxyInv, Places
<1>12. Places'
  BY <1>1, <1>2, <1>4, <1>6, <1>7, <1>9, <1>10 DEF ProxyInv, Places
<1>13. LoopFits'
  <2>1. forwarded # <<>> => requests'[forwarded[Len(forwarded)]] = requests[forwarded[Len(forwarded)]]
    <3>1. ASSUME forwarded # <<>> PROVE Len(forwarded) \in DOMAIN forwarded
      BY <3>1, EmptySeq, LenProperties DEF ProxyInv, ProxyTypes
    <3>2. QED
      BY <1>1, <3>1 DEF ProxyInv, Places, Range
  <2>2. HasRequest'
    BY <1>1 DEF HasRequest
  <2>3. QED
    BY <1>2, <2>1, <2>2 DEF ProxyInv, LoopFits
<1>14. QED
  BY <1>3, <1>12, <1>13 DEF ProxyInv

\* The simulator's steps: it takes requests and answers those it has taken.
LEMMA AnswerKeepsInv ==
    ASSUME ProxyInv,
           UNCHANGED <<requests, frontend, forwarded, delivered, at, lastClient, now,
                       pendingRequests, taskIdsSeen, authState>>,
           earlier' \subseteq earlier,
           toServer' \in Seq(Nat), IsInjective(toServer'), Range(toServer') \subseteq Range(toServer),
           toBackend' \in Seq(ResponseRecord), toBackend = <<>> \/ toBackend' # <<>>,
           \A r \in Given' : r \in Given \/ r.n = 0 \/ (r.n \in Handled' /\ RespondsTo(r, r.n)),
           \A n \in outstanding' : n \in Handled' /\ requests[n].msg_type = "MsgTask"
    PROVE  ProxyInv'
<1>1. ProxyTypes'
  BY DEF ProxyInv, ProxyTypes
<1>2. Handled \subseteq Handled'
  BY DEF Handled
<1>3. ASSUME NEW r \in Given', r.n # 0
      PROVE  r.n \in Handled' /\ Suits(r, requests[r.n])
  <2>1. CASE r \in Given
    BY <1>2, <1>3, <2>1 DEF ProxyInv, Places
  <2>2. CASE r.n \in Handled' /\ RespondsTo(r, r.n)
    BY <2>2 DEF RespondsTo
  <2>3. QED
    BY <1>3, <2>1, <2>2
<1>4. Places'
  BY <1>3 DEF ProxyInv, Places
<1>5. LoopFits'
  BY DEF ProxyInv, LoopFits, HasRequest
<1>6. QED
  BY <1>1, <1>4, <1>5 DEF ProxyInv

LEMMA AcknowledgeKeepsInv ==
    ASSUME ProxyInv, Acknowledge
    PROVE  ProxyInv'
<1> DEFINE n == Head(toServer)
<1>1. /\ toServer # <<>> /\ toServer' = Tail(toServer)
      /\ n \in DOMAIN requests
  BY AcknowledgeFacts DEF Handles
<1>2. UNCHANGED <<requests, frontend, forwarded, delivered, at, lastClient, now,
                  pendingRequests, taskIdsSeen, authState>>
  BY DEF Acknowledge, proxyVars, validatorVars, semanticVars
<1>e. earlier' = earlier
  BY DEF Acknowledge
<1>3. /\ toServer' \in Seq(Nat) /\ IsInjective(toServer')
      /\ Range(toServer) = Range(toServer') \cup {n} /\ n \notin Range(toServer')
  BY <1>1, Taken DEF ProxyInv, ProxyTypes, Places
<1>4. n \in Handled' /\ Handled \subseteq Handled'
  BY <1>2, <1>3 DEF ProxyInv, Places, Handled
<1>5. Answer(n)
  BY AcknowledgeFacts DEF Handles
<1> HIDE DEF n
<1>6. \A m \in outstanding' : m \in Handled' /\ requests[m].msg_type = "MsgTask"
  BY <1>4, <1>5 DEF ProxyInv, Places, Accepted, Answer
<1>7. CASE toBackend' = toBackend
  <2>1. /\ toBackend' \in Seq(ResponseRecord) /\ (toBackend = <<>> \/ toBackend' # <<>>)
        /\ Given' = Given
    BY <1>2, <1>7 DEF ProxyInv, ProxyTypes, Given, Responses
  <2>2. QED
    BY <1>2, <1>e, <1>3, <1>6, <2>1, AnswerKeepsInv
<1>8. ASSUME NEW ack, Acknowledges(ack, n),
             \/ toBackend' = Append(toBackend, ack)
             \/ \E result : /\ RespondsTo(result, n)
                            /\ toBackend' = Append(Append(toBackend, result), ack)
      PROVE  /\ toBackend' \in Seq(ResponseRecord) /\ toBackend' # <<>>
             /\ \A r \in Given' : r \in Given \/ (r.n \in Handled' /\ RespondsTo(r, r.n))
  <2>1. ack \in ResponseRecord /\ ack.n = n /\ RespondsTo(ack, ack.n)
    BY <1>8 DEF Acknowledges, RespondsTo
  <2>2. CASE toBackend' = Append(toBackend, ack)
    <3>1. /\ toBackend' \in Seq(ResponseRecord) /\ toBackend' # <<>> /\ Given' = Given \cup {ack}
      BY <1>2, <2>1, <2>2, GivenAppended DEF ProxyInv
    <3>2. QED
      BY <1>4, <2>1, <3>1
  <2>3. ASSUME NEW result, RespondsTo(result, n),
               toBackend' = Append(Append(toBackend, result), ack)
        PROVE  /\ toBackend' \in Seq(ResponseRecord) /\ toBackend' # <<>>
               /\ \A r \in Given' : r \in Given \/ (r.n \in Handled' /\ RespondsTo(r, r.n))
    <3>1. result \in ResponseRecord /\ result.n = n
      BY <2>3 DEF RespondsTo
    <3>2. /\ toBackend' \in Seq(ResponseRecord) /\ toBackend' # <<>>
          /\ Given' = Given \cup {result, ack}
      BY <1>2, <2>1, <2>3, <3>1, GivenPair DEF ProxyInv
    <3>3. QED
      BY <1>4, <2>1, <2>3, <3>1, <3>2
  <2>4. QED
    BY <1>8, <2>2, <2>3
<1>9. CASE \E ack : /\ Acknowledges(ack, n)
                   /\ \/ toBackend' = Append(toBackend, ack)
                      \/ \E result : /\ RespondsTo(result, n)
                                     /\ toBackend' = Append(Append(toBackend, result), ack)
  <2>1. /\ toBackend' \in Seq(ResponseRecord) /\ toBackend' # <<>>
        /\ \A r \in Given' : r \in Given \/ (r.n \in Handled' /\ RespondsTo(r, r.n))
    BY <1>8, <1>9
  <2>2. QED
    BY <1>2, <1>e, <1>3, <1>6, <2>1, AnswerKeepsInv
<1>10. QED
  BY <1>5, <1>7, <1>9 DEF Answer

\* The result of a task, under the SN of a task of its id.
LEMMA ResultFacts ==
    ASSUME ProxyInv, NEW n \in outstanding, SendResult(n)
    PROVE  /\ n \in Handled
           /\ \E r : /\ RespondsTo(r, n) /\ r.msg_type = "MsgTaskResult"
                    /\ toBackend' = Append(toBackend, r)
           /\ outstanding' = outstanding \ {n}
           /\ UNCHANGED <<requests, frontend, forwarded, delivered, at, lastClient, now, toServer,
                          pendingRequests, taskIdsSeen, authState, held, flagged, earlier>>
<1>1. n \in Handled /\ n \in DOMAIN requests /\ requests[n].msg_type = "MsgTask"
  BY DEF ProxyInv, Places, Handled
<1>2. PICK m \in Submissions(requests[n].task_id) :
          toBackend' = Append(toBackend, Response(n, "MsgTaskResult", 0, requests[m].sn))
  BY DEF SendResult
<1>3. requests[m].sn \in SnRange \cup {Null}
  BY RequestsTyped DEF Submissions, ProxyInv, Places, RequestRecord
<1>4. /\ RespondsTo(Response(n, "MsgTaskResult", 0, requests[m].sn), n)
      /\ Response(n, "MsgTaskResult", 0, requests[m].sn).msg_type = "MsgTaskResult"
  BY <1>1, <1>3, ResponseFits DEF ProxyInv
<1>5. QED
  BY <1>1, <1>2, <1>4 DEF SendResult, proxyVars, validatorVars, semanticVars

LEMMA SendResultKeepsInv ==
    ASSUME ProxyInv, NEW n \in outstanding, SendResult(n)
    PROVE  ProxyInv'
<1>1. /\ outstanding' = outstanding \ {n} /\ n \in Handled
      /\ UNCHANGED <<requests, frontend, forwarded, delivered, at, lastClient, now, toServer,
                     pendingRequests, taskIdsSeen, authState, earlier>>
  BY ResultFacts
<1>2. PICK r : RespondsTo(r, n) /\ toBackend' = Append(toBackend, r)
  BY ResultFacts
<1>3. r \in ResponseRecord /\ r.n = n /\ RespondsTo(r, r.n)
  BY <1>2 DEF RespondsTo
<1>4. /\ toBackend' \in Seq(ResponseRecord) /\ toBackend' # <<>> /\ Given' = Given \cup {r}
  BY <1>1, <1>2, <1>3, GivenAppended DEF ProxyInv
<1>5. Handled' = Handled
  BY <1>1 DEF Handled
<1>6. \A m \in outstanding' : m \in Handled' /\ requests[m].msg_type = "MsgTask"
  BY <1>1, <1>5 DEF ProxyInv, Places
<1>7. /\ toServer' \in Seq(Nat) /\ IsInjective(toServer') /\ Range(toServer') \subseteq Range(toServer)
  BY <1>1 DEF ProxyInv, ProxyTypes, Places
<1>8. \A q \in Given' : q \in Given \/ (q.n \in Handled' /\ RespondsTo(q, q.n))
  BY <1>1, <1>3, <1>4, <1>5
<1>9. QED
  BY <1>1, <1>4, <1>6, <1>7, <1>8, AnswerKeepsInv

\* An answer for an earlier PilotProbe.
LEMMA EarlierFacts ==
    ASSUME ProxyInv, NEW r \in earlier, SendEarlier(r)
    PROVE  /\ r \in ResponseRecord /\ r.n = 0
           /\ toBackend' = Append(toBackend, r) /\ earlier' = earlier \ {r}
           /\ UNCHANGED <<requests, frontend, forwarded, delivered, at, lastClient, now, toServer,
                          pendingRequests, taskIdsSeen, authState, held, flagged, outstanding>>
<1>1. r \in [n : {0}, msg_type : ResponseTypes, err_code : {0, 1},
             sn : SnRange \cup {Null}, task_id : Task \cup {Null}]
  BY ProxyAssumption DEF ProxyInv, ProxyTypes
<1>2. r \in ResponseRecord /\ r.n = 0
  BY <1>1 DEF ResponseRecord
<1>3. QED
  BY <1>2 DEF SendEarlier, proxyVars, validatorVars, semanticVars

LEMMA SendEarlierKeepsInv ==
    ASSUME ProxyInv, NEW r \in earlier, SendEarlier(r)
    PROVE  ProxyInv'
<1>1. /\ r \in ResponseRecord /\ r.n = 0
      /\ toBackend' = Append(toBackend, r) /\ earlier' = earlier \ {r}
      /\ UNCHANGED <<requests, frontend, forwarded, delivered, at, lastClient, now, toServer,
                     pendingRequests, taskIdsSeen, authState, outstanding>>
  BY EarlierFacts
<1>2. /\ toBackend' \in Seq(ResponseRecord) /\ toBackend' # <<>> /\ Given' = Given \cup {r}
  BY <1>1, GivenAppended DEF ProxyInv
<1>3. Handled' = Handled
  BY <1>1 DEF Handled
<1>4. \A m \in outstanding' : m \in Handled' /\ requests[m].msg_type = "MsgTask"
  BY <1>1, <1>3 DEF ProxyInv, Places
<1>5. /\ toServer' \in Seq(Nat) /\ IsInjective(toServer') /\ Range(toServer') \subseteq Range(toServer)
  BY <1>1 DEF ProxyInv, ProxyTypes, Places
<1>6. \A q \in Given' : q \in Given \/ q.n = 0
  BY <1>1, <1>2
<1>7. QED
  BY <1>1, <1>2, <1>4, <1>5, <1>6, AnswerKeepsInv

LEMMA RequestKeepsInv ==
    ASSUME ProxyInv, NEW c \in Peer, Request(c)
    PROVE  ProxyInv'
<1> DEFINE n == First(c)
<1>1. /\ n \in DOMAIN requests /\ n \notin Range(forwarded) /\ requests[n].client = c
      /\ requests' \in Seq(RequestRecord) /\ DOMAIN requests' = DOMAIN requests
      /\ requests'[n] = [requests[n] EXCEPT !.captured = now]
      /\ \A m \in DOMAIN requests \ {n} : requests'[m] = requests[m]
      /\ frontend' \in [Peer -> Seq(Nat)]
      /\ \A e \in Peer : /\ IsInjective(frontend'[e])
                         /\ Range(frontend'[e]) \subseteq Range(frontend[e]) \ {n}
      /\ forwarded' \in Seq(Nat) /\ IsInjective(forwarded')
      /\ Range(forwarded') = Range(forwarded) \cup {n}
      /\ forwarded' # <<>> /\ forwarded'[Len(forwarded')] = n
      /\ toServer' \in Seq(Nat) /\ IsInjective(toServer')
      /\ Range(toServer') = Range(toServer) \cup {n} /\ n \notin Range(toServer)
  BY RequestFacts
<1>2. /\ UNCHANGED <<outstanding, delivered, toBackend, now, earlier>>
      /\ lastClient' = c
      /\ at' = IF at = "both" THEN "response" ELSE "poll"
      /\ Capture(n, requests[n], "REQUEST")
  BY DEF Request, First
<1> HIDE DEF n
<1>3. requests[n] \in RequestRecord
  BY <1>1, RequestsTyped DEF ProxyInv
<1>4. requests'[n].captured = now /\ requests'[n].client = c
  BY <1>1, <1>3 DEF RequestRecord
<1>5. /\ pendingRequests' \in [SnRange -> 1 .. now \cup {Null}]
      /\ taskIdsSeen' \subseteq StringIds
      /\ authState' \in BOOLEAN
  <2>1. requests[n].sn \in SnRange \cup {Null}
    BY <1>3 DEF RequestRecord
  <2>2. QED
    BY <1>2, <2>1, CaptureTyped DEF ProxyInv
<1>6. ProxyTypes'
  <2>1. at' \in {"poll", "request", "both", "response", "stopped"}
    BY <1>2
  <2>2. QED
    BY <1>1, <1>2, <1>5, <2>1 DEF ProxyInv, ProxyTypes
<1>7. Given' = Given /\ Handled' = Handled
  BY <1>1, <1>2 DEF Given, Responses, Handled
<1>8. \A m \in DOMAIN requests :
         /\ requests'[m].msg_type = requests[m].msg_type
         /\ requests'[m].sn = requests[m].sn
         /\ requests'[m].task_id = requests[m].task_id
         /\ requests'[m].client = requests[m].client
  <2>1. /\ requests'[n].msg_type = requests[n].msg_type
        /\ requests'[n].sn = requests[n].sn
        /\ requests'[n].task_id = requests[n].task_id
        /\ requests'[n].client = requests[n].client
    BY <1>1, <1>3 DEF RequestRecord
  <2>2. QED
    BY <1>1, <2>1
<1>9. \A e \in Peer : \A m \in Range(frontend'[e]) :
         m \in DOMAIN requests' /\ m \notin Range(forwarded') /\ requests'[m].client = e
  BY <1>1, <1>8 DEF ProxyInv, Places
<1>10. \A m \in Range(forwarded') : m \in DOMAIN requests' /\ requests'[m].captured \in 1 .. now
  <2>1. now \in 1 .. now
    BY DEF ProxyInv, ProxyTypes
  <2>2. QED
    BY <1>1, <1>4, <2>1 DEF ProxyInv, Places
<1>11. Range(toServer') \subseteq Range(forwarded')
  BY <1>1 DEF ProxyInv, Places
<1>12. \A m \in Handled : m \in DOMAIN requests
  BY DEF ProxyInv, Places, Handled
<1>13. \A m \in outstanding : m \in Handled /\ requests'[m].msg_type = "MsgTask"
  BY <1>8, <1>12 DEF ProxyInv, Places
<1>14. \A r \in Given : r.n # 0 => r.n \in Handled /\ Suits(r, requests'[r.n])
  BY <1>8, <1>12 DEF ProxyInv, Places, Suits
<1>16. Places'
  BY <1>1, <1>2, <1>7, <1>9, <1>10, <1>11, <1>13, <1>14 DEF Places
<1>17. LoopFits'
  BY <1>1, <1>2, <1>4 DEF ProxyInv, LoopFits
<1>18. QED
  BY <1>6, <1>16, <1>17 DEF ProxyInv

LEMMA ForwardKeepsInv ==
    ASSUME ProxyInv, Forward
    PROVE  ProxyInv'
<1>1. /\ toBackend' \in Seq(ResponseRecord) /\ Head(toBackend) \in ResponseRecord
      /\ delivered' \in [Peer -> Seq([response : ResponseRecord, after : Nat])]
      /\ Given' \subseteq Given
  BY ForwardFacts
<1>2. /\ UNCHANGED <<requests, now, frontend, lastClient, forwarded, toServer, outstanding, earlier>>
      /\ at' = "poll"
      /\ Capture(Head(toBackend).n, Head(toBackend), "RESPONSE")
  BY DEF Forward, envVars
<1>4. /\ pendingRequests' \in [SnRange -> 1 .. now \cup {Null}]
      /\ taskIdsSeen' \subseteq StringIds
      /\ authState' \in BOOLEAN
  <2>1. Head(toBackend).sn \in SnRange \cup {Null}
    BY <1>1 DEF ResponseRecord
  <2>2. QED
    BY <1>2, <2>1, CaptureTyped DEF ProxyInv
<1>5. ProxyTypes'
  BY <1>1, <1>2, <1>4 DEF ProxyInv, ProxyTypes
<1>6. Handled' = Handled
  BY <1>2 DEF Handled
<1>7. Places'
  BY <1>1, <1>2, <1>6 DEF ProxyInv, Places
<1>8. LoopFits'
  BY <1>2 DEF ProxyInv, LoopFits
<1>9. QED
  BY <1>5, <1>7, <1>8 DEF ProxyInv

LEMMA NextKeepsProxyInv == ProxyInv /\ [Next]_vars => ProxyInv'
BY Steps, QuietKeepsInv, SendKeepsInv, AcknowledgeKeepsInv, SendResultKeepsInv,
   SendEarlierKeepsInv, RequestKeepsInv, ForwardKeepsInv

LEMMA ProxyInvAlways == Spec => []ProxyInv
BY InitProxyInv, NextKeepsProxyInv, PTL DEF Spec

(***************************************************************************)
(* The type invariant: the proxy never reads a socket that has nothing for *)
(* it.                                                                     *)
(***************************************************************************)
THEOREM ProxyType == Spec => []ProxyTypeOK
<1>1. ProxyInv => ProxyTypeOK
  BY DEF ProxyInv, ProxyTypes, LoopFits, Places, ProxyTypeOK
<1>2. QED
  BY <1>1, ProxyInvAlways, PTL

--------------------------------------------------------------------------------
(***************************************************************************)
(* Where responses go.  A response is handed to the client of the request  *)
(* that was forwarded last, and that request is the one it answers or a    *)
(* later one.                                                              *)
(***************************************************************************)
HandedToLast(d, c) ==
    /\ d.after \in DOMAIN forwarded
    /\ requests[forwarded[d.after]].client = c
    /\ \E k \in 1 .. d.after : forwarded[k] = d.response.n

RightlyHanded(d, c) == d.response.n # 0 => HandedToLast(d, c)

StrayInv == \A c \in Peer : \A i \in DOMAIN delivered[c] : RightlyHanded(delivered[c][i], c)

LEMMA HandedStays ==
    ASSUME ProxyInv, [Next]_vars, NEW c \in Peer, NEW d, HandedToLast(d, c)
    PROVE  HandedToLast(d, c)'
<1>1. /\ \A n \in Range(forwarded) : requests'[n] = requests[n]
      /\ \A k \in DOMAIN forwarded : forwarded[k] \in Range(forwarded)
      /\ Len(forwarded) \in Nat /\ DOMAIN forwarded = 1 .. Len(forwarded)
      /\ forwarded \in Seq(Nat)
  BY StepKeepsRequests, LenProperties DEF Range, ProxyInv, ProxyTypes
<1>2. CASE forwarded' = forwarded
  BY <1>1, <1>2 DEF HandedToLast
<1>3. ASSUME NEW n \in Nat, forwarded' = Append(forwarded, n) PROVE HandedToLast(d, c)'
  <2>1. /\ DOMAIN forwarded' = 1 .. Len(forwarded) + 1
        /\ \A k \in DOMAIN forwarded : forwarded'[k] = forwarded[k]
    BY <1>1, <1>3, Appended
  <2>2. d.after \in 1 .. Len(forwarded)
    BY <1>1 DEF HandedToLast
  <2>3. d.after \in DOMAIN forwarded' /\ requests'[forwarded'[d.after]].client = c
    BY <1>1, <2>1, <2>2 DEF HandedToLast
  <2>4. PICK k \in 1 .. d.after : forwarded[k] = d.response.n
    BY DEF HandedToLast
  <2>5. forwarded'[k] = d.response.n
    BY <1>1, <2>1, <2>2, <2>4
  <2>6. QED
    BY <2>3, <2>5 DEF HandedToLast
<1>4. ASSUME NEW e \in Peer, Request(e) PROVE \E n \in Nat : forwarded' = Append(forwarded, n)
  <2>1. First(e) \in DOMAIN requests /\ forwarded' = Append(forwarded, First(e))
    BY <1>4, RequestFacts
  <2>2. QED
    BY <2>1, RequestsTyped DEF ProxyInv
<1>5. QED
  BY <1>2, <1>3, <1>4, Steps DEF Send, Acknowledge, SendResult, SendEarlier, Forward, Quiet, proxyVars

LEMMA StrayKept ==
    ASSUME ProxyInv, StrayInv, [Next]_vars
    PROVE  StrayInv'
<1>1. CASE Forward /\ delivered' # delivered
  <2> DEFINE d == Handed
             D == [response : ResponseRecord, after : Nat]
  <2>1. /\ lastClient \in Peer /\ Head(toBackend) \in Given /\ d \in D
        /\ delivered' = [delivered EXCEPT ![lastClient] = Append(@, d)]
    BY <1>1, ForwardFacts
  <2>5. RightlyHanded(d, lastClient)
    <3>1. SUFFICES ASSUME Head(toBackend).n # 0 PROVE HandedToLast(d, lastClient)
      BY DEF RightlyHanded, Handed
    <3>2. /\ Len(forwarded) \in Nat /\ Len(forwarded) \in DOMAIN forwarded
          /\ lastClient = requests[forwarded[Len(forwarded)]].client
      BY <2>1, <3>1, LastClientKnown
    <3>3. Head(toBackend).n \in Range(forwarded) /\ DOMAIN forwarded = 1 .. Len(forwarded)
      BY <2>1, <3>1, LenProperties DEF ProxyInv, ProxyTypes, Places, Handled
    <3>4. QED
      BY <3>2, <3>3 DEF HandedToLast, Handed, Range
  <2> HIDE DEF d, D
  <2>7. delivered \in [Peer -> Seq(D)]
    BY DEF ProxyInv, ProxyTypes, D
  <2>8. \A c \in Peer : \A i \in DOMAIN delivered'[c] : RightlyHanded(delivered'[c][i], c)
    <3>1. ASSUME NEW c \in Peer, c # lastClient, NEW i \in DOMAIN delivered'[c]
          PROVE  RightlyHanded(delivered'[c][i], c)
      BY <2>1, <2>7, <3>1 DEF StrayInv
    <3>2. ASSUME NEW i \in DOMAIN delivered'[lastClient]
          PROVE  RightlyHanded(delivered'[lastClient][i], lastClient)
      <4> DEFINE s == delivered[lastClient]
      <4>1. s \in Seq(D) /\ delivered'[lastClient] = Append(s, d)
        BY <2>1, <2>7
      <4>2. \A j \in DOMAIN s : RightlyHanded(s[j], lastClient)
        BY <2>1 DEF StrayInv
      <4> HIDE DEF s
      <4>3. /\ DOMAIN Append(s, d) = 1 .. Len(s) + 1 /\ DOMAIN s = 1 .. Len(s) /\ Len(s) \in Nat
            /\ \A j \in 1 .. Len(s) : Append(s, d)[j] = s[j]
            /\ Append(s, d)[Len(s) + 1] = d
        BY <2>1, <4>1, Appended
      <4>4. Append(s, d)[i] = d \/ \E j \in DOMAIN s : Append(s, d)[i] = s[j]
        BY <3>2, <4>1, <4>3
      <4>5. QED
        BY <2>5, <4>1, <4>2, <4>4
    <3>3. QED
      BY <3>1, <3>2
  <2>9. forwarded' = forwarded /\ requests' = requests
    BY <1>1 DEF Forward
  <2>10. QED
    BY <2>8, <2>9 DEF StrayInv, RightlyHanded, HandedToLast
<1>2. CASE delivered' = delivered
  BY <1>2, HandedStays DEF StrayInv, RightlyHanded
<1>3. QED
  BY <1>1, <1>2, Steps DEF Send, Acknowledge, SendResult, SendEarlier, Request, Quiet, proxyVars

(***************************************************************************)
(* A response goes astray only to a client whose request was forwarded     *)
(* after the one it answers, however the requests of any number of clients *)
(* and the answers of the simulator interleave.                            *)
(***************************************************************************)
THEOREM ResponsesStrayToLater == Spec => []StrayOnlyAfterLater
<1>1. ProxyInv /\ StrayInv => StrayOnlyAfterLater
  <2> SUFFICES ASSUME ProxyInv, StrayInv, NEW c \in Peer, NEW i \in DOMAIN delivered[c],
                      delivered[c][i].response.n # 0,
                      requests[delivered[c][i].response.n].client # c
               PROVE  LET d == delivered[c][i]
                          mine == CHOOSE k \in DOMAIN forwarded : forwarded[k] = d.response.n
                      IN mine < d.after /\ requests[forwarded[d.after]].client = c
    BY DEF StrayOnlyAfterLater
  <2> DEFINE d == delivered[c][i]
             mine == CHOOSE k \in DOMAIN forwarded : forwarded[k] = d.response.n
  <2>1. HandedToLast(d, c)
    BY DEF StrayInv, RightlyHanded
  <2> HIDE DEF d
  <2>2. DOMAIN forwarded = 1 .. Len(forwarded) /\ Len(forwarded) \in Nat
    BY LenProperties DEF ProxyInv, ProxyTypes
  <2>3. PICK k \in 1 .. d.after : forwarded[k] = d.response.n
    BY <2>1 DEF HandedToLast
  <2>4. k \in DOMAIN forwarded /\ d.after \in 1 .. Len(forwarded)
    BY <2>1, <2>2, <2>3 DEF HandedToLast
  <2>5. mine \in DOMAIN forwarded /\ forwarded[mine] = d.response.n
    BY <2>3, <2>4
  <2>6. mine = k
    BY <2>3, <2>4, <2>5 DEF ProxyInv, Places, IsInjective
  <2>7. k # d.after
    BY <2>1, <2>3 DEF HandedToLast, d
  <2>8. k < d.after
    BY <2>2, <2>3, <2>4, <2>7
  <2>9. QED
    BY <2>1, <2>6, <2>8 DEF HandedToLast, d
<1>2. Init => StrayInv
  BY DEF Init, StrayInv
<1>3. QED
  BY <1>1, <1>2, InitProxyInv, NextKeepsProxyInv, StrayKept, PTL DEF Spec

--------------------------------------------------------------------------------
(***************************************************************************)
(* What is flagged.  The time an SN waits is when some request of that SN  *)
(* was captured, and never before the capture of another: each later       *)
(* request of the SN takes it over.                                        *)
(***************************************************************************)
FlagFits(f) ==
    f.issue = "slow" =>
        /\ \E n \in Range(forwarded) : Waited(n, f)
        /\ f.n # 0 /\ requests[f.n].sn = f.sn => Waited(f.n, f)

SlowInv ==
    /\ \A f \in flagged : f.n # 0 => f.n \in Range(forwarded)
    /\ \A f \in flagged : FlagFits(f)
    /\ \A sn \in SnRange : pendingRequests[sn] # Null =>
          /\ \E n \in Range(forwarded) :
                requests[n].sn = sn /\ requests[n].captured = pendingRequests[sn]
          /\ \A n \in Range(forwarded) :
                requests[n].sn = sn => requests[n].captured <= pendingRequests[sn]

\* A capture flags its own message, and takes the time of its SN over.
LEMMA CaptureFacts ==
    ASSUME ProxyInv, NEW n, NEW payload, NEW direction \in {"REQUEST", "RESPONSE"},
           payload.sn \in SnRange \cup {Null}, Capture(n, payload, direction)
    PROVE  /\ flagged \subseteq flagged'
           /\ \A f \in flagged' \ flagged :
                 /\ f.n = n /\ f.time = now /\ f.sn = payload.sn
                 /\ f.issue = "slow" =>
                       /\ direction = "RESPONSE" /\ payload.sn # Null
                       /\ pendingRequests[payload.sn] # Null
                       /\ now - pendingRequests[payload.sn] > SlowThreshold
           /\ payload.sn # Null =>
                 pendingRequests'[payload.sn] = IF direction = "REQUEST" THEN now ELSE Null
           /\ \A sn \in SnRange \ {payload.sn} : pendingRequests'[sn] = pendingRequests[sn]
<1> DEFINE msg == FromRaw(payload, direction)
<1>1. /\ msg.sn = payload.sn /\ msg.channel = "router" /\ msg.timestamp = now
      /\ IsRequest(msg) <=> direction = "REQUEST"
  BY DEF FromRaw, IsRequest
<1>2. /\ PairRequests(msg)
      /\ flagged' = flagged \cup {[n |-> n, msg_type |-> msg.msg_type, sn |-> msg.sn,
                                   issue |-> issue, time |-> now] : issue \in Issues(msg)}
  BY <1>1 DEF Capture, Validate, Semantics
<1> HIDE DEF msg
<1>3. "slow" \in Issues(msg) => SlowResponse(msg)
  BY <1>1 DEF Issues
<1>4. SlowResponse(msg) => /\ direction = "RESPONSE" /\ payload.sn # Null
                           /\ pendingRequests[payload.sn] # Null
                           /\ now - pendingRequests[payload.sn] > SlowThreshold
  BY <1>1 DEF SlowResponse
<1>5. \A f \in flagged' \ flagged :
         f.n = n /\ f.time = now /\ f.sn = payload.sn /\ f.issue \in Issues(msg)
  BY <1>1, <1>2
<1>6. pendingRequests \in [SnRange -> 1 .. now \cup {Null}]
  BY DEF ProxyInv, ProxyTypes
<1>7. payload.sn # Null =>
         pendingRequests'[payload.sn] = IF direction = "REQUEST" THEN now ELSE Null
  BY <1>1, <1>2, <1>6 DEF PairRequests
<1>8. \A sn \in SnRange \ {payload.sn} : pendingRequests'[sn] = pendingRequests[sn]
  BY <1>1, <1>2, <1>6 DEF PairRequests
<1>9. flagged \subseteq flagged'
  BY <1>2
<1>10. QED
  BY <1>3, <1>4, <1>5, <1>7, <1>8, <1>9

\* A flag fits as long as the requests that were forwarded stay.
LEMMA FlagStays ==
    ASSUME NEW f, FlagFits(f), f.n # 0 => f.n \in Range(forwarded),
           \A n \in Range(forwarded) : requests'[n] = requests[n] /\ n \in Range(forwarded')
    PROVE  FlagFits(f)'
<1>1. \A n \in Range(forwarded) : Waited(n, f) => Waited(n, f)'
  BY DEF Waited
<1>2. QED
  BY <1>1 DEF FlagFits

LEMMA SlowKept ==
    ASSUME ProxyInv, SlowInv, [Next]_vars
    PROVE  SlowInv'
<1>t. /\ \A n \in Range(forwarded) : /\ requests'[n] = requests[n] /\ n \in Range(forwarded')
                                     /\ n \in DOMAIN requests /\ requests[n].captured \in 1 .. now
      /\ now \in Nat \ {0} /\ SlowThreshold \in Nat /\ Null \notin SnRange
      /\ pendingRequests \in [SnRange -> 1 .. now \cup {Null}]
  BY StepKeepsRequests, ValidatorAssumption DEF ProxyInv, Places, ProxyTypes
<1>f. \A f \in flagged : FlagFits(f)' /\ (f.n # 0 => f.n \in Range(forwarded'))
  BY <1>t, FlagStays DEF SlowInv
<1>1. ASSUME NEW c \in Peer, Request(c) PROVE SlowInv'
  <2> DEFINE n == First(c)
  <2>1. /\ n \in DOMAIN requests /\ n \notin Range(forwarded)
        /\ requests'[n] = [requests[n] EXCEPT !.captured = now]
        /\ Range(forwarded') = Range(forwarded) \cup {n}
    BY <1>1, RequestFacts
  <2>2. Capture(n, requests[n], "REQUEST")
    BY <1>1 DEF Request, First
  <2>3. requests[n] \in RequestRecord
    BY <2>1, RequestsTyped DEF ProxyInv
  <2> HIDE DEF n
  <2>4. /\ requests[n].sn \in SnRange \cup {Null}
        /\ requests'[n].sn = requests[n].sn /\ requests'[n].captured = now
    BY <2>1, <2>3 DEF RequestRecord
  <2>5. /\ flagged \subseteq flagged'
        /\ \A f \in flagged' \ flagged : f.n = n /\ f.issue # "slow"
        /\ requests[n].sn # Null => pendingRequests'[requests[n].sn] = now
        /\ \A sn \in SnRange \ {requests[n].sn} : pendingRequests'[sn] = pendingRequests[sn]
    BY <2>2, <2>4, CaptureFacts
  <2>6. \A f \in flagged' : FlagFits(f)' /\ (f.n # 0 => f.n \in Range(forwarded'))
    <3>1. ASSUME NEW f \in flagged', f \notin flagged
          PROVE  FlagFits(f)' /\ f.n \in Range(forwarded')
      BY <2>1, <2>5, <3>1 DEF FlagFits
    <3>2. QED
      BY <1>f, <3>1
  <2>7. ASSUME NEW sn \in SnRange, pendingRequests'[sn] # Null
        PROVE  /\ \E m \in Range(forwarded') :
                     requests'[m].sn = sn /\ requests'[m].captured = pendingRequests'[sn]
               /\ \A m \in Range(forwarded') :
                     requests'[m].sn = sn => requests'[m].captured <= pendingRequests'[sn]
    <3>1. CASE sn = requests[n].sn
      <4>1. pendingRequests'[sn] = now
        BY <1>t, <2>5, <3>1
      <4>2. \A m \in Range(forwarded') : requests'[m].captured \in 1 .. now
        <5>1. now \in 1 .. now
          BY <1>t
        <5>2. QED
          BY <1>t, <2>1, <2>4, <5>1
      <4>3. \A m \in Range(forwarded') : requests'[m].captured <= now
        BY <1>t, <4>2
      <4>4. QED
        BY <2>1, <2>4, <3>1, <4>1, <4>3
    <3>2. CASE sn # requests[n].sn
      <4>1. pendingRequests'[sn] = pendingRequests[sn]
        BY <2>5, <3>2
      <4>2. PICK m \in Range(forwarded) :
                requests[m].sn = sn /\ requests[m].captured = pendingRequests[sn]
        BY <2>7, <4>1 DEF SlowInv
      <4>3. \A k \in Range(forwarded') : requests'[k].sn = sn =>
               k \in Range(forwarded) /\ requests'[k] = requests[k]
        BY <1>t, <2>1, <2>4, <3>2
      <4>4. \A k \in Range(forwarded) : requests[k].sn = sn => requests[k].captured <= pendingRequests[sn]
        BY <2>7, <4>1 DEF SlowInv
      <4>5. QED
        BY <1>t, <4>1, <4>2, <4>3, <4>4
    <3>3. QED
      BY <3>1, <3>2
  <2>8. QED
    BY <2>6, <2>7 DEF SlowInv
<1>2. CASE Forward
  <2> DEFINE r == Head(toBackend)
  <2>1. r \in Given /\ r \in ResponseRecord /\ Capture(r.n, r, "RESPONSE")
        /\ UNCHANGED <<forwarded, requests>>
    BY <1>2, ForwardFacts DEF Forward
  <2> HIDE DEF r
  <2>2. (r.n # 0 => r.n \in Range(forwarded)) /\ r.sn \in SnRange \cup {Null}
    BY <2>1 DEF ProxyInv, Places, Handled, ResponseRecord
  <2>3. /\ flagged \subseteq flagged'
        /\ \A f \in flagged' \ flagged :
              /\ f.n = r.n /\ f.time = now /\ f.sn = r.sn
              /\ f.issue = "slow" => /\ r.sn # Null /\ pendingRequests[r.sn] # Null
                                     /\ now - pendingRequests[r.sn] > SlowThreshold
        /\ r.sn # Null => pendingRequests'[r.sn] = Null
        /\ \A sn \in SnRange \ {r.sn} : pendingRequests'[sn] = pendingRequests[sn]
    BY <2>1, <2>2, CaptureFacts
  <2>4. ASSUME NEW f \in flagged' \ flagged PROVE FlagFits(f)
    <3>1. SUFFICES ASSUME f.issue = "slow"
                   PROVE  /\ \E n \in Range(forwarded) : Waited(n, f)
                          /\ f.n # 0 /\ requests[f.n].sn = f.sn => Waited(f.n, f)
      BY DEF FlagFits
    <3>2. /\ f.n = r.n /\ f.time = now /\ f.sn = r.sn /\ r.sn \in SnRange
          /\ pendingRequests[r.sn] # Null /\ now - pendingRequests[r.sn] > SlowThreshold
      BY <2>2, <2>3, <2>4, <3>1
    <3>3. pendingRequests[r.sn] \in 1 .. now
      BY <1>t, <3>2
    <3>4. ASSUME NEW n \in Range(forwarded), requests[n].sn = r.sn,
                 requests[n].captured <= pendingRequests[r.sn]
          PROVE  Waited(n, f)
      <4>1. requests[n].captured \in 1 .. now
        BY <1>t
      <4>2. now - requests[n].captured > SlowThreshold
        BY <1>t, <3>2, <3>3, <3>4, <4>1
      <4>3. QED
        BY <3>2, <3>4, <4>2 DEF Waited
    <3>5. \E n \in Range(forwarded) :
             requests[n].sn = r.sn /\ requests[n].captured = pendingRequests[r.sn]
      BY <3>2 DEF SlowInv
    <3>6. \A n \in Range(forwarded) :
             requests[n].sn = r.sn => requests[n].captured <= pendingRequests[r.sn]
      BY <3>2 DEF SlowInv
    <3>7. QED
      BY <2>2, <3>2, <3>4, <3>5, <3>6
  <2>5. \A f \in flagged' : FlagFits(f)' /\ (f.n # 0 => f.n \in Range(forwarded'))
    <3>1. \A f : FlagFits(f)' <=> FlagFits(f)
      BY <2>1 DEF FlagFits, Waited
    <3>2. \A f \in flagged' \ flagged : f.n # 0 => f.n \in Range(forwarded)
      BY <2>2, <2>3
    <3>3. QED
      BY <1>f, <2>1, <2>4, <3>1, <3>2
  <2>6. \A sn \in SnRange : pendingRequests'[sn] # Null => pendingRequests'[sn] = pendingRequests[sn]
    BY <1>t, <2>3
  <2>7. QED
    BY <2>1, <2>5, <2>6 DEF SlowInv
<1>3. CASE UNCHANGED <<forwarded, flagged, pendingRequests>>
  BY <1>t, <1>f, <1>3 DEF SlowInv
<1>4. QED
  BY <1>1, <1>2, <1>3, Steps DEF Send, Acknowledge, SendResult, SendEarlier, Quiet, proxyVars,
                                 validatorVars, semanticVars

(***************************************************************************)
(* A response under the SN of the request it answers that is flagged as    *)
(* slow was slow, and any other one is under the SN of a request as old,   *)
(* for every number of clients that choose their SNs as they like.         *)
(***************************************************************************)
THEOREM SlowFlagsAreReal == Spec => []SlowIsReal
<1>1. SlowInv => SlowIsReal
  BY DEF SlowInv, SlowIsReal, FlagFits
<1>2. Init => SlowInv
  BY DEF Init, PVInit, SlowInv, Range
<1>3. QED
  BY <1>1, <1>2, InitProxyInv, NextKeepsProxyInv, SlowKept, PTL DEF Spec

--------------------------------------------------------------------------------
(***************************************************************************)
(* Duplicates.  Of the ids that are strings and were not held before, the  *)
(* validator remembers every one the simulator holds or is about to get.   *)
(* So of the requests on their way, a task whose id is held or goes ahead  *)
(* of it was flagged when it was captured, and stays so flagged until the  *)
(* simulator refuses it.                                                   *)
(***************************************************************************)
Watched == StringIds \ HeldBefore

Duplicate(flags, n) == \E f \in flags : f.n = n /\ f.issue = "duplicate"

SendsTask(request, id) == request.msg_type = "MsgTask" /\ request.task_id = id

MayBeRefused(i) ==
    /\ requests[toServer[i]].msg_type = "MsgTask" /\ requests[toServer[i]].task_id \in Watched
    /\ \/ requests[toServer[i]].task_id \in held
       \/ \E j \in DOMAIN toServer : j < i /\ SendsTask(requests[toServer[j]], requests[toServer[i]].task_id)

Refused(r) ==
    /\ r.n # 0 /\ r.msg_type = "MsgTaskAck" /\ r.err_code = 1
    /\ requests[r.n].task_id \in Watched

RefuseInv ==
    /\ held \cap Watched \subseteq taskIdsSeen
    /\ \A n \in Range(toServer), id \in Watched : SendsTask(requests[n], id) => id \in taskIdsSeen
    /\ \A i \in DOMAIN toServer : MayBeRefused(i) => Duplicate(flagged, toServer[i])
    /\ \A r \in Given : Refused(r) => Duplicate(flagged, r.n)

\* A capture remembers the task it sends, and flags it if it did already.
LEMMA TaskCaptured ==
    ASSUME NEW n, NEW payload, NEW direction, Capture(n, payload, direction)
    PROVE  /\ taskIdsSeen \subseteq taskIdsSeen' /\ flagged \subseteq flagged'
           /\ direction = "REQUEST" /\ payload.msg_type = "MsgTask" =>
                 /\ payload.task_id \in StringIds => payload.task_id \in taskIdsSeen'
                 /\ payload.task_id \in StringIds \cap taskIdsSeen =>
                       \E f \in flagged' : f.n = n /\ f.issue = "duplicate"
<1> DEFINE msg == FromRaw(payload, direction)
<1>1. /\ msg.msg_type = payload.msg_type /\ msg.task_id = payload.task_id
      /\ msg.channel = "router" /\ msg.direction = direction
  BY DEF FromRaw
<1>2. /\ RememberTask(msg)
      /\ flagged' = flagged \cup {[n |-> n, msg_type |-> msg.msg_type, sn |-> msg.sn,
                                   issue |-> issue, time |-> now] : issue \in Issues(msg)}
  BY <1>1 DEF Capture, Validate, Semantics
<1> HIDE DEF msg
<1>3. taskIdsSeen \subseteq taskIdsSeen'
  BY <1>2 DEF RememberTask
<1>4. flagged \subseteq flagged'
  BY <1>2
<1>5. ASSUME direction = "REQUEST", payload.msg_type = "MsgTask"
      PROVE  IsTask(msg)
  BY <1>1, <1>5 DEF IsTask, IsRequest
<1>6. ASSUME IsTask(msg), payload.task_id \in StringIds PROVE payload.task_id \in taskIdsSeen'
  BY <1>1, <1>2, <1>6 DEF RememberTask
<1>7. ASSUME IsTask(msg), payload.task_id \in StringIds \cap taskIdsSeen
      PROVE  \E f \in flagged' : f.n = n /\ f.issue = "duplicate"
  <2>1. "duplicate" \in Issues(msg)
    BY <1>1, <1>7 DEF Issues, DuplicateTask
  <2>2. [n |-> n, msg_type |-> msg.msg_type, sn |-> msg.sn, issue |-> "duplicate", time |-> now]
           \in flagged'
    BY <1>2, <2>1
  <2>3. QED
    BY <2>2
<1>8. QED
  BY <1>3, <1>4, <1>5, <1>6, <1>7

LEMMA RefuseInit == Init => RefuseInv
<1> SUFFICES ASSUME Init PROVE RefuseInv
  OBVIOUS
<1>1. held = HeldBefore /\ toServer = <<>> /\ toBackend = <<>> /\ delivered = [c \in Peer |-> <<>>]
  BY DEF Init
<1>2. DOMAIN toServer = {} /\ Range(toServer) = {}
  BY <1>1 DEF Range
<1>3. Given = {}
  BY <1>1 DEF Given, Responses, Range
<1>4. QED
  BY <1>1, <1>2, <1>3 DEF RefuseInv, Watched

\* The steps that neither add to the simulator's queue nor take from it.
LEMMA RefuseKeptQuietly ==
    ASSUME ProxyInv, RefuseInv, [Next]_vars, toServer' = toServer, held' \subseteq held,
           flagged \subseteq flagged', taskIdsSeen \subseteq taskIdsSeen',
           \A r \in Given' : r \in Given \/ r.msg_type = "MsgTaskResult" \/ r.n = 0
    PROVE  RefuseInv'
<1>1. \A n \in DOMAIN requests :
         requests'[n].msg_type = requests[n].msg_type /\ requests'[n].task_id = requests[n].task_id
  BY StepKeepsRequests
<1>2. \A i \in DOMAIN toServer : toServer[i] \in Range(toServer) /\ toServer[i] \in DOMAIN requests
  BY DEF Range, ProxyInv, Places
<1>3. \A i \in DOMAIN toServer : MayBeRefused(i)' => MayBeRefused(i)
  BY <1>1, <1>2 DEF MayBeRefused, SendsTask
<1>4. \A n : Duplicate(flagged, n) => Duplicate(flagged', n)
  BY DEF Duplicate
<1>5. \A n \in Range(toServer), id \in Task : SendsTask(requests'[n], id) => SendsTask(requests[n], id)
  BY <1>1 DEF SendsTask, ProxyInv, Places
<1>6. \A r \in Given : r.n # 0 => r.n \in DOMAIN requests
  BY DEF ProxyInv, Places, Handled
<1>7. ASSUME NEW r \in Given', Refused(r)' PROVE Duplicate(flagged', r.n)
  <2>1. r \in Given /\ Refused(r)
    BY <1>1, <1>6, <1>7 DEF Refused
  <2>2. QED
    BY <1>4, <2>1 DEF RefuseInv
<1>8. held' \cap Watched \subseteq taskIdsSeen'
  BY DEF RefuseInv
<1>9. \A n \in Range(toServer), id \in Watched : SendsTask(requests'[n], id) => id \in taskIdsSeen'
  BY <1>5, ValidatorAssumption DEF RefuseInv, Watched
<1>10. \A i \in DOMAIN toServer : MayBeRefused(i)' => Duplicate(flagged', toServer[i])
  BY <1>3, <1>4 DEF RefuseInv
<1>11. QED
  BY <1>7, <1>8, <1>9, <1>10 DEF RefuseInv

\* The simulator takes the first request: only what it now holds, or what
\* went first, can get another one refused.
LEMMA RefuseKeptByAcknowledge ==
    ASSUME ProxyInv, RefuseInv, Acknowledge
    PROVE  RefuseInv'
<1> DEFINE n == Head(toServer)
<1>1. /\ toServer # <<>> /\ toServer' = Tail(toServer) /\ n \in DOMAIN requests
      /\ held' = held \cup (IF Accepted(n) THEN {requests[n].task_id} ELSE {})
  BY AcknowledgeFacts DEF Handles
<1>2. UNCHANGED <<requests, flagged, taskIdsSeen, delivered>>
  BY DEF Acknowledge, proxyVars, validatorVars, semanticVars
<1>3. /\ n = toServer[1] /\ 1 \in DOMAIN toServer /\ n \in Range(toServer)
      /\ DOMAIN toServer = 1 .. Len(toServer) /\ Len(toServer) \in Nat
      /\ DOMAIN toServer' = 1 .. Len(toServer) - 1
      /\ \A i \in 1 .. Len(toServer) - 1 : toServer'[i] = toServer[i + 1]
      /\ Range(toServer') \subseteq Range(toServer)
  BY <1>1, Taken DEF ProxyInv, ProxyTypes
<1> HIDE DEF n
<1>4. ASSUME requests[n].msg_type = "MsgTask", requests[n].task_id \in Watched
      PROVE  requests[n].task_id \in taskIdsSeen
  BY <1>3, <1>4 DEF RefuseInv, SendsTask
<1>5. held' \cap Watched \subseteq taskIdsSeen
  BY <1>1, <1>4 DEF RefuseInv, Accepted
<1>6. \A m : Duplicate(flagged', m) <=> Duplicate(flagged, m)
  BY <1>2 DEF Duplicate
<1>7. ASSUME NEW i \in DOMAIN toServer', MayBeRefused(i)' PROVE Duplicate(flagged', toServer'[i])
  <2> DEFINE id == requests[toServer[i + 1]].task_id
  <2>1. i \in Int /\ i + 1 \in DOMAIN toServer /\ 1 < i + 1 /\ toServer'[i] = toServer[i + 1]
    BY <1>3, <1>7
  <2>2. /\ requests[toServer[i + 1]].msg_type = "MsgTask" /\ id \in Watched
        /\ \/ id \in held'
           \/ \E j \in DOMAIN toServer' : j < i /\ SendsTask(requests[toServer'[j]], id)
    BY <1>2, <1>7, <2>1 DEF MayBeRefused, SendsTask
  <2> HIDE DEF id
  <2>3. ASSUME \/ id \in held
               \/ \E j \in DOMAIN toServer : j < i + 1 /\ SendsTask(requests[toServer[j]], id)
        PROVE  MayBeRefused(i + 1)
    BY <2>2, <2>3 DEF MayBeRefused, id
  <2>4. ASSUME id \in held', id \notin held PROVE MayBeRefused(i + 1)
    <3>1. SendsTask(requests[toServer[1]], id)
      BY <1>1, <1>3, <2>4 DEF SendsTask, Accepted
    <3>2. \E j \in DOMAIN toServer : j < i + 1 /\ SendsTask(requests[toServer[j]], id)
      BY <1>3, <2>1, <3>1
    <3>3. QED
      BY <2>3, <3>2
  <2>5. ASSUME NEW j \in DOMAIN toServer', j < i, SendsTask(requests[toServer'[j]], id)
        PROVE  MayBeRefused(i + 1)
    <3>1. j + 1 \in DOMAIN toServer /\ j + 1 < i + 1 /\ toServer'[j] = toServer[j + 1]
      BY <1>3, <2>1, <2>5
    <3>2. SendsTask(requests[toServer[j + 1]], id)
      BY <2>5, <3>1
    <3>3. QED
      BY <2>3, <3>1, <3>2
  <2>6. MayBeRefused(i + 1)
    <3>1. CASE id \in held
      BY <2>3, <3>1
    <3>2. CASE id \in held' /\ id \notin held
      BY <2>4, <3>2
    <3>3. CASE \E j \in DOMAIN toServer' : j < i /\ SendsTask(requests[toServer'[j]], id)
      BY <2>5, <3>3
    <3>4. QED
      BY <2>2, <3>1, <3>2, <3>3
  <2>7. Duplicate(flagged, toServer[i + 1])
    BY <2>1, <2>6 DEF RefuseInv
  <2>8. QED
    BY <1>6, <2>1, <2>7
<1>8. ASSUME requests[n].msg_type = "MsgTask", requests[n].task_id \in held \cap Watched
      PROVE  Duplicate(flagged, n)
  BY <1>3, <1>8 DEF RefuseInv, MayBeRefused
<1>9. Answer(n)
  BY AcknowledgeFacts DEF Handles, n
<1>10. ASSUME NEW ack, Acknowledges(ack, n), Refused(ack) PROVE Duplicate(flagged, ack.n)
  <2>1. ack.n = n /\ requests[n].task_id \in held /\ requests[n].task_id \in Watched
    BY <1>10 DEF Acknowledges, RespondsTo, Refused
  <2>2. requests[n].msg_type = "MsgTask"
    <3>1. requests[n].msg_type \in {"MsgTask", "MsgGetToken", "broken"} /\ ack.msg_type = "MsgTaskAck"
      BY <1>1, <1>10, RequestsTyped DEF ProxyInv, RequestRecord, Acknowledges, Refused
    <3>2. QED
      BY <1>10, <3>1 DEF Acknowledges, RespondsTo, Suits, AnswerType
  <2>3. QED
    BY <1>8, <2>1, <2>2
<1>11. ASSUME NEW ack, Acknowledges(ack, n),
              \/ toBackend' = Append(toBackend, ack)
              \/ \E result : /\ RespondsTo(result, n)
                             /\ result.msg_type = "MsgTaskResult"
                             /\ toBackend' = Append(Append(toBackend, result), ack)
       PROVE  \A r \in Given' : r \in Given \/ r = ack \/ r.msg_type = "MsgTaskResult"
  <2>1. ack \in ResponseRecord
    BY <1>11 DEF Acknowledges, RespondsTo
  <2>2. CASE toBackend' = Append(toBackend, ack)
    BY <1>2, <2>1, <2>2, GivenAppended DEF ProxyInv
  <2>3. ASSUME NEW result, RespondsTo(result, n), result.msg_type = "MsgTaskResult",
               toBackend' = Append(Append(toBackend, result), ack)
        PROVE  \A r \in Given' : r \in Given \/ r = ack \/ r.msg_type = "MsgTaskResult"
    <3>1. result \in ResponseRecord
      BY <2>3 DEF RespondsTo
    <3>2. Given' = Given \cup {result, ack}
      BY <1>2, <2>1, <2>3, <3>1, GivenPair DEF ProxyInv
    <3>3. QED
      BY <2>3, <3>2
  <2>4. QED
    BY <1>11, <2>2, <2>3
<1>12. CASE toBackend' = toBackend
  <2>1. Given' = Given
    BY <1>2, <1>12 DEF Given, Responses
  <2>2. \A r \in Given' : Refused(r) => Duplicate(flagged, r.n)
    BY <2>1 DEF RefuseInv
  <2>3. QED
    BY <1>2, <1>3, <1>5, <1>6, <1>7, <2>2 DEF RefuseInv, SendsTask, Refused
<1>13. ASSUME NEW ack, Acknowledges(ack, n),
              \/ toBackend' = Append(toBackend, ack)
              \/ \E result : /\ RespondsTo(result, n)
                             /\ result.msg_type = "MsgTaskResult"
                             /\ toBackend' = Append(Append(toBackend, result), ack)
       PROVE  RefuseInv'
  <2>1. \A r \in Given' : Refused(r) => Duplicate(flagged, r.n)
    <3>1. \A r \in Given' : r \in Given \/ r = ack \/ r.msg_type = "MsgTaskResult"
      BY <1>11, <1>13
    <3>2. Refused(ack) => Duplicate(flagged, ack.n)
      BY <1>10, <1>13
    <3>3. QED
      BY <3>1, <3>2 DEF RefuseInv, Refused
  <2>2. QED
    BY <1>2, <1>3, <1>5, <1>6, <1>7, <2>1 DEF RefuseInv, SendsTask, Refused
<1>14. QED
  BY <1>9, <1>12, <1>13 DEF Answer

\* A request that is captured: an id that is held or ahead of it was seen.
LEMMA RefuseKeptByRequest ==
    ASSUME ProxyInv, RefuseInv, NEW c \in Peer, Request(c)
    PROVE  RefuseInv'
<1> DEFINE n == First(c)
<1>1. /\ n \in DOMAIN requests /\ n \in Nat /\ n \notin Range(toServer)
      /\ toServer \in Seq(Nat) /\ toServer' = Append(toServer, n)
      /\ Range(toServer) \subseteq DOMAIN requests
  BY RequestFacts, RequestsTyped DEF ProxyInv, ProxyTypes, Places
<1>2. /\ Len(toServer) \in Nat /\ DOMAIN toServer = 1 .. Len(toServer)
      /\ DOMAIN toServer' = 1 .. Len(toServer) + 1
      /\ \A i \in 1 .. Len(toServer) : toServer'[i] = toServer[i]
      /\ toServer'[Len(toServer) + 1] = n
      /\ Range(toServer') = Range(toServer) \cup {n}
  <2>1. toServer \in Seq(Nat) /\ n \in Nat /\ toServer' = Append(toServer, n)
    BY <1>1
  <2> HIDE DEF n
  <2>2. QED
    BY <2>1, Appended
<1>3. /\ taskIdsSeen \subseteq taskIdsSeen' /\ flagged \subseteq flagged'
      /\ requests[n].msg_type = "MsgTask" =>
            /\ requests[n].task_id \in StringIds => requests[n].task_id \in taskIdsSeen'
            /\ requests[n].task_id \in StringIds \cap taskIdsSeen =>
                  \E f \in flagged' : f.n = n /\ f.issue = "duplicate"
  <2>1. Capture(n, requests[n], "REQUEST")
    BY DEF Request, First
  <2> HIDE DEF n
  <2>2. QED
    BY <2>1, TaskCaptured
<1>4. held' = held /\ toBackend' = toBackend /\ delivered' = delivered
  BY DEF Request
<1>5. \A m \in DOMAIN requests :
         requests'[m].msg_type = requests[m].msg_type /\ requests'[m].task_id = requests[m].task_id
  BY StepKeepsRequests DEF Next, ProxyStep
<1> HIDE DEF n
<1>6. \A m : Duplicate(flagged, m) => Duplicate(flagged', m)
  BY <1>3 DEF Duplicate
<1>7. \A id : \A m \in DOMAIN requests : SendsTask(requests'[m], id) <=> SendsTask(requests[m], id)
  BY <1>5 DEF SendsTask
<1>8. ASSUME requests[n].msg_type = "MsgTask", requests[n].task_id \in Watched
      PROVE  requests[n].task_id \in taskIdsSeen'
  BY <1>3, <1>8 DEF Watched
<1>9. ASSUME NEW m \in Range(toServer'), NEW id \in Watched, SendsTask(requests'[m], id)
      PROVE  id \in taskIdsSeen'
  <2>1. SendsTask(requests[m], id)
    BY <1>1, <1>2, <1>7, <1>9
  <2>2. CASE m = n
    BY <1>8, <2>1, <2>2 DEF SendsTask
  <2>3. CASE m \in Range(toServer)
    BY <1>3, <2>1, <2>3 DEF RefuseInv
  <2>4. QED
    BY <1>2, <2>2, <2>3
<1>10. ASSUME NEW i \in 1 .. Len(toServer), MayBeRefused(i)'
       PROVE  Duplicate(flagged', toServer'[i])
  <2>1. /\ i \in DOMAIN toServer /\ toServer'[i] = toServer[i] /\ toServer[i] \in DOMAIN requests
        /\ \A j \in DOMAIN toServer' : j < i =>
              j \in DOMAIN toServer /\ toServer'[j] = toServer[j] /\ toServer[j] \in DOMAIN requests
    BY <1>1, <1>2 DEF Range
  <2>2. MayBeRefused(i)
    BY <1>4, <1>5, <1>7, <1>10, <2>1 DEF MayBeRefused
  <2>3. QED
    BY <1>6, <2>1, <2>2 DEF RefuseInv
<1>11. ASSUME NEW i \in DOMAIN toServer', i = Len(toServer) + 1, MayBeRefused(i)'
       PROVE  Duplicate(flagged', toServer'[i])
  <2> DEFINE id == requests[n].task_id
  <2>1. toServer'[i] = n /\ requests[n].msg_type = "MsgTask" /\ requests[n].task_id \in Watched
    BY <1>1, <1>2, <1>5, <1>11 DEF MayBeRefused
  <2>2. id \in held \/ \E j \in DOMAIN toServer' : j < i /\ SendsTask(requests'[toServer'[j]], id)
    BY <1>1, <1>4, <1>5, <1>11, <2>1 DEF MayBeRefused
  <2>3. id \in Watched /\ id \in StringIds
    BY <2>1 DEF Watched
  <2> HIDE DEF id
  <2>4. id \in taskIdsSeen
    <3>1. CASE id \in held
      BY <2>3, <3>1 DEF RefuseInv
    <3>2. ASSUME NEW j \in DOMAIN toServer', j < i, SendsTask(requests'[toServer'[j]], id)
          PROVE  id \in taskIdsSeen
      <4>1. j \in DOMAIN toServer /\ toServer'[j] = toServer[j]
        BY <1>2, <1>11, <3>2
      <4>2. toServer[j] \in Range(toServer) /\ toServer[j] \in DOMAIN requests
        BY <1>1, <4>1 DEF Range
      <4>3. SendsTask(requests[toServer[j]], id)
        BY <1>7, <3>2, <4>1, <4>2
      <4>4. QED
        BY <2>3, <4>2, <4>3 DEF RefuseInv
    <3>3. QED
      BY <2>2, <3>1, <3>2
  <2>5. QED
    BY <1>3, <2>1, <2>3, <2>4 DEF Duplicate, id
<1>12. \A i \in DOMAIN toServer' : MayBeRefused(i)' => Duplicate(flagged', toServer'[i])
  BY <1>2, <1>10, <1>11
<1>13. held' \cap Watched \subseteq taskIdsSeen'
  BY <1>3, <1>4 DEF RefuseInv
<1>14. \A r \in Given' : Refused(r)' => Duplicate(flagged', r.n)
  <2>1. Given' = Given /\ \A r \in Given : r.n # 0 => r.n \in DOMAIN requests
    BY <1>4 DEF Given, Responses, ProxyInv, Places, Handled
  <2>2. \A r \in Given : Refused(r)' => Refused(r)
    BY <1>5, <2>1 DEF Refused
  <2>3. QED
    BY <1>6, <2>1, <2>2 DEF RefuseInv
<1>15. QED
  BY <1>9, <1>12, <1>13, <1>14 DEF RefuseInv

LEMMA RefuseKept ==
    ASSUME ProxyInv, RefuseInv, [Next]_vars
    PROVE  RefuseInv'
<1>1. ASSUME NEW request \in Offered, Send(request) PROVE RefuseInv'
  <2>1. /\ UNCHANGED <<toServer, held, flagged, taskIdsSeen, toBackend, delivered>>
    BY <1>1 DEF Send, envVars, validatorVars, semanticVars
  <2>2. QED
    BY <2>1, RefuseKeptQuietly DEF Given, Responses
<1>2. ASSUME NEW r \in ResponseRecord, r.msg_type = "MsgTaskResult" \/ r.n = 0,
             toBackend' = Append(toBackend, r),
             UNCHANGED <<toServer, held, flagged, taskIdsSeen, delivered>>
      PROVE  RefuseInv'
  <2>1. Given' = Given \cup {r}
    BY <1>2, GivenAppended DEF ProxyInv
  <2>2. QED
    BY <1>2, <2>1, RefuseKeptQuietly
<1>r. ASSUME NEW n \in outstanding, SendResult(n) PROVE RefuseInv'
  <2>1. PICK r : /\ RespondsTo(r, n) /\ r.msg_type = "MsgTaskResult"
                 /\ toBackend' = Append(toBackend, r)
    BY <1>r, ResultFacts
  <2>2. UNCHANGED <<toServer, held, flagged, taskIdsSeen, delivered>>
    BY <1>r, ResultFacts
  <2>3. QED
    BY <1>2, <2>1, <2>2 DEF RespondsTo
<1>e. ASSUME NEW r \in earlier, SendEarlier(r) PROVE RefuseInv'
  BY <1>e, <1>2, EarlierFacts
<1>3. CASE Forward
  <2>1. UNCHANGED <<toServer, held>> /\ Capture(Head(toBackend).n, Head(toBackend), "RESPONSE")
    BY <1>3 DEF Forward, envVars
  <2>2. taskIdsSeen \subseteq taskIdsSeen' /\ flagged \subseteq flagged'
    BY <2>1, TaskCaptured
  <2>3. Given' \subseteq Given
    BY <1>3, ForwardFacts
  <2>4. QED
    BY <2>1, <2>2, <2>3, RefuseKeptQuietly
<1>4. CASE Quiet
  <2>1. /\ UNCHANGED <<toServer, flagged, taskIdsSeen, toBackend, delivered>>
        /\ held' \subseteq held
    BY <1>4 DEF Quiet
  <2>2. QED
    BY <2>1, RefuseKeptQuietly DEF Given, Responses
<1>5. QED
  BY <1>1, <1>r, <1>e, <1>3, <1>4, Steps, RefuseKeptByAcknowledge, RefuseKeptByRequest

(***************************************************************************)
(* A task the simulator refuses was flagged as a duplicate, for every      *)
(* number of clients and whatever the simulator evicts, if its id is a     *)
(* non-empty string the simulator did not hold before the proxy started.   *)
(***************************************************************************)
THEOREM RefusalsAreFlagged == Spec => []RefusedIsFlagged
<1>1. RefuseInv => RefusedIsFlagged
  BY DEF RefuseInv, RefusedIsFlagged, Given, Duplicate, Refused, Watched
<1>2. QED
  BY <1>1, RefuseInit, InitProxyInv, NextKeepsProxyInv, RefuseKept, PTL DEF Spec

--------------------------------------------------------------------------------
(***************************************************************************)
(* Conservation.  Responses of the same type to the same request never     *)
(* meet, neither in the queue to the proxy nor with the clients; a request *)
(* the simulator has taken has its acknowledgement among them; and the     *)
(* result of a task that is outstanding is not there yet.                  *)
(***************************************************************************)
SameAnswer(r, q) == r.n # 0 /\ r.n = q.n /\ r.msg_type = q.msg_type

\* The queue b and what d holds for the clients hold no answer twice.
OnceQueued(b) == \A i, j \in DOMAIN b : SameAnswer(b[i], b[j]) => i = j

NotYetAt(r, d) == \A c \in Peer : \A k \in DOMAIN d[c] : ~SameAnswer(r, d[c][k].response)

OnceDelivered(d) ==
    \A c, e \in Peer : \A k \in DOMAIN d[c], l \in DOMAIN d[e] :
        SameAnswer(d[c][k].response, d[e][l].response) => c = e /\ k = l

Once(b, d) ==
    /\ OnceQueued(b)
    /\ \A i \in DOMAIN b : NotYetAt(b[i], d)
    /\ OnceDelivered(d)

Answered(given, n, msg_type) == \E r \in given : Answers(r, n, msg_type)

AnsweredIfAny(given, n, type) == type # "silent" => Answered(given, n, AnswerType[type])

OnceInv ==
    /\ Once(toBackend, delivered)
    /\ \A n \in Handled : AnsweredIfAny(Given, n, requests[n].msg_type)
    /\ \A n \in outstanding : ~Answered(Given, n, "MsgTaskResult")

LEMMA OnceAppended ==
    ASSUME NEW b \in Seq(ResponseRecord), NEW d, NEW r \in ResponseRecord, Once(b, d),
           \A i \in DOMAIN b : ~SameAnswer(b[i], r), NotYetAt(r, d)
    PROVE  Once(Append(b, r), d)
<1> DEFINE t == Append(b, r)
<1>1. /\ Len(b) \in Nat /\ DOMAIN b = 1 .. Len(b) /\ DOMAIN t = 1 .. Len(b) + 1
      /\ \A i \in 1 .. Len(b) : t[i] = b[i]
      /\ t[Len(b) + 1] = r
  BY Appended
<1> HIDE DEF t
<1>2. \A i \in DOMAIN t : \/ i \in DOMAIN b /\ t[i] = b[i]
                          \/ i = Len(b) + 1 /\ t[i] = r
  BY <1>1
<1>3. \A i \in DOMAIN b : ~SameAnswer(r, b[i])
  BY DEF SameAnswer
<1>4. OnceQueued(t)
  BY <1>2, <1>3 DEF Once, OnceQueued
<1>5. \A i \in DOMAIN t : NotYetAt(t[i], d)
  BY <1>2 DEF Once
<1>6. QED
  BY <1>4, <1>5 DEF Once, t

LEMMA OnceTaken ==
    ASSUME NEW b \in Seq(ResponseRecord), b # <<>>, NEW d, Once(b, d)
    PROVE  Once(Tail(b), d)
<1> DEFINE t == Tail(b)
<1>1. /\ Len(b) \in Nat \ {0} /\ DOMAIN b = 1 .. Len(b) /\ DOMAIN t = 1 .. Len(b) - 1
      /\ \A i \in 1 .. Len(b) - 1 : t[i] = b[i + 1]
  BY Taken
<1> HIDE DEF t
<1>2. \A i \in DOMAIN t : i \in Int /\ i + 1 \in DOMAIN b /\ t[i] = b[i + 1]
  BY <1>1
<1>3. ASSUME NEW i \in DOMAIN t, NEW j \in DOMAIN t, SameAnswer(t[i], t[j]) PROVE i = j
  <2>1. i + 1 = j + 1
    BY <1>2, <1>3 DEF Once, OnceQueued
  <2>2. QED
    BY <1>2, <2>1
<1>4. QED
  BY <1>2, <1>3 DEF Once, OnceQueued, t

LEMMA OnceForwarded ==
    ASSUME NEW b \in Seq(ResponseRecord), b # <<>>, NEW D,
           NEW d \in [Peer -> Seq(D)], NEW f \in [Peer -> Seq(D)], NEW c \in Peer, NEW m \in D,
           m.response = Head(b), f = [d EXCEPT ![c] = Append(@, m)], Once(b, d)
    PROVE  Once(Tail(b), f)
<1> DEFINE t == Tail(b)
           r == Head(b)
           s == Append(d[c], m)
<1>1. /\ r = b[1] /\ Len(b) \in Nat \ {0}
      /\ DOMAIN b = 1 .. Len(b) /\ DOMAIN t = 1 .. Len(b) - 1
      /\ \A i \in 1 .. Len(b) - 1 : t[i] = b[i + 1]
  BY Taken
<1>2. d[c] \in Seq(D)
  OBVIOUS
<1>3. /\ Len(d[c]) \in Nat /\ DOMAIN d[c] = 1 .. Len(d[c]) /\ DOMAIN s = 1 .. Len(d[c]) + 1
      /\ \A i \in 1 .. Len(d[c]) : s[i] = d[c][i]
      /\ s[Len(d[c]) + 1] = m
  BY <1>2, Appended
<1>4. f[c] = s /\ \A e \in Peer \ {c} : f[e] = d[e]
  OBVIOUS
<1> DEFINE z == Len(d[c]) + 1
<1>5. z \notin DOMAIN d[c]
  BY <1>3
<1> HIDE DEF t, r, s
<1>6. \A e \in Peer : \A k \in DOMAIN f[e] :
         \/ k \in DOMAIN d[e] /\ f[e][k] = d[e][k]
         \/ e = c /\ k = z /\ f[e][k].response = r
  <2>1. ASSUME NEW k \in DOMAIN s
        PROVE  \/ k \in DOMAIN d[c] /\ s[k] = d[c][k]
               \/ k = z /\ s[k] = m
    BY <1>3
  <2>2. m.response = r
    BY DEF r
  <2>3. QED
    BY <1>4, <2>1, <2>2
<1> HIDE DEF z
<1>7. \A i \in DOMAIN t : i + 1 \in DOMAIN b /\ t[i] = b[i + 1] /\ i + 1 # 1
  BY <1>1
<1>8. 1 \in DOMAIN b /\ b[1] = r
  BY <1>1
<1>9. OnceQueued(t)
  <2>1. ASSUME NEW i \in DOMAIN t, NEW j \in DOMAIN t, SameAnswer(t[i], t[j]) PROVE i = j
    <3>1. i + 1 = j + 1
      BY <1>7, <2>1 DEF Once, OnceQueued
    <3>2. QED
      BY <1>1, <3>1
  <2>2. QED
    BY <2>1 DEF OnceQueued
<1>10. ASSUME NEW i \in DOMAIN t PROVE NotYetAt(t[i], f)
  <2>1. NotYetAt(t[i], d)
    BY <1>7 DEF Once
  <2>2. ~SameAnswer(t[i], r)
    BY <1>7, <1>8 DEF Once, OnceQueued
  <2>3. ASSUME NEW e \in Peer, NEW k \in DOMAIN f[e] PROVE ~SameAnswer(t[i], f[e][k].response)
    <3>1. CASE k \in DOMAIN d[e] /\ f[e][k] = d[e][k]
      BY <2>1, <3>1 DEF NotYetAt
    <3>2. CASE f[e][k].response = r
      BY <2>2, <3>2
    <3>3. QED
      BY <1>6, <3>1, <3>2
  <2>4. QED
    BY <2>3 DEF NotYetAt
<1>11. NotYetAt(r, d) /\ OnceDelivered(d)
  BY <1>8 DEF Once
<1>12. OnceDelivered(f)
  <2>1. ASSUME NEW e \in Peer, NEW g \in Peer, NEW k \in DOMAIN f[e], NEW l \in DOMAIN f[g],
               SameAnswer(f[e][k].response, f[g][l].response)
        PROVE  e = g /\ k = l
    <3>1. CASE k \in DOMAIN d[e] /\ f[e][k] = d[e][k] /\ l \in DOMAIN d[g] /\ f[g][l] = d[g][l]
      BY <1>11, <2>1, <3>1 DEF OnceDelivered
    <3>2. CASE k \in DOMAIN d[e] /\ f[e][k] = d[e][k] /\ f[g][l].response = r
      BY <1>11, <2>1, <3>2 DEF NotYetAt, SameAnswer
    <3>3. CASE f[e][k].response = r /\ l \in DOMAIN d[g] /\ f[g][l] = d[g][l]
      BY <1>11, <2>1, <3>3 DEF NotYetAt, SameAnswer
    <3>4. CASE e = c /\ k = z /\ g = c /\ l = z
      BY <3>4
    <3>5. QED
      BY <1>6, <3>1, <3>2, <3>3, <3>4
  <2>2. QED
    BY <2>1 DEF OnceDelivered
<1>13. QED
  BY <1>9, <1>10, <1>12 DEF Once, t

\* An answer that was not given is new in the queue and to the clients.
LEMMA NewAnswer ==
    ASSUME NEW r, r.n = 0 \/ ~Answered(Given, r.n, r.msg_type)
    PROVE  /\ \A i \in DOMAIN toBackend : ~SameAnswer(toBackend[i], r)
           /\ NotYetAt(r, delivered)
<1>1. \A i \in DOMAIN toBackend : toBackend[i] \in Given
  BY DEF Given, Range
<1>2. \A c \in Peer : \A k \in DOMAIN delivered[c] : delivered[c][k].response \in Given
  BY DEF Given, Responses, Range
<1>3. QED
  BY <1>1, <1>2 DEF Answered, Answers, SameAnswer, NotYetAt

LEMMA OnceInit == Init => OnceInv
<1> SUFFICES ASSUME Init PROVE OnceInv
  OBVIOUS
<1>1. /\ forwarded = <<>> /\ toBackend = <<>> /\ delivered = [c \in Peer |-> <<>>]
      /\ outstanding = {}
  BY DEF Init
<1>2. /\ Range(forwarded) = {} /\ DOMAIN toBackend = {}
      /\ \A c \in Peer : DOMAIN delivered[c] = {}
  BY <1>1 DEF Range
<1>3. QED
  BY <1>1, <1>2 DEF OnceInv, Once, OnceQueued, OnceDelivered, Handled

LEMMA OnceNext ==
    ASSUME Once(toBackend', delivered'),
           \A n \in Handled' : AnsweredIfAny(Given', n, requests'[n].msg_type),
           \A n \in outstanding' : ~Answered(Given', n, "MsgTaskResult")
    PROVE  OnceInv'
BY DEF OnceInv, Once, OnceQueued, NotYetAt, OnceDelivered, SameAnswer, AnsweredIfAny, Answered,
       Answers

\* The steps that neither take a request nor add to what is outstanding.
LEMMA OnceKeptQuietly ==
    ASSUME ProxyInv, OnceInv, [Next]_vars, Once(toBackend', delivered'),
           \A r \in Given : r.n # 0 => r \in Given',
           \A r \in Given' : r \in Given \/ r.n = 0 \/ r.n \notin outstanding',
           Handled' = Handled, outstanding' \subseteq outstanding
    PROVE  OnceInv'
<1>1. \A n \in Handled : requests'[n].msg_type = requests[n].msg_type /\ n # 0
  <2>1. \A n \in Handled : n \in DOMAIN requests
    BY DEF ProxyInv, Places, Handled
  <2>2. DOMAIN requests = 1 .. Len(requests)
    BY LenProperties DEF ProxyInv, ProxyTypes
  <2>3. QED
    BY <2>1, <2>2, StepKeepsRequests
<1>2. \A n \in Handled : \A msg_type : Answered(Given, n, msg_type) => Answered(Given', n, msg_type)
  BY <1>1 DEF Answered, Answers
<1>3. \A n \in Handled' : AnsweredIfAny(Given', n, requests'[n].msg_type)
  BY <1>1, <1>2 DEF OnceInv, AnsweredIfAny
<1>4. \A n \in outstanding : n \in Handled
  BY DEF ProxyInv, Places
<1>5. \A n \in outstanding' : ~Answered(Given', n, "MsgTaskResult")
  BY <1>1, <1>4 DEF OnceInv, Answered, Answers
<1>6. QED
  BY <1>3, <1>5, OnceNext

\* The steps that add one answer, of an outstanding task or of no request.
LEMMA OnceKeptByAnswer ==
    ASSUME ProxyInv, OnceInv, [Next]_vars, NEW r \in ResponseRecord,
           r.n = 0 \/ (r.msg_type = "MsgTaskResult" /\ r.n \in outstanding),
           toBackend' = Append(toBackend, r), outstanding' = outstanding \ {r.n},
           UNCHANGED <<forwarded, toServer, delivered>>
    PROVE  OnceInv'
<1>1. r.n = 0 \/ ~Answered(Given, r.n, r.msg_type)
  BY DEF OnceInv
<1>2. Given' = Given \cup {r}
  BY GivenAppended DEF ProxyInv
<1>3. Once(toBackend', delivered')
  <2>1. toBackend \in Seq(ResponseRecord) /\ Once(toBackend, delivered)
    BY DEF ProxyInv, ProxyTypes, OnceInv
  <2>2. \A i \in DOMAIN toBackend : ~SameAnswer(toBackend[i], r)
    BY <1>1, NewAnswer
  <2>3. NotYetAt(r, delivered)
    BY <1>1, NewAnswer
  <2>4. Once(Append(toBackend, r), delivered)
    BY <2>1, <2>2, <2>3, OnceAppended
  <2>5. QED
    BY <2>4
<1>4. Handled' = Handled
  BY DEF Handled
<1>5. QED
  BY <1>2, <1>3, <1>4, OnceKeptQuietly

LEMMA OnceKeptByAcknowledge ==
    ASSUME ProxyInv, OnceInv, Acknowledge
    PROVE  OnceInv'
<1> DEFINE n == Head(toServer)
<1>1. /\ toServer # <<>> /\ toServer' = Tail(toServer) /\ n \in DOMAIN requests
  BY AcknowledgeFacts DEF Handles
<1>2. UNCHANGED <<requests, forwarded, delivered>>
  BY DEF Acknowledge, proxyVars
<1>3. n \in Range(toServer) /\ Range(toServer) = Range(toServer') \cup {n}
  BY <1>1, Taken DEF ProxyInv, ProxyTypes
<1>4. Answer(n)
  BY AcknowledgeFacts DEF Handles
<1> HIDE DEF n
<1>5. n \notin Handled /\ n \notin outstanding /\ Handled' \subseteq Handled \cup {n}
  BY <1>2, <1>3 DEF ProxyInv, Places, Handled
<1>n. n # 0
  BY <1>1, LenProperties DEF ProxyInv, ProxyTypes
<1>6. \A msg_type : ~Answered(Given, n, msg_type)
  BY <1>5, <1>n DEF ProxyInv, Places, Answered, Answers
<1>7. requests[n].msg_type \in {"MsgTask", "MsgGetToken", "silent", "broken"}
  BY <1>1, RequestsTyped DEF ProxyInv, RequestRecord
<1>9. /\ toBackend \in Seq(ResponseRecord) /\ Once(toBackend, delivered)
  BY DEF ProxyInv, ProxyTypes, OnceInv
<1>q. CASE requests[n].msg_type = "silent" /\ toBackend' = toBackend /\ outstanding' = outstanding
  <2>1. Given' = Given
    BY <1>2, <1>q DEF Given, Responses
  <2>2. \A m \in Handled' : AnsweredIfAny(Given', m, requests'[m].msg_type)
    BY <1>2, <1>5, <1>q, <2>1 DEF OnceInv, AnsweredIfAny
  <2>3. Once(toBackend', delivered')
    BY <1>2, <1>9, <1>q
  <2>4. \A m \in outstanding' : ~Answered(Given', m, "MsgTaskResult")
    BY <1>q, <2>1 DEF OnceInv
  <2>5. QED
    BY <2>2, <2>3, <2>4, OnceNext
<1>a. ASSUME NEW ack, Acknowledges(ack, n),
             \/ /\ toBackend' = Append(toBackend, ack)
                /\ outstanding' \subseteq outstanding \cup {n}
             \/ /\ \E result : /\ RespondsTo(result, n)
                               /\ result.msg_type = "MsgTaskResult"
                               /\ toBackend' = Append(Append(toBackend, result), ack)
                /\ outstanding' = outstanding
      PROVE  OnceInv'
  <2>8. /\ ack \in ResponseRecord /\ ack.n = n /\ ack.msg_type = AnswerType[requests[n].msg_type]
        /\ ack.msg_type # "MsgTaskResult"
    BY <1>a DEF Acknowledges, RespondsTo, Suits
  \* Whatever is given besides, the acknowledgement is, and the rest stays.
  <2>11. ASSUME NEW more, Given' = Given \cup more \cup {ack}
         PROVE  \A m \in Handled' : AnsweredIfAny(Given', m, requests'[m].msg_type)
    <3>1. \A m, msg_type : Answered(Given, m, msg_type) => Answered(Given', m, msg_type)
      BY <2>11 DEF Answered, Answers
    <3>2. AnsweredIfAny(Given', n, requests[n].msg_type)
      BY <2>8, <2>11 DEF AnsweredIfAny, Answered, Answers
    <3>3. \A m \in Handled : AnsweredIfAny(Given', m, requests[m].msg_type)
      BY <3>1 DEF OnceInv, AnsweredIfAny
    <3>4. QED
      BY <1>2, <1>5, <3>2, <3>3
  <2>12. ASSUME NEW r \in ResponseRecord, r.n = n
         PROVE  (\A i \in DOMAIN toBackend : ~SameAnswer(toBackend[i], r)) /\ NotYetAt(r, delivered)
    BY <1>6, <2>12, NewAnswer
  <2>13. ASSUME toBackend' = Append(toBackend, ack),
                outstanding' \subseteq outstanding \cup {n}
         PROVE  OnceInv'
    <3>1. Once(toBackend', delivered')
      BY <1>2, <2>8, <1>9, <2>12, <2>13, OnceAppended
    <3>2. Given' = Given \cup {} \cup {ack}
      BY <1>2, <2>8, <2>13, GivenAppended DEF ProxyInv
    <3>3. \A m \in Handled' : AnsweredIfAny(Given', m, requests'[m].msg_type)
      BY <2>11, <3>2
    <3>4. \A m \in outstanding' : ~Answered(Given', m, "MsgTaskResult")
      BY <1>6, <2>8, <2>13, <3>2 DEF OnceInv, Answered, Answers
    <3>5. QED
      BY <3>1, <3>3, <3>4, OnceNext
  <2>14. ASSUME NEW result, RespondsTo(result, n), result.msg_type = "MsgTaskResult",
                toBackend' = Append(Append(toBackend, result), ack), outstanding' = outstanding
         PROVE  OnceInv'
    <3> DEFINE b == Append(toBackend, result)
    <3>1. result \in ResponseRecord /\ result.n = n
      BY <2>14 DEF RespondsTo
    <3>2. Once(b, delivered)
      BY <1>9, <2>12, <3>1, OnceAppended
    <3>3. b \in Seq(ResponseRecord) /\ Range(b) = Range(toBackend) \cup {result}
      BY <1>9, <3>1, Appended
    <3>4. toBackend' = Append(b, ack)
      BY <2>14
    <3> HIDE DEF b
    <3>5. \A i \in DOMAIN b : ~SameAnswer(b[i], ack)
      <4>1. ~SameAnswer(result, ack)
        BY <2>8, <2>14 DEF SameAnswer
      <4>2. \A q \in Range(toBackend) : ~SameAnswer(q, ack)
        BY <2>8, <2>12 DEF Range
      <4>3. \A i \in DOMAIN b : b[i] \in Range(b)
        BY DEF Range
      <4>4. QED
        BY <3>3, <4>1, <4>2, <4>3
    <3>6. NotYetAt(ack, delivered)
      BY <2>8, <2>12
    <3>7. Once(toBackend', delivered')
      BY <1>2, <2>8, <3>2, <3>3, <3>4, <3>5, <3>6, OnceAppended
    <3>8. Given' = Given \cup {result} \cup {ack}
      <4>1. Given' = Given \cup {result, ack}
        BY <1>2, <2>8, <2>14, <3>1, GivenPair DEF ProxyInv
      <4>2. QED
        BY <4>1
    <3>9. \A m \in Handled' : AnsweredIfAny(Given', m, requests'[m].msg_type)
      BY <2>11, <3>8
    <3>10. \A m \in outstanding' : ~Answered(Given', m, "MsgTaskResult")
      BY <1>5, <2>8, <2>14, <3>1, <3>8 DEF OnceInv, Answered, Answers
    <3>11. QED
      BY <3>7, <3>9, <3>10, OnceNext
  <2>15. QED
    BY <1>a, <2>13, <2>14
<1>15. QED
  BY <1>4, <1>q, <1>a DEF Answer

LEMMA OnceKept ==
    ASSUME ProxyInv, OnceInv, [Next]_vars
    PROVE  OnceInv'
<1>o. Once(toBackend, delivered)
  BY DEF OnceInv
<1>1. ASSUME NEW request \in Offered, Send(request) PROVE OnceInv'
  <2>1. UNCHANGED <<forwarded, toServer, outstanding, toBackend, delivered>>
    BY <1>1 DEF Send, envVars
  <2>2. Handled' = Handled /\ Given' = Given
    BY <2>1 DEF Handled, Given, Responses
  <2>3. QED
    BY <1>o, <2>1, <2>2, OnceKeptQuietly
<1>2. ASSUME NEW c \in Peer, Request(c) PROVE OnceInv'
  <2>1. UNCHANGED <<outstanding, toBackend, delivered>>
    BY <1>2 DEF Request
  <2>2. Handled' = Handled
    <3>1. /\ Range(forwarded') = Range(forwarded) \cup {First(c)}
          /\ Range(toServer') = Range(toServer) \cup {First(c)}
          /\ First(c) \notin Range(forwarded)
      BY <1>2, RequestFacts
    <3>2. QED
      BY <3>1 DEF Handled
  <2>3. Given' = Given
    BY <2>1 DEF Given, Responses
  <2>4. QED
    BY <1>o, <2>1, <2>2, <2>3, OnceKeptQuietly
<1>r. ASSUME NEW n \in outstanding, SendResult(n) PROVE OnceInv'
  <2>1. PICK r : /\ RespondsTo(r, n) /\ r.msg_type = "MsgTaskResult"
                 /\ toBackend' = Append(toBackend, r)
    BY <1>r, ResultFacts
  <2>2. outstanding' = outstanding \ {n} /\ UNCHANGED <<forwarded, toServer, delivered>>
    BY <1>r, ResultFacts
  <2>3. QED
    BY <1>r, <2>1, <2>2, OnceKeptByAnswer DEF RespondsTo
<1>e. ASSUME NEW r \in earlier, SendEarlier(r) PROVE OnceInv'
  <2>1. 0 \notin outstanding
    <3>1. DOMAIN requests = 1 .. Len(requests)
      BY LenProperties DEF ProxyInv, ProxyTypes
    <3>2. QED
      BY <3>1 DEF ProxyInv, Places, Handled
  <2>2. /\ r \in ResponseRecord /\ r.n = 0 /\ toBackend' = Append(toBackend, r)
        /\ UNCHANGED <<forwarded, toServer, delivered, outstanding>>
    BY <1>e, EarlierFacts
  <2>3. outstanding' = outstanding \ {r.n}
    BY <2>1, <2>2
  <2>4. QED
    BY <2>2, <2>3, OnceKeptByAnswer
<1>3. CASE Forward
  <2> DEFINE D == [response : ResponseRecord, after : Nat]
  <2>1. /\ toBackend # <<>> /\ toBackend' = Tail(toBackend)
        /\ \/ delivered' = delivered
           \/ /\ lastClient \in Peer /\ Handed \in D
              /\ delivered' = [delivered EXCEPT ![lastClient] = Append(@, Handed)]
        /\ delivered' \in [Peer -> Seq(D)]
        /\ Given' \subseteq Given /\ \A r \in Given : r.n # 0 => r \in Given'
    BY <1>3, ForwardFacts
  <2>2. toBackend \in Seq(ResponseRecord) /\ delivered \in [Peer -> Seq(D)]
    BY DEF ProxyInv, ProxyTypes
  <2>3. Handed.response = Head(toBackend)
    BY DEF Handed
  <2> HIDE DEF D
  <2>4. Once(Tail(toBackend), delivered')
    <3>1. CASE delivered' = delivered
      BY <1>o, <2>1, <2>2, <3>1, OnceTaken
    <3>2. CASE /\ lastClient \in Peer /\ Handed \in D
               /\ delivered' = [delivered EXCEPT ![lastClient] = Append(@, Handed)]
      BY <1>o, <2>1, <2>2, <2>3, <3>2, OnceForwarded
    <3>3. QED
      BY <2>1, <3>1, <3>2
  <2>5. UNCHANGED <<forwarded, toServer, outstanding>>
    BY <1>3 DEF Forward, envVars
  <2>6. Handled' = Handled
    BY <2>5 DEF Handled
  <2>7. QED
    BY <2>1, <2>4, <2>5, <2>6, OnceKeptQuietly
<1>4. CASE Quiet
  <2>1. UNCHANGED <<forwarded, toServer, outstanding, toBackend, delivered>>
    BY <1>4 DEF Quiet
  <2>2. Handled' = Handled /\ Given' = Given
    BY <2>1 DEF Handled, Given, Responses
  <2>3. QED
    BY <1>o, <2>1, <2>2, OnceKeptQuietly
<1>5. QED
  BY <1>1, <1>2, <1>r, <1>e, <1>3, <1>4, Steps, OnceKeptByAcknowledge

\* What is given once is counted once.
LEMMA CopiesCounted ==
    ASSUME OnceInv, NEW n, n # 0, NEW msg_type
    PROVE  Copies(n, msg_type) = IF Answered(Given, n, msg_type) THEN 1 ELSE 0
<1> DEFINE U == UnderWay(n, msg_type)
           A == Arrived(n, msg_type)
<1>1. \A i : i \in U <=> i \in DOMAIN toBackend /\ Answers(toBackend[i], n, msg_type)
  BY DEF UnderWay
<1>2. \A x : x \in A <=> \E c \in Peer : \E k \in DOMAIN delivered[c] :
                            x = <<c, k>> /\ Answers(delivered[c][k].response, n, msg_type)
  BY DEF Arrived
<1>3. \A r, q : Answers(r, n, msg_type) /\ Answers(q, n, msg_type) => SameAnswer(r, q)
  BY DEF Answers, SameAnswer
<1> HIDE DEF U, A
<1>4. Answered(Given, n, msg_type) <=> U # {} \/ A # {}
  <2>1. ASSUME Answered(Given, n, msg_type) PROVE U # {} \/ A # {}
    <3>1. PICK r \in Given : Answers(r, n, msg_type)
      BY <2>1 DEF Answered
    <3>2. CASE r \in Range(toBackend)
      BY <1>1, <3>1, <3>2 DEF Range
    <3>3. CASE r \in {d.response : d \in Responses}
      <4>1. PICK c \in Peer : \E k \in DOMAIN delivered[c] : r = delivered[c][k].response
        BY <3>3 DEF Responses, Range
      <4>2. PICK k \in DOMAIN delivered[c] : r = delivered[c][k].response
        BY <4>1
      <4>3. <<c, k>> \in A
        BY <1>2, <3>1, <4>2
      <4>4. QED
        BY <4>3
    <3>4. QED
      BY <3>2, <3>3 DEF Given
  <2>2. ASSUME NEW i \in U PROVE Answered(Given, n, msg_type)
    BY <1>1 DEF Answered, Given, Range
  <2>3. ASSUME NEW x \in A PROVE Answered(Given, n, msg_type)
    <3>1. PICK c \in Peer :
             \E k \in DOMAIN delivered[c] : Answers(delivered[c][k].response, n, msg_type)
      BY <1>2
    <3>2. PICK k \in DOMAIN delivered[c] : Answers(delivered[c][k].response, n, msg_type)
      BY <3>1
    <3>3. delivered[c][k].response \in Given
      BY DEF Given, Responses, Range
    <3>4. QED
      BY <3>2, <3>3 DEF Answered
  <2>4. QED
    BY <2>1, <2>2, <2>3
<1>5. \A i, j \in U : i = j
  BY <1>1, <1>3 DEF OnceInv, Once, OnceQueued
<1>6. ASSUME NEW x \in A, NEW y \in A PROVE x = y
  BY <1>2, <1>3 DEF OnceInv, Once, OnceDelivered
<1>7. U = {} \/ A = {}
  BY <1>1, <1>2, <1>3 DEF OnceInv, Once, NotYetAt
<1>8. Copies(n, msg_type) = Cardinality(U) + Cardinality(A)
  BY DEF Copies, U, A
<1>9. Cardinality({}) = 0 /\ \A x : Cardinality({x}) = 1
  BY FS_EmptySet, FS_Singleton
<1>10. CASE U # {}
  <2>1. PICK i : U = {i}
    BY <1>5, <1>10
  <2>2. A = {}
    BY <1>7, <1>10
  <2>3. QED
    BY <1>4, <1>8, <1>9, <2>1, <2>2
<1>11. CASE U = {} /\ A # {}
  <2>1. PICK x : A = {x}
    BY <1>6, <1>11
  <2>2. Cardinality(U) = 0 /\ Cardinality(A) = 1
    BY <1>9, <1>11, <2>1
  <2>3. QED
    BY <1>4, <1>8, <1>11, <2>2
<1>12. CASE U = {} /\ A = {}
  BY <1>4, <1>8, <1>9, <1>12
<1>13. QED
  BY <1>10, <1>11, <1>12

(***************************************************************************)
(* No response is dropped or doubled by the proxy, whatever its clients    *)
(* and the simulator do and in whatever order the sockets are served.      *)
(***************************************************************************)
THEOREM ResponsesAreConserved == Spec => []ResponsesConserved
<1>1. ProxyInv /\ OnceInv => ResponsesConserved
  <2> SUFFICES ASSUME ProxyInv, OnceInv, NEW n \in Range(forwarded) \ Range(toServer)
               PROVE  /\ requests[n].msg_type # "silent" =>
                            Copies(n, AnswerType[requests[n].msg_type]) = 1
                      /\ n \in outstanding => Copies(n, "MsgTaskResult") = 0
                      /\ Copies(n, "MsgTaskResult") <= 1
    BY DEF ResponsesConserved
  <2>1. AnsweredIfAny(Given, n, requests[n].msg_type)
    BY DEF OnceInv, Handled
  <2>2. n \in outstanding => ~Answered(Given, n, "MsgTaskResult")
    BY DEF OnceInv
  <2>3. n # 0
    BY LenProperties DEF ProxyInv, ProxyTypes, Places
  <2>4. QED
    BY <2>1, <2>2, <2>3, CopiesCounted DEF AnsweredIfAny
<1>2. QED
  BY <1>1, OnceInit, InitProxyInv, NextKeepsProxyInv, OnceKept, PTL DEF Spec
================================================================================
