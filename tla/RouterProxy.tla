----------------------------- MODULE RouterProxy -----------------------------
(***************************************************************************)
(* class RouterProxy of pilotprobe/proxy/router_proxy.py: a thread between *)
(* the clients of one quantum system and its simulator, which validates    *)
(* what it forwards (module ProtocolValidator).  The simulator sees one    *)
(* peer, the proxy; the proxy sends each response to the client it heard   *)
(* last.                                                                   *)
(*                                                                         *)
(* Clients and simulator are external here.  A client sends what Offered   *)
(* holds: tasks, token requests, requests of a type without a reply        *)
(* ("silent") and requests whose handler raises ("broken").  The simulator *)
(* answers in the order of arrival, refuses a task id it holds, and sends  *)
(* the result of an accepted task at any time, even before the             *)
(* acknowledgement (module RouterServer).  It may have answers left for an *)
(* earlier PilotProbe, whose socket had the same identity.                 *)
(*                                                                         *)
(* What they do after the proxy was stopped goes nowhere and is left out.  *)
(* So are the other queries, which are answered under their SN as a        *)
(* refused task is.  A message without a type, which the validator skips,  *)
(* counts as one without SN.                                               *)
(*                                                                         *)
(* A request is known by its place n in the order of sending; responses    *)
(* carry the n they answer, or 0 for another's, which no code reads.       *)
(***************************************************************************)
EXTENDS ProtocolValidator, Sequences, SequencesExt

CONSTANTS
    Peer,           \* clients of the proxy
    Offered,        \* requests clients may send
    HeldBefore,     \* task ids the simulator holds when the proxy starts
    Earlier,        \* answers it may still have for an earlier PilotProbe
    MaxSent,        \* bound: requests in a behaviour
    MaxClock        \* bound: the last instant of the clock

ResponseTypes == {"MsgTaskAck", "MsgTaskResult", "MsgGetTokenAck", "UndefinedMsg"}

ASSUME ProxyAssumption ==
    /\ 0 \in SnRange /\ Null \notin Peer
    /\ Offered \subseteq [client : Peer, msg_type : {"MsgTask", "MsgGetToken", "silent", "broken"},
                          sn : SnRange \cup {Null}, task_id : Task \cup {Null}, captured : {Null}]
    /\ HeldBefore \subseteq Task \cup {Null}
    /\ Earlier \subseteq [n : {0}, msg_type : ResponseTypes, err_code : {0, 1},
                          sn : SnRange \cup {Null}, task_id : Task \cup {Null}]
    /\ MaxSent \in Nat /\ MaxClock \in Nat

VARIABLES
    requests,       \* all requests sent, with the time they were captured
    frontend,       \* requests the ROUTER socket holds, per client
    at,             \* where the loop is: poll, request, both, response, stopped
    lastClient,     \* self._last_client_id
    forwarded,      \* requests sent to the simulator, by n
    toServer,       \* those it has not taken
    held,           \* task ids in the simulator's table
    outstanding,    \* accepted tasks without a result, by n
    earlier,        \* answers of Earlier that have not come yet
    toBackend,      \* responses on their way to the proxy
    delivered,      \* responses sent to each client
    flagged,        \* issues validate found in each request and response
    now             \* time.time()

envVars == <<toServer, held, outstanding, earlier>>
proxyVars == <<frontend, at, lastClient, forwarded, delivered, flagged>>
vars == <<validatorVars, envVars, proxyVars, requests, toBackend, now>>

Init ==
    /\ PVInit
    /\ requests = <<>> /\ forwarded = <<>> /\ toServer = <<>> /\ toBackend = <<>>
    /\ frontend = [c \in Peer |-> <<>>]
    /\ at = "poll"
    /\ lastClient = Null
    /\ held = HeldBefore /\ outstanding = {} /\ earlier = Earlier
    /\ delivered = [c \in Peer |-> <<>>]
    /\ flagged = {}
    /\ now = 1

--------------------------------------------------------------------------------
(* Clients and simulator                                                   *)

Send(request) ==
    /\ at # "stopped"
    /\ Len(requests) < MaxSent
    /\ requests' = Append(requests, request)
    /\ frontend' = [frontend EXCEPT ![request.client] = Append(@, Len(requests) + 1)]
    /\ UNCHANGED <<validatorVars, envVars, toBackend, now>>
    /\ UNCHANGED <<at, lastClient, forwarded, delivered, flagged>>

Response(n, msg_type, err_code, sn) ==
    [n |-> n, msg_type |-> msg_type, err_code |-> err_code, sn |-> sn,
     task_id |-> IF msg_type = "MsgTaskResult" THEN requests[n].task_id ELSE Null]

\* The next request is handled and its answer sent, if it has one; the result
\* of a task may overtake its acknowledgement.  A token is granted without an
\* SN, and what went wrong is told under SN 0.
Acknowledge ==
    /\ at # "stopped"
    /\ toServer # <<>>
    /\ toServer' = Tail(toServer)
    /\ LET n == Head(toServer)
           sn == requests[n].sn
           id == requests[n].task_id
           isTask == requests[n].msg_type = "MsgTask"
       IN \/ /\ isTask /\ id \notin held
             /\ held' = held \cup {id}
             /\ \/ /\ toBackend' = Append(toBackend, Response(n, "MsgTaskAck", 0, sn))
                   /\ outstanding' = outstanding \cup {n}
                \/ /\ toBackend' = Append(Append(toBackend, Response(n, "MsgTaskResult", 0, sn)),
                                         Response(n, "MsgTaskAck", 0, sn))
                   /\ UNCHANGED outstanding
          \/ /\ isTask /\ id \in held
             /\ toBackend' = Append(toBackend, Response(n, "MsgTaskAck", 1, sn))
             /\ UNCHANGED <<held, outstanding>>
          \/ /\ requests[n].msg_type = "MsgGetToken"
             /\ \E err_code \in {0, 1} :
                   toBackend' = Append(toBackend, Response(n, "MsgGetTokenAck", err_code, Null))
             /\ UNCHANGED <<held, outstanding>>
          \/ /\ requests[n].msg_type = "broken"
             /\ toBackend' = Append(toBackend, Response(n, "UndefinedMsg", 1, 0))
             /\ UNCHANGED <<held, outstanding>>
          \/ /\ requests[n].msg_type = "silent"
             /\ UNCHANGED <<toBackend, held, outstanding>>
    /\ UNCHANGED <<validatorVars, proxyVars, requests, now, earlier>>

\* Tasks of an id the simulator has taken, this one's among them: after an
\* eviction its result is sent under the SN of the one that holds the id.
Submissions(id) ==
    {m \in Range(forwarded) \ Range(toServer) :
        requests[m].msg_type = "MsgTask" /\ requests[m].task_id = id}

SendResult(n) ==
    /\ at # "stopped"
    /\ n \in outstanding
    /\ outstanding' = outstanding \ {n}
    /\ \E m \in Submissions(requests[n].task_id) :
          toBackend' = Append(toBackend, Response(n, "MsgTaskResult", 0, requests[m].sn))
    /\ UNCHANGED <<validatorVars, proxyVars, requests, now, toServer, held, earlier>>

SendEarlier(response) ==
    /\ at # "stopped"
    /\ response \in earlier
    /\ earlier' = earlier \ {response}
    /\ toBackend' = Append(toBackend, response)
    /\ UNCHANGED <<validatorVars, proxyVars, requests, now, toServer, held, outstanding>>

\* A full table drops its oldest task.
Evict(id) ==
    /\ at # "stopped"
    /\ id \in held
    /\ held' = held \ {id}
    /\ UNCHANGED <<validatorVars, proxyVars, requests, toBackend, now, toServer, outstanding, earlier>>

Tick ==
    /\ at # "stopped"
    /\ now < MaxClock
    /\ now' = now + 1
    /\ UNCHANGED <<validatorVars, envVars, proxyVars, requests, toBackend>>

--------------------------------------------------------------------------------
(* The proxy thread                                                        *)

HasRequest == \E c \in Peer : frontend[c] # <<>>

\* Mutant: a request is taken for a sign that there is a response.
PollBlindly ==
    /\ at = "poll"
    /\ HasRequest \/ toBackend # <<>>
    /\ at' = IF HasRequest THEN "both" ELSE "response"
    /\ UNCHANGED <<validatorVars, envVars, requests, toBackend, now>>
    /\ UNCHANGED <<frontend, lastClient, forwarded, delivered, flagged>>

\* poller.poll, which reports both sockets at one instant.
Poll ==
    /\ at = "poll"
    /\ HasRequest \/ toBackend # <<>>
    /\ at' = IF ~HasRequest THEN "response"
             ELSE IF toBackend = <<>> THEN "request" ELSE "both"
    /\ UNCHANGED <<validatorVars, envVars, requests, toBackend, now>>
    /\ UNCHANGED <<frontend, lastClient, forwarded, delivered, flagged>>

\* CapturedMessage.from_raw
FromRaw(payload, direction) ==
    [channel |-> "router", direction |-> direction, msg_type |-> payload.msg_type,
     task_id |-> payload.task_id, sn |-> payload.sn, status |-> Null,
     err_code |-> IF direction = "RESPONSE" THEN payload.err_code ELSE Null,
     timestamp |-> now]

\* on_capture: validate, then the callbacks that store and broadcast.
Capture(n, payload, direction) ==
    LET msg == FromRaw(payload, direction)
    IN /\ Validate(msg)
       /\ flagged' = flagged \cup
            {[n |-> n, msg_type |-> msg.msg_type, sn |-> msg.sn, issue |-> issue, time |-> now] :
                issue \in Issues(msg)}

\* Mutant: only the first client is remembered.
RequestOfFirst(c) ==
    /\ at \in {"request", "both"}
    /\ frontend[c] # <<>>
    /\ LET n == Head(frontend[c])
       IN /\ frontend' = [frontend EXCEPT ![c] = Tail(@)]
          /\ lastClient' = IF lastClient = Null THEN c ELSE lastClient
          /\ requests' = [requests EXCEPT ![n].captured = now]
          /\ Capture(n, requests[n], "REQUEST")
          /\ forwarded' = Append(forwarded, n)
          /\ toServer' = Append(toServer, n)
    /\ at' = IF at = "both" THEN "response" ELSE "poll"
    /\ UNCHANGED <<held, outstanding, earlier, delivered, toBackend, now>>

\* The request branch: the ROUTER socket serves its clients in turn.
Request(c) ==
    /\ at \in {"request", "both"}
    /\ frontend[c] # <<>>
    /\ LET n == Head(frontend[c])
       IN /\ frontend' = [frontend EXCEPT ![c] = Tail(@)]
          /\ lastClient' = c
          /\ requests' = [requests EXCEPT ![n].captured = now]
          /\ Capture(n, requests[n], "REQUEST")
          /\ forwarded' = Append(forwarded, n)
          /\ toServer' = Append(toServer, n)
    /\ at' = IF at = "both" THEN "response" ELSE "poll"
    /\ UNCHANGED <<held, outstanding, earlier, delivered, toBackend, now>>

\* Mutant: a client is forgotten once it has a response.
ForwardOnce ==
    /\ at = "response"
    /\ toBackend' = Tail(toBackend)
    /\ Capture(Head(toBackend).n, Head(toBackend), "RESPONSE")
    /\ delivered' = IF lastClient = Null THEN delivered
                    ELSE [delivered EXCEPT ![lastClient] =
                            Append(@, [response |-> Head(toBackend), after |-> Len(forwarded)])]
    /\ lastClient' = Null
    /\ at' = "poll"
    /\ UNCHANGED <<envVars, requests, now, frontend, forwarded>>

\* The response branch.  A response that comes before the first request is
\* dropped.
Forward ==
    /\ at = "response"
    /\ toBackend' = Tail(toBackend)
    /\ Capture(Head(toBackend).n, Head(toBackend), "RESPONSE")
    /\ delivered' = IF lastClient = Null THEN delivered
                    ELSE [delivered EXCEPT ![lastClient] =
                            Append(@, [response |-> Head(toBackend), after |-> Len(forwarded)])]
    /\ at' = "poll"
    /\ UNCHANGED <<envVars, requests, now, frontend, lastClient, forwarded>>

\* stop clears _running, which the loop reads before it polls; the sockets
\* are closed with what they hold.
Stop ==
    /\ at = "poll"
    /\ at' = "stopped"
    /\ UNCHANGED <<validatorVars, envVars, requests, toBackend, now>>
    /\ UNCHANGED <<frontend, lastClient, forwarded, delivered, flagged>>

ProxyStep == Poll \/ (\E c \in Peer : Request(c)) \/ Forward

Next ==
    \/ \E request \in Offered : Send(request)
    \/ Acknowledge
    \/ \E n \in outstanding : SendResult(n)
    \/ \E response \in earlier : SendEarlier(response)
    \/ \E id \in held : Evict(id)
    \/ Tick
    \/ ProxyStep
    \/ Stop

Spec == Init /\ [][Next]_vars

--------------------------------------------------------------------------------
Responses == UNION {Range(delivered[c]) : c \in Peer}

\* Where the responses of a type to a request are, and how many there are.
Answers(response, n, msg_type) == response.n = n /\ response.msg_type = msg_type

UnderWay(n, msg_type) == {i \in DOMAIN toBackend : Answers(toBackend[i], n, msg_type)}

Arrived(n, msg_type) ==
    UNION {{<<c, i>> : i \in {j \in DOMAIN delivered[c] :
                                 Answers(delivered[c][j].response, n, msg_type)}} : c \in Peer}

Copies(n, msg_type) == Cardinality(UnderWay(n, msg_type)) + Cardinality(Arrived(n, msg_type))

ProxyTypeOK ==
    /\ at \in {"poll", "request", "both", "response", "stopped"}
    /\ at \in {"both", "response"} => toBackend # <<>>
    /\ at \in {"request", "both"} => HasRequest
    /\ pendingRequests \in [SnRange -> 1 .. now \cup {Null}]
    /\ taskIdsSeen \subseteq StringIds
    /\ authState \in BOOLEAN
    /\ \A n \in Range(forwarded) : requests[n].captured \in 1 .. now

(***************************************************************************)
(* The docstring of router_proxy.py sends a response back to its client    *)
(* (lines 21-24).  It goes astray only when another client's request was   *)
(* forwarded after the one it answers, and then to that client.            *)
(***************************************************************************)
StrayOnlyAfterLater ==
    \A c \in Peer : \A i \in DOMAIN delivered[c] :
        LET d == delivered[c][i]
            mine == CHOOSE k \in DOMAIN forwarded : forwarded[k] = d.response.n
        IN d.response.n # 0 /\ requests[d.response.n].client # c =>
              /\ mine < d.after
              /\ requests[forwarded[d.after]].client = c

(***************************************************************************)
(* A task the simulator refuses because it holds the id was flagged as a   *)
(* duplicate when its request was captured: the validator remembers every  *)
(* id at least as long as the simulator does.  Except ids that are no      *)
(* strings, or empty, which it does not check, and ids the simulator held  *)
(* before the proxy started.  (Not conversely: the simulator forgets       *)
(* evicted ids.)                                                           *)
(***************************************************************************)
RefusedIsFlagged ==
    \A d \in Responses :
        LET n == d.response.n
        IN /\ n # 0 /\ d.response.msg_type = "MsgTaskAck" /\ d.response.err_code = 1
           /\ requests[n].task_id \in StringIds \ HeldBefore
           => \E f \in flagged : f.n = n /\ f.issue = "duplicate"

(***************************************************************************)
(* A response flagged as slow was slow, although pending requests are      *)
(* keyed by the SN alone and clients choose their SNs independently, if it *)
(* has the SN of the request it answers.  Otherwise (SN 0 of an            *)
(* UndefinedMsg, a result under the SN of the task that took its place, an *)
(* answer for an earlier PilotProbe) some request of its SN is that old,   *)
(* which need not be the one it answers.  (Not conversely: a later request *)
(* of the SN hides a slow response.)                                       *)
(***************************************************************************)
Waited(n, f) ==
    /\ n \in Range(forwarded) /\ requests[n].sn = f.sn
    /\ f.time - requests[n].captured > SlowThreshold

SlowIsReal ==
    \A f \in flagged : f.issue = "slow" =>
        /\ \E n \in Range(forwarded) : Waited(n, f)
        /\ f.n # 0 /\ requests[f.n].sn = f.sn => Waited(f.n, f)

(***************************************************************************)
(* No response is dropped or doubled on its way: a request the simulator   *)
(* has taken has one answer of its type, if the type has any, and an       *)
(* accepted task one result, under way to the proxy or delivered to some   *)
(* client.                                                                 *)
(***************************************************************************)
AnswerType == [MsgTask |-> "MsgTaskAck", MsgGetToken |-> "MsgGetTokenAck",
               broken |-> "UndefinedMsg"]

ResponsesConserved ==
    \A n \in Range(forwarded) \ Range(toServer) :
        /\ requests[n].msg_type # "silent" => Copies(n, AnswerType[requests[n].msg_type]) = 1
        /\ n \in outstanding => Copies(n, "MsgTaskResult") = 0
        /\ Copies(n, "MsgTaskResult") <= 1
================================================================================
