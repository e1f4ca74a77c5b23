--------------------------- MODULE AsyncDatabase ---------------------------
(***************************************************************************)
(* An asynchronous database connection (CMySqlDatabase and the async_      *)
(* calls of src/src/database/database.cpp): the owner's thread starts a    *)
(* service thread, posts requests, polls for responses once per turn of    *)
(* the server loop and closes; other threads call async_escape_string and  *)
(* wait for it.  Requests are numbered in the order they are queued.       *)
(*                                                                         *)
(* Both condition variables are waited for without a predicate and         *)
(* notified without their mutex: a notification reaches only a thread that *)
(* already sleeps, and a wake-up may be spurious.  Of the SQL only one     *)
(* thing is kept: whether the call that was posted returns a response.     *)
(***************************************************************************)
EXTENDS Naturals, Sequences

CONSTANTS
    Escapers,     \* threads that call async_escape_string
    None,         \* no request
    MaxRequests   \* model bound: requests queued in all

ASSUME DatabaseAssumption ==
    /\ MaxRequests \in Nat
    /\ None \notin Nat

VARIABLES
    owner,      \* where the owner stands in start(), stop() or between them
    svc,        \* where the service thread stands
    working,    \* m_working
    accepted,   \* requests queued so far
    req,        \* m_transreq
    cur,        \* the request the service thread took out
    resp,       \* m_transrpn
    wants,      \* the requests whose call returns a response
    esc,        \* where each escaper stands
    ticket,     \* the request it waits for
    last,       \* the last request whose response was run
    answered    \* history: the requests whose response was run

queues == <<accepted, wants, req, cur, resp>>
callers == <<esc, ticket>>
polled == <<last, answered>>
vars == <<owner, svc, working, queues, callers, polled>>

OwnerStates == {"idle", "spawned", "wait", "woken", "up", "join", "closed", "failed"}
SvcStates == {"none", "begin", "notify", "loop", "get", "run", "put", "ended"}

\* m_working is not initialised: it holds what the allocation left there.
Init ==
    /\ owner = "idle"
    /\ svc = "none"
    /\ working \in BOOLEAN
    /\ accepted = 0
    /\ req = <<>>
    /\ cur = None
    /\ resp = <<>>
    /\ wants = {}
    /\ esc = [c \in Escapers |-> "idle"]
    /\ ticket = [c \in Escapers |-> None]
    /\ last = 0 /\ answered = {}

Terminated == owner = "failed"

-----------------------------------------------------------------------------
(* start(), called by async_connect()                                      *)

\* connect() may fail; the owner then has no database.
Start ==
    /\ owner = "idle"
    /\ \/ owner' = "closed" /\ svc' = svc
       \/ owner' = "spawned" /\ svc' = "begin"
    /\ UNCHANGED <<working, queues, callers, polled>>

OwnerWait ==
    /\ owner = "spawned"
    /\ owner' = "wait"
    /\ UNCHANGED <<svc, working, queues, callers, polled>>

OwnerSpurious ==
    /\ owner = "wait"
    /\ owner' = "woken"
    /\ UNCHANGED <<svc, working, queues, callers, polled>>

\* On FALSE the object is deleted with its thread joinable: std::terminate.
OwnerReturn ==
    /\ owner = "woken"
    /\ owner' = IF working THEN "up" ELSE "failed"
    /\ UNCHANGED <<svc, working, queues, callers, polled>>

\* Mutant: the service thread gives up, unheard, when it cannot connect.
SvcReconnectQuits ==
    /\ svc = "begin"
    /\ \/ working' = TRUE /\ svc' = "notify"
       \/ working' = FALSE /\ svc' = "ended"
    /\ UNCHANGED <<owner, queues, callers, polled>>

\* It serves whether reconnect() succeeds or not.
SvcReconnect ==
    /\ svc = "begin"
    /\ working' = TRUE
    /\ svc' = "notify"
    /\ UNCHANGED <<owner, queues, callers, polled>>

SvcNotify ==
    /\ svc = "notify"
    /\ owner' = IF owner = "wait" THEN "woken" ELSE owner
    /\ svc' = "loop"
    /\ UNCHANGED <<working, queues, callers, polled>>

-----------------------------------------------------------------------------
(* async_post(), async_resp() and async_escape_string()                    *)

\* Nobody has the database before start() is through, nor after async_close().
PutRequest ==
    /\ owner \in {"up", "join"} /\ accepted < MaxRequests
    /\ accepted' = accepted + 1
    /\ req' = Append(req, accepted + 1)
    /\ UNCHANGED <<owner, svc, working, cur, resp, polled>>

Post ==
    /\ PutRequest
    /\ wants' \in {wants, wants \cup {accepted + 1}}
    /\ UNCHANGED callers

EscapePost(c) ==
    /\ esc[c] = "idle"
    /\ PutRequest
    /\ UNCHANGED wants
    /\ esc' = [esc EXCEPT ![c] = "posted"]
    /\ ticket' = [ticket EXCEPT ![c] = accepted + 1]

EscapeWait(c) ==
    /\ esc[c] = "posted"
    /\ esc' = [esc EXCEPT ![c] = "asleep"]
    /\ UNCHANGED <<owner, svc, working, queues, ticket, polled>>

\* Woken by the service thread or by nobody, the call returns.  In the second
\* case its request is still queued and will write to a frame that is gone;
\* what that destroys is not part of the model.
EscapeReturn(c) ==
    /\ esc[c] \in {"asleep", "woken"}
    /\ esc' = [esc EXCEPT ![c] = "idle"]
    /\ ticket' = [ticket EXCEPT ![c] = None]
    /\ UNCHANGED <<owner, svc, working, queues, polled>>

\* Mutant: get_response() leaves the response it returns in the queue.
PollKeeps ==
    /\ owner = "up" /\ resp # <<>>
    /\ last' = Head(resp) /\ answered' = answered \cup {last'}
    /\ UNCHANGED <<owner, svc, working, queues, callers>>

\* AsyncDBExecuteResp() of the server loop runs the response it gets.
Poll ==
    /\ owner = "up" /\ resp # <<>>
    /\ last' = Head(resp) /\ answered' = answered \cup {last'}
    /\ resp' = Tail(resp)
    /\ UNCHANGED <<owner, svc, working, accepted, wants, req, cur, callers>>

-----------------------------------------------------------------------------
(* svc()                                                                   *)

SvcTest ==
    /\ svc = "loop"
    /\ svc' = IF working THEN "get" ELSE "ended"
    /\ UNCHANGED <<owner, working, queues, callers, polled>>

\* Mutant: the request is run and stays in the queue.
SvcGetKeeps ==
    /\ svc = "get"
    /\ IF req = <<>> THEN svc' = "loop" /\ UNCHANGED cur
                     ELSE svc' = "run" /\ cur' = Head(req)
    /\ UNCHANGED <<owner, working, accepted, wants, req, resp, callers, polled>>

\* get_request(); on an empty queue it sleeps 50 ms and tests m_working again.
SvcGet ==
    /\ svc = "get"
    /\ IF req = <<>> THEN svc' = "loop" /\ UNCHANGED <<req, cur>>
                     ELSE svc' = "run" /\ cur' = Head(req) /\ req' = Tail(req)
    /\ UNCHANGED <<owner, working, accepted, wants, resp, callers, polled>>

\* Mutant: the escape does not notify.
SvcRunSilent ==
    /\ svc = "run"
    /\ IF cur \in wants THEN svc' = "put" /\ UNCHANGED cur
                        ELSE svc' = "loop" /\ cur' = None
    /\ UNCHANGED <<owner, working, accepted, wants, req, resp, callers, polled>>

\* The call of an escape wakes its caller, if that sleeps, and returns no response.
SvcRun ==
    /\ svc = "run"
    /\ IF cur \in wants THEN svc' = "put" /\ UNCHANGED cur
                        ELSE svc' = "loop" /\ cur' = None
    /\ esc' = [c \in Escapers |-> IF ticket[c] = cur /\ esc[c] = "asleep"
                                  THEN "woken" ELSE esc[c]]
    /\ UNCHANGED <<owner, working, accepted, wants, req, resp, ticket, polled>>

\* Mutant: put_response() keeps no second response.
SvcPutDrops ==
    /\ svc = "put"
    /\ resp' = IF resp = <<>> THEN <<cur>> ELSE resp
    /\ cur' = None
    /\ svc' = "loop"
    /\ UNCHANGED <<owner, working, accepted, wants, req, callers, polled>>

SvcPut ==
    /\ svc = "put"
    /\ resp' = Append(resp, cur)
    /\ cur' = None
    /\ svc' = "loop"
    /\ UNCHANGED <<owner, working, accepted, wants, req, callers, polled>>

-----------------------------------------------------------------------------
(* async_close()                                                           *)

\* Mutant: m_working is left as it is.
StopJoins ==
    /\ owner = "up"
    /\ owner' = "join"
    /\ UNCHANGED <<svc, working, queues, callers, polled>>

Stop ==
    /\ owner = "up"
    /\ owner' = "join"
    /\ working' = FALSE
    /\ UNCHANGED <<svc, queues, callers, polled>>

\* The queues go with the object.
Joined ==
    /\ owner = "join" /\ svc = "ended"
    /\ owner' = "closed"
    /\ req' = <<>> /\ resp' = <<>>
    /\ UNCHANGED <<svc, working, accepted, wants, cur, callers, polled>>

-----------------------------------------------------------------------------
Service == SvcReconnect \/ SvcNotify \/ SvcTest \/ SvcGet \/ SvcRun \/ SvcPut

OwnerStep == OwnerWait \/ OwnerReturn \/ Poll \/ Joined

EscapeStep(c) == EscapeWait(c) \/ EscapeReturn(c)

Next ==
    /\ ~Terminated
    /\ \/ Start \/ OwnerSpurious \/ Post \/ Stop \/ OwnerStep \/ Service
       \/ \E c \in Escapers : EscapePost(c) \/ EscapeStep(c)

Spec == Init /\ [][Next]_vars

\* Threads keep running, and the server loop keeps polling.  Nobody has to post
\* or to close, and a wake-up out of nothing is not promised.
Fairness ==
    /\ WF_vars(Service /\ ~Terminated)
    /\ WF_vars((OwnerWait \/ OwnerReturn \/ Joined) /\ ~Terminated)
    /\ WF_vars(Poll /\ ~Terminated)
    /\ \A c \in Escapers :
          /\ WF_vars(EscapeWait(c) /\ ~Terminated)
          /\ WF_vars(esc[c] = "woken" /\ EscapeReturn(c) /\ ~Terminated)

FairSpec == Spec /\ Fairness
-----------------------------------------------------------------------------
(* Properties                                                              *)

Types ==
    /\ owner \in OwnerStates
    /\ svc \in SvcStates
    /\ working \in BOOLEAN
    /\ accepted \in Nat
    /\ req \in Seq(Nat \ {0})
    /\ cur \in (Nat \ {0}) \cup {None}
    /\ resp \in Seq(Nat \ {0})
    /\ wants \subseteq Nat
    /\ esc \in [Escapers -> {"idle", "posted", "asleep", "woken"}]
    /\ ticket \in [Escapers -> Nat \cup {None}]
    /\ last \in Nat
    /\ answered \subseteq Nat

\* Every variable has its type, the service thread holds a request exactly while
\* it serves one, and that request is in no queue any more: get_request() hands
\* a request to one run only.
TypeOK ==
    /\ Types
    /\ cur # None <=> svc \in {"run", "put"}
    /\ \A i \in 1..Len(req) : req[i] # cur
    /\ \A i \in 1..Len(resp) : resp[i] # cur

InPipe ==
    {resp[i] : i \in 1..Len(resp)} \cup ({cur} \ {None}) \cup {req[i] : i \in 1..Len(req)}

\* Whatever the threads do, the database keeps the promise of RequestPipe: until it
\* is closed no request that asks for a response is dropped, and the responses reach
\* the server loop in the order of the requests, each once.
Promise == INSTANCE RequestPipe WITH pending <- InPipe, closed <- owner = "closed"
KeepsOrder == Promise!Spec

Served(n) == IF n \in wants THEN n \in answered ELSE n \notin InPipe

\* While the database is open every request is run and, if its call returns a
\* response, the server loop runs that, whatever reconnect() said and however many
\* requests follow.
RequestServed == \A n \in 1..MaxRequests : n <= accepted ~> Served(n) \/ owner # "up"

\* An escape call that sleeps before its request is run comes back.
EscapeReturns ==
    \A c \in Escapers :
        (esc[c] = "asleep" /\ ticket[c] \in InPipe)
            ~> (esc[c] # "asleep" \/ owner # "up")

\* A start() that sleeps before the service thread notifies comes back, even if
\* the server is down.
StartReturns ==
    (owner = "wait" /\ svc \in {"begin", "notify"}) ~> owner # "wait"

\* stop() comes back, unless start() woke out of nothing before the service
\* thread set m_working: that thread then overwrites the FALSE of stop().
StopReturns ==
    [](owner = "up" => svc # "begin") => (owner = "join" ~> owner = "closed")
=============================================================================
