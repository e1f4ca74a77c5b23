-------------------------- MODULE SessionProtocol --------------------------
(***************************************************************************)
(* What the network layer promises the INetworkSession of an accepted      *)
(* connection (src/src/net/net.h), whatever its threads do: the session    *)
(* hears OnAccept before anything else and once, then data, keep-alives    *)
(* and errors, then OnClose once; after OnClose no data follows.  Late     *)
(* OnAlive and OnError calls are possible and part of the promise as the   *)
(* code keeps it.  Events travel through one FIFO queue.                   *)
(***************************************************************************)
EXTENDS Naturals, Sequences

VARIABLES queue, session

vars == <<queue, session>>

Queued(e) == \E i \in 1..Len(queue) : queue[i] = e

Accepted == session \in {"open", "closed"} \/ Queued("ACCEPT")

Closed == session = "closed" \/ Queued("CLOSE")

Init == queue = <<"PENDING">> /\ session = "none"

Post(e) == queue' = Append(queue, e) /\ UNCHANGED session

PostAccept == session = "created" /\ ~Accepted /\ ~Closed /\ Post("ACCEPT")

PostData == Accepted /\ ~Closed /\ Post("DATA")

PostNotice == session # "none" /\ (Post("PING") \/ Post("ERROR"))

\* A connection may be closed before its session exists or was told of it.
PostClose == ~Closed /\ Post("CLOSE")

\* The pending connection gets a session, or is turned away.
TakePending ==
    /\ queue # <<>> /\ Head(queue) = "PENDING"
    /\ queue' = Tail(queue)
    /\ session' \in {"none", "created"}

TakeEvent ==
    /\ queue # <<>> /\ Head(queue) # "PENDING"
    /\ queue' = Tail(queue)
    /\ session' = CASE Head(queue) = "ACCEPT" -> "open"
                    [] Head(queue) = "CLOSE" /\ session # "none" -> "closed"
                    [] OTHER -> session

Next ==
    PostAccept \/ PostData \/ PostNotice \/ PostClose \/ TakePending \/ TakeEvent

Spec == Init /\ [][Next]_vars
=============================================================================
