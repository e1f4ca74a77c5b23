------------------------ MODULE AsyncDatabaseProofs ------------------------
(***************************************************************************)
(* Proofs about AsyncDatabase, for any number of callers and requests: it  *)
(* implements RequestPipe.                                                 *)
(***************************************************************************)
EXTENDS AsyncDatabase, SequenceTheorems, TLAPS

\* The numbers in a queue rise, and lie above lo and up to hi.
Rises(s, lo, hi) ==
    /\ \A i \in 1..Len(s) : lo < s[i] /\ s[i] <= hi
    /\ \A i, j \in 1..Len(s) : i < j => s[i] < s[j]

\* From the last response run, over the responses waiting and the request being
\* served, to the requests waiting, the numbers rise.
OrderInv ==
    /\ last <= accepted
    /\ Rises(resp, last, accepted)
    /\ Rises(req, last, accepted)
    /\ \A i \in 1..Len(resp), j \in 1..Len(req) : resp[i] < req[j]
    /\ cur # None => /\ last < cur /\ cur <= accepted
                     /\ \A i \in 1..Len(resp) : resp[i] < cur
                     /\ \A j \in 1..Len(req) : cur < req[j]

Held ==
    /\ cur # None <=> svc \in {"run", "put"}
    /\ owner = "idle" => svc = "none" /\ req = <<>> /\ resp = <<>>

\* Only a request whose call returned one has a response.
WantInv ==
    /\ \A i \in 1..Len(resp) : resp[i] \in wants
    /\ svc = "put" => cur \in wants

PipeInv == Types /\ Held /\ OrderInv /\ WantInv

\* The database is neither closed by the step nor opened again.
SameClosed == (owner' = "closed") = (owner = "closed")

\* Nothing that RequestPipe tells apart changes.
PipeStays == UNCHANGED <<accepted, wants, InPipe, last>> /\ SameClosed

Image(s) == {s[i] : i \in 1..Len(s)}

\* A queue that grows by one and a queue that gives its front away.
LEMMA Appended ==
    ASSUME NEW s \in Seq(Nat \ {0}), NEW n \in Nat \ {0}
    PROVE  /\ Append(s, n) \in Seq(Nat \ {0})
           /\ Len(s) \in Nat /\ Len(Append(s, n)) = Len(s) + 1
           /\ \A i \in 1..Len(s) : Append(s, n)[i] = s[i]
           /\ Append(s, n)[Len(s) + 1] = n
           /\ Image(Append(s, n)) = Image(s) \cup {n}
<1> DEFINE t == Append(s, n)
<1>1. /\ t \in Seq(Nat \ {0})
      /\ Len(s) \in Nat /\ Len(t) = Len(s) + 1
      /\ \A i \in 1..Len(s) : t[i] = s[i]
      /\ t[Len(s) + 1] = n
  OBVIOUS
<1>2. ASSUME NEW e \in Image(t) PROVE e \in Image(s) \cup {n}
  <2>1. PICK i \in 1..Len(t) : e = t[i]
    BY DEF Image
  <2>2. i \in 1..Len(s) \/ i = Len(s) + 1
    BY <1>1
  <2> QED
    BY <1>1, <2>1, <2>2 DEF Image
<1>3. ASSUME NEW e \in Image(s) PROVE e \in Image(t)
  <2>1. PICK i \in 1..Len(s) : e = s[i]
    BY DEF Image
  <2>2. i \in 1..Len(t) /\ t[i] = e
    BY <1>1, <2>1
  <2> QED
    BY <2>2 DEF Image
<1>4. n \in Image(t)
  <2>1. Len(s) + 1 \in 1..Len(t)
    BY <1>1
  <2> QED
    BY <1>1, <2>1 DEF Image
<1> QED
  BY <1>1, <1>2, <1>3, <1>4

\* Taking the first request of a queue.
LEMMA Fronted ==
    ASSUME NEW s \in Seq(Nat \ {0}), s # <<>>
    PROVE  /\ Tail(s) \in Seq(Nat \ {0})
           /\ Len(s) \in Nat \ {0}
           /\ Len(Tail(s)) = Len(s) - 1
           /\ \A i \in 1..Len(Tail(s)) : Tail(s)[i] = s[i + 1]
           /\ Head(s) = s[1] /\ Head(s) \in Nat \ {0}
           /\ Image(s) = Image(Tail(s)) \cup {s[1]}
<1> DEFINE t == Tail(s)
<1>1. Len(s) \in Nat \ {0}
  BY EmptySeq
<1>2. /\ t \in Seq(Nat \ {0}) /\ Len(t) = Len(s) - 1
      /\ \A i \in 1..Len(t) : t[i] = s[i + 1]
      /\ Head(s) = s[1] /\ Head(s) \in Nat \ {0}
  BY <1>1, HeadTailProperties
<1>3. ASSUME NEW e \in Image(s) PROVE e \in Image(t) \cup {s[1]}
  <2>1. PICK i \in 1..Len(s) : e = s[i]
    BY DEF Image
  <2>2. i = 1 \/ (i - 1 \in 1..Len(t) /\ t[i - 1] = s[i])
    BY <1>1, <1>2
  <2> QED
    BY <2>1, <2>2 DEF Image
<1>4. ASSUME NEW e \in Image(t) PROVE e \in Image(s)
  <2>1. PICK i \in 1..Len(t) : e = t[i]
    BY DEF Image
  <2>2. i + 1 \in 1..Len(s) /\ s[i + 1] = e
    BY <1>1, <1>2, <2>1
  <2> QED
    BY <2>2 DEF Image
<1>5. s[1] \in Image(s)
  <2>1. 1 \in 1..Len(s)
    BY <1>1
  <2> QED
    BY <2>1 DEF Image
<1> QED
  BY <1>1, <1>2, <1>3, <1>4, <1>5

\* A younger request behind a rising queue leaves it rising.
LEMMA RisesAppended ==
    ASSUME NEW s \in Seq(Nat \ {0}), NEW n \in Nat \ {0},
           NEW lo \in Nat, NEW hi \in Nat, NEW top \in Nat,
           Rises(s, lo, hi), hi <= top, lo < n, n <= top,
           \A i \in 1..Len(s) : s[i] < n
    PROVE  Rises(Append(s, n), lo, top)
<1> DEFINE t == Append(s, n)
<1>1. /\ Len(s) \in Nat /\ Len(t) = Len(s) + 1
      /\ \A i \in 1..Len(s) : t[i] = s[i]
      /\ t[Len(s) + 1] = n
  BY Appended
<1>2. \A i \in 1..Len(s) : s[i] \in Nat
  OBVIOUS
<1>3. \A i \in 1..Len(t) : i \in 1..Len(s) \/ i = Len(s) + 1
  BY <1>1
<1> HIDE DEF t
<1>4. \A i \in 1..Len(t) : lo < t[i] /\ t[i] <= top
  BY <1>1, <1>2, <1>3 DEF Rises
<1>5. ASSUME NEW i \in 1..Len(t), NEW j \in 1..Len(t), i < j PROVE t[i] < t[j]
  <2>1. i \in 1..Len(s)
    BY <1>1, <1>5
  <2>2. CASE j \in 1..Len(s)
    BY <1>1, <1>5, <2>1, <2>2 DEF Rises
  <2>3. CASE j = Len(s) + 1
    BY <1>1, <1>5, <2>1, <2>3
  <2> QED
    BY <1>3, <2>2, <2>3
<1> QED
  BY <1>4, <1>5 DEF Rises, t

\* Without its first request a rising queue rises from there.
LEMMA RisesFronted ==
    ASSUME NEW s \in Seq(Nat \ {0}), s # <<>>, NEW lo \in Nat, NEW hi \in Nat,
           Rises(s, lo, hi)
    PROVE  /\ lo < s[1] /\ s[1] <= hi
           /\ Rises(Tail(s), s[1], hi) /\ Rises(Tail(s), lo, hi)
           /\ s[1] \notin Image(Tail(s))
<1> DEFINE t == Tail(s)
<1>1. /\ Len(s) \in Nat \ {0} /\ Len(t) = Len(s) - 1 /\ t \in Seq(Nat \ {0})
      /\ \A i \in 1..Len(t) : t[i] = s[i + 1]
      /\ s[1] \in Nat
  BY Fronted
<1>2. 1 \in 1..Len(s) /\ \A i \in 1..Len(t) : i + 1 \in 1..Len(s) /\ 1 < i + 1
  BY <1>1
<1>3. lo < s[1] /\ s[1] <= hi
  BY <1>2 DEF Rises
<1> HIDE DEF t
<1>4. ASSUME NEW i \in 1..Len(t) PROVE s[1] < t[i] /\ t[i] <= hi /\ t[i] \in Nat
  <2>1. t[i] = s[i + 1] /\ t[i] \in Nat /\ i + 1 \in 1..Len(s) /\ 1 < i + 1
    BY <1>1, <1>2
  <2> QED
    BY <1>2, <2>1 DEF Rises
<1>5. ASSUME NEW i \in 1..Len(t), NEW j \in 1..Len(t), i < j PROVE t[i] < t[j]
  <2>1. i + 1 < j + 1
    BY <1>1, <1>5
  <2> QED
    BY <1>1, <1>2, <2>1 DEF Rises
<1>6. \A i \in 1..Len(t) : lo < t[i]
  <2>1. ASSUME NEW i \in 1..Len(t) PROVE lo < t[i]
    <3>1. s[1] < t[i] /\ t[i] \in Nat
      BY <1>4
    <3>2. lo < s[1] /\ s[1] \in Nat
      BY <1>1, <1>3
    <3> QED
      BY <3>1, <3>2
  <2> QED
    BY <2>1
<1>7. Rises(t, s[1], hi)
  BY <1>4, <1>5 DEF Rises
<1>8. Rises(t, lo, hi)
  BY <1>4, <1>5, <1>6 DEF Rises
<1>9. s[1] \notin Image(t)
  BY <1>1, <1>4 DEF Image
<1> QED
  BY <1>3, <1>7, <1>8, <1>9 DEF t

\* A pending request is in one of the queues or in the service thread's hand.
LEMMA PipeImages == InPipe = Image(resp) \cup ({cur} \ {None}) \cup Image(req)
BY DEF InPipe, Image

\* The database is created with empty queues.
LEMMA InitPipe == Init => PipeInv
<1> SUFFICES ASSUME Init PROVE PipeInv
  OBVIOUS
<1> USE DatabaseAssumption DEF Init
<1>1. Types
  BY DEF Types, OwnerStates, SvcStates
<1>2. Held /\ OrderInv /\ WantInv
  BY DEF Held, OrderInv, WantInv, Rises
<1> QED
  BY <1>1, <1>2 DEF PipeInv

-----------------------------------------------------------------------------
(* One lemma per step that moves a request.                                *)

\* A request is numbered and queued last.
LEMMA PutStep ==
    ASSUME PipeInv, PutRequest, wants' \in {wants, wants \cup {accepted + 1}},
           esc' \in [Escapers -> {"idle", "posted", "asleep", "woken"}],
           ticket' \in [Escapers -> Nat \cup {None}]
    PROVE  PipeInv' /\ Promise!Submit
<1> USE DatabaseAssumption DEF PipeInv, Types
<1> DEFINE n == accepted + 1
<1>1. /\ req' = Append(req, n) /\ accepted' = n /\ n \in Nat \ {0} /\ accepted < n
      /\ UNCHANGED <<owner, svc, working, cur, resp, last, answered>>
      /\ owner \in {"up", "join"} /\ wants' \in {wants, wants \cup {n}}
  BY DEF PutRequest, polled
<1> HIDE DEF n
<1>2. /\ req' \in Seq(Nat \ {0}) /\ Len(req) \in Nat /\ Len(req') = Len(req) + 1
      /\ \A i \in 1..Len(req) : req'[i] = req[i]
      /\ req'[Len(req) + 1] = n
      /\ Image(req') = Image(req) \cup {n}
  BY <1>1, Appended
<1>3. Types' /\ Held' /\ WantInv' /\ SameClosed
  BY <1>1, <1>2 DEF Held, WantInv, SameClosed
<1>4. OrderInv'
  <2>1. \A i \in 1..Len(resp) : resp[i] \in Nat /\ resp[i] < n
    BY <1>1 DEF OrderInv, Rises
  <2>2. \A i \in 1..Len(req) : req[i] \in Nat /\ req[i] < n
    BY <1>1 DEF OrderInv, Rises
  <2>3. last <= n /\ last < n
    BY <1>1 DEF OrderInv
  <2>4. Rises(req', last, n)
    <3>1. accepted \in Nat /\ accepted <= n /\ n \in Nat /\ n <= n
      BY <1>1
    <3>2. Rises(req, last, accepted)
      BY DEF OrderInv
    <3> QED
      BY <1>1, <2>2, <2>3, <3>1, <3>2, RisesAppended
  <2>5. Rises(resp, last, n)
    BY <1>1, <2>1 DEF OrderInv, Rises
  <2>6. \A j \in 1..Len(req') : j \in 1..Len(req) \/ j = Len(req) + 1
    BY <1>2
  <2>7. \A i \in 1..Len(resp), j \in 1..Len(req') : resp[i] < req'[j]
    BY <1>2, <2>1, <2>6 DEF OrderInv
  <2>8. ASSUME cur # None
        PROVE  last < cur /\ cur <= n /\ \A j \in 1..Len(req') : cur < req'[j]
    <3>1. cur \in Nat /\ last < cur /\ cur < n
      BY <1>1, <2>8 DEF OrderInv
    <3>2. \A j \in 1..Len(req) : cur < req[j]
      BY <2>8 DEF OrderInv
    <3> QED
      <4>1. ASSUME NEW j \in 1..Len(req') PROVE cur < req'[j]
        <5>1. CASE j \in 1..Len(req)
          BY <1>2, <3>2, <5>1
        <5>2. CASE j = Len(req) + 1
          BY <1>2, <3>1, <5>2
        <5> QED
          BY <2>6, <5>1, <5>2
      <4>2. cur <= n
        BY <1>1, <3>1
      <4> QED
        BY <3>1, <4>1, <4>2
  <2> QED
    BY <1>1, <2>3, <2>4, <2>5, <2>7, <2>8 DEF OrderInv
<1>5. InPipe' = InPipe \cup {accepted + 1}
  <2>1. InPipe' = Image(resp) \cup ({cur} \ {None}) \cup Image(req')
    BY <1>1 DEF Image, InPipe
  <2> QED
    BY <1>2, <2>1, PipeImages DEF n
<1> QED
  BY <1>1, <1>3, <1>4, <1>5 DEF Promise!Submit, SameClosed, n

\* The oldest response is run: nothing older is in the pipe.
LEMMA PollStep ==
    ASSUME PipeInv, Poll
    PROVE  PipeInv' /\ Promise!Answer
<1> USE DatabaseAssumption DEF PipeInv, Types
<1> DEFINE n == resp[1]
<1>1. /\ resp' = Tail(resp) /\ resp # <<>> /\ last' = n /\ n \in Nat \ {0}
      /\ resp' \in Seq(Nat \ {0}) /\ Len(resp) \in Nat \ {0} /\ Len(resp') = Len(resp) - 1
      /\ \A i \in 1..Len(resp') : resp'[i] = resp[i + 1]
      /\ Image(resp) = Image(resp') \cup {n}
      /\ answered' = answered \cup {n}
  BY Fronted DEF Poll
<1>2. /\ owner = "up" /\ UNCHANGED <<owner, svc, working, accepted, wants, req, cur>>
      /\ UNCHANGED <<esc, ticket>>
  BY DEF Poll, callers
<1>3. /\ last < n /\ n <= accepted /\ Rises(resp', n, accepted)
      /\ n \notin Image(resp')
  BY <1>1, RisesFronted DEF OrderInv
<1>4. /\ 1 \in 1..Len(resp)
      /\ \A i \in 1..Len(resp') : i + 1 \in 1..Len(resp)
  BY <1>1
<1>5. /\ \A j \in 1..Len(req) : n < req[j] /\ req[j] \in Nat
      /\ cur # None => cur \in Nat /\ n < cur
  BY <1>4 DEF OrderInv
<1>10. n \in wants /\ \A i \in 1..Len(resp') : resp'[i] \in wants
  BY <1>1, <1>4 DEF WantInv
<1> HIDE DEF n
<1>6. Types' /\ Held' /\ WantInv' /\ SameClosed
  BY <1>1, <1>2, <1>10 DEF Held, WantInv, SameClosed
<1>7. OrderInv'
  <2>1. Rises(req, n, accepted)
    BY <1>5 DEF OrderInv, Rises
  <2>2. \A i \in 1..Len(resp'), j \in 1..Len(req) : resp'[i] < req[j]
    BY <1>1, <1>4 DEF OrderInv
  <2>3. cur # None => \A i \in 1..Len(resp') : resp'[i] < cur
    BY <1>1, <1>4 DEF OrderInv
  <2> QED
    BY <1>1, <1>2, <1>3, <1>5, <2>1, <2>2, <2>3 DEF OrderInv
<1>8. n \in InPipe /\ \A m \in InPipe : n <= m
  <2>1. \A m \in Image(resp') : n <= m
    BY <1>1, <1>3 DEF Image, Rises
  <2>2. \A m \in Image(req) : n <= m
    BY <1>1, <1>5 DEF Image
  <2>3. \A m \in {cur} \ {None} : n <= m
    BY <1>1, <1>5
  <2> QED
    BY <1>1, <2>1, <2>2, <2>3, PipeImages
<1>9. InPipe' = InPipe \ {n}
  <2>1. n \notin Image(req)
    BY <1>1, <1>5 DEF Image
  <2>2. n \notin {cur} \ {None}
    BY <1>1, <1>5
  <2>3. InPipe' = Image(resp') \cup ({cur} \ {None}) \cup Image(req)
    BY <1>2, PipeImages DEF Image, InPipe
  <2> QED
    BY <1>1, <1>3, <2>1, <2>2, <2>3, PipeImages
<1> QED
  BY <1>1, <1>2, <1>3, <1>6, <1>7, <1>8, <1>9, <1>10 DEF Promise!Answer, SameClosed

\* The service thread takes the front out: the pipe holds what it held.
LEMMA GetStep ==
    ASSUME PipeInv, SvcGet
    PROVE  PipeInv' /\ PipeStays
<1> USE DatabaseAssumption DEF PipeInv, Types
<1>1. /\ svc = "get" /\ cur = None
      /\ UNCHANGED <<owner, working, accepted, wants, resp, esc, ticket, last, answered>>
  BY DEF SvcGet, Held, callers, polled
<1>2. CASE req = <<>>
  <2>1. UNCHANGED <<req, cur>> /\ svc' = "loop"
    BY <1>2 DEF SvcGet
  <2> QED
    BY <1>1, <2>1 DEF Held, OrderInv, WantInv, Rises, InPipe, SvcStates, PipeStays, SameClosed
<1>3. CASE req # <<>>
  <2> DEFINE n == req[1]
  <2>1. /\ req' = Tail(req) /\ cur' = n /\ n \in Nat \ {0} /\ svc' = "run"
        /\ req' \in Seq(Nat \ {0}) /\ Len(req) \in Nat \ {0} /\ Len(req') = Len(req) - 1
        /\ \A i \in 1..Len(req') : req'[i] = req[i + 1]
        /\ Image(req) = Image(req') \cup {n}
    BY <1>3, Fronted DEF SvcGet
  <2>2. Types' /\ Held' /\ WantInv'
    BY <1>1, <2>1 DEF Held, WantInv, SvcStates
  <2>3. OrderInv'
    <3>1. /\ last < n /\ n <= accepted
          /\ Rises(req', n, accepted) /\ Rises(req', last, accepted)
      BY <1>3, <2>1, RisesFronted DEF OrderInv
    <3>2. /\ 1 \in 1..Len(req)
          /\ \A i \in 1..Len(req') : i + 1 \in 1..Len(req)
      BY <2>1
    <3>3. \A i \in 1..Len(resp) : resp[i] < n
      BY <3>2 DEF OrderInv
    <3>4. \A i \in 1..Len(resp), j \in 1..Len(req') : resp[i] < req'[j]
      BY <2>1, <3>2 DEF OrderInv
    <3>5. \A j \in 1..Len(req') : n < req'[j]
      BY <3>1 DEF Rises
    <3> QED
      BY <1>1, <2>1, <3>1, <3>3, <3>4, <3>5 DEF OrderInv
  <2>4. InPipe' = InPipe
    <3>1. ({cur} \ {None}) = {} /\ ({cur'} \ {None}) = {n}
      BY <1>1, <2>1
    <3>2. InPipe' = Image(resp) \cup ({cur'} \ {None}) \cup Image(req')
      BY <1>1, PipeImages DEF Image, InPipe
    <3> QED
      BY <2>1, <3>1, <3>2, PipeImages
  <2> QED
    BY <1>1, <2>2, <2>3, <2>4 DEF PipeStays, SameClosed
<1> QED
  BY <1>2, <1>3

\* A request is run: it keeps its place until its response is put, or is through.
LEMMA RunStep ==
    ASSUME PipeInv, SvcRun
    PROVE  /\ PipeInv'
           /\ PipeStays \/ Promise!Settle
<1> USE DatabaseAssumption DEF PipeInv, Types
<1>1. /\ svc = "run" /\ cur # None
      /\ UNCHANGED <<owner, working, accepted, wants, req, resp, ticket, last, answered>>
  BY DEF SvcRun, Held, polled
<1>2. esc' \in [Escapers -> {"idle", "posted", "asleep", "woken"}]
  BY DEF SvcRun
<1>3. CASE cur \in wants /\ svc' = "put" /\ cur' = cur
  BY <1>1, <1>2, <1>3 DEF Held, OrderInv, WantInv, InPipe, SvcStates, PipeStays, SameClosed
<1>4. CASE cur \notin wants /\ svc' = "loop" /\ cur' = None
  <2>1. Types' /\ Held' /\ WantInv' /\ SameClosed
    BY <1>1, <1>2, <1>4 DEF Held, WantInv, SvcStates, SameClosed
  <2>2. OrderInv'
    BY <1>1, <1>4 DEF OrderInv
  <2>3. InPipe' = InPipe \ {cur}
    <3>1. cur \notin {resp[i] : i \in 1..Len(resp)} \cup {req[i] : i \in 1..Len(req)}
      BY <1>1 DEF OrderInv
    <3> QED
      BY <1>1, <1>4, <3>1 DEF InPipe
  <2>4. cur \in InPipe
    BY <1>1 DEF InPipe
  <2> QED
    BY <1>1, <1>4, <2>1, <2>2, <2>3, <2>4 DEF Promise!Settle, SameClosed
<1> QED
  BY <1>3, <1>4 DEF SvcRun

\* A response is queued last: the pipe holds what it held.
LEMMA PutBackStep ==
    ASSUME PipeInv, SvcPut
    PROVE  PipeInv' /\ PipeStays
<1> USE DatabaseAssumption DEF PipeInv, Types
<1>1. /\ cur # None /\ cur \in Nat \ {0} /\ cur' = None /\ svc' = "loop"
      /\ UNCHANGED <<owner, working, accepted, wants, req, esc, ticket, last, answered>>
      /\ cur \in wants
  BY DEF SvcPut, Held, WantInv, callers, polled
<1>2. /\ resp' = Append(resp, cur)
      /\ resp' \in Seq(Nat \ {0}) /\ Len(resp') = Len(resp) + 1 /\ Len(resp) \in Nat
      /\ \A i \in 1..Len(resp) : resp'[i] = resp[i]
      /\ resp'[Len(resp) + 1] = cur
      /\ Image(resp') = Image(resp) \cup {cur}
  BY <1>1, Appended DEF SvcPut
<1>3. \A i \in 1..Len(resp') : i \in 1..Len(resp) \/ i = Len(resp) + 1
  BY <1>2
<1>4. Types' /\ Held' /\ WantInv'
  BY <1>1, <1>2, <1>3 DEF Held, WantInv, SvcStates
<1>5. OrderInv'
  <2>1. Rises(resp', last, accepted)
    BY <1>1, <1>2, RisesAppended DEF OrderInv
  <2>2. \A i \in 1..Len(resp'), j \in 1..Len(req) : resp'[i] < req[j]
    BY <1>1, <1>2, <1>3 DEF OrderInv
  <2> QED
    BY <1>1, <2>1, <2>2 DEF OrderInv
<1>6. InPipe' = InPipe
  <2>1. ({cur} \ {None}) = {cur} /\ ({cur'} \ {None}) = {}
    BY <1>1
  <2>2. InPipe' = Image(resp') \cup ({cur'} \ {None}) \cup Image(req)
    BY <1>1, PipeImages DEF Image, InPipe
  <2> QED
    BY <1>2, <2>1, <2>2, PipeImages
<1> QED
  BY <1>1, <1>4, <1>5, <1>6 DEF PipeStays, SameClosed

-----------------------------------------------------------------------------
\* Every step keeps the invariant, and is a step of RequestPipe or none.
LEMMA PipeStep == PipeInv /\ [Next]_vars => PipeInv' /\ [Promise!Next]_(Promise!vars)
<1> SUFFICES ASSUME PipeInv, [Next]_vars
             PROVE  PipeInv' /\ [Promise!Next]_(Promise!vars)
  OBVIOUS
<1> DEFINE Stays == PipeInv' /\ PipeStays
<1> USE DatabaseAssumption
<1>1. ASSUME UNCHANGED <<svc, accepted, wants, req, cur, resp, esc, ticket, last, answered>>,
             owner' \in OwnerStates \ {"idle"}, working' \in BOOLEAN, SameClosed
      PROVE  Stays
  BY <1>1 DEF PipeInv, Types, Held, OrderInv, WantInv, Rises, InPipe, PipeStays
<1>2. ASSUME UNCHANGED <<accepted, wants, req, cur, resp, esc, ticket, last, answered>>,
             owner' \in OwnerStates \ {"idle"}, working' \in BOOLEAN, SameClosed,
             svc \notin {"run", "put"}, svc' \in SvcStates \ {"run", "put"}
      PROVE  Stays
  BY <1>2 DEF PipeInv, Types, Held, OrderInv, WantInv, Rises, InPipe, PipeStays
<1>15. Stays => PipeInv' /\ UNCHANGED Promise!vars
  BY DEF PipeStays, SameClosed, Promise!vars
<1>3. ASSUME Start PROVE PipeInv' /\ [Promise!Next]_(Promise!vars)
  <2>1. /\ PipeInv /\ owner = "idle" /\ svc = "none" /\ working' \in BOOLEAN
        /\ UNCHANGED <<accepted, wants, req, cur, resp, esc, ticket, last, answered>>
    BY <1>3 DEF Start, PipeInv, Types, Held, queues, callers, polled
  <2>2. CASE owner' = "closed" /\ svc' = svc
    <3>1. PipeInv'
      BY <2>1, <2>2 DEF PipeInv, Types, Held, OrderInv, WantInv, Rises, OwnerStates
    <3>2. InPipe' = {}
      BY <2>1, <2>2 DEF PipeInv, Held, InPipe
    <3> QED
      BY <2>1, <2>2, <3>1, <3>2 DEF Promise!Next, Promise!Close
  <2>3. CASE owner' = "spawned" /\ svc' = "begin"
    <3>1. Stays
      BY <1>2, <2>1, <2>3 DEF OwnerStates, SvcStates, SameClosed
    <3> QED
      BY <1>15, <3>1
  <2> QED
    BY <1>3, <2>2, <2>3 DEF Start
<1>4. CASE OwnerSpurious \/ OwnerWait \/ OwnerReturn \/ Stop
  <2>1. /\ UNCHANGED <<svc, accepted, wants, req, cur, resp, esc, ticket, last, answered>>
        /\ owner' \in OwnerStates \ {"idle"} /\ working' \in BOOLEAN /\ SameClosed
    BY <1>4 DEF OwnerSpurious, OwnerWait, OwnerReturn, Stop, OwnerStates, PipeInv, Types,
                queues, callers, polled, SameClosed
  <2> QED
    BY <1>1, <1>15, <2>1
<1>5. CASE Post
  BY <1>5, PutStep DEF Post, callers, PipeInv, Types, Promise!Next
<1>6. ASSUME NEW c \in Escapers, EscapePost(c) PROVE PipeInv' /\ Promise!Next
  <2>1. /\ wants' \in {wants, wants \cup {accepted + 1}}
        /\ esc' \in [Escapers -> {"idle", "posted", "asleep", "woken"}]
        /\ ticket' \in [Escapers -> Nat \cup {None}]
    BY <1>6 DEF EscapePost, PipeInv, Types
  <2>2. PutRequest
    BY <1>6 DEF EscapePost
  <2> QED
    BY <2>1, <2>2, PutStep DEF Promise!Next
<1>7. ASSUME NEW c \in Escapers, EscapeStep(c) PROVE Stays
  <2>1. /\ UNCHANGED <<owner, svc, working, accepted, wants, req, cur, resp, last, answered>>
        /\ esc' \in [Escapers -> {"idle", "posted", "asleep", "woken"}]
        /\ ticket' \in [Escapers -> Nat \cup {None}]
    BY <1>7 DEF EscapeStep, EscapeWait, EscapeReturn, PipeInv, Types, queues, polled
  <2> QED
    BY <2>1 DEF PipeInv, Types, Held, OrderInv, WantInv, Rises, InPipe, PipeStays, SameClosed
<1>8. CASE Poll
  BY <1>8, PollStep DEF Promise!Next
<1>9. CASE Joined
  <2>1. /\ cur = None /\ owner = "join" /\ svc = "ended" /\ owner' = "closed"
        /\ req' = <<>> /\ resp' = <<>>
        /\ UNCHANGED <<svc, working, accepted, wants, cur, esc, ticket, last, answered>>
    BY <1>9 DEF Joined, PipeInv, Held, callers, polled
  <2>2. PipeInv'
    BY <2>1, EmptySeq DEF PipeInv, Types, Held, OrderInv, WantInv, Rises, OwnerStates
  <2>3. InPipe' = {}
    BY <2>1 DEF InPipe
  <2> QED
    BY <2>1, <2>2, <2>3 DEF Promise!Next, Promise!Close
<1>10. CASE SvcReconnect \/ SvcNotify \/ SvcTest
  <2>1. /\ owner' \in OwnerStates \ {"idle"} /\ working' \in BOOLEAN /\ SameClosed
        /\ UNCHANGED <<accepted, wants, req, cur, resp, esc, ticket, last, answered>>
        /\ svc \notin {"run", "put"} /\ svc' \in SvcStates \ {"run", "put"}
    BY <1>10 DEF SvcReconnect, SvcNotify, SvcTest, OwnerStates, SvcStates,
                 PipeInv, Types, Held, queues, callers, polled, SameClosed
  <2> QED
    BY <1>2, <1>15, <2>1
<1>11. CASE SvcGet
  BY <1>11, <1>15, GetStep
<1>12. CASE SvcRun
  BY <1>12, <1>15, RunStep DEF Promise!Next
<1>13. CASE SvcPut
  BY <1>13, <1>15, PutBackStep
<1>14. CASE UNCHANGED vars
  <2>1. UNCHANGED <<owner, svc, working, accepted, wants, req, cur, resp, esc, ticket,
                    last, answered>>
    BY <1>14 DEF vars, queues, callers, polled
  <2>2. Stays
    BY <2>1 DEF PipeInv, Types, Held, OrderInv, WantInv, Rises, InPipe, PipeStays, SameClosed
  <2> QED
    BY <1>15, <2>2
<1>16. ASSUME NEW c \in Escapers, EscapePost(c) \/ EscapeStep(c)
       PROVE  PipeInv' /\ [Promise!Next]_(Promise!vars)
  BY <1>6, <1>7, <1>15, <1>16
<1> HIDE DEF Stays
<1> QED
  BY <1>3, <1>4, <1>5, <1>8, <1>9, <1>10, <1>11, <1>12, <1>13, <1>14, <1>16
     DEF Next, OwnerStep, Service

\* A new database promises what RequestPipe does at first.
LEMMA InitPromise == Init => Promise!Init
BY DatabaseAssumption DEF Init, InPipe, Promise!Init

\* The order of the requests in the pipe is an invariant.
LEMMA PipeInvHolds == Spec => []PipeInv
BY InitPipe, PipeStep, PTL DEF Spec

\* The database implements RequestPipe: until it is closed no request that asks for a
\* response is dropped, and responses come in the order of the requests, each once,
\* through start, polls, escapes and posts of any thread.
THEOREM KeepsOrderHolds == Spec => KeepsOrder
<1>1. Spec => [][Promise!Next]_(Promise!vars)
  BY PipeInvHolds, PipeStep, PTL DEF Spec
<1> QED
  BY <1>1, InitPromise, PTL DEF Spec, KeepsOrder, Promise!Spec

\* Types, and no request in two places at once.
THEOREM TypeOKHolds == Spec => []TypeOK
<1>1. PipeInv => TypeOK
  <2> SUFFICES ASSUME PipeInv PROVE TypeOK
    OBVIOUS
  <2> USE DatabaseAssumption DEF PipeInv, OrderInv
  <2>1. \A i \in 1..Len(req) : req[i] # cur
    BY DEF Types
  <2>2. \A i \in 1..Len(resp) : resp[i] # cur
    BY DEF Types
  <2> QED
    BY <2>1, <2>2 DEF TypeOK, Held
<1> QED
  BY <1>1, PipeInvHolds, PTL
=============================================================================
