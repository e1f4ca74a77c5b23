-------------------------- MODULE NetBufferProofs --------------------------
(***************************************************************************)
(* What the operations of asio_NetBuffer preserve, for every capacity: the *)
(* bytes in use stay within the allocation, so the unsigned differences    *)
(* space() and enough() compute never wrap, and no operation loses or      *)
(* invents a byte.                                                         *)
(***************************************************************************)
EXTENDS NetBuffer, TLAPS

\* put() and push() (125-131, 143-151) take all of the n bytes or none.
LEMMA PutSound ==
    ASSUME NEW cap \in Nat, NEW b \in Buffer(cap), Sound(b), NEW n \in Nat
    PROVE  /\ Put(b, n) \in Buffer(cap)
           /\ Sound(Put(b, n))
           /\ Put(b, n).len = IF n <= Space(b) THEN b.len + n ELSE b.len
BY DEF Buffer, Sound, Put, Space

\* pop() (133-141) takes n bytes, or all there are, from the front.
LEMMA PopSound ==
    ASSUME NEW cap \in Nat, NEW b \in Buffer(cap), Sound(b), NEW n \in Nat
    PROVE  /\ Pop(b, n) \in Buffer(cap)
           /\ Sound(Pop(b, n))
           /\ Pop(b, n).len = IF n < b.len THEN b.len - n ELSE 0
<1>1. Taken(b, n) \in 0..b.len /\ b.len - Taken(b, n) = IF n < b.len THEN b.len - n ELSE 0
  BY DEF Buffer, Taken
<1>2. Pop(b, n) = [b EXCEPT !.tag = b.tag + Taken(b, n), !.len = b.len - Taken(b, n)]
  BY DEF Pop
<1>3. /\ Pop(b, n).size = cap
      /\ Pop(b, n).tag = b.tag + Taken(b, n)
      /\ Pop(b, n).len = b.len - Taken(b, n)
  BY <1>2 DEF Buffer
<1>4. b.tag + Taken(b, n) \in 0..cap /\ b.len - Taken(b, n) \in 0..cap
  BY <1>1 DEF Buffer, Sound
<1>5. Pop(b, n) \in Buffer(cap)
  BY <1>2, <1>4 DEF Buffer
<1> QED
  BY <1>1, <1>3, <1>5 DEF Buffer, Sound

\* reset() (119-123), called when less than a packet is left, keeps the bytes.
LEMMA CompactSound ==
    ASSUME NEW cap \in Nat, NEW b \in Buffer(cap), Sound(b), NEW r \in Nat
    PROVE  /\ Compact(b, r) \in Buffer(cap)
           /\ Sound(Compact(b, r))
           /\ Compact(b, r).len = b.len
BY DEF Buffer, Sound, Compact, Reset

\* What Compact is for: once no bytes are in use, a packet that the buffer can
\* hold at all finds room behind it, whatever was sent before.
LEMMA CompactMakesRoom ==
    ASSUME NEW cap \in Nat, NEW b \in Buffer(cap), Sound(b), b.len = 0,
           NEW r \in 0..cap
    PROVE  r <= Space(Compact(b, r))
BY DEF Buffer, Sound, Compact, Enough, Reset, Space
=============================================================================
