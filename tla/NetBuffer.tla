----------------------------- MODULE NetBuffer -----------------------------
(***************************************************************************)
(* asio_NetBuffer (src/src/net/asio_NetBuffer.h): the linear buffer behind *)
(* every socket.  size_ bytes are owned, the bytes in use are the len_     *)
(* bytes that start at tag_.  Bytes themselves are abstracted away: a      *)
(* buffer is the record of its three counters, and each operator is the    *)
(* buffer a call leaves behind.                                            *)
(***************************************************************************)
EXTENDS Naturals

Buffer(cap) == [size : {cap}, tag : 0..cap, len : 0..cap]

Fresh(cap) == [size |-> cap, tag |-> 0, len |-> 0]

\* What size_ - tag_ - len_ presumes: unsigned arithmetic never wraps.
Sound(b) == b.tag + b.len <= b.size

Space(b) == b.size - (b.tag + b.len)

Enough(b, reserve) == reserve <= b.size /\ b.tag + b.len <= b.size - reserve

\* reset() moves the bytes in use to the front of the allocation.
Reset(b) == [b EXCEPT !.tag = 0]

\* push() and put() refuse what does not fit and leave the buffer as it is.
Put(b, n) == IF n <= Space(b) THEN [b EXCEPT !.len = @ + n] ELSE b

\* pop() returns how much it took: what was asked for, or all there is.
Taken(b, n) == IF n < b.len THEN n ELSE b.len

Pop(b, n) == [b EXCEPT !.tag = @ + Taken(b, n), !.len = @ - Taken(b, n)]

\* What send(), handle_send() and handle_recv() do before they hand the
\* buffer to the kernel: move it to the front when less than a packet is left.
Compact(b, reserve) == IF Enough(b, reserve) THEN b ELSE Reset(b)
=============================================================================
