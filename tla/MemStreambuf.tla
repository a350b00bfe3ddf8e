------------------------------ MODULE MemStreambuf ------------------------------
(***************************************************************************)
(* itlib::mem_ostreambuf, which writes to a container of its own, and      *)
(* itlib::mem_istreambuf, which reads the container that was got from it.  *)
(*                                                                         *)
(* The container is external: it grows to a capacity of its choice, with   *)
(* zeros, or throws and stays as it is.  The pointers of the put and the   *)
(* get area are offsets from the start of the memory.                      *)
(***************************************************************************)
EXTENDS Integers, Sequences

CONSTANTS Bytes,
          Zero,      \* what resize fills with
          MaxSize,   \* bound: what the container can hold
          Null       \* no memory

VARIABLES
    null_data,           \* whether data() of a container that never held
                         \* anything is null
    m_data, pptr, epptr, \* the ostreambuf
    source, gptr,        \* the istreambuf: the memory it reads from, and where
    file,                \* history: what was written, where it was written
    handed,              \* the part of file that the source should be,
    answer,              \* where the last read was and what it gave,
    fault                \* and whether something that is not in the memory was
                         \* accessed: nothing is known after that

out == <<m_data, pptr, epptr>>
in == <<source, gptr>>
history == <<file, handed, answer, fault>>
vars == <<null_data, out, in, history>>

Content == UNION {[1..n -> Bytes \cup {Zero}] : n \in 0..MaxSize}

TypeOK ==
    /\ null_data \in BOOLEAN
    /\ m_data \in Content /\ file \in Content
    /\ pptr \in 0..MaxSize + 1 \cup {Null} /\ epptr \in 0..MaxSize \cup {Null}
    /\ source \in Content /\ handed \in Content
    /\ gptr \in 0..MaxSize + 1
    /\ answer \in [from : 0..MaxSize + 1, got : Content]
    /\ fault \in BOOLEAN

Zeros(n) == [i \in 1..n |-> Zero]
Resized(s, n) == IF n <= Len(s) THEN SubSeq(s, 1, n) ELSE s \o Zeros(n - Len(s))

\* s with t written over it from the offset p.
Overwritten(s, p, t) ==
    LET r == Resized(s, IF p + Len(t) > Len(s) THEN p + Len(t) ELSE Len(s))
    IN [i \in DOMAIN r |-> IF i > p /\ i <= p + Len(t) THEN t[i - p] ELSE r[i]]

Nothing == [from |-> 0, got |-> <<>>]

\* The constructor reserves, and makes a put area of the capacity it gets: a
\* string has some even if nothing is reserved.
Init ==
    /\ null_data \in BOOLEAN
    /\ \E cap \in 0..MaxSize : m_data = Zeros(cap) /\ pptr = 0 /\ epptr = cap
    /\ source = <<>> /\ gptr = 0
    /\ file = <<>> /\ handed = <<>> /\ answer = Nothing
    /\ fault = FALSE

\* poff() subtracts data() from pptr.  After get_container that is null, and
\* the difference is an offset only if data() is null too.
HasOffset == pptr # Null \/ null_data
poff == IF pptr = Null THEN 0 ELSE pptr
Fault == fault' = TRUE /\ UNCHANGED <<null_data, out, in, file, handed, answer>>
-----------------------------------------------------------------------------
(* Writing.                                                                *)

\* The two resizes of cap_resize_by, which move the memory and keep the offset,
\* and the bytes t stored there: unless the container cannot grow and throws.
cap_resize_by(by, t) ==
    \E cap \in IF by = 0 THEN {Len(m_data)} ELSE Len(m_data) + by..MaxSize :
        IF poff + Len(t) > cap THEN Fault
        ELSE /\ m_data' = Overwritten(Resized(m_data, cap), poff, t)
             /\ epptr' = IF by = 0 THEN epptr ELSE cap
             /\ pptr' = IF by = 0 /\ t = <<>> THEN pptr ELSE poff + Len(t)
             /\ file' = Overwritten(file, poff, t)
             /\ UNCHANGED <<null_data, in, handed, answer, fault>>

\* A size that counts one past the end.
RemainingAndOne == IF pptr = Null THEN 0 ELSE epptr - pptr + 1

remaining_buf_size == IF pptr = Null THEN 0 ELSE epptr - pptr

\* sputc stores the byte, or calls overflow if there is no room for one.
sputc(c) ==
    \/ remaining_buf_size > 0 /\ cap_resize_by(0, <<c>>)
    \/ remaining_buf_size <= 0 /\ IF HasOffset THEN cap_resize_by(1, <<c>>) ELSE Fault

xsputn(t) ==
    LET rem == remaining_buf_size IN
    \/ rem >= Len(t) /\ cap_resize_by(0, t)
    \/ rem < Len(t) /\ IF HasOffset THEN cap_resize_by(Len(t) - rem, t) ELSE Fault

\* The offsets that a caller seeks to: up to one past n, the end of the memory.
Within(n) == 0..n + 1

seekpos(sp) ==
    /\ sp \in Within(Len(m_data))
    /\ pptr' = sp /\ epptr' = Len(m_data)
    /\ UNCHANGED <<null_data, m_data, in, file, handed, answer, fault>>

\* From poff(), from the beginning, and from the end of the memory, which is not
\* the end of what was written.
seekoff_out(off) ==
    \/ IF HasOffset THEN seekpos(poff + off) ELSE Fault
    \/ seekpos(off)
    \/ seekpos(Len(m_data) + off)

\* The whole container goes to the caller.
GetCapacity ==
    \/ ~HasOffset /\ Fault
    \/ /\ HasOffset /\ poff <= MaxSize
       /\ source' = m_data /\ gptr' = 0 /\ handed' = Resized(file, poff)
       /\ m_data' = <<>> /\ pptr' = Null /\ epptr' = Null
       /\ file' = <<>> /\ answer' = Nothing
       /\ UNCHANGED <<null_data, fault>>

\* The container, resized to the offset, goes to the caller, who reads it; what
\* it holds past the offset is dropped, and the next file starts.
get_container ==
    \/ ~HasOffset /\ Fault
    \/ /\ HasOffset /\ poff <= MaxSize
       /\ source' = Resized(m_data, poff) /\ gptr' = 0
       /\ handed' = Resized(file, poff)
       /\ m_data' = <<>> /\ pptr' = Null /\ epptr' = Null
       /\ file' = <<>> /\ answer' = Nothing
       /\ UNCHANGED <<null_data, fault>>

clear ==
    /\ m_data' = <<>> /\ pptr' = 0 /\ epptr' = 0
    /\ file' = <<>>
    /\ UNCHANGED <<null_data, in, handed, answer, fault>>

-----------------------------------------------------------------------------
(* Reading.                                                                *)
size == Len(source)

Got(n) ==
    /\ answer' = [from |-> gptr, got |-> SubSeq(source, gptr + 1, gptr + n)]
    /\ gptr' = gptr + n
    /\ UNCHANGED <<null_data, out, source, file, handed, fault>>

\* xsgetn gives what is left if it is less than the caller wants: if the reader
\* is past the end this is a negative count, the size of a memcpy.
xsgetn(n) ==
    IF gptr > size THEN Fault ELSE Got(IF gptr + n > size THEN size - gptr ELSE n)

\* sbumpc is std::streambuf's, and looks for the end first.
sbumpc == gptr < size /\ Got(1)

seekoff_in(off) ==
    /\ gptr' \in {gptr + off, off, size + off} \cap Within(size)
    /\ UNCHANGED <<null_data, out, source, file, handed, answer, fault>>

Next ==
    /\ ~fault
    /\ \/ \E c \in Bytes : sputc(c)
       \/ \E n \in 0..2 : \E t \in [1..n -> Bytes] : xsputn(t)
       \/ \E off \in -2..2 : seekoff_out(off) \/ seekoff_in(off)
       \/ get_container \/ clear
       \/ \E n \in 1..2 : xsgetn(n)
       \/ sbumpc

Spec == Init /\ [][Next]_vars

-----------------------------------------------------------------------------
(* Correctness.                                                            *)

\* Nothing outside of the memory is accessed, unless the caller had sought past
\* the end of it, or goes on after get_container with a container whose data()
\* is never null.
AccessesInside ==
    fault => \/ pptr = Null /\ ~null_data
             \/ pptr # Null /\ pptr > Len(m_data)
             \/ gptr > size

\* However the container grows under the put pointers, and wherever they were
\* set to, the put area ends where the memory does and everything that was
\* written is where it was written.
WrittenIsThere ==
    /\ IF pptr = Null THEN m_data = <<>> ELSE epptr = Len(m_data)
    /\ \A i \in DOMAIN file : i <= Len(m_data) /\ m_data[i] = file[i]

\* What is read from the container that was handed over is what was written to
\* the stream, byte by byte from where the reader is, and what is still in the
\* ostreambuf is there to be.
ReadsWhatWasWritten ==
    /\ WrittenIsThere
    /\ \A i \in DOMAIN answer.got :
          answer.from + i <= Len(handed) /\ answer.got[i] = handed[answer.from + i]
=============================================================================
