-------------------------- MODULE EventStore_proofs --------------------------
(* Theorems of EventStore, whatever the disk does and for every length. *)
EXTENDS EventStore, SequenceTheorems, TLAPS

-----------------------------------------------------------------------------
(* What a flush does to the file, write by write. *)

\* The first n lines were added to the file, in this order.
Written(lines, n) ==
    /\ file' \in Seq(Write)
    /\ Len(file') = Len(file) + n
    /\ \A i \in 1..Len(file) : file'[i] = file[i]
    /\ \A i \in 1..n : file'[Len(file) + i].event = lines[i]

LEMMA WholeWrites ==
    ASSUME NEW lines \in Seq(Nat \ {0}), NEW k \in 0..Len(lines)
    PROVE  /\ Whole(SubSeq(lines, 1, k)) \in Seq(Write)
           /\ Len(Whole(SubSeq(lines, 1, k))) = k
           /\ \A i \in 1..k : Whole(SubSeq(lines, 1, k))[i] = [event |-> lines[i], part |-> "whole"]
<1> DEFINE first == SubSeq(lines, 1, k)
<1>1. /\ DOMAIN first = 1..k
      /\ \A i \in 1..k : first[i] = lines[i]
  OBVIOUS
<1>2. \A i \in 1..k : lines[i] \in Nat \ {0}
  OBVIOUS
<1>3. Whole(first) = [i \in 1..k |-> [event |-> lines[i], part |-> "whole"]]
  BY <1>1 DEF Whole
<1>4. Whole(first) \in [1..k -> Write]
  BY <1>2, <1>3 DEF Write
<1>5. k \in Nat
  OBVIOUS
<1>6. Whole(first) \in Seq(Write)
  BY <1>4, <1>5, SeqDef
<1>7. Len(Whole(first)) = k
  BY <1>4, <1>5, <1>6, LenProperties
<1> QED
  BY <1>3, <1>6, <1>7

LEMMA FlushWrites ==
    ASSUME file \in Seq(Write),
           NEW lines \in Seq(Nat \ {0}), NEW k \in 0..Len(lines),
           Flush(lines, k)
    PROVE  /\ Written(lines, k)
           /\ \A i \in 1..k : file'[Len(file) + i] = [event |-> lines[i], part |-> "whole"]
<1> DEFINE new == Whole(SubSeq(lines, 1, k))
<1>1. /\ new \in Seq(Write)
      /\ Len(new) = k
      /\ \A i \in 1..k : new[i] = [event |-> lines[i], part |-> "whole"]
  BY WholeWrites
<1>2. file' = file \o new
  BY DEF Flush
<1> HIDE DEF new
<1>3. /\ file' \in Seq(Write)
      /\ Len(file') = Len(file) + k
      /\ \A i \in 1..Len(file) + k : file'[i] = IF i <= Len(file) THEN file[i] ELSE new[i - Len(file)]
  BY <1>1, <1>2, ConcatProperties
<1>4. Len(file) \in Nat
  OBVIOUS
<1>5. \A i \in 1..k : file'[Len(file) + i] = new[i]
  BY <1>3, <1>4
<1> QED
  BY <1>1, <1>3, <1>4, <1>5 DEF Written

LEMMA FlushBrokenWrites ==
    ASSUME file \in Seq(Write),
           NEW lines \in Seq(Nat \ {0}), NEW k \in 0..Len(lines) - 1,
           FlushBroken(lines, k)
    PROVE  /\ Written(lines, k + 1)
           /\ file'[Len(file) + k + 1].part # "whole"
<1>1. PICK part \in Broken :
        file' = file \o Whole(SubSeq(lines, 1, k)) \o <<[event |-> lines[k + 1], part |-> part]>>
  BY DEF FlushBroken
<1> DEFINE new == Whole(SubSeq(lines, 1, k))
           last == [event |-> lines[k + 1], part |-> part]
           start == file \o new
<1>2. /\ new \in Seq(Write)
      /\ Len(new) = k
      /\ \A i \in 1..k : new[i] = [event |-> lines[i], part |-> "whole"]
  <2>1. k \in 0..Len(lines)
    OBVIOUS
  <2> QED
    BY <2>1, WholeWrites
<1>3. last \in Write /\ last.part # "whole" /\ last.event = lines[k + 1]
  <2>1. lines[k + 1] \in Nat \ {0}
    OBVIOUS
  <2> QED
    BY <2>1 DEF Write, Broken
<1>4. file' = start \o <<last>>
  BY <1>1
<1> HIDE DEF new, last
<1>5. /\ start \in Seq(Write)
      /\ Len(start) = Len(file) + k
      /\ \A i \in 1..Len(file) + k : start[i] = IF i <= Len(file) THEN file[i] ELSE new[i - Len(file)]
  BY <1>2, ConcatProperties
<1> HIDE DEF start
<1>6. file' = Append(start, last)
  BY <1>3, <1>4, <1>5
<1>7. /\ file' \in Seq(Write)
      /\ Len(file') = Len(file) + k + 1
      /\ \A i \in 1..Len(file) + k : file'[i] = start[i]
      /\ file'[Len(file) + k + 1] = last
  BY <1>3, <1>5, <1>6, AppendProperties
<1>8. Len(file) \in Nat /\ k \in Nat
  OBVIOUS
<1>9. ASSUME NEW i \in 1..k PROVE file'[Len(file) + i].event = lines[i]
  <2>1. Len(file) + i \in 1..Len(file) + k /\ ~(Len(file) + i <= Len(file))
        /\ (Len(file) + i) - Len(file) = i
    BY <1>8
  <2>2. file'[Len(file) + i] = new[i]
    BY <1>5, <1>7, <2>1
  <2> QED
    BY <1>2, <2>2
<1>10. ASSUME NEW i \in 1..Len(file) PROVE file'[i] = file[i]
  <2>1. i \in 1..Len(file) + k /\ i <= Len(file)
    BY <1>8
  <2> QED
    BY <1>5, <1>7, <2>1
<1>11. \A i \in 1..k + 1 : i \in 1..k \/ i = k + 1
  BY <1>8
<1>12. file'[Len(file) + (k + 1)].event = lines[k + 1] /\ Len(file') = Len(file) + (k + 1)
  <2>1. Len(file) + (k + 1) = Len(file) + k + 1
    BY <1>8
  <2> QED
    BY <1>3, <1>7, <2>1
<1>13. \A i \in 1..k + 1 : file'[Len(file) + i].event = lines[i]
  BY <1>9, <1>11, <1>12
<1> QED
  BY <1>3, <1>7, <1>10, <1>12, <1>13 DEF Written

-----------------------------------------------------------------------------
(***************************************************************************)
(* The order of the events.  Those in the file, then those in the buffer,  *)
(* have increasing numbers, none above the number of appends.  A flush     *)
(* moves a prefix of the buffer behind the file, and whatever it loses     *)
(* only leaves gaps.                                                       *)
(***************************************************************************)
FileOrder == \A i, j \in 1..Len(file) : i < j => file[i].event < file[j].event

\* Lines that may be written next.
Fits(lines, top) ==
    /\ \A i, j \in 1..Len(lines) : i < j => lines[i] < lines[j]
    /\ \A i \in 1..Len(file), j \in 1..Len(lines) : file[i].event < lines[j]
    /\ \A j \in 1..Len(lines) : lines[j] <= top

Order ==
    /\ FileOrder
    /\ \A i \in 1..Len(file) : file[i].event <= appended
    /\ Fits(buffer, appended)

\* The file has only grown.
Grows ==
    /\ file' \in Seq(Write)
    /\ Len(file) <= Len(file')
    /\ \A i \in 1..Len(file) : file'[i] = file[i]

LEMMA EventsAreNumbers ==
    ASSUME TypeOK PROVE \A i \in 1..Len(file) : file[i].event \in Nat \ {0}
<1> SUFFICES ASSUME NEW i \in 1..Len(file) PROVE file[i].event \in Nat \ {0}
  OBVIOUS
<1>1. file[i] \in Write
  BY ElementOfSeq DEF TypeOK
<1> QED
  BY <1>1 DEF Write

LEMMA LinesFit ==
    ASSUME TypeOK, Order
    PROVE  /\ Lines \in Seq(Nat \ {0})
           /\ Len(Lines) = Len(buffer) + 1
           /\ \A i \in 1..Len(buffer) : Lines[i] = buffer[i]
           /\ Fits(Lines, appended + 1)
<1>1. /\ Lines \in Seq(Nat \ {0})
      /\ Len(Lines) = Len(buffer) + 1
      /\ \A i \in 1..Len(buffer) : Lines[i] = buffer[i]
      /\ Lines[Len(buffer) + 1] = appended + 1
  <2>1. appended + 1 \in Nat \ {0}
    BY DEF TypeOK
  <2> QED
    BY <2>1, AppendProperties DEF Lines, TypeOK
<1>2. /\ Len(buffer) \in Nat /\ Len(file) \in Nat /\ appended \in Nat
      /\ \A i \in 1..Len(buffer) : buffer[i] \in Nat
      /\ \A i \in 1..Len(file) : file[i].event \in Nat
  BY EventsAreNumbers DEF TypeOK
<1>3. \A i \in 1..Len(Lines) : i \in 1..Len(buffer) \/ i = Len(buffer) + 1
  BY <1>1, <1>2
<1>4. /\ \A i \in 1..Len(buffer) : buffer[i] <= appended
      /\ \A i \in 1..Len(file) : file[i].event <= appended
      /\ \A i \in 1..Len(file), j \in 1..Len(buffer) : file[i].event < buffer[j]
      /\ \A i, j \in 1..Len(buffer) : i < j => buffer[i] < buffer[j]
  BY DEF Order, Fits
<1>5. \A i \in 1..Len(file), j \in 1..Len(Lines) : file[i].event < Lines[j]
  <2> SUFFICES ASSUME NEW i \in 1..Len(file), NEW j \in 1..Len(Lines)
               PROVE  file[i].event < Lines[j]
    OBVIOUS
  <2>1. CASE j \in 1..Len(buffer)
    BY <1>1, <1>4, <2>1
  <2>2. CASE j = Len(buffer) + 1
    <3>1. Lines[j] = appended + 1 /\ file[i].event <= appended /\ file[i].event \in Nat
      BY <1>1, <1>2, <1>4, <2>2
    <3> QED
      BY <1>2, <3>1
  <2> QED
    BY <1>3, <2>1, <2>2
<1>6. \A j \in 1..Len(Lines) : Lines[j] <= appended + 1
  <2> SUFFICES ASSUME NEW j \in 1..Len(Lines) PROVE Lines[j] <= appended + 1
    OBVIOUS
  <2>1. CASE j \in 1..Len(buffer)
    <3>1. Lines[j] = buffer[j] /\ buffer[j] \in Nat /\ buffer[j] <= appended
      BY <1>1, <1>2, <1>4, <2>1
    <3> QED
      BY <1>2, <3>1
  <2>2. CASE j = Len(buffer) + 1
    BY <1>1, <1>2, <2>2
  <2> QED
    BY <1>3, <2>1, <2>2
<1>7. \A i, j \in 1..Len(Lines) : i < j => Lines[i] < Lines[j]
  <2> SUFFICES ASSUME NEW i \in 1..Len(Lines), NEW j \in 1..Len(Lines), i < j
               PROVE  Lines[i] < Lines[j]
    OBVIOUS
  <2>1. i \in 1..Len(buffer)
    BY <1>1, <1>2
  <2>2. CASE j \in 1..Len(buffer)
    BY <1>1, <1>4, <2>1, <2>2
  <2>3. CASE j = Len(buffer) + 1
    <3>1. Lines[j] = appended + 1 /\ Lines[i] = buffer[i] /\ buffer[i] <= appended /\ buffer[i] \in Nat
      BY <1>1, <1>2, <1>4, <2>1, <2>3
    <3> QED
      BY <1>2, <3>1
  <2> QED
    BY <1>3, <2>2, <2>3
<1> QED
  BY <1>1, <1>5, <1>6, <1>7 DEF Fits

\* Writing a prefix of fitting lines and buffering a part of the rest.
LEMMA OrderKept ==
    ASSUME TypeOK, Order,
           appended' \in Nat, appended <= appended',
           NEW lines \in Seq(Nat \ {0}), Fits(lines, appended'),
           NEW n \in 0..Len(lines), Written(lines, n),
           NEW m \in n..Len(lines), buffer' = SubSeq(lines, n + 1, m)
    PROVE  Order' /\ Grows /\ buffer' \in Seq(Nat \ {0})
<1>1. /\ buffer' \in Seq(Nat \ {0})
      /\ Len(buffer') = m - n
      /\ \A i \in 1..m - n : buffer'[i] = lines[n + i]
  <2>1. n \in Nat /\ m \in Nat /\ n <= m /\ m <= Len(lines) /\ Len(lines) \in Nat
    OBVIOUS
  <2>2. CASE n = m
    <3>1. buffer' = << >>
      BY <2>1, <2>2, SubSeqEmpty
    <3> QED
      BY <2>1, <2>2, <3>1, EmptySeq
  <2>3. CASE n < m
    <3>1. n + 1 \in 1..Len(lines) + 1 /\ m \in (n + 1) - 1..Len(lines) /\ m - (n + 1) + 1 = m - n
      BY <2>1, <2>3
    <3>2. \A i \in 1..m - n : (n + 1) + i - 1 = n + i
      BY <2>1
    <3> QED
      BY <2>1, <3>1, <3>2, SubSeqProperties
  <2> QED
    BY <2>1, <2>2, <2>3
<1>2. /\ Len(file) \in Nat /\ Len(lines) \in Nat /\ n \in Nat /\ m \in Nat /\ n <= m /\ m <= Len(lines)
      /\ file' \in Seq(Write) /\ Len(file') = Len(file) + n
  BY DEF TypeOK, Written
<1>3. /\ \A i \in 1..Len(file) : file[i].event \in Nat
      /\ \A i \in 1..Len(lines) : lines[i] \in Nat
  BY EventsAreNumbers, ElementOfSeq
<1>4. \A i \in 1..Len(file') : i \in 1..Len(file) \/ (i - Len(file) \in 1..n /\ i = Len(file) + (i - Len(file)))
  BY <1>2
<1>5. /\ \A i \in 1..Len(file) : file'[i].event = file[i].event
      /\ \A i \in 1..Len(file') : i \notin 1..Len(file) => file'[i].event = lines[i - Len(file)]
  BY <1>2, <1>4 DEF Written
<1>6. FileOrder'
  <2> SUFFICES ASSUME NEW i \in 1..Len(file'), NEW j \in 1..Len(file'), i < j
               PROVE  file'[i].event < file'[j].event
    BY DEF FileOrder
  <2>1. CASE j \in 1..Len(file)
    <3>1. i \in 1..Len(file)
      BY <1>2, <2>1
    <3> QED
      BY <1>5, <2>1, <3>1 DEF Order, FileOrder
  <2>2. CASE j \notin 1..Len(file) /\ i \in 1..Len(file)
    <3>1. j - Len(file) \in 1..Len(lines)
      BY <1>2, <1>4, <2>2
    <3> QED
      BY <1>5, <2>2, <3>1 DEF Fits
  <2>3. CASE j \notin 1..Len(file) /\ i \notin 1..Len(file)
    <3>1. j - Len(file) \in 1..Len(lines) /\ i - Len(file) \in 1..Len(lines)
          /\ i - Len(file) < j - Len(file)
      BY <1>2, <1>4, <2>3
    <3> QED
      BY <1>5, <2>3, <3>1 DEF Fits
  <2> QED
    BY <2>1, <2>2, <2>3
<1>7. \A i \in 1..Len(file') : file'[i].event <= appended'
  <2> SUFFICES ASSUME NEW i \in 1..Len(file') PROVE file'[i].event <= appended'
    OBVIOUS
  <2>1. CASE i \in 1..Len(file)
    <3>1. file'[i].event = file[i].event /\ file[i].event <= appended /\ file[i].event \in Nat
      BY <1>3, <1>5, <2>1 DEF Order
    <3>2. appended \in Nat
      BY DEF TypeOK
    <3> QED
      BY <3>1, <3>2
  <2>2. CASE i \notin 1..Len(file)
    <3>1. i - Len(file) \in 1..Len(lines)
      BY <1>2, <1>4, <2>2
    <3> QED
      BY <1>5, <2>2, <3>1 DEF Fits
  <2> QED
    BY <2>1, <2>2
<1>8. Fits(buffer, appended)'
  <2>1. \A i \in 1..Len(buffer') : n + i \in 1..Len(lines) /\ buffer'[i] = lines[n + i]
    BY <1>1, <1>2
  <2>2. \A i, j \in 1..Len(buffer') : i < j => buffer'[i] < buffer'[j]
    <3> SUFFICES ASSUME NEW i \in 1..Len(buffer'), NEW j \in 1..Len(buffer'), i < j
                 PROVE  buffer'[i] < buffer'[j]
      OBVIOUS
    <3>1. n + i < n + j
      BY <1>2
    <3> QED
      BY <2>1, <3>1 DEF Fits
  <2>3. \A i \in 1..Len(file'), j \in 1..Len(buffer') : file'[i].event < buffer'[j]
    <3> SUFFICES ASSUME NEW i \in 1..Len(file'), NEW j \in 1..Len(buffer')
                 PROVE  file'[i].event < buffer'[j]
      OBVIOUS
    <3>1. CASE i \in 1..Len(file)
      BY <1>5, <2>1, <3>1 DEF Fits
    <3>2. CASE i \notin 1..Len(file)
      <4>1. i - Len(file) \in 1..Len(lines) /\ i - Len(file) < n + j
        BY <1>2, <1>4, <3>2
      <4> QED
        BY <1>5, <2>1, <3>2, <4>1 DEF Fits
    <3> QED
      BY <3>1, <3>2
  <2>4. \A j \in 1..Len(buffer') : buffer'[j] <= appended'
    BY <2>1 DEF Fits
  <2> QED
    BY <2>2, <2>3, <2>4 DEF Fits
<1>9. Grows
  BY <1>2 DEF Grows, Written
<1> QED
  BY <1>1, <1>6, <1>7, <1>8, <1>9 DEF Order

\* A step that leaves nothing in the buffer, whatever part of it is lost.
LEMMA BufferEmptied ==
    ASSUME TypeOK, Order, appended' = appended, buffer' = << >>,
           NEW n \in 0..Len(buffer), Written(buffer, n)
    PROVE  Order' /\ Grows /\ buffer' \in Seq(Nat \ {0})
<1>1. buffer \in Seq(Nat \ {0}) /\ appended \in Nat /\ Len(buffer) \in Nat
  BY DEF TypeOK
<1>2. Fits(buffer, appended')
  BY DEF Order
<1>3. n \in n..Len(buffer) /\ SubSeq(buffer, n + 1, n) = << >>
  BY <1>1, SubSeqEmpty
<1> QED
  BY <1>1, <1>2, <1>3, OrderKept

\* The writes of one of the three kinds, as so many lines written.
LEMMA AnyFlush ==
    ASSUME TypeOK, NEW lines \in Seq(Nat \ {0}),
           \/ UNCHANGED file
           \/ \E k \in 0..Len(lines) - 1 : Flush(lines, k) \/ FlushBroken(lines, k)
    PROVE  \E n \in 0..Len(lines) : Written(lines, n)
<1>1. file \in Seq(Write) /\ Len(lines) \in Nat /\ Len(file) \in Nat
  BY DEF TypeOK
<1>2. CASE UNCHANGED file
  <2>1. Written(lines, 0)
    BY <1>1, <1>2 DEF Written
  <2>2. 0 \in 0..Len(lines)
    BY <1>1
  <2> QED
    BY <2>1, <2>2
<1>3. CASE \E k \in 0..Len(lines) - 1 : Flush(lines, k) \/ FlushBroken(lines, k)
  <2>1. PICK k \in 0..Len(lines) - 1 : Flush(lines, k) \/ FlushBroken(lines, k)
    BY <1>3
  <2>2. k \in 0..Len(lines) /\ k + 1 \in 0..Len(lines)
    BY <1>1
  <2>3. CASE Flush(lines, k)
    BY <1>1, <2>2, <2>3, FlushWrites
  <2>4. CASE FlushBroken(lines, k)
    BY <1>1, <2>2, <2>4, FlushBrokenWrites
  <2> QED
    BY <2>1, <2>3, <2>4
<1> QED
  BY <1>2, <1>3

\* Only an open handle buffers.
Unbuffered == handle # "open" => buffer = << >>

StoreOrder == Order /\ Unbuffered

LEMMA StoreOrderInit == Init => StoreOrder
  BY DEF Init, StoreOrder, Order, FileOrder, Fits, Unbuffered

\* What every step does to the file and the buffer.
Kept == Order' /\ Grows /\ buffer' \in Seq(Nat \ {0})

LEMMA OpenOrClose == ASSUME TypeOK, StoreOrder, Open \/ Close PROVE Kept /\ Unbuffered'
<1>1. /\ appended' = appended /\ buffer' = << >> /\ Flush(buffer, Len(buffer))
      /\ file \in Seq(Write) /\ buffer \in Seq(Nat \ {0}) /\ Order
  BY DEF Open, Close, TypeOK, StoreOrder
<1>2. Len(buffer) \in 0..Len(buffer)
  BY <1>1
<1>3. Written(buffer, Len(buffer))
  BY <1>1, <1>2, FlushWrites
<1> QED
  BY <1>1, <1>2, <1>3, BufferEmptied DEF Kept, Unbuffered

LEMMA BufferLost == ASSUME TypeOK, StoreOrder, CloseFails \/ WriterCrashes PROVE Kept /\ Unbuffered'
<1>1. /\ appended' = appended /\ buffer' = << >> /\ buffer \in Seq(Nat \ {0}) /\ Order
      /\ \/ UNCHANGED file
         \/ \E k \in 0..Len(buffer) - 1 : Flush(buffer, k) \/ FlushBroken(buffer, k)
  BY DEF CloseFails, WriterCrashes, TypeOK, StoreOrder
<1>2. \E n \in 0..Len(buffer) : Written(buffer, n)
  BY <1>1, AnyFlush
<1> QED
  BY <1>1, <1>2, BufferEmptied DEF Kept, Unbuffered

LEMMA EventAppended == ASSUME TypeOK, StoreOrder, AppendEvent PROVE Kept /\ Unbuffered'
<1>1. /\ appended' = appended + 1 /\ handle' = handle /\ file \in Seq(Write) /\ Order /\ appended \in Nat
      /\ buffer \in Seq(Nat \ {0}) /\ Len(buffer) \in Nat
  BY DEF AppendEvent, TypeOK, StoreOrder
<1>2. /\ Lines \in Seq(Nat \ {0}) /\ Len(Lines) = Len(buffer) + 1
      /\ Fits(Lines, appended')
  BY <1>1, LinesFit
<1>3. appended' \in Nat /\ appended <= appended'
  BY <1>1
<1>4. CASE AppendBuffered
  <2>1. PICK k \in 0..Len(Lines) : Flush(Lines, k) /\ buffer' = SubSeq(Lines, k + 1, Len(Lines))
    BY <1>4 DEF AppendBuffered
  <2>2. Written(Lines, k)
    BY <1>1, <1>2, <2>1, FlushWrites
  <2>3. Len(Lines) \in k..Len(Lines)
    BY <1>1, <1>2
  <2>4. handle' = "open"
    BY <1>1, <1>4 DEF AppendBuffered
  <2> HIDE DEF Lines
  <2>5. Kept
    BY <1>2, <1>3, <2>1, <2>2, <2>3, OrderKept, <1>1 DEF Kept
  <2> QED
    BY <2>4, <2>5 DEF Unbuffered
<1>5. CASE AppendDirect
  <2>1. buffer = << >> /\ buffer' = << >> /\ Lines = <<appended + 1>>
    BY <1>5 DEF AppendDirect, StoreOrder, Unbuffered, Lines
  <2>2. Len(Lines) = 1
    BY <2>1
  <2>3. Flush(Lines, 1)
    BY <1>5, <2>1 DEF AppendDirect
  <2>4. 1 \in 0..Len(Lines) /\ 1 \in 1..Len(Lines)
    BY <2>2
  <2>5. Written(Lines, 1)
    BY <1>1, <1>2, <2>3, <2>4, FlushWrites
  <2>6. SubSeq(Lines, 1 + 1, 1) = << >>
    BY <2>1
  <2>7. Kept
    BY <1>1, <1>2, <1>3, <2>1, <2>4, <2>5, <2>6, OrderKept DEF Kept
  <2> QED
    BY <2>1, <2>7 DEF Unbuffered
<1> QED
  BY <1>4, <1>5 DEF AppendEvent

LEMMA EventRefused == ASSUME TypeOK, StoreOrder, AppendFails PROVE Kept /\ Unbuffered'
<1>1. /\ appended' = appended + 1 /\ handle' = handle /\ file \in Seq(Write) /\ Order /\ appended \in Nat
      /\ buffer \in Seq(Nat \ {0}) /\ Len(buffer) \in Nat
  BY DEF AppendFails, TypeOK, StoreOrder
<1>2. /\ Lines \in Seq(Nat \ {0}) /\ Len(Lines) = Len(buffer) + 1
      /\ \A i \in 1..Len(buffer) : Lines[i] = buffer[i]
      /\ Fits(Lines, appended')
  BY <1>1, LinesFit
<1>3. appended' \in Nat /\ appended <= appended'
  BY <1>1
<1> HIDE DEF Lines
<1>4. CASE handle = "broken" /\ UNCHANGED <<file, buffer>>
  <2>1. Written(buffer, 0) /\ buffer = << >>
    BY <1>1, <1>4 DEF Written, StoreOrder, Unbuffered
  <2>2. Fits(buffer, appended')
    BY <2>1 DEF Fits
  <2>3. 0 \in 0..Len(buffer) /\ 0 \in 0..Len(buffer) /\ buffer' = SubSeq(buffer, 0 + 1, 0)
    BY <1>1, <1>4, <2>1
  <2> QED
    BY <1>1, <1>3, <1>4, <2>1, <2>2, <2>3, OrderKept DEF Kept, Unbuffered
<1>5. ASSUME NEW k \in 0..Len(buffer), NEW kept \in k..Len(buffer),
             Flush(Lines, k), buffer' = SubSeq(Lines, k + 1, kept)
      PROVE  Kept /\ Unbuffered'
  <2>1. k \in 0..Len(Lines) /\ kept \in k..Len(Lines)
    BY <1>1, <1>2
  <2>2. Written(Lines, k)
    BY <1>1, <1>2, <1>5, <2>1, FlushWrites
  <2>3. Kept
    BY <1>1, <1>2, <1>3, <1>5, <2>1, <2>2, OrderKept DEF Kept
  <2>4. ASSUME handle # "open" PROVE buffer' = << >>
    <3>1. Len(buffer) = 0
      BY <2>4 DEF StoreOrder, Unbuffered
    <3>2. k = 0 /\ kept = 0
      BY <3>1
    <3> QED
      BY <1>2, <1>5, <3>2, SubSeqEmpty
  <2> QED
    BY <1>1, <2>3, <2>4 DEF Unbuffered
<1>6. ASSUME NEW k \in 0..Len(buffer), FlushBroken(Lines, k), buffer' = << >>
      PROVE  Kept /\ Unbuffered'
  <2>1. /\ k \in 0..Len(Lines) - 1 /\ k + 1 \in 0..Len(Lines) /\ k + 1 \in k + 1..Len(Lines)
        /\ k + 1 \in Nat
    BY <1>1, <1>2
  <2>2. Written(Lines, k + 1)
    BY <1>1, <1>2, <1>6, <2>1, FlushBrokenWrites
  <2>3. buffer' = SubSeq(Lines, (k + 1) + 1, k + 1)
    BY <1>2, <1>6, <2>1, SubSeqEmpty
  <2> QED
    BY <1>1, <1>2, <1>3, <1>6, <2>1, <2>2, <2>3, OrderKept DEF Kept, Unbuffered
<1> QED
  BY <1>4, <1>5, <1>6 DEF AppendFails

LEMMA NothingStored ==
    ASSUME TypeOK, StoreOrder, UNCHANGED storeVars PROVE Kept /\ Unbuffered'
<1> QED
  BY DEF storeVars, Kept, StoreOrder, Order, FileOrder, Fits, Unbuffered, Grows, TypeOK

LEMMA StoreStep == ASSUME TypeOK, StoreOrder, [Next]_vars PROVE Kept /\ Unbuffered'
<1>1. CASE Open \/ Close
  BY <1>1, OpenOrClose
<1>2. CASE CloseFails \/ Crash
  BY <1>2, BufferLost DEF Crash
<1>3. CASE AppendEvent
  BY <1>3, EventAppended
<1>4. CASE AppendFails
  BY <1>4, EventRefused
<1>5. CASE StartReading \/ ReadLine \/ ReadRaises \/ ReadReturns \/ UNCHANGED vars
  <2>1. UNCHANGED storeVars
    BY <1>5 DEF StartReading, ReadLine, ReadRaises, ReadReturns, vars
  <2> QED
    BY <2>1, NothingStored
<1> QED
  BY <1>1, <1>2, <1>3, <1>4, <1>5 DEF Next

-----------------------------------------------------------------------------
(* Type correctness. *)

\* What a step does to the reader's position and to what it has yielded.
LEMMA ReaderStep ==
    ASSUME [Next]_vars
    PROVE  \/ UNCHANGED <<cursor, out>>
           \/ cursor' = 1 /\ out' = << >>
           \/ ReadLine
<1>1. CASE Open \/ Close \/ CloseFails \/ AppendEvent \/ AppendFails
  BY <1>1 DEF Open, Close, CloseFails, AppendEvent, AppendFails, readerVars
<1>2. CASE Crash \/ StartReading
  BY <1>2 DEF Crash, StartReading, readerVars
<1>3. CASE ReadRaises \/ ReadReturns \/ UNCHANGED vars
  BY <1>3 DEF ReadRaises, ReadReturns, vars, readerVars
<1> QED
  BY <1>1, <1>2, <1>3 DEF Next

LEMMA TypeInit == Init => TypeOK
<1> SUFFICES ASSUME Init PROVE TypeOK
  OBVIOUS
<1>1. faulted \in BOOLEAN
  BY DEF Init
<1>2. /\ appended \in Nat /\ file \in Seq(Write) /\ buffer \in Seq(Nat \ {0})
      /\ handle \in {"none", "open", "broken"} /\ cursor \in Nat \ {0}
      /\ out \in Seq(Nat \ {0}) /\ reading \in {"no", "running", "returned", "raised"}
  BY DEF Init
<1> QED
  BY <1>1, <1>2 DEF TypeOK

LEMMA TypeStep == ASSUME TypeOK, StoreOrder, [Next]_vars PROVE TypeOK'
<1>1. file' \in Seq(Write) /\ buffer' \in Seq(Nat \ {0})
  BY StoreStep DEF Kept, Grows
<1>2. appended' \in Nat
  BY DEF TypeOK, Next, vars, storeVars, readerVars, Open, Close, CloseFails, AppendEvent, AppendFails,
         Crash, WriterCrashes, StartReading, ReadLine, ReadRaises, ReadReturns
<1>3. handle' \in {"none", "open", "broken"}
  BY DEF TypeOK, Next, vars, storeVars, readerVars, Open, Close, CloseFails, AppendEvent, AppendFails,
         Crash, WriterCrashes, StartReading, ReadLine, ReadRaises, ReadReturns
<1>4. faulted' \in BOOLEAN
  BY Zenon DEF TypeOK, Next, vars, storeVars, readerVars, Open, Close, CloseFails, AppendEvent,
         AppendFails, Crash, WriterCrashes, StartReading, ReadLine, ReadRaises, ReadReturns
<1>5. reading' \in {"no", "running", "returned", "raised"}
  BY DEF TypeOK, Next, vars, storeVars, readerVars, Open, Close, CloseFails, AppendEvent, AppendFails,
         Crash, WriterCrashes, StartReading, ReadLine, ReadRaises, ReadReturns
<1>6. cursor' \in Nat \ {0} /\ out' \in Seq(Nat \ {0})
  <2>1. CASE ReadLine
    <3>1. PICK j \in cursor..Len(file) :
            /\ cursor' = j + 1
            /\ out' = IF Parses(cursor, j) THEN Append(out, file[cursor].event) ELSE out
      BY <2>1 DEF ReadLine
    <3>2. file \in Seq(Write) /\ Len(file) \in Nat /\ cursor \in Nat \ {0} /\ out \in Seq(Nat \ {0})
      BY DEF TypeOK
    <3>3. j \in Nat /\ cursor \in 1..Len(file)
      BY <3>2
    <3>4. file[cursor].event \in Nat \ {0}
      BY <3>3, EventsAreNumbers
    <3>5. Append(out, file[cursor].event) \in Seq(Nat \ {0})
      BY <3>2, <3>4, AppendProperties
    <3> QED
      BY <3>1, <3>2, <3>3, <3>5
  <2>2. CASE UNCHANGED <<cursor, out>>
    <3>1. cursor' = cursor /\ out' = out
      BY <2>2
    <3> QED
      BY <3>1 DEF TypeOK
  <2>3. CASE cursor' = 1 /\ out' = << >>
    <3>1. << >> \in Seq(Nat \ {0}) /\ 1 \in Nat \ {0}
      OBVIOUS
    <3> QED
      BY <2>3, <3>1
  <2> QED
    BY <2>1, <2>2, <2>3, ReaderStep
<1> QED
  BY <1>1, <1>2, <1>3, <1>4, <1>5, <1>6 DEF TypeOK

LEMMA StoreInvariant == Spec => [](TypeOK /\ StoreOrder)
<1>1. Init => TypeOK /\ StoreOrder
  BY TypeInit, StoreOrderInit
<1>2. TypeOK /\ StoreOrder /\ [Next]_vars => (TypeOK /\ StoreOrder)'
  BY TypeStep, StoreStep DEF StoreOrder, Kept
<1> QED
  BY <1>1, <1>2, PTL DEF Spec

\* The store's variables keep their types, through faults and crashes.
THEOREM TypeCorrect == Spec => []TypeOK
  BY StoreInvariant, PTL

\* No step of the program removes or changes what the file holds (store.py:1-10).
THEOREM NeverRewritten == Spec => AppendOnly
<1>1. TypeOK /\ StoreOrder /\ [Next]_vars
        => [/\ Len(file) <= Len(file')
            /\ \A i \in DOMAIN file : file'[i] = file[i]]_vars
  <2> SUFFICES ASSUME TypeOK, StoreOrder, [Next]_vars
               PROVE  /\ Len(file) <= Len(file')
                      /\ \A i \in DOMAIN file : file'[i] = file[i]
    OBVIOUS
  <2>1. Grows /\ file \in Seq(Write)
    BY StoreStep DEF Kept, TypeOK
  <2> QED
    BY <2>1 DEF Grows
<1> QED
  BY <1>1, StoreInvariant, PTL DEF Spec, AppendOnly

-----------------------------------------------------------------------------
(***************************************************************************)
(* The reader.  All it has yielded are events of writes before its cursor, *)
(* so with the file in order the next write's event is newer than any of   *)
(* them; and since the file only grows, what it yielded stays right while  *)
(* events are appended.                                                    *)
(***************************************************************************)
FromFile == \A i \in 1..Len(out) : \E k \in 1..cursor - 1 : out[i] = file[k].event

\* What DamageIsLocal says of a whole read, for the part of the file behind the
\* cursor of a read that still runs.
DamageSoFar ==
    \A i \in 1..cursor - 1 :
        /\ file[i].part = "whole"
        /\ i = 1 \/ file[i - 1].part = "whole"
        => file[i].event \in Yielded

ReaderInv ==
    /\ cursor <= Len(file) + 1
    /\ FromFile
    /\ ReplayInOrder
    /\ DamageSoFar

LEMMA ReaderInvInit == Init => ReaderInv
  BY DEF Init, ReaderInv, FromFile, ReplayInOrder, Increasing, DamageSoFar

\* A line that is yielded: its event and the invariant with it.
LEMMA LineYielded ==
    ASSUME TypeOK, StoreOrder, ReaderInv, ReadLine
    PROVE  ReaderInv'
<1>1. PICK j \in cursor..Len(file) :
        /\ IsLine(cursor, j)
        /\ cursor' = j + 1
        /\ out' = IF Parses(cursor, j) THEN Append(out, file[cursor].event) ELSE out
  BY DEF ReadLine
<1>2. /\ cursor \in Nat \ {0} /\ Len(file) \in Nat /\ j \in Nat /\ cursor <= j /\ j <= Len(file)
      /\ out \in Seq(Nat \ {0}) /\ Len(out) \in Nat /\ file' = file /\ file \in Seq(Write)
  BY DEF TypeOK, ReadLine, storeVars
<1>3. file[cursor].event \in Nat \ {0} /\ cursor \in 1..Len(file)
  BY <1>2, EventsAreNumbers
<1>4. /\ out' \in Seq(Nat \ {0})
      /\ Len(out') = Len(out) \/ Len(out') = Len(out) + 1
      /\ \A i \in 1..Len(out) : out'[i] = out[i]
      /\ \A i \in 1..Len(out') : i \in 1..Len(out) \/ (i = Len(out) + 1 /\ out'[i] = file[cursor].event)
  BY <1>1, <1>2, <1>3, AppendProperties
<1>5. \A i \in 1..Len(out) : \E k \in 1..cursor - 1 : out[i] = file[k].event
  BY DEF ReaderInv, FromFile
<1>6. FromFile'
  <2> SUFFICES ASSUME NEW i \in 1..Len(out')
               PROVE  \E k \in 1..cursor' - 1 : out'[i] = file[k].event
    BY <1>2 DEF FromFile
  <2>1. CASE i \in 1..Len(out)
    <3>1. PICK k \in 1..cursor - 1 : out[i] = file[k].event
      BY <1>5, <2>1
    <3>2. k \in 1..cursor' - 1
      BY <1>1, <1>2
    <3> QED
      BY <1>4, <2>1, <3>1, <3>2
  <2>2. CASE i \notin 1..Len(out)
    <3>1. out'[i] = file[cursor].event /\ cursor \in 1..cursor' - 1
      BY <1>1, <1>2, <1>4, <2>2
    <3> QED
      BY <3>1
  <2> QED
    BY <2>1, <2>2
<1>7. ReplayInOrder'
  <2> SUFFICES ASSUME NEW i \in 1..Len(out'), NEW m \in 1..Len(out'), i < m
               PROVE  out'[i] < out'[m]
    BY <1>4 DEF ReplayInOrder, Increasing
  <2>1. i \in 1..Len(out)
    BY <1>2, <1>4
  <2>2. CASE m \in 1..Len(out)
    <3>1. out[i] < out[m]
      BY <1>2, <2>1, <2>2 DEF ReaderInv, ReplayInOrder, Increasing
    <3> QED
      BY <1>4, <2>1, <2>2, <3>1
  <2>3. CASE m \notin 1..Len(out)
    <3>1. PICK k \in 1..cursor - 1 : out[i] = file[k].event
      BY <1>5, <2>1
    <3>2. k \in 1..Len(file) /\ k < cursor
      BY <1>2
    <3>3. file[k].event < file[cursor].event
      BY <1>3, <3>2 DEF StoreOrder, Order, FileOrder
    <3> QED
      BY <1>4, <2>1, <2>3, <3>1, <3>3
  <2> QED
    BY <2>2, <2>3
<1>8. DamageSoFar'
  <2> SUFFICES ASSUME NEW i \in 1..cursor' - 1,
                      file[i].part = "whole", i = 1 \/ file[i - 1].part = "whole"
               PROVE  \E m \in DOMAIN out' : file[i].event = out'[m]
    BY <1>2 DEF DamageSoFar, Yielded
  <2>1. CASE i < cursor
    <3>1. i \in 1..cursor - 1
      BY <1>2, <2>1
    <3>2. PICK m \in DOMAIN out : file[i].event = out[m]
      BY <3>1 DEF ReaderInv, DamageSoFar, Yielded
    <3>3. m \in 1..Len(out) /\ m \in 1..Len(out')
      BY <1>2, <1>4
    <3>4. m \in DOMAIN out' /\ out'[m] = out[m]
      BY <1>4, <3>3
    <3> QED
      BY <3>2, <3>4
  <2>2. CASE ~(i < cursor)
    <3>1. i \in cursor..j
      BY <1>1, <1>2, <2>2
    <3>2. \A k \in cursor..j - 1 : file[k].part # "whole"
      BY <1>1 DEF IsLine
    <3>3. i = j
      BY <1>2, <3>1, <3>2
    <3>4. i = cursor
      <4> SUFFICES ASSUME i # cursor PROVE FALSE
        OBVIOUS
      <4>1. i # 1 /\ i - 1 \in cursor..j - 1
        BY <1>2, <3>1
      <4> QED
        BY <3>2, <4>1
    <3>5. Parses(cursor, j)
      BY <3>3, <3>4 DEF Parses
    <3>6. out' = Append(out, file[i].event)
      BY <1>1, <3>4, <3>5
    <3>7. Len(out) + 1 \in DOMAIN out' /\ out'[Len(out) + 1] = file[i].event
      BY <1>2, <1>3, <3>4, <3>6, AppendProperties
    <3> QED
      BY <3>7
  <2> QED
    BY <2>1, <2>2
<1>9. cursor' <= Len(file') + 1
  BY <1>1, <1>2
<1> QED
  BY <1>6, <1>7, <1>8, <1>9 DEF ReaderInv

LEMMA ReaderInvStep ==
    ASSUME TypeOK, StoreOrder, ReaderInv, [Next]_vars
    PROVE  ReaderInv'
<1>1. CASE ReadLine
  BY <1>1, LineYielded
<1>2. CASE UNCHANGED <<cursor, out>>
  <2>1. /\ cursor' = cursor /\ out' = out /\ cursor \in Nat \ {0} /\ Len(file) \in Nat
        /\ Len(file') \in Nat /\ Len(file) <= Len(file')
        /\ \A i \in 1..Len(file) : file'[i] = file[i]
    BY <1>2, StoreStep DEF Kept, Grows, TypeOK
  <2>2. cursor <= Len(file) + 1
    BY DEF ReaderInv
  <2>3. \A i \in 1..cursor - 1 : file'[i] = file[i] /\ (i # 1 => file'[i - 1] = file[i - 1])
    BY <2>1, <2>2
  <2>4. FromFile'
    BY <2>1, <2>3 DEF ReaderInv, FromFile
  <2>5. DamageSoFar'
    <3>1. Yielded' = Yielded /\ cursor' = cursor
      BY <2>1 DEF Yielded
    <3>2. ASSUME NEW i \in 1..cursor - 1, file'[i].part = "whole",
                 i = 1 \/ file'[i - 1].part = "whole"
          PROVE  file'[i].event \in Yielded
      <4>1. file'[i] = file[i] /\ (i # 1 => file'[i - 1] = file[i - 1])
        BY <2>3
      <4> QED
        BY <3>2, <4>1 DEF ReaderInv, DamageSoFar
    <3> QED
      BY <3>1, <3>2 DEF DamageSoFar
  <2>6. ReplayInOrder'
    BY <2>1 DEF ReaderInv, ReplayInOrder, Increasing
  <2> QED
    BY <2>1, <2>2, <2>4, <2>5, <2>6 DEF ReaderInv
<1>3. CASE cursor' = 1 /\ out' = << >>
  <2>1. Len(file') \in Nat
    BY StoreStep DEF Kept, Grows
  <2> QED
    BY <1>3, <2>1 DEF ReaderInv, FromFile, ReplayInOrder, Increasing, DamageSoFar
<1> QED
  BY <1>1, <1>2, <1>3, ReaderStep

LEMMA ReaderInvariant == Spec => []ReaderInv
<1>1. TypeOK /\ StoreOrder /\ ReaderInv /\ [Next]_vars => ReaderInv'
  BY ReaderInvStep
<1> QED
  BY <1>1, ReaderInvInit, StoreInvariant, PTL DEF Spec

\* Whatever fails, and while events are appended, events are yielded in the
\* order they were appended and none twice (store.py:83).
THEOREM YieldedInOrder == Spec => []ReplayInOrder
<1>1. ReaderInv => ReplayInOrder
  BY DEF ReaderInv
<1> QED
  BY <1>1, ReaderInvariant, PTL

\* An iteration that returns has yielded every whole write that begins its line:
\* it ends behind the last line, and a broken-off write has cost it at most its
\* own event and the one glued to it (store.py:85-88).
THEOREM WholeLinesYielded == Spec => DamageIsLocal
<1>1. ASSUME TypeOK, ReaderInv, [Next]_vars, reading = "running", reading' = "returned",
             NEW i \in DOMAIN file,
             file[i].part = "whole", i = 1 \/ file[i - 1].part = "whole"
      PROVE  file[i].event \in Yielded
  <2>1. cursor > Len(file)
    BY <1>1 DEF Next, vars, storeVars, readerVars, Open, Close, CloseFails, AppendEvent, AppendFails,
         Crash, WriterCrashes, StartReading, ReadLine, ReadRaises, ReadReturns
  <2>2. i \in 1..cursor - 1
    BY <1>1, <2>1 DEF TypeOK
  <2> QED
    BY <1>1, <2>2 DEF ReaderInv, DamageSoFar
<1>2. TypeOK /\ ReaderInv /\ [Next]_vars
        => [reading = "running" /\ reading' = "returned" =>
              \A i \in DOMAIN file :
                  /\ file[i].part = "whole"
                  /\ i = 1 \/ file[i - 1].part = "whole"
                  => file[i].event \in Yielded]_vars
  BY <1>1
<1> QED
  BY <1>2, TypeCorrect, ReaderInvariant, PTL DEF Spec, DamageIsLocal

-----------------------------------------------------------------------------
(***************************************************************************)
(* The refinement of AuditLog.  Before the first fault the file consists   *)
(* of whole writes, so each is a line of its own and the reader has        *)
(* yielded the event of every write ahead of its cursor.  The abstract log *)
(* is the file with the buffer behind it: a flush moves its border.        *)
(***************************************************************************)
Number == Nat \ {0}
LogIn(writes, lines) == EventsIn(writes) \o lines

LEMMA LogEntries ==
    ASSUME NEW writes \in Seq(Write), NEW lines \in Seq(Number)
    PROVE  /\ LogIn(writes, lines) \in Seq(Number)
           /\ Len(LogIn(writes, lines)) = Len(writes) + Len(lines)
           /\ \A i \in 1..Len(writes) + Len(lines) :
                  LogIn(writes, lines)[i] =
                      IF i <= Len(writes) THEN writes[i].event ELSE lines[i - Len(writes)]
<1> DEFINE events == EventsIn(writes)
<1>1. Len(writes) \in Nat /\ DOMAIN writes = 1..Len(writes)
  BY LenProperties
<1>2. \A i \in 1..Len(writes) : writes[i].event \in Number
  <2>1. \A i \in 1..Len(writes) : writes[i] \in Write
    BY ElementOfSeq
  <2> QED
    BY <2>1 DEF Write, Number
<1>3. events = [i \in 1..Len(writes) |-> writes[i].event]
  BY <1>1 DEF EventsIn
<1>4. events \in [1..Len(writes) -> Number]
  BY <1>2, <1>3
<1>5. events \in Seq(Number) /\ Len(events) = Len(writes)
  <2>1. events \in Seq(Number)
    BY <1>1, <1>4, SeqDef
  <2> QED
    BY <1>1, <1>4, <2>1, LenProperties
<1>6. \A i \in 1..Len(writes) : events[i] = writes[i].event
  BY <1>3
<1> HIDE DEF events
<1>7. /\ events \o lines \in Seq(Number)
      /\ Len(events \o lines) = Len(events) + Len(lines)
      /\ \A i \in 1..Len(events) + Len(lines) :
             (events \o lines)[i] = IF i <= Len(events) THEN events[i] ELSE lines[i - Len(events)]
  BY <1>5, ConcatProperties
<1>8. ASSUME NEW i \in 1..Len(writes) + Len(lines), i <= Len(writes) PROVE i \in 1..Len(writes)
  BY <1>1, <1>8
<1> QED
  BY <1>5, <1>6, <1>7, <1>8 DEF LogIn, events

\* A part of a sequence of lines that begins with the first.
LEMMA FirstLines ==
    ASSUME NEW lines \in Seq(Number), NEW n \in 0..Len(lines), NEW m \in n..Len(lines)
    PROVE  /\ SubSeq(lines, n + 1, m) \in Seq(Number)
           /\ Len(SubSeq(lines, n + 1, m)) = m - n
           /\ \A i \in 1..m - n : SubSeq(lines, n + 1, m)[i] = lines[n + i]
<1>1. n \in Nat /\ m \in Nat /\ Len(lines) \in Nat /\ n <= m /\ m <= Len(lines)
  OBVIOUS
<1>2. \A i \in n + 1..m : lines[i] \in Number
  BY <1>1, ElementOfSeq
<1>3. /\ SubSeq(lines, n + 1, m) \in Seq(Number)
      /\ Len(SubSeq(lines, n + 1, m)) = IF n + 1 <= m THEN m - (n + 1) + 1 ELSE 0
      /\ \A i \in 1..m - (n + 1) + 1 : SubSeq(lines, n + 1, m)[i] = lines[(n + 1) + i - 1]
  BY <1>1, <1>2, SubSeqProperties
<1>4. m - (n + 1) + 1 = m - n /\ \A i \in 1..m - n : (n + 1) + i - 1 = n + i
  BY <1>1
<1>5. (IF n + 1 <= m THEN m - n ELSE 0) = m - n
  BY <1>1
<1> QED
  BY <1>3, <1>4, <1>5

\* Writing some lines and keeping others in the buffer.
LEMMA LogMoved ==
    ASSUME TypeOK, NEW lines \in Seq(Number), NEW n \in 0..Len(lines), Written(lines, n),
           NEW m \in n..Len(lines), buffer' = SubSeq(lines, n + 1, m)
    PROVE  LogIn(file', buffer') = LogIn(file, SubSeq(lines, 1, m))
<1> DEFINE kept == SubSeq(lines, 1, m)
           before == LogIn(file, kept)
           after == LogIn(file', buffer')
<1>1. /\ n \in Nat /\ m \in Nat /\ n <= m /\ m <= Len(lines) /\ Len(lines) \in Nat
      /\ file \in Seq(Write) /\ Len(file) \in Nat
      /\ file' \in Seq(Write) /\ Len(file') = Len(file) + n
      /\ \A i \in 1..Len(file) : file'[i] = file[i]
      /\ \A i \in 1..n : file'[Len(file) + i].event = lines[i]
  BY DEF TypeOK, Written
<1>2. kept \in Seq(Number) /\ Len(kept) = m /\ \A i \in 1..m : kept[i] = lines[i]
  <2>1. 0 \in 0..Len(lines) /\ m \in 0..Len(lines)
    BY <1>1
  <2>2. /\ SubSeq(lines, 0 + 1, m) \in Seq(Number)
        /\ Len(SubSeq(lines, 0 + 1, m)) = m - 0
        /\ \A i \in 1..m - 0 : SubSeq(lines, 0 + 1, m)[i] = lines[0 + i]
    BY <2>1, FirstLines
  <2>3. 0 + 1 = 1 /\ m - 0 = m /\ \A i \in 1..m : 0 + i = i
    BY <1>1
  <2> QED
    BY <2>2, <2>3
<1>3. /\ buffer' \in Seq(Number) /\ Len(buffer') = m - n
      /\ \A i \in 1..m - n : buffer'[i] = lines[n + i]
  BY FirstLines
<1> HIDE DEF kept
<1>4. /\ before \in Seq(Number) /\ Len(before) = Len(file) + m
      /\ \A i \in 1..Len(file) + m :
             before[i] = IF i <= Len(file) THEN file[i].event ELSE kept[i - Len(file)]
  BY <1>1, <1>2, LogEntries
<1>5. /\ after \in Seq(Number) /\ Len(after) = Len(file) + m
      /\ \A i \in 1..Len(file) + m :
             after[i] = IF i <= Len(file') THEN file'[i].event ELSE buffer'[i - Len(file')]
  <2>1. /\ after \in Seq(Number) /\ Len(after) = Len(file') + Len(buffer')
        /\ \A i \in 1..Len(file') + Len(buffer') :
             after[i] = IF i <= Len(file') THEN file'[i].event ELSE buffer'[i - Len(file')]
    BY <1>1, <1>3, LogEntries
  <2>2. Len(file') + Len(buffer') = Len(file) + m
    <3>1. (Len(file) + n) + (m - n) = Len(file) + m
      BY <1>1
    <3>2. Len(file') = Len(file) + n /\ Len(buffer') = m - n
      BY <1>1, <1>3
    <3> QED
      BY ONLY <3>1, <3>2
  <2> QED
    BY <2>1, <2>2
<1> HIDE DEF before, after
<1>6. ASSUME NEW i \in 1..Len(file) + m PROVE before[i] = after[i]
  <2>1. CASE i <= Len(file)
    <3>1. i \in 1..Len(file) /\ i <= Len(file')
      BY <1>1, <2>1
    <3> QED
      BY <1>1, <1>4, <1>5, <2>1, <3>1
  <2>2. CASE ~(i <= Len(file)) /\ i <= Len(file')
    <3>1. i - Len(file) \in 1..n /\ i - Len(file) \in 1..m /\ Len(file) + (i - Len(file)) = i
      BY <1>1, <2>2
    <3>2. after[i] = lines[i - Len(file)]
      BY <1>1, <1>5, <2>2, <3>1
    <3> QED
      BY <1>2, <1>4, <2>2, <3>1, <3>2
  <2>3. CASE ~(i <= Len(file'))
    <3>1. /\ i - Len(file') \in 1..m - n /\ i - Len(file) \in 1..m /\ ~(i <= Len(file))
          /\ n + (i - Len(file')) = i - Len(file)
      BY <1>1, <2>3
    <3>2. after[i] = lines[i - Len(file)]
      BY <1>3, <1>5, <2>3, <3>1
    <3> QED
      BY <1>2, <1>4, <3>1, <3>2
  <2> QED
    BY <1>1, <2>1, <2>2, <2>3
<1>7. before = after
  BY <1>4, <1>5, <1>6, SeqEqual
<1> QED
  BY <1>7 DEF before, after, kept

\* What the reader has yielded before the first fault.
Intact ==
    /\ \A i \in 1..Len(file) : file[i].part = "whole"
    /\ reading # "raised"
    /\ reading = "running" =>
           Len(out) = cursor - 1 /\ \A i \in 1..Len(out) : out[i] = file[i].event

LogInv == ~faulted => Intact

LEMMA FaultStays == ASSUME [Next]_vars, faulted PROVE faulted'
<1>1. CASE Open \/ Close \/ AppendEvent
  BY <1>1 DEF Open, Close, AppendEvent
<1>2. CASE CloseFails \/ AppendFails
  BY <1>2 DEF CloseFails, AppendFails
<1>3. CASE Crash
  BY <1>3 DEF Crash, WriterCrashes
<1>4. CASE StartReading \/ ReadLine \/ ReadRaises \/ ReadReturns \/ UNCHANGED vars
  BY <1>4 DEF StartReading, ReadLine, ReadRaises, ReadReturns, vars, storeVars
<1> QED
  BY <1>1, <1>2, <1>3, <1>4 DEF Next

\* A step that writes and does not fail: whole lines, so many of some lines.
WritesWhole(lines, n, m) ==
    /\ Written(lines, n)
    /\ \A i \in 1..n : file'[Len(file) + i].part = "whole"
    /\ buffer' = SubSeq(lines, n + 1, m)

LEMMA FlushWhole ==
    ASSUME TypeOK, NEW lines \in Seq(Number), NEW n \in 0..Len(lines), Flush(lines, n),
           NEW m \in n..Len(lines), buffer' = SubSeq(lines, n + 1, m)
    PROVE  WritesWhole(lines, n, m)
<1>1. file \in Seq(Write) /\ lines \in Seq(Nat \ {0})
  BY DEF TypeOK, Number
<1>2. Written(lines, n) /\ \A i \in 1..n : file'[Len(file) + i] = [event |-> lines[i], part |-> "whole"]
  BY <1>1, FlushWrites
<1>3. ASSUME NEW i \in 1..n PROVE file'[Len(file) + i].part = "whole"
  <2> DEFINE line == [event |-> lines[i], part |-> "whole"]
  <2>1. file'[Len(file) + i] = line
    BY <1>2, Zenon
  <2>2. line.part = "whole"
    OBVIOUS
  <2> HIDE DEF line
  <2> QED
    BY <2>1, <2>2, Zenon
<1> QED
  BY <1>2, <1>3, Zenon DEF WritesWhole

LEMMA IntactKept ==
    ASSUME TypeOK, ReaderInv, Intact, NEW lines \in Seq(Number), NEW n \in 0..Len(lines), NEW m,
           WritesWhole(lines, n, m),
           UNCHANGED readerVars \/ (out' = << >> /\ reading' = "no")
    PROVE  Intact'
<1>1. /\ Len(file) \in Nat /\ n \in Nat /\ Len(file') = Len(file) + n
      /\ \A i \in 1..Len(file) : file'[i] = file[i]
      /\ \A i \in 1..n : file'[Len(file) + i].part = "whole"
      /\ cursor \in Nat /\ cursor <= Len(file) + 1
  BY DEF TypeOK, ReaderInv, WritesWhole, Written
<1>2. ASSUME NEW i \in 1..Len(file') PROVE file'[i].part = "whole"
  <2>1. CASE i \in 1..Len(file)
    BY <1>1, <2>1 DEF Intact
  <2>2. CASE i \notin 1..Len(file)
    <3>1. i - Len(file) \in 1..n /\ Len(file) + (i - Len(file)) = i
      BY <1>1, <2>2
    <3> QED
      BY <1>1, <3>1
  <2> QED
    BY <2>1, <2>2
<1>3. CASE UNCHANGED readerVars
  <2>1. ASSUME reading = "running" PROVE \A i \in 1..Len(out) : i \in 1..Len(file)
    BY <1>1, <2>1 DEF Intact
  <2> QED
    BY <1>1, <1>2, <1>3, <2>1 DEF Intact, readerVars
<1>4. CASE out' = << >> /\ reading' = "no"
  BY <1>2, <1>4 DEF Intact
<1> QED
  BY <1>3, <1>4

\* The steps of the abstract log.
LEMMA OpenOrCloseSyncs ==
    ASSUME TypeOK, StoreOrder, ReaderInv, Intact, ~faulted, Open \/ Close
    PROVE  Log!Next /\ Intact' /\ LogIn(file', buffer') = LogIn(file, buffer)
<1>1. /\ buffer \in Seq(Number) /\ Len(buffer) \in Nat /\ Len(buffer) \in 0..Len(buffer)
      /\ Len(buffer) \in Len(buffer)..Len(buffer)
  BY DEF TypeOK, Number
<1>2. Flush(buffer, Len(buffer)) /\ buffer' = << >> /\ UNCHANGED <<appended, faulted, readerVars>>
  BY DEF Open, Close
<1>3. buffer' = SubSeq(buffer, Len(buffer) + 1, Len(buffer))
  BY <1>1, <1>2, SubSeqEmpty
<1>4. WritesWhole(buffer, Len(buffer), Len(buffer))
  BY <1>1, <1>2, <1>3, FlushWhole
<1>5. LogIn(file', buffer') = LogIn(file, buffer)
  <2>1. SubSeq(buffer, 1, Len(buffer)) = buffer
    BY <1>1, SubSeqFull
  <2>2. Written(buffer, Len(buffer))
    BY <1>4 DEF WritesWhole
  <2>3. LogIn(file', buffer') = LogIn(file, SubSeq(buffer, 1, Len(buffer)))
    BY <1>1, <1>3, <2>2, LogMoved, Zenon
  <2> QED
    BY <2>1, <2>3, Zenon
<1>6. Len(file') = Len(LogIn(file, buffer))
  BY <1>1, <1>4, LogEntries DEF WritesWhole, Written, TypeOK
<1>7. Log!Sync
  BY <1>2, <1>5, <1>6 DEF Log!Sync, LogIn, readerVars
<1>8. Intact'
  BY <1>1, <1>2, <1>4, IntactKept
<1> QED
  BY <1>2, <1>5, <1>7, <1>8 DEF Log!Next, Log!Step

LEMMA EventLogged ==
    ASSUME TypeOK, StoreOrder, ReaderInv, Intact, ~faulted, AppendEvent
    PROVE  Log!Next /\ Intact' /\ LogIn(file', buffer') = Append(LogIn(file, buffer), appended + 1)
<1>1. /\ buffer \in Seq(Number) /\ appended + 1 \in Number /\ Len(buffer) \in Nat
      /\ file \in Seq(Write) /\ Len(file) \in Nat
  BY DEF TypeOK, Number
<1>2. appended' = appended + 1 /\ UNCHANGED <<handle, faulted, readerVars>>
  BY DEF AppendEvent
<1>3. /\ Lines \in Seq(Number) /\ Len(Lines) = Len(buffer) + 1 /\ Len(Lines) \in 0..Len(Lines)
      /\ Lines = buffer \o <<appended + 1>>
  BY <1>1, AppendProperties, AppendIsConcat DEF Lines
<1>4. PICK k \in 0..Len(Lines) : WritesWhole(Lines, k, Len(Lines))
  <2>1. CASE AppendBuffered
    <3>1. PICK k \in 0..Len(Lines) : Flush(Lines, k) /\ buffer' = SubSeq(Lines, k + 1, Len(Lines))
      BY <2>1 DEF AppendBuffered
    <3>2. Len(Lines) \in k..Len(Lines)
      BY <1>1, <1>3
    <3> QED
      BY <1>3, <3>1, <3>2, FlushWhole
  <2>2. CASE AppendDirect
    <3>1. buffer = << >> /\ buffer' = << >> /\ Lines = <<appended + 1>>
      BY <2>2 DEF AppendDirect, StoreOrder, Unbuffered, Lines
    <3>2. Len(Lines) = 1 /\ 1 \in 0..Len(Lines) /\ 1 \in 1..Len(Lines)
      BY <3>1
    <3>3. Flush(Lines, 1) /\ buffer' = SubSeq(Lines, 1 + 1, 1)
      BY <2>2, <3>1 DEF AppendDirect
    <3>4. WritesWhole(Lines, 1, 1)
      BY <1>3, <3>2, <3>3, FlushWhole
    <3> QED
      BY <3>2, <3>4
  <2> QED
    BY <2>1, <2>2 DEF AppendEvent
<1>5. Len(Lines) \in k..Len(Lines)
  BY <1>1, <1>3
<1>6. LogIn(file', buffer') = Append(LogIn(file, buffer), appended + 1)
  <2> DEFINE events == EventsIn(file)
  <2>1. LogIn(file', buffer') = LogIn(file, Lines)
    <3>1. SubSeq(Lines, 1, Len(Lines)) = Lines
      BY <1>3, SubSeqFull
    <3>2. Written(Lines, k) /\ buffer' = SubSeq(Lines, k + 1, Len(Lines))
      BY <1>4 DEF WritesWhole
    <3>3. LogIn(file', buffer') = LogIn(file, SubSeq(Lines, 1, Len(Lines)))
      BY <1>3, <1>5, <3>2, LogMoved, Zenon
    <3> QED
      BY <3>1, <3>3, Zenon
  <2>2. LogIn(file, buffer) \in Seq(Number)
    BY <1>1, LogEntries
  <2>3. events \in Seq(Number)
    <3>1. << >> \in Seq(Number)
      OBVIOUS
    <3>2. LogIn(file, << >>) \in Seq(Number)
      BY <1>1, <3>1, LogEntries
    <3>3. DOMAIN file = 1..Len(file) /\ \A i \in 1..Len(file) : file[i].event \in Number
      BY <1>1, EventsAreNumbers DEF Number
    <3>4. events \in [1..Len(file) -> Number]
      BY <3>3 DEF EventsIn
    <3> QED
      BY <1>1, <3>4, SeqDef
  <2>4. <<appended + 1>> \in Seq(Number)
    BY <1>1
  <2>5. (events \o buffer) \o <<appended + 1>> = events \o Lines
    BY <1>1, <1>3, <2>3, <2>4, ConcatAssociative
  <2>6. Append(LogIn(file, buffer), appended + 1) = LogIn(file, buffer) \o <<appended + 1>>
    BY <1>1, <2>2, AppendIsConcat
  <2> QED
    BY <2>1, <2>5, <2>6 DEF LogIn
<1>7. Len(file') \in Len(file)..Len(LogIn(file', buffer'))
  <2>1. Len(file') = Len(file) + k /\ file' \in Seq(Write) /\ k \in Nat
    BY <1>4 DEF WritesWhole, Written
  <2>2. buffer' \in Seq(Number)
    BY StoreStep DEF Kept, Next, Number
  <2>3. Len(LogIn(file', buffer')) = Len(file') + Len(buffer') /\ Len(buffer') \in Nat
    BY <2>1, <2>2, LogEntries
  <2> QED
    BY <1>1, <2>1, <2>3
<1>8. Log!AppendEvent
  BY <1>2, <1>6, <1>7 DEF Log!AppendEvent, LogIn, readerVars
<1>9. Intact'
  BY <1>2, <1>3, <1>4, IntactKept
<1> QED
  BY <1>2, <1>6, <1>8, <1>9 DEF Log!Next, Log!Step

\* A crash keeps what is in the file and, of the buffer, what a flush had written.
LEMMA CrashLosesEnd ==
    ASSUME TypeOK, StoreOrder, ReaderInv, Intact, ~faulted, ~faulted', Crash
    PROVE  Log!Next /\ Intact'
<1>1. /\ buffer \in Seq(Number) /\ Len(buffer) \in Nat /\ file \in Seq(Write) /\ Len(file) \in Nat
  BY DEF TypeOK, Number
<1>2. /\ appended' = appended /\ buffer' = << >>
      /\ UNCHANGED readerVars \/ (cursor' = 1 /\ out' = << >> /\ reading' = "no")
  BY DEF Crash, WriterCrashes
<1>3. PICK k \in 0..Len(buffer) : WritesWhole(buffer, k, k)
  <2>1. CASE UNCHANGED file
    <3>1. 0 \in 0..Len(buffer) /\ buffer' = SubSeq(buffer, 0 + 1, 0)
      BY <1>1, <1>2, SubSeqEmpty
    <3>2. Written(buffer, 0) /\ \A i \in 1..0 : file'[Len(file) + i].part = "whole"
      BY <1>1, <2>1 DEF Written
    <3> QED
      BY <3>1, <3>2, Zenon DEF WritesWhole
  <2>2. CASE \E k \in 0..Len(buffer) - 1 : Flush(buffer, k)
    <3>1. PICK k \in 0..Len(buffer) - 1 : Flush(buffer, k)
      BY <2>2
    <3>2. k \in 0..Len(buffer) /\ k \in k..Len(buffer) /\ k \in Nat
      BY <1>1
    <3>3. buffer' = SubSeq(buffer, k + 1, k)
      BY <1>2, <3>2, SubSeqEmpty
    <3> QED
      BY <1>1, <3>1, <3>2, <3>3, FlushWhole
  <2> QED
    BY <2>1, <2>2 DEF Crash, WriterCrashes
<1>4. /\ k \in Nat /\ k \in k..Len(buffer) /\ Written(buffer, k) /\ buffer' = SubSeq(buffer, k + 1, k)
      /\ Len(file') = Len(file) + k
  BY <1>1, <1>3 DEF WritesWhole, Written
<1> DEFINE log == LogIn(file, buffer)
           kept == SubSeq(buffer, 1, k)
           some == SubSeq(log, 1, Len(file) + k)
<1>5. LogIn(file', buffer') = LogIn(file, kept)
  BY <1>1, <1>4, LogMoved, Zenon
<1>6. /\ log \in Seq(Number) /\ Len(log) = Len(file) + Len(buffer)
      /\ \A i \in 1..Len(file) + Len(buffer) :
             log[i] = IF i <= Len(file) THEN file[i].event ELSE buffer[i - Len(file)]
  BY <1>1, LogEntries
<1>7. kept \in Seq(Number) /\ Len(kept) = k /\ \A i \in 1..k : kept[i] = buffer[i]
  <2>1. 0 \in 0..Len(buffer) /\ k \in 0..Len(buffer)
    BY <1>1
  <2>2. /\ SubSeq(buffer, 0 + 1, k) \in Seq(Number)
        /\ Len(SubSeq(buffer, 0 + 1, k)) = k - 0
        /\ \A i \in 1..k - 0 : SubSeq(buffer, 0 + 1, k)[i] = buffer[0 + i]
    BY <1>1, <2>1, FirstLines
  <2>3. 0 + 1 = 1 /\ k - 0 = k /\ \A i \in 1..k : 0 + i = i
    BY <1>4
  <2> QED
    BY <2>2, <2>3
<1> HIDE DEF log, kept
<1>8. /\ LogIn(file, kept) \in Seq(Number) /\ Len(LogIn(file, kept)) = Len(file) + k
      /\ \A i \in 1..Len(file) + k :
             LogIn(file, kept)[i] = IF i <= Len(file) THEN file[i].event ELSE kept[i - Len(file)]
  BY <1>1, <1>7, LogEntries
<1>9. some \in Seq(Number) /\ Len(some) = Len(file) + k /\ \A i \in 1..Len(file) + k : some[i] = log[i]
  <2> DEFINE size == Len(file) + k
  <2>1. size \in Nat /\ size \in 0..Len(log) /\ 0 \in 0..Len(log)
    BY <1>1, <1>4, <1>6
  <2> HIDE DEF size
  <2>2. /\ SubSeq(log, 0 + 1, size) \in Seq(Number)
        /\ Len(SubSeq(log, 0 + 1, size)) = size - 0
        /\ \A i \in 1..size - 0 : SubSeq(log, 0 + 1, size)[i] = log[0 + i]
    BY <1>6, <2>1, FirstLines
  <2>3. 0 + 1 = 1 /\ size - 0 = size /\ \A i \in 1..size : 0 + i = i
    BY <2>1
  <2>4. /\ SubSeq(log, 1, size) \in Seq(Number) /\ Len(SubSeq(log, 1, size)) = size
        /\ \A i \in 1..size : SubSeq(log, 1, size)[i] = log[i]
    BY <2>2, <2>3
  <2> QED
    BY <2>4 DEF size
<1> HIDE DEF some
<1>10. \A i \in 1..Len(file) + k : LogIn(file, kept)[i] = some[i]
  <2> SUFFICES ASSUME NEW i \in 1..Len(file) + k PROVE LogIn(file, kept)[i] = some[i]
    OBVIOUS
  <2>1. i \in 1..Len(file) + Len(buffer)
    BY <1>1, <1>4
  <2>2. ~(i <= Len(file)) => i - Len(file) \in 1..k
    BY <1>1, <1>4
  <2> QED
    BY <1>6, <1>7, <1>8, <1>9, <2>1, <2>2
<1>11. LogIn(file, kept) = some
  BY <1>8, <1>9, <1>10, SeqEqual
<1>12. Len(file') \in Len(file)..Len(log) /\ some = SubSeq(log, 1, Len(file'))
  BY <1>1, <1>4, <1>6 DEF some
<1>13. LogIn(file', buffer') = SubSeq(log, 1, Len(file'))
  BY <1>5, <1>11, <1>12, Zenon
<1>14. Log!Crash
  BY <1>2, <1>12, <1>13 DEF Log!Crash, LogIn, log, readerVars
<1>15. Intact'
  BY <1>1, <1>2, <1>3, IntactKept
<1> QED
  BY <1>14, <1>15 DEF Log!Next, Log!Step

LEMMA LineGiven ==
    ASSUME TypeOK, ReaderInv, Intact, ~faulted, ReadLine PROVE Log!Next /\ Intact'
<1>1. PICK j \in cursor..Len(file) :
        /\ IsLine(cursor, j)
        /\ cursor' = j + 1
        /\ out' = IF Parses(cursor, j) THEN Append(out, file[cursor].event) ELSE out
  BY DEF ReadLine
<1>2. /\ cursor \in Nat \ {0} /\ Len(file) \in Nat /\ j \in Nat /\ cursor <= j /\ j <= Len(file)
      /\ out \in Seq(Nat \ {0}) /\ Len(out) = cursor - 1 /\ reading = "running"
      /\ file \in Seq(Write) /\ buffer \in Seq(Number) /\ UNCHANGED <<reading, storeVars>>
  BY DEF TypeOK, ReadLine, Intact, Number
<1>3. j = cursor
  <2>1. \A i \in cursor..j - 1 : i \in 1..Len(file) /\ file[i].part # "whole"
    BY <1>1, <1>2 DEF IsLine
  <2>2. \A i \in cursor..j - 1 : FALSE
    BY <2>1 DEF Intact
  <2> QED
    BY <1>2, <2>2
<1>4. cursor \in 1..Len(file) /\ file[cursor].event \in Nat \ {0}
  BY <1>2, EventsAreNumbers
<1>5. Parses(cursor, j)
  BY <1>3, <1>4 DEF Parses, Intact
<1>6. /\ out' = Append(out, file[cursor].event) /\ Len(out') = cursor' - 1
      /\ \A i \in 1..Len(out) : out'[i] = out[i]
      /\ out'[cursor] = file[cursor].event /\ Len(out') = cursor
  BY <1>1, <1>2, <1>3, <1>4, <1>5, AppendProperties
<1>7. LogIn(file, buffer)[cursor] = file[cursor].event
  <2>1. cursor \in 1..Len(file) + Len(buffer) /\ cursor <= Len(file)
    <3>1. Len(buffer) \in Nat
      BY <1>2
    <3> QED
      BY <1>2, <1>4, <3>1
  <2> QED
    BY <1>2, <2>1, LogEntries
<1>8. Log!Give
  <2>1. Len(out) < Len(file) /\ Len(out) + 1 = cursor
    BY <1>2, <1>4
  <2> QED
    BY <1>2, <1>6, <1>7, <2>1 DEF Log!Give, LogIn, storeVars
<1>9. Intact'
  <2>1. file' = file /\ reading' = reading
    BY <1>2 DEF storeVars
  <2>2. \A i \in 1..Len(out') : i \in 1..Len(out) \/ i = cursor
    BY <1>2, <1>6
  <2>3. \A i \in 1..Len(out') : out'[i] = file[i].event
    BY <1>2, <1>6, <2>2 DEF Intact
  <2> QED
    BY <1>6, <2>1, <2>3 DEF Intact
<1> QED
  BY <1>2, <1>8, <1>9 DEF Log!Next, Log!Step, storeVars

LEMMA OtherReaderSteps ==
    ASSUME TypeOK, ReaderInv, Intact, ~faulted, StartReading \/ ReadRaises \/ ReadReturns
    PROVE  Log!Next /\ Intact'
<1>1. /\ cursor \in Nat \ {0} /\ Len(file) \in Nat /\ cursor <= Len(file) + 1
      /\ UNCHANGED storeVars
  BY DEF TypeOK, ReaderInv, StartReading, ReadRaises, ReadReturns
<1>2. CASE StartReading
  <2>1. Log!StartReading
    BY <1>1, <1>2 DEF StartReading, Log!StartReading, storeVars
  <2>2. Intact'
    BY <1>1, <1>2 DEF StartReading, Intact, storeVars
  <2> QED
    BY <1>1, <2>1, <2>2 DEF Log!Next, Log!Step, storeVars
<1>3. CASE ReadRaises
  <2>1. PICK k \in cursor..Len(file) : file[k].part = "cut"
    BY <1>3 DEF ReadRaises
  <2>2. k \in 1..Len(file)
    BY <1>1
  <2> QED
    BY <2>1, <2>2 DEF Intact
<1>4. CASE ReadReturns
  <2>1. Len(out) = Len(file)
    BY <1>1, <1>4 DEF ReadReturns, Intact
  <2>2. Log!Return
    BY <1>1, <1>4, <2>1 DEF ReadReturns, Log!Return, storeVars
  <2>3. Intact'
    BY <1>1, <1>4 DEF ReadReturns, Intact, storeVars
  <2> QED
    BY <1>1, <2>2, <2>3 DEF Log!Next, Log!Step, storeVars
<1> QED
  BY <1>2, <1>3, <1>4

LEMMA LogStep ==
    ASSUME TypeOK, StoreOrder, ReaderInv, LogInv, [Next]_vars
    PROVE  [Log!Next]_Log!vars /\ LogInv'
<1>1. CASE faulted'
  BY <1>1 DEF Log!Next, Log!Fault, LogInv
<1>2. CASE ~faulted'
  <2>1. ~faulted /\ Intact
    BY <1>2, FaultStays DEF LogInv
  <2>2. CASE Open \/ Close
    BY <2>1, <2>2, OpenOrCloseSyncs DEF LogInv
  <2>3. CASE AppendEvent
    BY <2>1, <2>3, EventLogged DEF LogInv
  <2>4. CASE CloseFails \/ AppendFails
    BY <1>2, <2>4 DEF CloseFails, AppendFails
  <2>5. CASE Crash
    BY <1>2, <2>1, <2>5, CrashLosesEnd DEF LogInv
  <2>6. CASE ReadLine
    BY <2>1, <2>6, LineGiven DEF LogInv
  <2>7. CASE StartReading \/ ReadRaises \/ ReadReturns
    BY <2>1, <2>7, OtherReaderSteps DEF LogInv
  <2>8. CASE UNCHANGED vars
    BY <2>1, <2>8 DEF vars, storeVars, readerVars, Log!vars, LogInv, Intact
  <2> QED
    BY <2>2, <2>3, <2>4, <2>5, <2>6, <2>7, <2>8 DEF Next
<1> QED
  BY <1>1, <1>2

\* Until a write fails or breaks off the store implements AuditLog, wherever
\* Python flushes, the process crashes, or a reader is (store.py:33-109).
THEOREM ImplementsAuditLog == Spec => RefinesAuditLog
<1>1. Init => Log!Init /\ LogInv
  <2> SUFFICES ASSUME Init PROVE Log!Init /\ LogInv
    OBVIOUS
  <2>1. EventsIn(file) \o buffer = << >>
    BY DEF Init, EventsIn
  <2>2. Len(file) = 0
    BY DEF Init
  <2> QED
    BY <2>1, <2>2 DEF Init, Log!Init, LogInv, Intact
<1>2. TypeOK /\ StoreOrder /\ ReaderInv /\ LogInv /\ [Next]_vars => [Log!Next]_Log!vars /\ LogInv'
  BY LogStep
<1> QED
  BY <1>1, <1>2, StoreInvariant, ReaderInvariant, PTL DEF Spec, RefinesAuditLog, Log!Spec

=============================================================================
