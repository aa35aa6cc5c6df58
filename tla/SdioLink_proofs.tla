--------------------------- MODULE SdioLink_proofs ---------------------------
(***************************************************************************)
(* Theorems about SdioLink, for every value of its constants.              *)
(***************************************************************************)
EXTENDS SdioLink, SequenceTheorems, TLAPS

-----------------------------------------------------------------------------
(* Types.                                                                  *)

Packet   == [n : Nat, reset : BOOLEAN]
Transfer == [pkts : Seq(Packet), more : BOOLEAN]

ChipStates == {"off", "waitFw", "boot", "waitPatch", "patched", "ready"}
Downloads  == {"fw", "pollPatch", "patch", "pollReady", "clear"}
Stages     == Downloads \cup {"none", "bus", "files", "init"}
RecStates  == {"idle", "called", "cleared", "off", "card", "fast", "bus", "load",
               "up", "wait", "end"}
Threads    == {"writer", "reader", "rec"}

Buses   == [latched : BOOLEAN, loading : BOOLEAN, init : BOOLEAN]
Hals    == [processing : BOOLEAN, resetDone : BOOLEAN, answered : BOOLEAN,
            loaded : BOOLEAN, mistaken : BOOLEAN]
Chips   == [state : ChipStates, out : Seq(Transfer), notified : BOOLEAN, reset : BOOLEAN]
Loads   == [by : {"none", "start", "rec"}, stage : Stages, count : Nat, ok : BOOLEAN,
            saved : BOOLEAN]
RawReaders == [wakes : Nat, inside : BOOLEAN, empty : BOOLEAN, idx : Int, count : Nat,
               more : BOOLEAN, buf : Transfer]
Within(idx, count, pkts) == count > 0 => idx \in Nat /\ idx + 1 < count /\ count = Len(pkts)
Readers == {r \in RawReaders : Within(r.idx, r.count, r.buf.pkts)}
Writers == [busy : BOOLEAN, count : Nat, reset : BOOLEAN]
Uses    == [faults : Nat, bursts : Nat, events : Nat, started : BOOLEAN]
Lasts   == [n : Nat, count : Nat]

\* The type of every variable.
TypeOK ==
    /\ bus \in Buses /\ hal \in Hals /\ chip \in Chips /\ load \in Loads
    /\ reader \in Readers /\ writer \in Writers
    /\ rec \in RecStates /\ signals \subseteq Threads
    /\ used \in Uses /\ last \in Lasts /\ late \in BOOLEAN

LEMMA NoSeries ==
    ASSUME NEW r \in RawReaders, r.count = 0
    PROVE  r \in Readers
  BY DEF Readers, Within

\* The packets of the series in the buffer that are still to be handed up.
Left(r) ==
    IF r.count = 0 THEN <<>>
    ELSE [k \in 1 .. r.count - r.idx - 1 |-> r.buf.pkts[r.idx + 1 + k]]

LEMMA LeftType ==
    ASSUME NEW r \in Readers
    PROVE  /\ Left(r) \in Seq(Packet)
           /\ Left(r) = <<>> <=> r.count = 0
           /\ r.count > 0 =>
                /\ Len(Left(r)) = r.count - r.idx - 1
                /\ \A k \in 1 .. r.count - r.idx - 1 :
                     Left(r)[k] = r.buf.pkts[r.idx + 1 + k]
<1>1. /\ r.count \in Nat /\ r.idx \in Int /\ r.buf.pkts \in Seq(Packet)
      /\ r.count > 0 => r.idx \in Nat /\ r.idx + 1 < r.count /\ r.count = Len(r.buf.pkts)
  BY DEF Readers, RawReaders, Within, Transfer
<1>2. CASE r.count = 0
  BY <1>2, EmptySeq DEF Left
<1>3. CASE r.count > 0
  <2> DEFINE n == r.count - r.idx - 1
             s == [k \in 1 .. n |-> r.buf.pkts[r.idx + 1 + k]]
  <2>1. n \in Nat /\ n > 0 /\ Left(r) = s
    BY <1>1, <1>3 DEF Left
  <2>2. ASSUME NEW k \in 1 .. n PROVE r.buf.pkts[r.idx + 1 + k] \in Packet
    <3>1. r.idx + 1 + k \in 1 .. Len(r.buf.pkts)
      BY <1>1, <1>3
    <3> QED
      BY <1>1, <3>1, ElementOfSeq
  <2>3. s \in [1 .. n -> Packet]
    BY <2>2
  <2>5. \A k \in 1 .. n : s[k] = r.buf.pkts[r.idx + 1 + k]
    OBVIOUS
  <2> HIDE DEF s
  <2>4. s \in Seq(Packet) /\ Len(s) = n
    <3> HIDE DEF n
    <3> QED
      BY <2>1, <2>3
  <2> QED
    BY <1>3, <2>1, <2>4, <2>5, EmptySeq
<1> QED
  BY <1>1, <1>2, <1>3

LEMMA LeftOfAll ==
    ASSUME NEW r \in Readers, NEW s \in Seq(Packet), r.count > 0, r.idx = 0,
           r.buf.pkts = s, r.count = Len(s)
    PROVE  /\ Left(r) \in Seq(Packet) /\ Len(Left(r)) = Len(s) - 1
           /\ \A k \in 1 .. Len(s) - 1 : Left(r)[k] = s[1 + k]
<1>1. r.count - r.idx - 1 = Len(s) - 1 /\ r.idx + 1 = 1
  OBVIOUS
<1>2. /\ Left(r) \in Seq(Packet) /\ Len(Left(r)) = r.count - r.idx - 1
      /\ \A k \in 1 .. r.count - r.idx - 1 : Left(r)[k] = r.buf.pkts[r.idx + 1 + k]
  BY LeftType
<1> QED
  BY <1>1, <1>2

LEMMA SeriesCountType ==
    ASSUME NEW s \in Seq(Packet), s # <<>>
    PROVE  /\ SeriesCount(s) \in Nat
           /\ SeriesCount(s) > 0 => 1 < SeriesCount(s) /\ SeriesCount(s) = Len(s)
           /\ SeriesCount(s) = 0 => Len(s) = 1
<1>1. Len(s) \in Nat /\ Len(s) > 0
  BY EmptySeq
<1>2. CASE Len(s) > 1
  <2>1. SeriesCount(s) = Len(s)
    BY <1>2 DEF SeriesCount
  <2> QED
    BY <1>1, <1>2, <2>1
<1>3. CASE ~(Len(s) > 1)
  <2>1. SeriesCount(s) = 0
    BY <1>3 DEF SeriesCount
  <2>2. Len(s) = 1
    <3> DEFINE n == Len(s)
    <3> HIDE DEF n
    <3>1. n \in Nat /\ n > 0 /\ ~(n > 1)
      BY <1>1, <1>3 DEF n
    <3>2. n = 1
      BY <3>1
    <3> QED
      BY <3>2 DEF n
  <2> QED
    BY <2>1, <2>2
<1> QED
  BY <1>2, <1>3

\* After the header of a series has been parsed all but its first packet are
\* left; a packet that comes alone leaves none.
ParsedReader(r, b) ==
    [r EXCEPT !.inside = FALSE, !.count = SeriesCount(r.buf.pkts),
              !.idx = IF SeriesCount(r.buf.pkts) > 0 THEN 0 ELSE r.idx,
              !.more = b, !.buf = [r.buf EXCEPT !.more = FALSE]]

LEMMA ParseLeaves ==
    ASSUME NEW r \in Readers, r.buf.pkts # <<>>, NEW b \in BOOLEAN,
           NEW q, q = ParsedReader(r, b)
    PROVE  /\ q \in Readers /\ ~q.inside /\ q.empty = r.empty
           /\ q.buf.pkts = r.buf.pkts /\ Left(q) = Tail(r.buf.pkts)
<1> DEFINE s == r.buf.pkts
           c == SeriesCount(s)
           x == IF c > 0 THEN 0 ELSE r.idx
           t == [r.buf EXCEPT !.more = FALSE]
<1>1. s \in Seq(Packet) /\ s # <<>> /\ Len(s) \in Nat /\ Len(s) > 0 /\ r.idx \in Int
      /\ r \in RawReaders
  BY EmptySeq DEF Readers, RawReaders, Transfer
<1>3. c \in Nat /\ (c > 0 => 1 < c /\ c = Len(s)) /\ (c = 0 => Len(s) = 1)
  BY <1>1, SeriesCountType
<1>2. t \in Transfer /\ t.pkts = s
  BY DEF Readers, RawReaders, Transfer
<1> HIDE DEF c
<1>8. x \in Int /\ (c > 0 => x = 0)
  BY <1>1
<1> HIDE DEF t, x
<1>9. q = [r EXCEPT !.inside = FALSE, !.count = c, !.idx = x, !.more = b, !.buf = t]
  BY DEF ParsedReader, c, x, t
<1>10. /\ q \in RawReaders /\ q.count = c /\ q.idx = x /\ q.buf = t /\ ~q.inside
       /\ q.empty = r.empty
  BY <1>1, <1>2, <1>3, <1>8, <1>9 DEF RawReaders
<1>4. q \in Readers
  <2>1. Within(x, c, s)
    BY <1>3, <1>8 DEF Within
  <2>2. Within(q.idx, q.count, q.buf.pkts)
    BY <1>2, <1>10, <2>1
  <2> QED
    BY <1>10, <2>2 DEF Readers, RawReaders
<1> HIDE DEF s
<1>5. Tail(s) \in Seq(Packet) /\ Len(Tail(s)) = Len(s) - 1
      /\ \A k \in 1 .. Len(s) - 1 : Tail(s)[k] = s[k + 1]
  BY <1>1, HeadTailProperties
<1>6. ASSUME c = 0 PROVE Left(q) = Tail(s)
  <2>1. Left(q) = <<>>
    BY <1>6, <1>10 DEF Left
  <2>2. Len(Tail(s)) = 0
    BY <1>1, <1>3, <1>5, <1>6
  <2> QED
    BY <1>5, <2>1, <2>2, EmptySeq
<1>7. ASSUME c > 0 PROVE Left(q) = Tail(s)
  <2>1. q.count > 0 /\ q.count = Len(s) /\ q.idx = 0 /\ q.buf.pkts = s
    BY <1>2, <1>3, <1>7, <1>8, <1>10
  <2>2. /\ Left(q) \in Seq(Packet) /\ Len(Left(q)) = Len(s) - 1
        /\ \A k \in 1 .. Len(s) - 1 : Left(q)[k] = s[1 + k]
    BY <1>1, <1>4, <2>1, LeftOfAll, Zenon
  <2>3. \A k \in 1 .. Len(s) - 1 : Left(q)[k] = Tail(s)[k]
    BY <1>1, <1>5, <2>2
  <2> QED
    BY <1>5, <2>2, <2>3, SeqEqual
<1>12. c = 0 \/ c > 0
  BY <1>3
<1>13. q.buf.pkts = s
  BY <1>2, <1>10
<1>11. Left(q) = Tail(s) /\ q.buf.pkts = s
  BY <1>6, <1>7, <1>12, <1>13
<1> QED
  BY <1>4, <1>10, <1>11 DEF s

\* A fault is counted, or nothing is.
LEMMA FaultType ==
    ASSUME TypeOK, Fault \/ UNCHANGED used
    PROVE  used' \in Uses /\ used'.events = used.events
  BY DEF TypeOK, Fault, Uses

\* What rk915_io_reset, an I/O error and the end of the bring-up leave alone.
LEMMA IoResetType ==
    ASSUME TypeOK
    PROVE  /\ IoReset(bus) \in Buses
           /\ IoReset(bus).loading = bus.loading
           /\ bus.latched => IoReset(bus).latched
           /\ bus.loading => IoReset(bus).latched = bus.latched
  BY DEF TypeOK, IoReset, Buses

LEMMA FailsType ==
    ASSUME TypeOK, NEW t \in Threads, Fails(t)
    PROVE  /\ bus' \in Buses /\ bus'.loading = bus.loading
           /\ signals' \subseteq Threads /\ t \in signals'
           /\ late' \in BOOLEAN
           /\ late => late'
           /\ hal.processing /\ rec \notin Unready => late'
<1>1. hal.processing \in BOOLEAN /\ late \in BOOLEAN
  BY DEF TypeOK, Hals
<1> QED
  BY <1>1, IoResetType DEF TypeOK, Fails, NotesLate

LEMMA LoadEndsType ==
    ASSUME TypeOK, NEW ok \in BOOLEAN, NEW b \in Buses, LoadEnds(ok, b)
    PROVE  /\ load' \in Loads
           /\ load'.by = "none" /\ load'.stage = "none" /\ load'.ok = ok
           /\ bus' \in Buses /\ bus'.latched = b.latched /\ ~bus'.loading
           /\ hal' \in Hals
           /\ hal'.processing = hal.processing /\ hal'.answered = hal.answered
           /\ hal'.mistaken = hal.mistaken
           /\ hal'.loaded = IF load.by = "start" THEN ok ELSE hal.loaded
           /\ rec' = IF load.by = "start" THEN rec ELSE "up"
           /\ rec' \in RecStates
<1>1. load' \in Loads /\ load'.by = "none" /\ load'.stage = "none" /\ load'.ok = ok
  <2>1. load' = [load EXCEPT !.by = "none", !.stage = "none", !.count = 0, !.ok = ok]
    BY DEF LoadEnds
  <2>2. load \in Loads
    BY DEF TypeOK
  <2>3. "none" \in Stages
    BY DEF Stages
  <2> QED
    BY <2>1, <2>2, <2>3 DEF Loads
<1>2. bus' \in Buses /\ bus'.latched = b.latched /\ ~bus'.loading
  BY DEF LoadEnds, Buses
<1>3. CASE load.by = "start"
  <2>1. hal' = [hal EXCEPT !.loaded = ok] /\ rec' = rec
    BY <1>3 DEF LoadEnds
  <2> QED
    BY <1>1, <1>2, <1>3, <2>1 DEF TypeOK, Hals
<1>4. CASE load.by # "start"
  <2>1. hal' = hal /\ rec' = "up"
    BY <1>4 DEF LoadEnds
  <2> QED
    BY <1>1, <1>2, <1>4, <2>1 DEF TypeOK, RecStates
<1> QED
  BY <1>3, <1>4

\* A read that returns nothing.
LEMMA ReadsNothingType ==
    ASSUME NEW silent \in BOOLEAN, NEW r \in Readers, ReadsNothing(r, silent)
    PROVE  /\ reader' \in Readers
           /\ ~reader'.inside /\ reader'.count = 0 /\ ~reader'.more
           /\ reader'.empty = r.empty /\ reader'.buf = r.buf /\ reader'.wakes = r.wakes
           /\ UNCHANGED <<bus, signals, late>> \/ Fails("reader")
<1>1. reader' = [r EXCEPT !.inside = FALSE, !.count = 0, !.more = FALSE]
  BY DEF ReadsNothing
<1>2. UNCHANGED <<bus, signals, late>> \/ Fails("reader")
  BY DEF ReadsNothing
<1>3. reader' \in RawReaders /\ reader'.count = 0
  BY <1>1 DEF Readers, RawReaders
<1> QED
  BY <1>1, <1>2, <1>3, NoSeries DEF Readers, RawReaders

LEMMA WokenType ==
    ASSUME TypeOK, MayRead
    PROVE  /\ Woken \in Readers
           /\ Woken.inside = reader.inside /\ Woken.empty = reader.empty
           /\ Woken.count = reader.count /\ Woken.idx = reader.idx
           /\ Woken.buf = reader.buf
           /\ Woken.more = reader.more
<1>1. reader \in Readers
  BY DEF TypeOK
<1>2. CASE reader.more
  BY <1>1, <1>2 DEF Woken
<1>3. CASE ~reader.more
  <2>1. reader.wakes \in Nat /\ reader.wakes > 0
    BY <1>1, <1>3 DEF MayRead, Readers, RawReaders
  <2>2. Woken = [reader EXCEPT !.wakes = reader.wakes - 1]
    BY <1>3 DEF Woken
  <2>3. reader.wakes - 1 \in Nat
    BY <2>1
  <2> QED
    BY <1>1, <2>2, <2>3 DEF Readers, RawReaders
<1> QED
  BY <1>2, <1>3

\* The transfers of a burst, and what rx_thread takes of one.
LEMMA TransferType ==
    ASSUME NEW b \in Transfer
    PROVE  /\ b.pkts \in Seq(Packet) /\ b.more \in BOOLEAN
           /\ b.pkts # <<>> => Head(b.pkts) \in Packet /\ Tail(b.pkts) \in Seq(Packet)
           /\ [b EXCEPT !.more = FALSE] \in Transfer
<1>1. b.pkts \in Seq(Packet) /\ b.more \in BOOLEAN
  BY DEF Transfer
<1>2. [b EXCEPT !.more = FALSE] \in Transfer
  BY DEF Transfer
<1> QED
  BY <1>1, <1>2, HeadTailProperties

LEMMA Sums ==
    ASSUME NEW e \in Nat, NEW p \in Nat, NEW j \in Nat
    PROVE  e + p + j \in Nat /\ e + p + j = e + (p + j)
  OBVIOUS

LEMMA BurstType ==
    ASSUME used \in Uses, NEW reset \in BOOLEAN, NEW k \in 1 .. MaxTransfers,
           NEW lens \in [1 .. k -> 1 .. MaxSeries]
    PROVE  Burst(lens, reset) \in Seq(Transfer)
<1> DEFINE pkts(i) == [j \in 1 .. lens[i] |-> Event(i, j, reset)]
<1>1. MaxTransfers \in Nat /\ MaxSeries \in Nat /\ used.events \in Nat /\ k \in Nat
  BY SdioLinkAssumption DEF Uses
<1>2. Len(lens) = k
  BY <1>1
<1>3. ASSUME NEW i \in 1 .. k, NEW j \in 1 .. lens[i] PROVE Event(i, j, reset) \in Packet
  <2>1. i - 1 \in Nat /\ j \in Nat
    BY <1>1
  <2>2. (i - 1) * MaxSeries \in Nat
    BY <1>1, <2>1
  <2>3. used.events + (i - 1) * MaxSeries + j \in Nat
    BY <1>1, <2>1, <2>2, Sums, Zenon
  <2> QED
    BY <2>3 DEF Event, Packet
<1>4. ASSUME NEW i \in 1 .. k PROVE pkts(i) \in Seq(Packet)
  <2>1. lens[i] \in Nat
    BY <1>1
  <2>2. pkts(i) \in [1 .. lens[i] -> Packet]
    BY <1>3
  <2> HIDE DEF pkts
  <2> QED
    BY <2>1, <2>2
<1>5. Burst(lens, reset) = [i \in 1 .. k |-> [pkts |-> pkts(i), more |-> i < k]]
  BY <1>2 DEF Burst
<1> HIDE DEF pkts
<1>6. \A i \in 1 .. k : [pkts |-> pkts(i), more |-> i < k] \in Transfer
  BY <1>4 DEF Transfer
<1>7. Burst(lens, reset) \in [1 .. k -> Transfer]
  BY <1>5, <1>6
<1> QED
  BY <1>1, <1>7

LEMMA HandsUpType ==
    ASSUME TypeOK, NEW p \in Packet, HandsUp(p)
    PROVE  /\ hal' \in Hals /\ last' \in Lasts
           /\ hal'.processing = hal.processing /\ hal'.loaded = hal.loaded
           /\ hal.mistaken => hal'.mistaken
           /\ hal'.answered => hal.answered \/ ~reader.empty \/ hal'.mistaken
           /\ ~hal.processing => hal'.answered = hal.answered
           /\ last' = last \/ last'.n = p.n
<1>1. hal \in Hals /\ last \in Lasts /\ p.reset \in BOOLEAN /\ p.n \in Nat
      /\ reader.empty \in BOOLEAN
  BY DEF TypeOK, Packet, Readers, RawReaders
<1>2. CASE hal.processing
  <2>1. hal' = [hal EXCEPT !.answered = @ \/ p.reset,
                           !.mistaken = @ \/ (p.reset /\ reader.empty)]
        /\ last' = last
    BY <1>2 DEF HandsUp
  <2> QED
    BY <1>1, <1>2, <2>1 DEF Hals
<1>3. CASE ~hal.processing
  BY <1>1, <1>3 DEF HandsUp, Hals, Lasts
<1> QED
  BY <1>2, <1>3

LEMMA AcknowledgesType ==
    ASSUME TypeOK, NEW more \in BOOLEAN, Acknowledges(more)
    PROVE  /\ chip' \in Chips /\ chip'.state = chip.state /\ chip'.out = chip.out
<1>1. chip' = chip \/ chip' = [chip EXCEPT !.notified = TRUE]
  BY DEF Acknowledges
<1> QED
  BY <1>1 DEF TypeOK, Chips

-----------------------------------------------------------------------------
(* Every step keeps the types: the bring-up, the threads, the recovery and   *)
(* the firmware.                                                             *)

LEMMA StartTypes == ASSUME TypeOK, Start PROVE TypeOK'
<1>1. load' \in Loads
  <2>1. load' = [load EXCEPT !.by = "start", !.stage = "bus", !.count = 0, !.ok = FALSE]
    BY DEF Start, LoadBegins
  <2> QED
    BY <2>1 DEF TypeOK, Loads, Stages
<1>2. used' \in Uses
  <2>1. Fault \/ used' = [used EXCEPT !.started = TRUE]
    BY DEF Start
  <2> QED
    BY <2>1, FaultType DEF TypeOK, Uses
<1> QED
  BY <1>1, <1>2 DEF TypeOK, Start

LEMMA ProbeTypes == ASSUME TypeOK, LoadProbes PROVE TypeOK'
<1>1. used' \in Uses
  BY FaultType DEF LoadProbes
<1>2. load \in Loads /\ bus \in Buses /\ chip \in Chips
  BY DEF TypeOK
<1>3. CASE LoadEnds(FALSE, bus) /\ UNCHANGED chip
  BY <1>1, <1>2, <1>3, LoadEndsType DEF TypeOK, LoadProbes
<1>4. CASE load' = [load EXCEPT !.count = @ + 1] /\ UNCHANGED <<bus, hal, rec, chip>>
  <2>1. load' \in Loads
    BY <1>2, <1>4 DEF Loads
  <2> QED
    BY <1>1, <1>4, <2>1 DEF TypeOK, LoadProbes
<1>5. CASE /\ load' = [load EXCEPT !.stage = "files", !.count = 0]
           /\ bus' = [bus EXCEPT !.init = TRUE]
           /\ chip' = IF bus.init THEN chip ELSE [chip EXCEPT !.state = "waitFw"]
           /\ UNCHANGED <<hal, rec>>
  <2>1. load' \in Loads
    BY <1>2, <1>5 DEF Loads, Stages
  <2>2. bus' \in Buses /\ chip' \in Chips
    BY <1>2, <1>5 DEF Buses, Chips, ChipStates
  <2> QED
    BY <1>1, <1>5, <2>1, <2>2 DEF TypeOK, LoadProbes
<1> QED
  BY <1>3, <1>4, <1>5 DEF LoadProbes

LEMMA FilesTypes == ASSUME TypeOK, LoadReadsFiles PROVE TypeOK'
<1>1. used' \in Uses
  BY FaultType DEF LoadReadsFiles
<1>2. load \in Loads /\ bus \in Buses
  BY DEF TypeOK
<1>3. CASE LoadEnds(FALSE, bus)
  BY <1>1, <1>2, <1>3, LoadEndsType DEF TypeOK, LoadReadsFiles
<1>4. CASE /\ load' = [load EXCEPT !.stage = "fw", !.saved = TRUE]
           /\ bus' = [bus EXCEPT !.loading = TRUE]
           /\ UNCHANGED <<hal, rec>>
  <2>1. load' \in Loads /\ bus' \in Buses
    BY <1>2, <1>4 DEF Loads, Stages, Downloads, Buses
  <2> QED
    BY <1>1, <1>4, <2>1 DEF TypeOK, LoadReadsFiles
<1> QED
  BY <1>3, <1>4 DEF LoadReadsFiles

LEMMA WriteTypes ==
    ASSUME TypeOK, NEW from, NEW to \in Stages, NEW before, NEW after \in ChipStates,
           LoadWrites(from, to, before, after)
    PROVE  TypeOK'
<1>1. load' = [load EXCEPT !.stage = to, !.count = 0]
      /\ (chip' = chip \/ chip' = [chip EXCEPT !.state = after])
  BY DEF LoadWrites
<1>2. load' \in Loads /\ chip' \in Chips
  BY <1>1 DEF TypeOK, Loads, Chips
<1> QED
  BY <1>2 DEF TypeOK, LoadWrites

LEMMA PollTypes ==
    ASSUME TypeOK, NEW stage, NEW next \in Stages, NEW reached,
           LoadPolls(stage, next, reached)
    PROVE  TypeOK'
<1>1. bus \in Buses /\ load \in Loads
  BY DEF TypeOK
<1>2. CASE LoadEnds(FALSE, bus)
  BY <1>1, <1>2, LoadEndsType DEF TypeOK, LoadPolls
<1>3. CASE /\ load' = [load EXCEPT !.stage = next] \/ load' = [load EXCEPT !.count = @ + 1]
           /\ UNCHANGED <<bus, hal, rec>>
  <2>1. load' \in Loads
    BY <1>1, <1>3 DEF Loads
  <2> QED
    BY <1>3, <2>1 DEF TypeOK, LoadPolls
<1> QED
  BY <1>2, <1>3 DEF LoadPolls

LEMMA ClearTypes == ASSUME TypeOK, LoadClears PROVE TypeOK'
<1>1. load' \in Loads
  BY DEF TypeOK, LoadClears, Loads, Stages
<1>2. bus' \in Buses
  BY DEF TypeOK, LoadClears, Buses
<1> QED
  BY <1>1, <1>2 DEF TypeOK, LoadClears

LEMMA DeviceTypes ==
    ASSUME TypeOK, LoadInitsDevice \/ LoadFails
    PROVE  TypeOK'
<1>1. used' \in Uses
  BY FaultType DEF LoadInitsDevice, LoadFails, TransferFails
<1>2. PICK ok \in BOOLEAN, b \in Buses : LoadEnds(ok, b)
  <2>1. bus \in Buses /\ IoReset(bus) \in Buses
    BY IoResetType DEF TypeOK
  <2> QED
    BY <2>1 DEF LoadInitsDevice, LoadFails
<1>3. UNCHANGED <<chip, reader, writer, signals, last, late>>
  BY DEF LoadInitsDevice, LoadFails
<1> QED
  BY <1>1, <1>2, <1>3, LoadEndsType DEF TypeOK

LEMMA LoadTypes == ASSUME TypeOK, Load PROVE TypeOK'
<1>1. {"boot", "patched"} \subseteq ChipStates
      /\ {"pollPatch", "pollReady", "patch", "clear"} \subseteq Stages
  BY DEF ChipStates, Stages, Downloads
<1>2. CASE LoadFirmware
  BY <1>1, <1>2, WriteTypes DEF LoadFirmware
<1>3. CASE LoadPatch
  BY <1>1, <1>3, WriteTypes DEF LoadPatch
<1>4. CASE LoadPollsPatch
  BY <1>1, <1>4, PollTypes DEF LoadPollsPatch
<1>5. CASE LoadPollsReady
  BY <1>1, <1>5, PollTypes DEF LoadPollsReady
<1> QED
  BY <1>2, <1>3, <1>4, <1>5, ProbeTypes, FilesTypes, ClearTypes, DeviceTypes DEF Load

LEMMA SignalTypes == ASSUME TypeOK, NEW t \in Threads, Signal(t) PROVE TypeOK'
<1>1. hal' \in Hals /\ rec' \in RecStates
  BY DEF TypeOK, Signal, Hals, RecStates
<1> QED
  BY <1>1 DEF TypeOK, Signal

\* tx_thread.
LEMMA WriteBeginsTypes == ASSUME TypeOK, WriteBegins PROVE TypeOK'
<1>1. PICK reset \in BOOLEAN :
        /\ writer' = [busy |-> TRUE, count |-> writer.count + 1, reset |-> reset]
        /\ hal' = [hal EXCEPT !.resetDone = @ /\ ~reset]
  BY DEF WriteBegins
<1>2. writer' \in Writers
  BY <1>1 DEF TypeOK, Writers
<1>3. hal' \in Hals
  BY <1>1 DEF TypeOK, Hals
<1> QED
  BY <1>2, <1>3 DEF TypeOK, WriteBegins

LEMMA WriterTypes == ASSUME TypeOK, Write PROVE TypeOK'
<1>1. writer' \in Writers
  BY DEF TypeOK, Write, Writers
<1>2. used' \in Uses
  BY FaultType DEF TypeOK, Write, TransferFails
<1>3. chip' = chip \/ chip' = [chip EXCEPT !.reset = @ \/ writer.reset]
  BY DEF Write
<1>4. chip' \in Chips
  BY <1>3 DEF TypeOK, Chips, Writers
<1>5. bus' \in Buses /\ signals' \subseteq Threads /\ late' \in BOOLEAN
  <2>1. UNCHANGED <<bus, late, signals>> \/ Fails("writer")
    BY DEF Write
  <2> QED
    BY <2>1, FailsType DEF TypeOK, Threads
<1> QED
  BY <1>1, <1>2, <1>4, <1>5 DEF TypeOK, Write

\* rx_thread.
LEMMA NothingReadTypes ==
    ASSUME TypeOK, NEW silent \in BOOLEAN, NEW r \in Readers, ReadsNothing(r, silent),
           Fault \/ UNCHANGED used,
           UNCHANGED <<hal, chip, load, writer, rec, last>>
    PROVE  TypeOK'
<1>1. used' \in Uses
  BY FaultType
<1>2. bus' \in Buses /\ signals' \subseteq Threads /\ late' \in BOOLEAN
  BY FailsType, ReadsNothingType DEF TypeOK, Threads
<1> QED
  BY <1>1, <1>2, ReadsNothingType DEF TypeOK

LEMMA FetchTypes == ASSUME TypeOK, RxFetch PROVE TypeOK'
<1>1. Woken \in Readers /\ (~hal.resetDone) \in BOOLEAN
  BY WokenType DEF RxFetch
<1>2. CASE UNCHANGED chip /\ ReadsNothing(Woken, ~hal.resetDone)
           /\ (TransferFails \/ UNCHANGED used)
  <2>1. Fault \/ UNCHANGED used
    BY <1>2 DEF TransferFails
  <2>2. UNCHANGED <<hal, chip, load, writer, rec, last>>
    BY <1>2 DEF RxFetch
  <2> QED
    BY <1>1, <1>2, <2>1, <2>2, NothingReadTypes
<1>3. CASE /\ reader' = [Woken EXCEPT !.inside = TRUE, !.empty = TRUE]
           /\ UNCHANGED <<bus, chip, signals, used, late>>
  <2>1. reader' \in Readers
    BY <1>1, <1>3 DEF Readers, RawReaders
  <2> QED
    BY <1>3, <2>1 DEF TypeOK, RxFetch
<1>4. CASE /\ chip.out # <<>>
           /\ reader' = [Woken EXCEPT !.inside = TRUE, !.empty = FALSE, !.buf = Head(chip.out)]
           /\ chip' = [chip EXCEPT !.out = Tail(@)]
           /\ UNCHANGED <<bus, signals, used, late>>
  <2>1. Head(chip.out) \in Transfer /\ Tail(chip.out) \in Seq(Transfer)
    BY <1>4, HeadTailProperties DEF TypeOK, Chips
  <2>2. reader' \in Readers
    <3>1. Woken.count = 0
      BY WokenType DEF RxFetch
    <3>2. reader' \in RawReaders /\ reader'.count = 0
      BY <1>1, <1>4, <2>1, <3>1 DEF Readers, RawReaders
    <3> QED
      BY <3>2, NoSeries
  <2>3. chip' \in Chips
    BY <1>4, <2>1 DEF TypeOK, Chips
  <2> QED
    BY <1>4, <2>2, <2>3 DEF TypeOK, RxFetch
<1> QED
  BY <1>2, <1>3, <1>4 DEF RxFetch

\* RxParse and RxSeries, seen from the reader.
ReaderParses ==
    reader' = [reader EXCEPT !.inside = FALSE, !.count = SeriesCount(reader.buf.pkts),
                             !.idx = IF SeriesCount(reader.buf.pkts) > 0 THEN 0 ELSE @,
                             !.more = reader.buf.more, !.buf.more = FALSE]

LastOfSeries == reader.idx + 1 + 1 >= reader.count
NextPacket == reader.buf.pkts[Position(reader.idx + 1)]

TakesNext ==
    reader' = [reader EXCEPT !.idx = IF LastOfSeries THEN -1 ELSE reader.idx + 1,
                             !.count = IF LastOfSeries THEN 0 ELSE @]

LEMMA SeriesStep ==
    ASSUME RxSeries
    PROVE  \/ /\ TakesNext /\ HandsUp(NextPacket)
              /\ \E more \in BOOLEAN : Acknowledges(more)
              /\ UNCHANGED <<bus, signals, used, late>>
           \/ /\ TransferFails /\ ReadsNothing(reader, FALSE)
              /\ UNCHANGED <<hal, chip, last>>
<1> DEFINE idx  == reader.idx + 1
           over == idx + 1 >= reader.count
           ends == over /\ ~reader.more
<1>1. \/ /\ reader' = [reader EXCEPT !.idx = IF over THEN -1 ELSE idx,
                                      !.count = IF over THEN 0 ELSE @]
         /\ HandsUp(reader.buf.pkts[Position(idx)]) /\ Acknowledges(~ends)
         /\ UNCHANGED <<bus, signals, used, late>>
      \/ /\ TransferFails /\ ReadsNothing(reader, FALSE)
         /\ UNCHANGED <<hal, chip, last>>
  BY DEF RxSeries
<1>2. (~ends) \in BOOLEAN
  OBVIOUS
<1> QED
  BY <1>1, <1>2 DEF TakesNext, NextPacket, LastOfSeries

LEMMA ReaderParsed ==
    ASSUME reader \in Readers, reader.buf.pkts # <<>>, ReaderParses
    PROVE  /\ reader' \in Readers /\ ~reader'.inside /\ reader'.empty = reader.empty
           /\ reader'.buf.pkts = reader.buf.pkts /\ Left(reader') = Tail(reader.buf.pkts)
<1>1. reader.buf.more \in BOOLEAN
  BY DEF Readers, RawReaders, Transfer
<1>2. reader' = ParsedReader(reader, reader.buf.more)
  BY DEF ReaderParses, ParsedReader, Readers, RawReaders
<1> QED
  BY <1>1, <1>2, ParseLeaves

\* RxSeries takes the first of the packets that are left.
LEMMA NextTaken ==
    ASSUME reader \in Readers, reader.count > 0, TakesNext
    PROVE  /\ reader' \in Readers /\ reader'.inside = reader.inside
           /\ reader'.empty = reader.empty /\ reader'.buf = reader.buf
           /\ Left(reader) # <<>> /\ Left(reader') = Tail(Left(reader))
           /\ NextPacket = Head(Left(reader)) /\ NextPacket \in Packet
<1> DEFINE r == reader
           q == reader'
           over == LastOfSeries
           idx == reader.idx + 1
           x == IF over THEN -1 ELSE idx
           c == IF over THEN 0 ELSE r.count
<1>1. /\ r.count \in Nat /\ r.idx \in Nat /\ r.buf.pkts \in Seq(Packet)
      /\ r.idx + 1 < r.count /\ r.count = Len(r.buf.pkts) /\ r \in RawReaders
      /\ r \in Readers /\ r.count > 0
  BY DEF Readers, RawReaders, Within, Transfer
<1>9. x \in Int /\ c \in Nat /\ q = [r EXCEPT !.idx = x, !.count = c]
  BY <1>1 DEF TakesNext
<1>10. over \in BOOLEAN /\ (over <=> idx + 1 >= r.count) /\ idx = r.idx + 1
       /\ NextPacket = r.buf.pkts[Position(idx)]
  BY DEF LastOfSeries, NextPacket
<1> HIDE DEF x, c, r, q, over, idx
<1>2. q \in RawReaders /\ q.buf = r.buf /\ q.inside = r.inside /\ q.empty = r.empty
      /\ q.idx = x /\ q.count = c
  BY <1>1, <1>9 DEF RawReaders
<1>3. q \in Readers
  <2>1. Within(x, c, r.buf.pkts)
    BY <1>1, <1>10 DEF Within, x, c
  <2> QED
    BY <1>2, <2>1 DEF Readers, RawReaders
<1>4. /\ Left(r) \in Seq(Packet) /\ Left(r) # <<>> /\ Len(Left(r)) = r.count - r.idx - 1
      /\ \A k \in 1 .. r.count - r.idx - 1 : Left(r)[k] = r.buf.pkts[r.idx + 1 + k]
  BY <1>1, LeftType
<1>5. NextPacket = Head(Left(r))
  <2>1. 1 \in 1 .. r.count - r.idx - 1 /\ Position(idx) = r.idx + 1 + 1
    BY <1>1, <1>10 DEF Position
  <2>2. Head(Left(r)) = Left(r)[1]
    BY <1>4
  <2> QED
    BY <1>4, <1>10, <2>1, <2>2
<1>6. /\ Head(Left(r)) \in Packet /\ Tail(Left(r)) \in Seq(Packet)
      /\ Len(Tail(Left(r))) = Len(Left(r)) - 1
      /\ \A k \in 1 .. Len(Left(r)) - 1 : Tail(Left(r))[k] = Left(r)[k + 1]
  BY <1>4, HeadTailProperties
<1>7. ASSUME over PROVE Left(q) = Tail(Left(r))
  <2>1. c = 0 /\ Len(Left(r)) = 1
    BY <1>1, <1>4, <1>7, <1>10 DEF c
  <2>2. Left(q) = <<>>
    BY <1>2, <2>1 DEF Left
  <2>3. Len(Tail(Left(r))) = 0
    BY <1>6, <2>1
  <2> QED
    BY <1>6, <2>2, <2>3, EmptySeq
<1>8. ASSUME ~over PROVE Left(q) = Tail(Left(r))
  <2>1. q.count = r.count /\ q.idx = r.idx + 1 /\ r.idx + 2 < r.count
    BY <1>1, <1>2, <1>8, <1>10 DEF x, c
  <2>2. q.count > 0 /\ q.count - q.idx - 1 = r.count - r.idx - 2 /\ q.idx + 1 = r.idx + 2
    BY <1>1, <2>1
  <2>3. /\ Left(q) \in Seq(Packet) /\ Len(Left(q)) = r.count - r.idx - 2
        /\ \A k \in 1 .. r.count - r.idx - 2 : Left(q)[k] = r.buf.pkts[r.idx + 2 + k]
    BY <1>2, <1>3, <2>2, LeftType
  <2>4. ASSUME NEW k \in 1 .. r.count - r.idx - 2
        PROVE  Left(q)[k] = Tail(Left(r))[k]
    <3>1. k \in Int /\ 1 <= k /\ k <= r.count - r.idx - 2
      BY <1>1
    <3>2. k + 1 \in 1 .. r.count - r.idx - 1 /\ k \in 1 .. r.count - r.idx - 1 - 1
      BY <1>1, <3>1
    <3>3. r.idx + 1 + (k + 1) = r.idx + 2 + k
      BY <1>1, <3>1
    <3>4. Tail(Left(r))[k] = r.buf.pkts[r.idx + 1 + (k + 1)]
      BY <1>4, <1>6, <3>2
    <3> QED
      BY <2>3, <3>3, <3>4
  <2>5. Len(Tail(Left(r))) = r.count - r.idx - 2
    BY <1>1, <1>4, <1>6
  <2> QED
    BY <1>6, <2>3, <2>4, <2>5, SeqEqual
<1>11. NextPacket \in Packet /\ Left(q) = Tail(Left(r))
  BY <1>5, <1>6, <1>7, <1>8, <1>10
<1> QED
  BY <1>2, <1>3, <1>4, <1>5, <1>11 DEF r, q

LEMMA ParseTypes == ASSUME TypeOK, RxParse PROVE TypeOK'
<1>1. reader \in Readers /\ reader.buf \in Transfer
  BY DEF TypeOK, Readers, RawReaders
<1>2. CASE /\ UNCHANGED <<hal, chip, last>> /\ (TransferFails \/ UNCHANGED used)
           /\ \E silent \in BOOLEAN : ReadsNothing(reader, silent)
  <2>1. Fault \/ UNCHANGED used
    BY <1>2 DEF TransferFails
  <2>2. UNCHANGED <<hal, chip, load, writer, rec, last>>
    BY <1>2 DEF RxParse
  <2> QED
    BY <1>1, <1>2, <2>1, <2>2, NothingReadTypes
<1>3. CASE /\ reader.buf.pkts # <<>>
           /\ ReaderParses
           /\ HandsUp(Head(reader.buf.pkts)) /\ Acknowledges(reader.buf.more)
           /\ UNCHANGED <<bus, signals, used, late>>
  <2>1. Head(reader.buf.pkts) \in Packet /\ reader.buf.more \in BOOLEAN
    BY <1>1, <1>3, TransferType
  <2>3. reader' \in Readers
    BY <1>1, <1>3, ReaderParsed
  <2> QED
    BY <1>3, <2>1, <2>3, HandsUpType, AcknowledgesType DEF TypeOK, RxParse
<1> QED
  BY <1>2, <1>3 DEF RxParse, ReaderParses

LEMMA SeriesTypes == ASSUME TypeOK, RxSeries PROVE TypeOK'
<1>1. reader \in Readers
  BY DEF TypeOK
<1>3. CASE UNCHANGED <<hal, chip, last>> /\ TransferFails /\ ReadsNothing(reader, FALSE)
  <2>1. Fault \/ UNCHANGED used
    BY <1>3 DEF TransferFails
  <2>2. UNCHANGED <<hal, chip, load, writer, rec, last>>
    BY <1>3 DEF RxSeries
  <2> QED
    BY <1>1, <1>3, <2>1, <2>2, NothingReadTypes
<1>4. CASE /\ TakesNext
           /\ HandsUp(NextPacket)
           /\ \E more \in BOOLEAN : Acknowledges(more)
           /\ UNCHANGED <<bus, signals, used, late>>
  <2>1. reader' \in Readers /\ NextPacket \in Packet
    BY <1>1, <1>4, NextTaken DEF RxSeries
  <2> QED
    BY <1>4, <2>1, HandsUpType, AcknowledgesType DEF TypeOK, RxSeries
<1> QED
  BY <1>3, <1>4, SeriesStep

\* The recovery.
LEMMA RecWritesTypes ==
    ASSUME TypeOK, NEW from, NEW to \in RecStates, NEW reset \in BOOLEAN,
           RecWrites(from, to, reset)
    PROVE  TypeOK'
<1>1. hal' \in Hals
  BY DEF TypeOK, RecWrites, Hals
<1>2. used' \in Uses
  BY FaultType DEF TypeOK, RecWrites, TransferFails
<1>3. chip' = chip \/ chip' = [chip EXCEPT !.reset = @ \/ reset]
  BY DEF RecWrites
<1>4. chip' \in Chips
  BY <1>3 DEF TypeOK, Chips
<1>5. bus' \in Buses /\ signals' \subseteq Threads /\ late' \in BOOLEAN
  <2>1. UNCHANGED <<bus, late, signals>> \/ Fails("rec")
    BY DEF RecWrites
  <2> QED
    BY <2>1, FailsType DEF TypeOK, Threads
<1>6. rec' \in RecStates
  BY DEF RecWrites, RecStep
<1> QED
  BY <1>1, <1>2, <1>4, <1>5, <1>6 DEF TypeOK, RecWrites

LEMMA OffType == Off \in Chips
<1>1. <<>> \in Seq(Transfer)
  BY EmptySeq
<1> QED
  BY <1>1 DEF Off, Chips, ChipStates

LEMMA RecoveryTypes == ASSUME TypeOK, Recovery PROVE TypeOK'
<1>1. CASE RecClears
  <2>1. reader' \in Readers
    <3>1. reader' \in RawReaders /\ reader'.count = 0
      BY <1>1 DEF TypeOK, RecClears, Readers, RawReaders
    <3> QED
      BY <3>1, NoSeries
  <2> QED
    BY <1>1, <2>1 DEF TypeOK, RecClears, RecStep, RecStates
<1>2. CASE RecPowersOff
  BY <1>2, OffType DEF TypeOK, RecPowersOff, RecStep, RecStates
<1>3. CASE RecFindsCard
  <2>1. used' \in Uses
    BY <1>3, FaultType DEF RecFindsCard
  <2>2. chip' = chip \/ chip' = [chip EXCEPT !.state = "waitFw"]
    BY <1>3 DEF RecFindsCard
  <2>3. chip' \in Chips
    BY <2>2 DEF TypeOK, Chips, ChipStates
  <2> QED
    BY <1>3, <2>1, <2>3 DEF TypeOK, RecFindsCard, RecStates
<1>4. CASE RecSpeedsUp
  <2>1. used' \in Uses
    BY <1>4, FaultType DEF RecSpeedsUp
  <2> QED
    BY <1>4, <2>1 DEF TypeOK, RecSpeedsUp, RecStates
<1>5. CASE RecInitsBus
  <2>1. used' \in Uses
    BY <1>5, FaultType DEF RecInitsBus
  <2>2. bus' \in Buses
    BY <1>5 DEF TypeOK, RecInitsBus, Buses
  <2> QED
    BY <1>5, <2>1, <2>2 DEF TypeOK, RecInitsBus, RecStep, RecStates
<1>6. CASE RecLoads
  <2>1. load' \in Loads
    BY <1>6 DEF TypeOK, RecLoads, LoadBegins, Loads, Stages
  <2> QED
    BY <1>6, <2>1 DEF TypeOK, RecLoads, RecStep, RecStates
<1>7. CASE RecResets
  BY <1>7, RecWritesTypes DEF RecResets, RecStates
<1>8. CASE RecReplays
  BY <1>8, RecWritesTypes DEF RecReplays, RecStates
<1>9. CASE RecEnds
  <2>1. hal' \in Hals
    BY <1>9 DEF TypeOK, RecEnds, Hals
  <2> QED
    BY <1>9, <2>1 DEF TypeOK, RecEnds, RecStep, RecStates
<1> QED
  BY <1>1, <1>2, <1>3, <1>4, <1>5, <1>6, <1>7, <1>8, <1>9 DEF Recovery

\* The firmware.
LEMMA FirmwareTypes ==
    ASSUME TypeOK, FwBoots \/ FwSends \/ FwInterrupts \/ FwDies
    PROVE  TypeOK'
<1>1. CASE FwBoots
  <2>1. chip' \in Chips
    BY <1>1 DEF TypeOK, FwBoots, Chips, ChipStates
  <2> QED
    BY <1>1, <2>1 DEF TypeOK, FwBoots
<1>2. CASE FwSends
  <2>1. PICK k \in 1 .. MaxTransfers : \E lens \in [1 .. k -> 1 .. MaxSeries] :
          chip' = [chip EXCEPT !.out = Burst(lens, chip.reset), !.notified = FALSE,
                               !.reset = FALSE]
    BY <1>2 DEF FwSends
  <2>2. used \in Uses /\ chip.reset \in BOOLEAN /\ chip \in Chips
    BY DEF TypeOK, Chips
  <2>3. PICK lens \in [1 .. k -> 1 .. MaxSeries] :
          chip' = [chip EXCEPT !.out = Burst(lens, chip.reset), !.notified = FALSE,
                               !.reset = FALSE]
    BY <2>1
  <2>4. chip' \in Chips
    <3>1. Burst(lens, chip.reset) \in Seq(Transfer)
      BY <2>2, BurstType
    <3> QED
      BY <2>2, <2>3, <3>1 DEF Chips
  <2>5. used' \in Uses
    <3>1. PICK m : /\ m \in {used.bursts, used.bursts + 1}
                   /\ used' = [used EXCEPT !.events = used.events + BurstSize, !.bursts = m]
      BY <1>2 DEF FwSends
    <3>2. m \in Nat /\ used.events + BurstSize \in Nat
      BY <2>2, <3>1, SdioLinkAssumption DEF Uses, BurstSize
    <3> QED
      BY <2>2, <3>1, <3>2 DEF Uses
  <2>6. reader' \in Readers
    <3>1. reader' = [reader EXCEPT !.wakes = @ + 1]
      BY <1>2 DEF FwSends
    <3> QED
      BY <3>1 DEF TypeOK, Readers, RawReaders
  <2> QED
    BY <1>2, <2>4, <2>5, <2>6 DEF TypeOK, FwSends
<1>3. CASE FwInterrupts
  <2>1. used' \in Uses
    BY <1>3, FaultType DEF FwInterrupts
  <2>2. reader' \in Readers
    BY <1>3 DEF TypeOK, FwInterrupts, Readers, RawReaders
  <2> QED
    BY <1>3, <2>1, <2>2 DEF TypeOK, FwInterrupts
<1>4. CASE FwDies
  <2>1. used' \in Uses
    BY <1>4, FaultType DEF FwDies
  <2> QED
    BY <1>4, <2>1, OffType DEF TypeOK, FwDies
<1> QED
  BY <1>1, <1>2, <1>3, <1>4

LEMMA InitTypes == Init => TypeOK
<1> SUFFICES ASSUME Init PROVE TypeOK
  OBVIOUS
<1>1. reader \in Readers
  <2>1. <<>> \in Seq(Packet)
    BY EmptySeq
  <2>2. [pkts |-> <<>>, more |-> FALSE] \in Transfer
    BY <2>1 DEF Transfer
  <2> QED
    BY <2>2 DEF Init, Idle, Readers, RawReaders, Within
<1>2. chip \in Chips /\ hal \in Hals /\ bus \in Buses
  BY OffType DEF Init, Hals, Buses
<1>3. load \in Loads /\ writer \in Writers /\ used \in Uses /\ last \in Lasts
  BY DEF Init, Loads, Stages, Writers, Uses, Lasts
<1> QED
  BY <1>1, <1>2, <1>3 DEF Init, TypeOK, RecStates

LEMMA StepTypes == TypeOK /\ [Next]_vars => TypeOK'
<1> SUFFICES ASSUME TypeOK, [Next]_vars PROVE TypeOK'
  OBVIOUS
<1>1. CASE UNCHANGED vars
  BY <1>1 DEF vars, TypeOK
<1>2. CASE Next
  BY <1>2, StartTypes, LoadTypes, WriteBeginsTypes, WriterTypes, FetchTypes, ParseTypes,
     SeriesTypes, RecoveryTypes, SignalTypes, FirmwareTypes DEF Next, Threads
<1> QED
  BY <1>1, <1>2

\* Every variable keeps its type: the bus, the chip, the download, the threads
\* and the recovery of the SDIO link.
THEOREM TypesCorrect == Spec => []TypeOK
  BY InitTypes, StepTypes, PTL DEF Spec

-----------------------------------------------------------------------------
(* Who is at work. The recovery runs while hal.processing, each bring-up has *)
(* its owner, and before the first bring-up has succeeded nobody reads or    *)
(* writes: rk915_start registers nothing before its download has returned.   *)

\* Nothing has used the link yet.
Untouched ==
    /\ rec = "idle" /\ signals = {} /\ ~bus.latched
    /\ writer.count = 0 /\ ~writer.busy
    /\ reader.wakes = 0 /\ ~reader.inside /\ reader.count = 0 /\ ~reader.more

PhaseInv ==
    /\ hal.processing <=> rec # "idle"
    /\ load.by = "rec" <=> rec = "load"
    /\ load.by = "none" <=> load.stage = "none"
    /\ load.by = "start" => ~hal.loaded
    /\ ~hal.loaded => Untouched
    /\ bus.loading <=> load.stage \in Downloads

\* The download past its last poll: the firmware is ready or has died since.
ReadyInv == load.stage \in {"clear", "init"} => chip.state \in {"ready", "off"}

\* After the recovery's reset nothing but old contents of the buffer can be
\* handed up over a bus that is latched.
LatchInv ==
    /\ LatchIsNoticed
    /\ rec = "wait" /\ bus.latched /\ ~late =>
         /\ hal.answered => hal.mistaken
         /\ reader.inside \/ reader.count > 0 => reader.empty
    /\ rec = "end" /\ bus.latched /\ ~late => hal.mistaken

-----------------------------------------------------------------------------
(* The order of the events.                                                  *)

\* The packets of s are numbered upwards, are all above m or at most m, or all
\* come before those of t.
Rising(s) == \A i, j \in DOMAIN s : i < j => s[i].n < s[j].n
Above(s, m) == \A i \in DOMAIN s : s[i].n > m
UpTo(s, m) == \A i \in DOMAIN s : s[i].n <= m
Before(s, t) == \A i \in DOMAIN s, j \in DOMAIN t : s[i].n < t[j].n

\* What the firmware still offers is above everything it has handed over, and
\* what the last read has put into the buffer is above what was handed up.
OrderInv ==
    /\ last.n <= used.events
    /\ UpTo(reader.buf.pkts, used.events) /\ UpTo(Left(reader), used.events)
    /\ Rising(reader.buf.pkts) /\ Rising(Left(reader))
    /\ \A i \in DOMAIN chip.out :
         /\ Rising(chip.out[i].pkts) /\ UpTo(chip.out[i].pkts, used.events)
         /\ Above(chip.out[i].pkts, last.n)
         /\ Before(reader.buf.pkts, chip.out[i].pkts)
         /\ Before(Left(reader), chip.out[i].pkts)
    /\ \A i, j \in DOMAIN chip.out : i < j => Before(chip.out[i].pkts, chip.out[j].pkts)
    /\ reader.inside => Left(reader) = <<>>
    /\ ~reader.empty => Above(Left(reader), last.n)
    /\ ~reader.empty /\ reader.inside => Above(reader.buf.pkts, last.n)

-----------------------------------------------------------------------------
(* The steps, seen from the phases.                                          *)

\* A transfer that may fail changes nothing but the bus, signals and late.
LEMMA FailureKeeps ==
    ASSUME TypeOK, NEW t \in Threads, Fails(t) \/ UNCHANGED <<bus, signals, late>>
    PROVE  /\ bus'.loading = bus.loading
           /\ bus'.latched /\ ~bus.latched => signals' # {}
           /\ signals \subseteq signals' /\ (late => late')
           /\ hal.processing /\ rec \notin Unready /\ bus'.latched /\ ~bus.latched => late'
  BY FailsType DEF Fails

LEMMA LoadPhase == ASSUME TypeOK, PhaseInv, Load PROVE PhaseInv'
<1>1. load \in Loads /\ bus \in Buses /\ hal \in Hals
  BY DEF TypeOK
<1>2. UNCHANGED <<reader, writer, signals>>
  BY DEF Load, LoadProbes, LoadReadsFiles, LoadFirmware, LoadPatch, LoadPollsPatch,
         LoadPollsReady, LoadWrites, LoadPolls, LoadClears, LoadInitsDevice, LoadFails
<1>3. load.stage # "none"
  BY DEF Load, LoadProbes, LoadReadsFiles, LoadFirmware, LoadPatch, LoadPollsPatch,
         LoadPollsReady, LoadWrites, LoadPolls, LoadClears, LoadInitsDevice, LoadFails,
         Loading, PhaseInv, Downloads
<1>4. ASSUME NEW ok \in BOOLEAN, NEW b \in Buses, LoadEnds(ok, b),
             b.latched => bus.latched
      PROVE  PhaseInv'
  <2>1. /\ load'.by = "none" /\ load'.stage = "none" /\ ~bus'.loading
        /\ bus'.latched => bus.latched
        /\ hal'.processing = hal.processing
        /\ hal'.loaded = IF load.by = "start" THEN ok ELSE hal.loaded
        /\ rec' = IF load.by = "start" THEN rec ELSE "up"
    BY <1>4, LoadEndsType
  <2>2. CASE load.by = "start"
    BY <1>2, <2>1, <2>2 DEF PhaseInv, Untouched, Downloads
  <2>3. CASE load.by # "start"
    <3>1. load.by = "rec" /\ hal.loaded /\ hal.processing
      BY <1>1, <1>3, <2>3 DEF PhaseInv, Untouched, Loads
    <3> QED
      BY <1>2, <2>1, <2>3, <3>1 DEF PhaseInv, Untouched, Downloads
  <2> QED
    BY <2>2, <2>3
<1>5. ASSUME load'.by = load.by, load'.stage # "none", UNCHANGED <<hal, rec>>,
             bus'.latched = bus.latched, bus'.loading <=> load'.stage \in Downloads
      PROVE  PhaseInv'
  BY <1>2, <1>3, <1>5 DEF PhaseInv, Untouched
<1>6. CASE LoadProbes
  <2>1. CASE LoadEnds(FALSE, bus)
    BY <1>1, <1>4, <2>1
  <2>2. CASE ~LoadEnds(FALSE, bus)
    <3>1. load'.by = load.by /\ load'.stage \in {"bus", "files"} /\ UNCHANGED <<hal, rec>>
          /\ bus'.latched = bus.latched /\ bus'.loading = bus.loading
      BY <1>1, <1>6, <2>2 DEF LoadProbes, Loading, Loads, Buses
    <3>2. ~bus.loading
      BY <1>6 DEF LoadProbes, Loading, PhaseInv, Downloads
    <3> QED
      BY <1>5, <3>1, <3>2 DEF Downloads
  <2> QED
    BY <2>1, <2>2
<1>7. CASE LoadReadsFiles
  <2>1. CASE LoadEnds(FALSE, bus)
    BY <1>1, <1>4, <2>1
  <2>2. CASE ~LoadEnds(FALSE, bus)
    <3>1. load'.by = load.by /\ load'.stage = "fw" /\ UNCHANGED <<hal, rec>>
          /\ bus'.latched = bus.latched /\ bus'.loading
      BY <1>1, <1>7, <2>2 DEF LoadReadsFiles, Loads, Buses
    <3> QED
      BY <1>5, <3>1 DEF Downloads
  <2> QED
    BY <2>1, <2>2
<1>8. ASSUME NEW from \in Downloads, NEW to \in Downloads, NEW before, NEW after,
             LoadWrites(from, to, before, after)
      PROVE  PhaseInv'
  <2>1. load.stage = from /\ load'.by = load.by /\ load'.stage = to
        /\ UNCHANGED <<bus, hal, rec>>
    BY <1>1, <1>8 DEF LoadWrites, Loading, Loads
  <2>2. bus.loading /\ to # "none"
    BY <2>1 DEF PhaseInv, Downloads
  <2> QED
    BY <1>5, <2>1, <2>2
<1>9. ASSUME NEW stage \in Downloads, NEW next \in Downloads, NEW reached,
             LoadPolls(stage, next, reached)
      PROVE  PhaseInv'
  <2>1. CASE LoadEnds(FALSE, bus)
    BY <1>1, <1>4, <2>1
  <2>2. CASE ~LoadEnds(FALSE, bus)
    <3>1. load.stage = stage /\ load'.by = load.by /\ load'.stage \in {stage, next}
          /\ UNCHANGED <<bus, hal, rec>>
      BY <1>1, <1>9, <2>2 DEF LoadPolls, Loading, Loads
    <3>2. bus.loading /\ load'.stage # "none" /\ load'.stage \in Downloads
      BY <3>1 DEF PhaseInv, Downloads
    <3> QED
      BY <1>5, <3>1, <3>2
  <2> QED
    BY <2>1, <2>2
<1>10. CASE LoadClears
  <2>1. load'.by = load.by /\ load'.stage = "init" /\ UNCHANGED <<hal, rec>>
        /\ bus'.latched = bus.latched /\ ~bus'.loading
    BY <1>1, <1>10 DEF LoadClears, Loads, Buses
  <2> QED
    BY <1>5, <2>1 DEF Downloads
<1>11. CASE LoadInitsDevice
  <2>1. PICK ok \in BOOLEAN : LoadEnds(ok, bus)
    BY <1>11 DEF LoadInitsDevice
  <2> QED
    BY <1>1, <1>4, <2>1
<1>12. CASE LoadFails
  BY <1>4, <1>12, IoResetType DEF LoadFails
<1>13. CASE LoadFirmware \/ LoadPatch
  BY <1>8, <1>13 DEF LoadFirmware, LoadPatch, Downloads
<1>14. CASE LoadPollsPatch \/ LoadPollsReady
  BY <1>9, <1>14 DEF LoadPollsPatch, LoadPollsReady, Downloads
<1> QED
  BY <1>6, <1>7, <1>10, <1>11, <1>12, <1>13, <1>14 DEF Load

LEMMA StartPhase == ASSUME TypeOK, PhaseInv, Start PROVE PhaseInv'
<1>1. load' = [load EXCEPT !.by = "start", !.stage = "bus", !.count = 0, !.ok = FALSE]
  BY DEF Start, LoadBegins
<1>2. load'.by = "start" /\ load'.stage = "bus"
  BY <1>1 DEF TypeOK, Loads
<1> QED
  BY <1>2 DEF PhaseInv, Untouched, Start, Downloads

LEMMA SignalPhase == ASSUME TypeOK, PhaseInv, NEW t \in Threads, Signal(t) PROVE PhaseInv'
<1>1. hal.loaded
  BY DEF Signal, PhaseInv, Untouched
<1>2. hal'.loaded
  BY <1>1 DEF Signal, TypeOK, Hals
<1>3. CASE bus.loading \/ hal.processing
  BY <1>1, <1>3 DEF Signal, PhaseInv
<1>4. CASE ~(bus.loading \/ hal.processing)
  <2>1. hal'.processing /\ rec' = "called" /\ UNCHANGED <<bus, load>> /\ rec = "idle"
    BY <1>4 DEF Signal, TypeOK, Hals, PhaseInv
  <2> QED
    BY <1>1, <1>2, <2>1 DEF PhaseInv
<1> QED
  BY <1>3, <1>4

\* The steps of the threads and the firmware leave the phases alone.
LEMMA QuietPhase ==
    ASSUME TypeOK, PhaseInv, UNCHANGED <<load, rec>>, bus'.loading = bus.loading,
           hal'.processing = hal.processing, hal'.loaded = hal.loaded,
           hal.loaded \/ Untouched'
    PROVE  PhaseInv'
  BY DEF PhaseInv

LEMMA WriterPhase == ASSUME TypeOK, PhaseInv, WriteBegins \/ Write PROVE PhaseInv'
<1>1. hal.loaded
  BY DEF WriteBegins, Write, PhaseInv, Untouched
<1>2. CASE WriteBegins
  BY <1>1, <1>2, QuietPhase DEF WriteBegins, TypeOK, Hals
<1>3. CASE Write
  <2>1. bus'.loading = bus.loading
    BY <1>3, FailureKeeps DEF Write, Threads
  <2> QED
    BY <1>1, <1>3, <2>1, QuietPhase DEF Write
<1> QED
  BY <1>2, <1>3

LEMMA ReaderPhase == ASSUME TypeOK, PhaseInv, RxFetch \/ RxParse \/ RxSeries PROVE PhaseInv'
<1>1. hal.loaded
  <2>1. CASE RxFetch
    BY <2>1 DEF RxFetch, MayRead, PhaseInv, Untouched
  <2>2. CASE RxParse
    <3>1. reader.inside
      BY <2>2 DEF RxParse
    <3> QED
      BY <3>1 DEF PhaseInv, Untouched
  <2>3. CASE RxSeries
    <3>1. reader.count > 0
      BY <2>3 DEF RxSeries
    <3> QED
      BY <3>1 DEF PhaseInv, Untouched
  <2> QED
    BY <2>1, <2>2, <2>3
<1>2. UNCHANGED <<load, rec>>
  BY DEF RxFetch, RxParse, RxSeries
<1>3. bus'.loading = bus.loading
  <2>1. Fails("reader") \/ UNCHANGED <<bus, signals, late>>
    BY DEF RxFetch, RxParse, RxSeries, ReadsNothing
  <2> QED
    BY <2>1, FailureKeeps DEF Threads
<1>4. hal'.processing = hal.processing /\ hal'.loaded = hal.loaded
  <2>1. hal' = hal \/ \E p : HandsUp(p)
    BY DEF RxFetch, RxParse, RxSeries
  <2> QED
    BY <2>1 DEF HandsUp, TypeOK, Hals
<1> QED
  BY <1>1, <1>2, <1>3, <1>4, QuietPhase

LEMMA RecoveryPhase == ASSUME TypeOK, PhaseInv, Recovery PROVE PhaseInv'
<1>1. hal.loaded /\ hal.processing
  BY DEF Recovery, RecClears, RecPowersOff, RecFindsCard, RecSpeedsUp, RecInitsBus, RecLoads,
         RecResets, RecReplays, RecWrites, RecEnds, RecStep, PhaseInv, Untouched
<1>2. load \in Loads /\ bus \in Buses /\ hal \in Hals
  BY DEF TypeOK
<1>3. CASE RecLoads
  <2>1. load' = [load EXCEPT !.by = "rec", !.stage = "files", !.count = 0, !.ok = FALSE]
        /\ rec = "bus" /\ rec' = "load" /\ UNCHANGED <<bus, hal>>
    BY <1>3 DEF RecLoads, LoadBegins, RecStep
  <2>2. load'.by = "rec" /\ load'.stage = "files"
    BY <1>2, <2>1 DEF Loads
  <2>3. load.by = "none"
    BY <1>1, <1>2, <2>1 DEF PhaseInv, Loads
  <2> QED
    BY <1>1, <2>1, <2>2, <2>3 DEF PhaseInv, Downloads
<1>4. CASE RecEnds
  <2>1. ~hal'.processing /\ hal'.loaded /\ rec = "end" /\ rec' = "idle" /\ UNCHANGED <<bus, load>>
    BY <1>1, <1>2, <1>4 DEF RecEnds, RecStep, Hals
  <2> QED
    BY <1>1, <2>1 DEF PhaseInv
<1>5. CASE ~RecLoads /\ ~RecEnds
  <2>1. rec \notin {"idle", "load"} /\ rec' \notin {"idle", "load"} /\ UNCHANGED load
    BY <1>5 DEF Recovery, RecClears, RecPowersOff, RecFindsCard, RecSpeedsUp, RecInitsBus,
         RecResets, RecReplays, RecWrites, RecStep
  <2>2. hal'.processing /\ hal'.loaded
    BY <1>1, <1>2, <1>5 DEF Recovery, RecClears, RecPowersOff, RecFindsCard, RecSpeedsUp,
       RecInitsBus, RecResets, RecReplays, RecWrites, RecStep, Hals
  <2>3. bus'.loading = bus.loading
    <3>1. CASE RecInitsBus
      BY <1>2, <3>1 DEF RecInitsBus, Buses
    <3>2. CASE RecResets \/ RecReplays
      <4>1. Fails("rec") \/ UNCHANGED <<bus, signals, late>>
        BY <3>2 DEF RecResets, RecReplays, RecWrites
      <4> QED
        BY <4>1, FailureKeeps DEF Threads
    <3>3. CASE RecClears \/ RecPowersOff \/ RecFindsCard \/ RecSpeedsUp
      BY <3>3 DEF RecClears, RecPowersOff, RecFindsCard, RecSpeedsUp
    <3> QED
      BY <1>5, <3>1, <3>2, <3>3 DEF Recovery
  <2> QED
    BY <1>1, <2>1, <2>2, <2>3 DEF PhaseInv
<1> QED
  BY <1>3, <1>4, <1>5

LEMMA FirmwarePhase ==
    ASSUME TypeOK, PhaseInv, FwBoots \/ FwSends \/ FwInterrupts \/ FwDies
    PROVE  PhaseInv'
<1>1. UNCHANGED <<bus, hal, load, writer, rec, signals>>
  BY DEF FwBoots, FwSends, FwInterrupts, FwDies
<1>2. UNCHANGED reader \/ writer.count > 0
  BY DEF FwBoots, FwSends, FwInterrupts, FwDies
<1>3. hal.loaded \/ (Untouched /\ UNCHANGED reader)
  BY <1>2 DEF PhaseInv, Untouched
<1> QED
  BY <1>1, <1>3 DEF PhaseInv, Untouched

LEMMA StepPhase == TypeOK /\ PhaseInv /\ [Next]_vars => PhaseInv'
<1> SUFFICES ASSUME TypeOK, PhaseInv, [Next]_vars PROVE PhaseInv'
  OBVIOUS
<1>1. CASE UNCHANGED vars
  BY <1>1 DEF vars, PhaseInv, Untouched
<1>2. CASE Next
  BY <1>2, StartPhase, LoadPhase, WriterPhase, ReaderPhase, RecoveryPhase, SignalPhase,
     FirmwarePhase DEF Next, Threads
<1> QED
  BY <1>1, <1>2

-----------------------------------------------------------------------------
(* What a successful download leaves behind.                                 *)

\* rk915_download compares the codes of the states.
LEMMA RankIsCode ==
    ASSUME NEW state \in ChipStates
    PROVE  /\ Rank(state) \in 1 .. 6
           /\ <<"off", "waitFw", "boot", "waitPatch", "patched", "ready">>[Rank(state)] = state
<1> DEFINE Codes == <<"off", "waitFw", "boot", "waitPatch", "patched", "ready">>
<1>1. \E i \in 1 .. 6 : Codes[i] = state
  <2>1. /\ Codes[1] = "off" /\ Codes[2] = "waitFw" /\ Codes[3] = "boot"
        /\ Codes[4] = "waitPatch" /\ Codes[5] = "patched" /\ Codes[6] = "ready"
    OBVIOUS
  <2>2. {1, 2, 3, 4, 5, 6} \subseteq 1 .. 6
    OBVIOUS
  <2> QED
    BY <2>1, <2>2 DEF ChipStates
<1>2. Rank(state) = CHOOSE i \in 1 .. 6 : Codes[i] = state
  BY DEF Rank
<1> HIDE DEF Codes
<1>3. Rank(state) \in 1 .. 6 /\ Codes[Rank(state)] = state
  BY <1>1, <1>2
<1> QED
  BY <1>3 DEF Codes

LEMMA RankOfReady ==
    ASSUME NEW state \in ChipStates, Rank(state) >= Rank("ready")
    PROVE  state = "ready"
<1>1. "ready" \in ChipStates
  BY DEF ChipStates
<1>2. Rank("ready") \in 1 .. 6
      /\ <<"off", "waitFw", "boot", "waitPatch", "patched", "ready">>[Rank("ready")] = "ready"
  BY <1>1, RankIsCode
<1>3. Rank("ready") = 6
  BY <1>2
<1>4. Rank(state) \in 1 .. 6
      /\ <<"off", "waitFw", "boot", "waitPatch", "patched", "ready">>[Rank(state)] = state
  BY RankIsCode
<1>5. Rank(state) = 6
  BY <1>3, <1>4
<1> QED
  BY <1>4, <1>5

\* A poll that has used up its turns gives the download up; it never goes on.
LEMMA LastPollGivesUp ==
    ASSUME NEW count \in Nat, count > MaxRetry
    PROVE  GivesUp(count + 1)
  BY SdioLinkAssumption DEF GivesUp

\* Only a poll that has seen its state ends the poll loop well.
LEMMA PollsSee ==
    ASSUME TypeOK, NEW stage, NEW next, NEW reached, LoadPolls(stage, next, reached)
    PROVE  \/ LoadEnds(FALSE, bus)
           \/ load' = [load EXCEPT !.stage = next] /\ reached
           \/ load' = [load EXCEPT !.count = @ + 1]
<1>1. load.count \in Nat
  BY DEF TypeOK, Loads
<1>2. load.count > MaxRetry => GivesUp(load.count + 1)
  BY <1>1, LastPollGivesUp
<1> QED
  BY <1>2 DEF LoadPolls

\* The bring-up leads past its last poll only with the firmware ready.
LEMMA LoadReady == ASSUME TypeOK, ReadyInv, Load PROVE ReadyInv'
<1>1. load \in Loads /\ bus \in Buses /\ chip \in Chips
  BY DEF TypeOK
<1>2. ASSUME NEW ok \in BOOLEAN, NEW b \in Buses, LoadEnds(ok, b) PROVE ReadyInv'
  BY <1>2, LoadEndsType DEF ReadyInv
<1>3. ASSUME load'.stage \notin {"clear", "init"} PROVE ReadyInv'
  BY <1>3 DEF ReadyInv
<1>4. CASE LoadProbes
  <2>1. CASE LoadEnds(FALSE, bus)
    BY <1>1, <1>2, <2>1
  <2>2. CASE ~LoadEnds(FALSE, bus)
    <3>1. load'.stage \in {"bus", "files"}
      BY <1>1, <1>4, <2>2 DEF LoadProbes, Loading, Loads
    <3> QED
      BY <1>3, <3>1
  <2> QED
    BY <2>1, <2>2
<1>5. CASE LoadReadsFiles
  <2>1. CASE LoadEnds(FALSE, bus)
    BY <1>1, <1>2, <2>1
  <2>2. CASE ~LoadEnds(FALSE, bus)
    <3>1. load'.stage = "fw"
      BY <1>1, <1>5, <2>2 DEF LoadReadsFiles, Loads
    <3> QED
      BY <1>3, <3>1
  <2> QED
    BY <2>1, <2>2
<1>6. CASE LoadFirmware \/ LoadPatch
  <2>1. load'.stage \in {"pollPatch", "pollReady"}
    BY <1>1, <1>6 DEF LoadFirmware, LoadPatch, LoadWrites, Loads
  <2> QED
    BY <1>3, <2>1
<1>7. CASE LoadPollsPatch
  <2>1. CASE LoadEnds(FALSE, bus)
    BY <1>1, <1>2, <2>1
  <2>2. CASE ~LoadEnds(FALSE, bus)
    <3>1. load.stage = "pollPatch" /\ (\/ load' = [load EXCEPT !.stage = "patch"]
                                       \/ load' = [load EXCEPT !.count = @ + 1])
      BY <1>7, <2>2, PollsSee DEF LoadPollsPatch, LoadPolls, Loading
    <3>2. load'.stage \in {"pollPatch", "patch"}
      BY <1>1, <3>1 DEF Loads
    <3> QED
      BY <1>3, <3>2
  <2> QED
    BY <2>1, <2>2
<1>8. CASE LoadPollsReady
  <2>1. CASE LoadEnds(FALSE, bus)
    BY <1>1, <1>2, <2>1
  <2>2. CASE load' = [load EXCEPT !.count = @ + 1]
    <3>1. load.stage = "pollReady"
      BY <1>8 DEF LoadPollsReady, LoadPolls, Loading
    <3>2. load'.stage = "pollReady"
      BY <1>1, <2>2, <3>1 DEF Loads
    <3> QED
      BY <1>3, <3>2
  <2>3. CASE Rank(chip.state) >= Rank("ready")
    <3>1. chip.state = "ready" /\ chip' = chip
      BY <1>1, <1>8, <2>3, RankOfReady DEF Chips, LoadPollsReady, LoadPolls
    <3> QED
      BY <3>1 DEF ReadyInv
  <2> QED
    BY <1>8, <2>1, <2>2, <2>3, PollsSee DEF LoadPollsReady
<1>9. CASE LoadClears
  <2>1. load.stage = "clear" /\ chip' = chip
    BY <1>9 DEF LoadClears, Loading
  <2> QED
    BY <2>1 DEF ReadyInv
<1>10. CASE LoadInitsDevice \/ LoadFails
  <2>1. bus \in Buses /\ IoReset(bus) \in Buses
    BY <1>1, IoResetType
  <2> QED
    BY <1>2, <1>10, <2>1 DEF LoadInitsDevice, LoadFails
<1> QED
  BY <1>4, <1>5, <1>6, <1>7, <1>8, <1>9, <1>10 DEF Load

\* Whatever happens outside the bring-up leaves a firmware that is ready ready
\* or dead, as long as the recovery waits for its bring-up.
LEMMA StepReady == TypeOK /\ PhaseInv /\ ReadyInv /\ [Next]_vars => ReadyInv'
<1> SUFFICES ASSUME TypeOK, PhaseInv, ReadyInv, [Next]_vars PROVE ReadyInv'
  OBVIOUS
<1>1. chip \in Chips /\ load \in Loads
  BY DEF TypeOK
<1>2. ASSUME UNCHANGED load, chip'.state = chip.state \/ chip'.state = "off" PROVE ReadyInv'
  BY <1>2 DEF ReadyInv
<1>3. CASE UNCHANGED vars
  BY <1>2, <1>3 DEF vars
<1>4. CASE Start
  <2>1. load' = [load EXCEPT !.by = "start", !.stage = "bus", !.count = 0, !.ok = FALSE]
    BY <1>4 DEF Start, LoadBegins
  <2>2. load'.stage = "bus"
    BY <1>1, <2>1 DEF Loads
  <2> QED
    BY <2>2 DEF ReadyInv
<1>5. CASE WriteBegins \/ \E t \in Threads : Signal(t)
  BY <1>2, <1>5 DEF WriteBegins, Signal
<1>6. CASE Write
  <2>1. chip' = chip \/ chip' = [chip EXCEPT !.reset = @ \/ writer.reset]
    BY <1>6 DEF Write
  <2> QED
    BY <1>1, <1>2, <1>6, <2>1 DEF Write, Chips
<1>7. CASE RxFetch \/ RxParse \/ RxSeries
  <2>1. \/ chip' = chip \/ chip' = [chip EXCEPT !.out = Tail(@)]
        \/ chip' = [chip EXCEPT !.notified = TRUE]
    BY <1>7 DEF RxFetch, RxParse, RxSeries, Acknowledges
  <2>2. UNCHANGED load
    BY <1>7 DEF RxFetch, RxParse, RxSeries
  <2> QED
    BY <1>1, <1>2, <2>1, <2>2 DEF Chips
<1>8. CASE RecLoads
  <2>1. load' = [load EXCEPT !.by = "rec", !.stage = "files", !.count = 0, !.ok = FALSE]
    BY <1>8 DEF RecLoads, LoadBegins
  <2>2. load'.stage = "files"
    BY <1>1, <2>1 DEF Loads
  <2> QED
    BY <2>2 DEF ReadyInv
<1>9. CASE RecFindsCard
  <2>1. load.stage = "none"
    BY <1>1, <1>9 DEF RecFindsCard, PhaseInv, Untouched, Loads
  <2> QED
    BY <1>9, <2>1 DEF RecFindsCard, ReadyInv
<1>10. CASE RecResets \/ RecReplays
  <2>1. \/ chip' = chip \/ \E reset : chip' = [chip EXCEPT !.reset = @ \/ reset]
    BY <1>10 DEF RecResets, RecReplays, RecWrites
  <2>2. UNCHANGED load
    BY <1>10 DEF RecResets, RecReplays, RecWrites
  <2> QED
    BY <1>1, <1>2, <2>1, <2>2 DEF Chips
<1>11. CASE RecClears \/ RecSpeedsUp \/ RecInitsBus \/ RecEnds
  BY <1>2, <1>11 DEF RecClears, RecSpeedsUp, RecInitsBus, RecEnds
<1>12. CASE RecPowersOff \/ FwDies
  BY <1>2, <1>12 DEF RecPowersOff, FwDies, Off
<1>13. CASE FwBoots
  <2>1. chip.state \in {"boot", "patched"} /\ load' = load
    BY <1>13 DEF FwBoots
  <2> QED
    BY <2>1 DEF ReadyInv
<1>14. CASE FwSends
  <2>1. PICK b : chip' = [chip EXCEPT !.out = b, !.notified = FALSE, !.reset = FALSE]
    BY <1>14 DEF FwSends
  <2> QED
    BY <1>1, <1>2, <1>14, <2>1 DEF FwSends, Chips
<1>15. CASE FwInterrupts
  BY <1>2, <1>15 DEF FwInterrupts
<1>16. CASE Load
  BY <1>16, LoadReady
<1> QED
  BY <1>3, <1>4, <1>5, <1>6, <1>7, <1>8, <1>9, <1>10, <1>11, <1>12, <1>13, <1>14, <1>15, <1>16
     DEF Next, Recovery, Threads

\* The types, the phases and the readiness together.
LinkInv == TypeOK /\ PhaseInv /\ ReadyInv

LEMMA InitLink == Init => LinkInv
<1> SUFFICES ASSUME Init PROVE LinkInv
  OBVIOUS
<1>1. PhaseInv
  BY DEF Init, PhaseInv, Untouched, Idle, Downloads
<1>2. ReadyInv
  BY DEF Init, ReadyInv
<1> QED
  BY <1>1, <1>2, InitTypes DEF LinkInv

LEMMA SpecLinkInv == Spec => []LinkInv
<1>1. LinkInv /\ [Next]_vars => LinkInv'
  BY StepTypes, StepPhase, StepReady DEF LinkInv
<1> QED
  BY <1>1, InitLink, PTL DEF Spec

LEMMA StepLoadsReady ==
    LinkInv /\ [Next]_vars => (load'.ok /\ ~load.ok => chip.state = "ready")
<1> SUFFICES ASSUME LinkInv, [Next]_vars, load'.ok, ~load.ok
             PROVE  chip.state = "ready"
  OBVIOUS
<1>1. TypeOK /\ load \in Loads /\ bus \in Buses
  BY DEF LinkInv, TypeOK
<1>2. load' # load
  OBVIOUS
<1>3. Start \/ Load \/ RecLoads
  BY <1>2 DEF vars, Next, WriteBegins, Write, RxFetch, RxParse, RxSeries, Recovery, RecClears,
     RecPowersOff, RecFindsCard, RecSpeedsUp, RecInitsBus, RecResets, RecReplays, RecWrites,
     RecEnds, Signal, FwBoots, FwSends, FwInterrupts, FwDies
<1>4. ~(Start \/ RecLoads)
  <2>1. ASSUME NEW by, NEW stage, LoadBegins(by, stage) PROVE ~load'.ok
    BY <1>1, <2>1 DEF LoadBegins, Loads
  <2> QED
    BY <2>1 DEF Start, RecLoads
<1>5. \A b \in Buses : ~LoadEnds(FALSE, b)
  BY <1>1, LoadEndsType
<1>6. bus \in Buses /\ IoReset(bus) \in Buses
  BY <1>1, IoResetType
<1>7. ~(LoadProbes \/ LoadReadsFiles \/ LoadClears \/ LoadFails)
  BY <1>1, <1>5, <1>6 DEF LoadProbes, LoadReadsFiles, LoadClears, LoadFails, Loads
<1>8. ~(LoadFirmware \/ LoadPatch)
  BY <1>1 DEF LoadFirmware, LoadPatch, LoadWrites, Loads
<1>9. ~(LoadPollsPatch \/ LoadPollsReady)
  <2>1. ASSUME NEW stage, NEW next, NEW reached, LoadPolls(stage, next, reached)
        PROVE  FALSE
    BY <1>1, <1>5, <2>1, PollsSee DEF Loads
  <2> QED
    BY <2>1 DEF LoadPollsPatch, LoadPollsReady
<1>10. LoadInitsDevice
  BY <1>3, <1>4, <1>7, <1>8, <1>9 DEF Load
<1> QED
  BY <1>5, <1>6, <1>10 DEF LoadInitsDevice, Loading, LinkInv, ReadyInv, Works

\* A download that reports success leaves a firmware that is ready, whatever
\* the number of polls and scans: rk915_download never takes giving up for
\* success, nor what it reads from a silent link for the firmware's state.
THEOREM LoadedMeansReady == Spec => LoadedIsReady
<1>1. LinkInv /\ [Next]_vars => [load'.ok /\ ~load.ok => chip.state = "ready"]_vars
  BY StepLoadsReady
<1> QED
  BY <1>1, SpecLinkInv, PTL DEF Spec, LoadedIsReady

-----------------------------------------------------------------------------
(* A link that is latched is noticed.                                        *)

\* Steps that leave the bus and the recovery alone, or fail in a thread.
LEMMA QuietLatch ==
    ASSUME TypeOK, LatchInv, UNCHANGED <<rec, hal>>,
           UNCHANGED <<bus, signals, late>> \/ \E t \in Threads : Fails(t),
           reader'.inside => reader.inside, reader'.count > 0 => reader.count > 0,
           reader'.empty = reader.empty, hal.processing <=> rec # "idle"
    PROVE  LatchInv'
<1>1. PICK t \in Threads : Fails(t) \/ UNCHANGED <<bus, signals, late>>
  BY DEF Threads
<1>2. /\ bus'.latched /\ ~bus.latched => signals' # {}
      /\ signals \subseteq signals' /\ (late => late')
      /\ hal.processing /\ rec \notin Unready /\ bus'.latched /\ ~bus.latched => late'
  BY <1>1, FailureKeeps
<1>3. LatchIsNoticed'
  BY <1>2 DEF LatchInv, LatchIsNoticed
<1>4. rec \in {"wait", "end"} /\ bus'.latched /\ ~late' => bus.latched /\ ~late
  BY <1>2 DEF Unready
<1> QED
  BY <1>3, <1>4 DEF LatchInv

LEMMA LoadLatch == ASSUME TypeOK, PhaseInv, LatchInv, Load PROVE LatchInv'
<1>1. load \in Loads /\ bus \in Buses /\ hal \in Hals
  BY DEF TypeOK
<1>2. UNCHANGED <<reader, signals, late>>
  BY DEF Load, LoadProbes, LoadReadsFiles, LoadFirmware, LoadPatch, LoadPollsPatch,
         LoadPollsReady, LoadWrites, LoadPolls, LoadClears, LoadInitsDevice, LoadFails
<1>3. \/ \E ok \in BOOLEAN : LoadEnds(ok, bus)
      \/ LoadEnds(FALSE, IoReset(bus)) /\ bus.loading
      \/ UNCHANGED <<hal, rec>> /\ \/ bus' = bus \/ bus' = [bus EXCEPT !.init = TRUE]
                                   \/ \E x \in BOOLEAN : bus' = [bus EXCEPT !.loading = x]
  BY DEF Load, LoadProbes, LoadReadsFiles, LoadFirmware, LoadPatch, LoadPollsPatch,
         LoadPollsReady, LoadWrites, LoadPolls, LoadClears, LoadInitsDevice, LoadFails
<1>4. bus'.latched = bus.latched
  <2>1. CASE \E ok \in BOOLEAN : LoadEnds(ok, bus)
    BY <1>1, <2>1, LoadEndsType
  <2>2. CASE LoadEnds(FALSE, IoReset(bus)) /\ bus.loading
    BY <2>2, IoResetType, LoadEndsType
  <2> QED
    BY <1>1, <1>3, <2>1, <2>2 DEF Buses
<1>5. /\ hal'.processing = hal.processing /\ hal'.answered = hal.answered
      /\ hal'.mistaken = hal.mistaken
      /\ rec' = rec \/ rec' = "up"
  <2>1. bus \in Buses /\ IoReset(bus) \in Buses
    BY <1>1, IoResetType
  <2> QED
    BY <1>3, <2>1, LoadEndsType
<1> QED
  BY <1>2, <1>4, <1>5 DEF LatchInv, LatchIsNoticed

\* A thread signals an error, and a recovery begins unless one is going on:
\* nobody signals during the first download.
LEMMA SignalLatch ==
    ASSUME TypeOK, PhaseInv, LatchInv, NEW t \in Threads, Signal(t)
    PROVE  LatchInv'
<1>1. hal.loaded
  BY DEF Signal, PhaseInv, Untouched
<1>2. UNCHANGED <<bus, reader, late>>
  BY DEF Signal
<1>3. CASE hal.processing
  BY <1>2, <1>3 DEF Signal, LatchInv, LatchIsNoticed
<1>4. CASE ~hal.processing
  <2>1. ~bus.loading
    BY <1>1, <1>4 DEF PhaseInv, Downloads, TypeOK, Loads
  <2>2. hal'.processing /\ rec' = "called"
    BY <1>4, <2>1 DEF Signal, TypeOK, Hals
  <2> QED
    BY <2>2 DEF LatchInv, LatchIsNoticed
<1> QED
  BY <1>3, <1>4

\* What rx_thread hands up in the recovery's wait over a latched bus comes from
\* the old contents of its buffer, and so does an answer.
LEMMA HandsUpLatch ==
    ASSUME TypeOK, PhaseInv, LatchInv, NEW p \in Packet, HandsUp(p),
           UNCHANGED <<bus, signals, late, rec>>,
           reader.inside \/ reader.count > 0,
           reader'.empty = reader.empty
    PROVE  LatchInv'
<1>1. /\ hal'.processing = hal.processing /\ (hal.mistaken => hal'.mistaken)
      /\ hal'.answered => hal.answered \/ ~reader.empty \/ hal'.mistaken
  BY HandsUpType
<1> QED
  BY <1>1 DEF LatchInv, LatchIsNoticed

LEMMA ReaderLatch ==
    ASSUME TypeOK, PhaseInv, LatchInv, RxFetch \/ RxParse \/ RxSeries
    PROVE  LatchInv'
<1>1. reader \in Readers /\ UNCHANGED rec /\ (hal.processing <=> rec # "idle")
  BY DEF TypeOK, RxFetch, RxParse, RxSeries, PhaseInv
<1>2. ASSUME NEW silent \in BOOLEAN, NEW r \in Readers, ReadsNothing(r, silent),
             r.empty = reader.empty, UNCHANGED hal
      PROVE  LatchInv'
  <2>1. /\ ~reader'.inside /\ reader'.count = 0 /\ reader'.empty = reader.empty
        /\ UNCHANGED <<bus, signals, late>> \/ Fails("reader")
    BY <1>2, ReadsNothingType
  <2> QED
    BY <1>1, <1>2, <2>1, QuietLatch DEF Threads
<1>3. CASE RxFetch
  <2>1. Woken \in Readers /\ Woken.empty = reader.empty /\ Woken.count = reader.count
        /\ Woken.inside = reader.inside
    BY <1>3, WokenType DEF RxFetch
  <2>2. UNCHANGED hal /\ (~hal.resetDone) \in BOOLEAN
    BY <1>3 DEF RxFetch
  <2>3. CASE ReadsNothing(Woken, ~hal.resetDone)
    BY <1>2, <2>1, <2>2, <2>3
  <2>4. CASE reader' = [Woken EXCEPT !.inside = TRUE, !.empty = TRUE]
             /\ UNCHANGED <<bus, signals, late>>
    <3>1. reader'.empty
      BY <2>1, <2>4 DEF Readers, RawReaders
    <3> QED
      BY <1>1, <2>2, <2>4, <3>1 DEF LatchInv, LatchIsNoticed
  <2>5. CASE ~bus.latched /\ UNCHANGED <<bus, signals, late>>
    BY <1>1, <2>2, <2>5 DEF LatchInv, LatchIsNoticed
  <2> QED
    BY <1>3, <2>3, <2>4, <2>5 DEF RxFetch
<1>4. CASE RxParse
  <2>1. CASE UNCHANGED hal /\ \E silent \in BOOLEAN : ReadsNothing(reader, silent)
    BY <1>1, <1>2, <2>1
  <2>2. CASE /\ reader.buf.pkts # <<>>
             /\ ReaderParses
             /\ HandsUp(Head(reader.buf.pkts))
             /\ UNCHANGED <<bus, signals, late>>
    <3>1. Head(reader.buf.pkts) \in Packet
      BY <1>1, <2>2, TransferType DEF Readers, RawReaders
    <3>2. reader'.empty = reader.empty /\ reader.inside
      BY <1>1, <1>4, <2>2, ReaderParsed DEF RxParse
    <3> QED
      BY <1>1, <2>2, <3>1, <3>2, HandsUpLatch
  <2> QED
    BY <1>4, <2>1, <2>2 DEF RxParse, ReaderParses
<1>5. CASE RxSeries
  <2>1. CASE UNCHANGED hal /\ ReadsNothing(reader, FALSE)
    BY <1>1, <1>2, <2>1
  <2>2. CASE /\ TakesNext
             /\ HandsUp(NextPacket)
             /\ UNCHANGED <<bus, signals, late>>
    <3>1. reader.count > 0
      BY <1>5 DEF RxSeries
    <3>2. reader'.empty = reader.empty /\ NextPacket \in Packet
      BY <1>1, <2>2, <3>1, NextTaken
    <3> QED
      BY <1>1, <2>2, <3>1, <3>2, HandsUpLatch
  <2> QED
    BY <1>5, <2>1, <2>2, SeriesStep
<1> QED
  BY <1>3, <1>4, <1>5

LEMMA RecoveryLatch == ASSUME TypeOK, PhaseInv, LatchInv, Recovery PROVE LatchInv'
<1>1. hal \in Hals /\ bus \in Buses /\ hal.processing
  BY DEF TypeOK, Recovery, RecClears, RecPowersOff, RecFindsCard, RecSpeedsUp, RecInitsBus,
         RecLoads, RecResets, RecReplays, RecWrites, RecEnds, RecStep, PhaseInv
<1>2. CASE RecClears \/ RecPowersOff \/ RecFindsCard \/ RecSpeedsUp \/ RecInitsBus \/ RecLoads
  <2>1. rec' \notin {"wait", "end"} /\ UNCHANGED <<hal, signals>>
    BY <1>2 DEF RecClears, RecPowersOff, RecFindsCard, RecSpeedsUp, RecInitsBus, RecLoads,
       RecStep
  <2> QED
    BY <1>1, <2>1 DEF LatchInv, LatchIsNoticed
<1>3. ASSUME NEW from, NEW to, NEW reset \in BOOLEAN, RecWrites(from, to, reset)
      PROVE  /\ rec = from /\ rec' = to /\ hal'.processing /\ UNCHANGED reader
             /\ hal'.answered <=> hal.answered /\ ~reset
             /\ hal'.mistaken = hal.mistaken
             /\ from \notin Unready /\ bus'.latched /\ ~bus.latched => late'
             /\ late => late'
  <2>1. Fails("rec") \/ UNCHANGED <<bus, signals, late>>
    BY <1>3 DEF RecWrites
  <2>2. /\ hal.processing /\ rec \notin Unready /\ bus'.latched /\ ~bus.latched => late'
        /\ late => late'
    BY <2>1, FailureKeeps DEF Threads
  <2>3. hal'.processing /\ (hal'.answered <=> hal.answered /\ ~reset)
        /\ hal'.mistaken = hal.mistaken
    BY <1>1, <1>3 DEF RecWrites, Hals
  <2> QED
    BY <1>1, <1>3, <2>2, <2>3 DEF RecWrites, RecStep
<1>4. CASE RecResets
  <2>1. /\ rec' = "wait" /\ hal'.processing /\ ~hal'.answered /\ UNCHANGED reader
        /\ ReaderDone
    BY <1>3, <1>4 DEF RecResets
  <2> QED
    BY <2>1 DEF LatchInv, LatchIsNoticed, ReaderDone
<1>5. CASE RecReplays
  <2>1. /\ rec = "wait" /\ rec' = "end" /\ hal'.processing /\ hal.answered
        /\ hal'.mistaken = hal.mistaken /\ (late => late')
        /\ bus'.latched /\ ~bus.latched => late'
    <3>1. RecWrites("wait", "end", FALSE) /\ hal.answered
      BY <1>5 DEF RecReplays
    <3>2. "wait" \notin Unready
      BY DEF Unready
    <3> QED
      BY <1>3, <3>1, <3>2
  <2> QED
    BY <2>1 DEF LatchInv, LatchIsNoticed
<1>6. CASE RecEnds
  <2>1. rec = "end" /\ rec' = "idle" /\ UNCHANGED <<bus, late>> /\ hal'.mistaken = hal.mistaken
    BY <1>1, <1>6 DEF RecEnds, RecStep, Hals
  <2> QED
    BY <2>1 DEF LatchInv, LatchIsNoticed
<1> QED
  BY <1>2, <1>4, <1>5, <1>6 DEF Recovery

LEMMA StepLatch == TypeOK /\ PhaseInv /\ LatchInv /\ [Next]_vars => LatchInv'
<1> SUFFICES ASSUME TypeOK, PhaseInv, LatchInv, [Next]_vars PROVE LatchInv'
  OBVIOUS
<1>1. hal \in Hals /\ reader \in Readers /\ (hal.processing <=> rec # "idle")
  BY DEF TypeOK, PhaseInv
<1>2. CASE UNCHANGED vars \/ Start \/ FwBoots \/ FwDies
  BY <1>1, <1>2, QuietLatch DEF vars, Start, FwBoots, FwDies
<1>3. CASE WriteBegins
  <2>1. /\ hal'.processing = hal.processing /\ hal'.answered = hal.answered
        /\ hal'.mistaken = hal.mistaken /\ UNCHANGED <<bus, reader, rec, signals, late>>
    BY <1>1, <1>3 DEF WriteBegins, Hals
  <2> QED
    BY <2>1 DEF LatchInv, LatchIsNoticed
<1>4. CASE Write
  <2>1. UNCHANGED <<hal, rec, reader>>
        /\ (Fails("writer") \/ UNCHANGED <<bus, signals, late>>)
    BY <1>4 DEF Write
  <2> QED
    BY <1>1, <2>1, QuietLatch DEF Threads
<1>5. CASE FwSends \/ FwInterrupts
  <2>1. UNCHANGED <<hal, rec, bus, signals, late>> /\ reader' = [reader EXCEPT !.wakes = @ + 1]
    BY <1>5 DEF FwSends, FwInterrupts
  <2>2. reader'.inside = reader.inside /\ reader'.count = reader.count
        /\ reader'.empty = reader.empty
    BY <1>1, <2>1 DEF Readers, RawReaders
  <2> QED
    BY <1>1, <2>1, <2>2, QuietLatch
<1> QED
  BY <1>2, <1>3, <1>4, <1>5, LoadLatch, SignalLatch, ReaderLatch, RecoveryLatch
     DEF Next, Threads

\* A bus whose transfers are no-ops (sdio_reset) is never silent unnoticed: a
\* recovery goes on, or a thread is about to ask for one, except after an error
\* in a recovery past its bus initialisation or an answer that was none.
THEOREM LatchNoticed == Spec => []LatchIsNoticed
<1>1. Init => LatchInv
  BY DEF Init, LatchInv, LatchIsNoticed
<1>2. Spec => [](LinkInv /\ LatchInv)
  <2>1. LinkInv /\ LatchInv /\ [Next]_vars => LatchInv'
    BY StepLatch DEF LinkInv
  <2> QED
    BY <1>1, <2>1, SpecLinkInv, PTL DEF Spec
<1>3. LatchInv => LatchIsNoticed
  BY DEF LatchInv
<1> QED
  BY <1>2, <1>3, PTL

-----------------------------------------------------------------------------
(* Events are handed up once and in order.                                   *)

LEMMA NumbersType ==
    ASSUME NEW s \in Seq(Packet)
    PROVE  \A k \in DOMAIN s : s[k].n \in Nat
<1>1. \A k \in DOMAIN s : s[k] \in Packet
  OBVIOUS
<1> QED
  BY <1>1 DEF Packet

LEMMA TailPart ==
    ASSUME NEW s \in Seq(Packet), s # <<>>
    PROVE  /\ Head(s) = s[1] /\ 1 \in DOMAIN s
           /\ \A i \in DOMAIN Tail(s) : i + 1 \in DOMAIN s /\ Tail(s)[i] = s[i + 1] /\ i \in Nat
           /\ DOMAIN s \subseteq Nat \ {0}
           /\ \A i \in DOMAIN s : s[i].n \in Nat
<1>1. Len(s) \in Nat /\ Len(s) > 0 /\ DOMAIN s = 1 .. Len(s)
  BY EmptySeq
<1>2. DOMAIN Tail(s) = 1 .. Len(s) - 1 /\ \A i \in 1 .. Len(s) - 1 : Tail(s)[i] = s[i + 1]
  BY <1>1, HeadTailProperties
<1>3. \A i \in DOMAIN s : s[i] \in Packet
  OBVIOUS
<1> QED
  BY <1>1, <1>2, <1>3 DEF Packet

LEMMA TailRises ==
    ASSUME NEW s \in Seq(Packet), s # <<>>
    PROVE  /\ Rising(s) => Rising(Tail(s)) /\ Above(Tail(s), Head(s).n)
           /\ \A m : Above(s, m) => Above(Tail(s), m) /\ Head(s).n > m
           /\ \A m : UpTo(s, m) => UpTo(Tail(s), m) /\ Head(s).n <= m
           /\ \A t : Before(s, t) => Before(Tail(s), t) /\ Above(t, Head(s).n)
<1>1. /\ Head(s) = s[1] /\ 1 \in DOMAIN s
      /\ \A i \in DOMAIN Tail(s) : i + 1 \in DOMAIN s /\ Tail(s)[i] = s[i + 1] /\ i \in Nat
      /\ DOMAIN s \subseteq Nat \ {0}
      /\ \A i \in DOMAIN s : s[i].n \in Nat
  BY TailPart
<1>2. Rising(s) => Rising(Tail(s)) /\ Above(Tail(s), Head(s).n)
  <2> SUFFICES ASSUME Rising(s) PROVE Rising(Tail(s)) /\ Above(Tail(s), Head(s).n)
    OBVIOUS
  <2>1. ASSUME NEW i \in DOMAIN Tail(s), NEW j \in DOMAIN Tail(s), i < j
        PROVE  Tail(s)[i].n < Tail(s)[j].n
    <3>1. i + 1 \in DOMAIN s /\ j + 1 \in DOMAIN s /\ i + 1 < j + 1
      BY <1>1, <2>1
    <3> QED
      BY <1>1, <3>1 DEF Rising
  <2>2. ASSUME NEW i \in DOMAIN Tail(s) PROVE Tail(s)[i].n > Head(s).n
    <3>1. i + 1 \in DOMAIN s /\ 1 < i + 1
      <4>1. i + 1 \in DOMAIN s /\ i \in Nat /\ i + 1 # 1
        BY <1>1, <2>2
      <4> QED
        BY <4>1
    <3>2. s[1].n < s[i + 1].n
      BY <1>1, <3>1 DEF Rising
    <3> QED
      BY <1>1, <3>1, <3>2
  <2> QED
    BY <2>1, <2>2 DEF Rising, Above
<1>3. \A m : Above(s, m) => Above(Tail(s), m) /\ Head(s).n > m
  BY <1>1 DEF Above
<1>4. \A m : UpTo(s, m) => UpTo(Tail(s), m) /\ Head(s).n <= m
  BY <1>1 DEF UpTo
<1>5. \A t : Before(s, t) => Before(Tail(s), t) /\ Above(t, Head(s).n)
  <2> SUFFICES ASSUME NEW t, Before(s, t) PROVE Before(Tail(s), t) /\ Above(t, Head(s).n)
    OBVIOUS
  <2>1. Before(Tail(s), t)
    BY <1>1 DEF Before
  <2>2. \A j \in DOMAIN t : s[1].n < t[j].n
    BY <1>1 DEF Before
  <2> QED
    BY <1>1, <2>1, <2>2 DEF Above
<1> QED
  BY <1>2, <1>3, <1>4, <1>5

\* Steps that neither move an event nor hand one up; the firmware may die.
LEMMA QuietOrder ==
    ASSUME OrderInv, last' = last, used'.events = used.events,
           reader'.buf.pkts = reader.buf.pkts,
           Left(reader') = Left(reader) \/ Left(reader') = <<>>,
           reader'.inside => reader.inside, reader'.empty = reader.empty,
           chip'.out = chip.out \/ chip'.out = <<>>
    PROVE  OrderInv'
<1>1. CASE Left(reader') = Left(reader) /\ chip'.out = chip.out
  BY <1>1 DEF OrderInv
<1>2. CASE Left(reader') = <<>> /\ chip'.out = chip.out
  BY <1>2 DEF OrderInv, UpTo, Above, Rising, Before
<1>3. CASE Left(reader') = Left(reader) /\ chip'.out = <<>>
  BY <1>3 DEF OrderInv
<1>4. CASE Left(reader') = <<>> /\ chip'.out = <<>>
  BY <1>4 DEF OrderInv, UpTo, Above, Rising
<1> QED
  BY <1>1, <1>2, <1>3, <1>4

\* The first transfer goes into the buffer.
LEMMA FetchOrder == ASSUME TypeOK, OrderInv, RxFetch PROVE OrderInv'
<1>1. /\ Woken \in Readers /\ Woken.inside = reader.inside /\ Woken.empty = reader.empty
      /\ Woken.count = reader.count /\ Woken.buf = reader.buf
  BY WokenType DEF RxFetch
<1>2. UNCHANGED last /\ reader.count = 0 /\ ~reader.inside
      /\ (~hal.resetDone) \in BOOLEAN /\ chip \in Chips
  BY DEF RxFetch, TypeOK
<1>3. used'.events = used.events
  <2>1. Fault \/ UNCHANGED used
    BY DEF RxFetch, TransferFails
  <2> QED
    BY <2>1, FaultType
<1>4. CASE ReadsNothing(Woken, ~hal.resetDone) /\ UNCHANGED chip
  <2>1. reader'.count = 0 /\ ~reader'.inside /\ reader'.empty = reader.empty
        /\ reader'.buf = reader.buf
    BY <1>1, <1>2, <1>4, ReadsNothingType
  <2> QED
    BY <1>2, <1>3, <1>4, <2>1, QuietOrder DEF Left
<1>5. CASE /\ reader' = [Woken EXCEPT !.inside = TRUE, !.empty = TRUE] /\ UNCHANGED chip
  <2>1. reader'.buf = reader.buf /\ Left(reader') = Left(reader) /\ reader'.empty
        /\ Left(reader') = <<>>
    BY <1>1, <1>2, <1>5 DEF Readers, RawReaders, Left
  <2> QED
    BY <1>2, <1>3, <1>5, <2>1 DEF OrderInv
<1>6. CASE /\ chip.out # <<>>
           /\ reader' = [Woken EXCEPT !.inside = TRUE, !.empty = FALSE, !.buf = Head(chip.out)]
           /\ chip' = [chip EXCEPT !.out = Tail(@)]
  <2>1. /\ chip.out \in Seq(Transfer) /\ chip'.out = Tail(chip.out)
        /\ reader'.buf = chip.out[1] /\ Left(reader') = <<>>
    BY <1>1, <1>2, <1>6, HeadTailProperties DEF Chips, Readers, RawReaders, Left
  <2>2. /\ 1 \in DOMAIN chip.out
        /\ \A i \in DOMAIN chip'.out : /\ i + 1 \in DOMAIN chip.out /\ i \in Nat /\ 1 < i + 1
                                       /\ chip'.out[i] = chip.out[i + 1]
    <3>1. Len(chip.out) \in Nat /\ Len(chip.out) > 0 /\ DOMAIN chip.out = 1 .. Len(chip.out)
      BY <1>6, <2>1, EmptySeq
    <3>2. /\ DOMAIN chip'.out = 1 .. Len(chip.out) - 1
          /\ \A i \in 1 .. Len(chip.out) - 1 : chip'.out[i] = chip.out[i + 1]
      BY <1>6, <2>1, <3>1, HeadTailProperties
    <3> QED
      BY <3>1, <3>2
  <2>3. /\ Rising(reader'.buf.pkts) /\ UpTo(reader'.buf.pkts, used.events)
        /\ Above(reader'.buf.pkts, last.n)
    BY <2>1, <2>2 DEF OrderInv
  <2>4. ASSUME NEW i \in DOMAIN chip'.out
        PROVE  /\ Rising(chip'.out[i].pkts) /\ UpTo(chip'.out[i].pkts, used.events)
               /\ Above(chip'.out[i].pkts, last.n)
               /\ Before(reader'.buf.pkts, chip'.out[i].pkts)
               /\ Before(Left(reader'), chip'.out[i].pkts)
    <3>1. Before(Left(reader'), chip'.out[i].pkts)
      BY <2>1 DEF Before
    <3> QED
      BY <2>1, <2>2, <3>1 DEF OrderInv
  <2>5. ASSUME NEW i \in DOMAIN chip'.out, NEW j \in DOMAIN chip'.out, i < j
        PROVE  Before(chip'.out[i].pkts, chip'.out[j].pkts)
    <3>1. i + 1 < j + 1
      BY <2>2, <2>5
    <3> QED
      BY <2>2, <3>1 DEF OrderInv
  <2>6. Rising(Left(reader')) /\ UpTo(Left(reader'), used.events) /\ Above(Left(reader'), last.n)
    BY <2>1 DEF Rising, UpTo, Above
  <2> QED
    BY <1>2, <1>3, <2>1, <2>3, <2>4, <2>5, <2>6 DEF OrderInv
<1> QED
  BY <1>4, <1>5, <1>6 DEF RxFetch

\* An event is handed up: the first in the buffer, or the next of the series.
\* Unless the read found nothing it is above the last one, and what remains of
\* the series is above it.
LEMMA HandsUpOrder ==
    ASSUME OrderInv, NEW s \in Seq(Packet), s # <<>>,
           s = reader.buf.pkts \/ s = Left(reader),
           ~reader.empty => Above(s, last.n),
           last' = last \/ last'.n = Head(s).n,
           used'.events = used.events, chip'.out = chip.out,
           ~reader'.inside, Left(reader') = Tail(s),
           reader'.buf.pkts = reader.buf.pkts, reader'.empty = reader.empty
    PROVE  OrderInv' /\ (~reader.empty /\ last' # last => last'.n > last.n)
<1>1. /\ Rising(s) => Rising(Tail(s)) /\ Above(Tail(s), Head(s).n)
      /\ \A m : Above(s, m) => Above(Tail(s), m) /\ Head(s).n > m
      /\ \A m : UpTo(s, m) => UpTo(Tail(s), m) /\ Head(s).n <= m
      /\ \A t : Before(s, t) => Before(Tail(s), t) /\ Above(t, Head(s).n)
  BY TailRises
<1>2. Rising(s) /\ UpTo(s, used.events)
      /\ \A i \in DOMAIN chip.out : Before(s, chip.out[i].pkts)
  BY DEF OrderInv
<1>3. last'.n <= used'.events
  BY <1>1, <1>2 DEF OrderInv
<1>4. ~reader.empty => Above(Left(reader'), last'.n)
  BY <1>1, <1>2
<1>5. ASSUME NEW i \in DOMAIN chip.out
      PROVE  Above(chip.out[i].pkts, last'.n) /\ Before(Left(reader'), chip.out[i].pkts)
  BY <1>1, <1>2, <1>5 DEF OrderInv
<1>6. Rising(Left(reader')) /\ UpTo(Left(reader'), used.events)
  BY <1>1, <1>2
<1>7. OrderInv'
  BY <1>3, <1>4, <1>5, <1>6 DEF OrderInv
<1> QED
  BY <1>1, <1>7

\* rx_thread's steps keep the order, and obey it.
LEMMA ReaderOrder ==
    ASSUME TypeOK, OrderInv, RxFetch \/ RxParse \/ RxSeries
    PROVE  OrderInv' /\ (last' # last /\ ~reader.empty => last'.n > last.n)
<1>1. reader \in Readers /\ reader.buf \in Transfer /\ reader.buf.pkts \in Seq(Packet)
      /\ Left(reader) \in Seq(Packet)
  BY LeftType DEF TypeOK, Readers, RawReaders, Transfer
<1>2. ASSUME NEW silent \in BOOLEAN, ReadsNothing(reader, silent),
             TransferFails \/ UNCHANGED used, UNCHANGED <<chip, last>>
      PROVE  OrderInv' /\ (last' # last /\ ~reader.empty => last'.n > last.n)
  <2>1. used'.events = used.events
    BY <1>2, FaultType DEF TransferFails
  <2> QED
    BY <1>1, <1>2, <2>1, ReadsNothingType, QuietOrder DEF Left
<1>3. CASE RxFetch
  BY <1>3, FetchOrder DEF RxFetch
<1>4. CASE RxParse
  <2>1. CASE /\ \E silent \in BOOLEAN : ReadsNothing(reader, silent)
             /\ TransferFails \/ UNCHANGED used
             /\ UNCHANGED <<chip, last>>
    BY <1>2, <2>1
  <2>2. CASE /\ reader.buf.pkts # <<>>
             /\ ReaderParses
             /\ HandsUp(Head(reader.buf.pkts)) /\ Acknowledges(reader.buf.more)
             /\ UNCHANGED used
    <3>1. /\ ~reader'.inside /\ Left(reader') = Tail(reader.buf.pkts)
          /\ reader'.buf.pkts = reader.buf.pkts /\ reader'.empty = reader.empty
      BY <1>1, <2>2, ReaderParsed
    <3>2. last' = last \/ last'.n = Head(reader.buf.pkts).n
      BY <1>1, <2>2, HandsUpType, TransferType
    <3>3. chip'.out = chip.out
      BY <1>1, <2>2, AcknowledgesType, TransferType
    <3>4. ~reader.empty => Above(reader.buf.pkts, last.n)
      BY <1>4 DEF RxParse, OrderInv
    <3> QED
      BY <1>1, <2>2, <3>1, <3>2, <3>3, <3>4, HandsUpOrder
  <2> QED
    BY <1>4, <2>1, <2>2 DEF RxParse, ReaderParses
<1>5. CASE RxSeries
  <2>1. CASE /\ ReadsNothing(reader, FALSE) /\ TransferFails /\ UNCHANGED <<chip, last>>
    BY <1>2, <2>1
  <2>2. CASE /\ TakesNext
             /\ HandsUp(NextPacket)
             /\ \E more \in BOOLEAN : Acknowledges(more)
             /\ UNCHANGED used
    <3>1. reader.count > 0 /\ ~reader.inside
      BY <1>5 DEF RxSeries
    <3>2. /\ ~reader'.inside /\ Left(reader') = Tail(Left(reader)) /\ Left(reader) # <<>>
          /\ reader'.buf.pkts = reader.buf.pkts /\ reader'.empty = reader.empty
          /\ NextPacket = Head(Left(reader)) /\ NextPacket \in Packet
      BY <1>1, <2>2, <3>1, NextTaken
    <3>3. last' = last \/ last'.n = Head(Left(reader)).n
      BY <2>2, <3>2, HandsUpType
    <3>4. chip'.out = chip.out
      BY <2>2, AcknowledgesType
    <3>5. ~reader.empty => Above(Left(reader), last.n)
      BY DEF OrderInv
    <3> QED
      BY <1>1, <2>2, <3>1, <3>2, <3>3, <3>4, <3>5, HandsUpOrder
  <2> QED
    BY <1>5, <2>1, <2>2, SeriesStep
<1> QED
  BY <1>3, <1>4, <1>5

\* The numbers of a transfer lie between those of the one before it and those
\* of the next.
LEMMA Ranges ==
    ASSUME NEW i \in Nat \ {0}, NEW S \in Nat, NEW j \in 1 .. S
    PROVE  /\ (i - 1) * S \in Nat /\ i * S \in Nat
           /\ (i - 1) * S + j \in Nat
           /\ (i - 1) * S + j > (i - 1) * S /\ (i - 1) * S + j <= i * S
<1>1. (i - 1) * S \in Nat /\ i * S \in Nat /\ i * S = (i - 1) * S + S
  OBVIOUS
<1> QED
  BY <1>1

LEMMA Steps ==
    ASSUME NEW a \in Nat, NEW b \in Nat, a <= b, NEW S \in Nat
    PROVE  a * S <= b * S
<1>1. (b - a) * S \in Nat /\ b * S = a * S + (b - a) * S /\ a * S \in Nat
  OBVIOUS
<1> QED
  BY <1>1

LEMMA Chain ==
    ASSUME NEW a \in Nat, NEW b \in Nat, NEW c \in Nat, NEW d \in Nat,
           a <= b, b <= c, c < d
    PROVE  a < d
  OBVIOUS

LEMMA Shift ==
    ASSUME NEW e \in Nat, NEW a \in Nat, NEW b \in Nat, a < b
    PROVE  e + a < e + b
  OBVIOUS

\* A burst is numbered upwards from the events so far.
LEMMA BurstNumbers ==
    ASSUME used.events \in Nat, NEW reset, NEW k \in 1 .. MaxTransfers,
           NEW lens \in [1 .. k -> 1 .. MaxSeries], NEW b, b = Burst(lens, reset)
    PROVE  /\ \A i \in DOMAIN b :
                /\ \A m \in DOMAIN b[i].pkts :
                     b[i].pkts[m].n \in used.events + 1 .. used.events + BurstSize
                /\ Rising(b[i].pkts)
           /\ \A i, j \in DOMAIN b : i < j => Before(b[i].pkts, b[j].pkts)
<1> DEFINE E == used.events
           num(i, j) == E + ((i - 1) * MaxSeries + j)
<1>1. MaxTransfers \in Nat /\ MaxSeries \in Nat /\ k \in Nat /\ Len(lens) = k
  BY SdioLinkAssumption
<1>2. DOMAIN b = 1 .. k /\ \A i \in 1 .. k :
        /\ DOMAIN b[i].pkts = 1 .. lens[i]
        /\ \A j \in 1 .. lens[i] : b[i].pkts[j] = Event(i, j, reset)
  BY <1>1 DEF Burst
<1>3. ASSUME NEW i \in 1 .. k, NEW j \in 1 .. lens[i]
      PROVE  /\ i \in Nat \ {0} /\ j \in 1 .. MaxSeries /\ b[i].pkts[j].n = num(i, j)
  <2>1. i \in Nat \ {0} /\ lens[i] \in 1 .. MaxSeries /\ j \in 1 .. MaxSeries
    BY <1>1
  <2>2. (i - 1) * MaxSeries \in Nat
    BY <1>1, <2>1, Ranges
  <2>3. E + (i - 1) * MaxSeries + j = num(i, j)
    BY <1>1, <2>1, <2>2, Sums
  <2>5. Event(i, j, reset).n = E + (i - 1) * MaxSeries + j
    BY Zenon DEF Event
  <2>4. b[i].pkts[j].n = E + (i - 1) * MaxSeries + j
    BY <1>2, <2>5
  <2> QED
    BY <2>1, <2>3, <2>4
<1>4. ASSUME NEW i \in 1 .. k, NEW j \in 1 .. lens[i]
      PROVE  b[i].pkts[j].n \in E + 1 .. E + BurstSize
  <2>1. i * MaxSeries <= MaxTransfers * MaxSeries /\ MaxTransfers * MaxSeries \in Nat
    BY <1>1, Steps
  <2>2. /\ (i - 1) * MaxSeries + j \in Nat /\ (i - 1) * MaxSeries + j > 0
        /\ (i - 1) * MaxSeries + j <= i * MaxSeries /\ i * MaxSeries \in Nat
    <3>1. /\ (i - 1) * MaxSeries \in Nat /\ i * MaxSeries \in Nat
          /\ (i - 1) * MaxSeries + j \in Nat
          /\ (i - 1) * MaxSeries + j > (i - 1) * MaxSeries
          /\ (i - 1) * MaxSeries + j <= i * MaxSeries
      BY <1>1, <1>3, Ranges
    <3> QED
      BY <3>1
  <2>3. num(i, j) \in E + 1 .. E + MaxTransfers * MaxSeries
    BY <2>1, <2>2
  <2> QED
    BY <1>3, <2>3 DEF BurstSize
<1>5. ASSUME NEW i \in 1 .. k PROVE Rising(b[i].pkts)
  <2> SUFFICES ASSUME NEW x \in 1 .. lens[i], NEW y \in 1 .. lens[i], x < y
               PROVE  b[i].pkts[x].n < b[i].pkts[y].n
    BY <1>2 DEF Rising
  <2>1. (i - 1) * MaxSeries \in Nat /\ x \in Nat /\ y \in Nat
    BY <1>1, <1>3, Ranges
  <2>2. num(i, x) < num(i, y)
    BY <2>1
  <2> QED
    BY <1>3, <2>2
<1>6. ASSUME NEW i \in 1 .. k, NEW j \in 1 .. k, i < j PROVE Before(b[i].pkts, b[j].pkts)
  <2> SUFFICES ASSUME NEW x \in 1 .. lens[i], NEW y \in 1 .. lens[j]
               PROVE  b[i].pkts[x].n < b[j].pkts[y].n
    BY <1>2 DEF Before
  <2>1. i * MaxSeries <= (j - 1) * MaxSeries
    BY <1>1, <1>6, Steps
  <2>2. /\ (i - 1) * MaxSeries + x \in Nat /\ i * MaxSeries \in Nat
        /\ (i - 1) * MaxSeries + x <= i * MaxSeries
    BY <1>1, <1>3, Ranges
  <2>3. /\ (j - 1) * MaxSeries + y \in Nat /\ (j - 1) * MaxSeries \in Nat
        /\ (j - 1) * MaxSeries + y > (j - 1) * MaxSeries
    BY <1>1, <1>3, Ranges
  <2>4. (i - 1) * MaxSeries + x < (j - 1) * MaxSeries + y
    BY <2>1, <2>2, <2>3, Chain
  <2>5. num(i, x) < num(j, y)
    BY <2>2, <2>3, <2>4, Shift
  <2> QED
    BY <1>3, <2>5
<1> QED
  BY <1>2, <1>4, <1>5, <1>6

\* A burst is numbered above everything there has been.
LEMMA SendOrder == ASSUME TypeOK, OrderInv, FwSends PROVE OrderInv'
<1> DEFINE E == used.events
<1>1. E \in Nat /\ last.n \in Nat /\ chip \in Chips /\ reader \in Readers
      /\ reader.buf.pkts \in Seq(Packet) /\ Left(reader) \in Seq(Packet)
      /\ BurstSize \in Nat
  BY LeftType, SdioLinkAssumption DEF TypeOK, Uses, Lasts, Readers, RawReaders, Transfer,
     BurstSize
<1>2. PICK z \in 1 .. MaxTransfers : \E lens \in [1 .. z -> 1 .. MaxSeries] :
        chip' = [chip EXCEPT !.out = Burst(lens, chip.reset), !.notified = FALSE,
                             !.reset = FALSE]
  BY DEF FwSends
<1>17. PICK lens \in [1 .. z -> 1 .. MaxSeries] :
        chip' = [chip EXCEPT !.out = Burst(lens, chip.reset), !.notified = FALSE,
                             !.reset = FALSE]
  BY <1>2
<1> DEFINE b == Burst(lens, chip.reset)
<1>3. used'.events = E + BurstSize
  <2>1. PICK m : used' = [used EXCEPT !.events = @ + BurstSize, !.bursts = m]
    BY DEF FwSends
  <2> QED
    BY <2>1 DEF TypeOK, Uses
<1>4. chip'.out = b /\ UNCHANGED last
  BY <1>1, <1>17 DEF Chips, FwSends
<1>5. /\ reader'.buf = reader.buf /\ Left(reader') = Left(reader)
      /\ reader'.inside = reader.inside /\ reader'.empty = reader.empty
  <2>1. reader' = [reader EXCEPT !.wakes = @ + 1]
    BY DEF FwSends
  <2> QED
    BY <1>1, <2>1 DEF Readers, RawReaders, Left
<1>6. /\ \A i \in DOMAIN b :
           /\ \A k \in DOMAIN b[i].pkts : b[i].pkts[k].n \in E + 1 .. E + BurstSize
           /\ Rising(b[i].pkts)
      /\ \A i, j \in DOMAIN b : i < j => Before(b[i].pkts, b[j].pkts)
  BY <1>1, BurstNumbers
<1> HIDE DEF E, b
<1>8. /\ UpTo(reader.buf.pkts, E) /\ UpTo(Left(reader), E) /\ last.n <= E
  BY DEF OrderInv, E
<1>9. ASSUME NEW i \in DOMAIN b
      PROVE  /\ UpTo(b[i].pkts, E + BurstSize) /\ Above(b[i].pkts, last.n)
             /\ Before(reader.buf.pkts, b[i].pkts) /\ Before(Left(reader), b[i].pkts)
  <2>1. \A k \in DOMAIN b[i].pkts : b[i].pkts[k].n \in E + 1 .. E + BurstSize
    BY <1>6
  <2>2. \A k \in DOMAIN reader.buf.pkts : reader.buf.pkts[k].n \in Nat
    BY <1>1, NumbersType
  <2>3. \A k \in DOMAIN Left(reader) : Left(reader)[k].n \in Nat
    BY <1>1, NumbersType
  <2> QED
    BY SMTT(30), <1>1, <1>8, <2>1, <2>2, <2>3 DEF UpTo, Above, Before
<1>10. ASSUME NEW s \in Seq(Packet), UpTo(s, E) PROVE UpTo(s, E + BurstSize)
  <2>1. \A k \in DOMAIN s : s[k].n \in Nat
    BY <1>1, NumbersType
  <2> QED
    BY <1>1, <1>10, <2>1 DEF UpTo
<1>11. last.n <= E + BurstSize
  BY <1>1, <1>8
<1>12. UpTo(reader.buf.pkts, E + BurstSize) /\ UpTo(Left(reader), E + BurstSize)
  BY <1>1, <1>8, <1>10
<1>13. /\ last'.n <= used'.events
       /\ UpTo(reader'.buf.pkts, used'.events) /\ UpTo(Left(reader'), used'.events)
  BY <1>3, <1>4, <1>5, <1>11, <1>12
<1>14. /\ Rising(reader'.buf.pkts) /\ Rising(Left(reader'))
       /\ reader'.inside => Left(reader') = <<>>
       /\ ~reader'.empty => Above(Left(reader'), last'.n)
       /\ ~reader'.empty /\ reader'.inside => Above(reader'.buf.pkts, last'.n)
  BY <1>4, <1>5 DEF OrderInv
<1>15. ASSUME NEW i \in DOMAIN chip'.out
       PROVE  /\ Rising(chip'.out[i].pkts) /\ UpTo(chip'.out[i].pkts, used'.events)
              /\ Above(chip'.out[i].pkts, last'.n)
              /\ Before(reader'.buf.pkts, chip'.out[i].pkts)
              /\ Before(Left(reader'), chip'.out[i].pkts)
  <2>1. i \in DOMAIN b /\ chip'.out[i] = b[i]
    BY <1>4
  <2>2. Rising(b[i].pkts)
    BY <1>6, <2>1
  <2>3. /\ UpTo(b[i].pkts, E + BurstSize) /\ Above(b[i].pkts, last.n)
        /\ Before(reader.buf.pkts, b[i].pkts) /\ Before(Left(reader), b[i].pkts)
    BY <1>9, <2>1
  <2> QED
    BY <1>3, <1>4, <1>5, <2>1, <2>2, <2>3
<1>16. \A i, j \in DOMAIN chip'.out : i < j => Before(chip'.out[i].pkts, chip'.out[j].pkts)
  BY <1>4, <1>6
<1> QED
  BY <1>13, <1>14, <1>15, <1>16 DEF OrderInv

LEMMA StepOrder ==
    TypeOK /\ OrderInv /\ [Next]_vars =>
      OrderInv' /\ (last' # last /\ ~reader.empty => last'.n > last.n)
<1> SUFFICES ASSUME TypeOK, OrderInv, [Next]_vars
             PROVE  OrderInv' /\ (last' # last /\ ~reader.empty => last'.n > last.n)
  OBVIOUS
<1>1. reader \in Readers /\ chip \in Chips /\ used \in Uses
  BY DEF TypeOK
<1>2. ASSUME UNCHANGED <<last, reader>>, used'.events = used.events,
             chip'.out = chip.out \/ chip'.out = <<>>
      PROVE  OrderInv' /\ (last' # last /\ ~reader.empty => last'.n > last.n)
  BY <1>2, QuietOrder
<1>3. CASE UNCHANGED vars
  BY <1>2, <1>3 DEF vars
<1>4. CASE Start
  <2>1. used'.events = used.events
    <3>1. Fault \/ used' = [used EXCEPT !.started = TRUE]
      BY <1>4 DEF Start
    <3> QED
      BY <1>1, <3>1, FaultType DEF Uses
  <2> QED
    BY <1>2, <1>4, <2>1 DEF Start
<1>5. CASE Load
  <2>1. UNCHANGED <<last, reader>> /\ (Fault \/ UNCHANGED used)
    BY <1>5 DEF Load, LoadProbes, LoadReadsFiles, LoadFirmware, LoadPatch, LoadPollsPatch,
       LoadPollsReady, LoadWrites, LoadPolls, LoadClears, LoadInitsDevice, LoadFails,
       TransferFails
  <2>2. chip' = chip \/ \E x : chip' = [chip EXCEPT !.state = x]
    BY <1>5 DEF Load, LoadProbes, LoadReadsFiles, LoadFirmware, LoadPatch, LoadPollsPatch,
       LoadPollsReady, LoadWrites, LoadPolls, LoadClears, LoadInitsDevice, LoadFails
  <2>3. chip'.out = chip.out
    BY <1>1, <2>2 DEF Chips
  <2> QED
    BY <1>2, <2>1, <2>3, FaultType
<1>6. CASE WriteBegins \/ \E t \in Threads : Signal(t)
  BY <1>2, <1>6 DEF WriteBegins, Signal
<1>7. CASE Write
  <2>1. UNCHANGED <<last, reader>> /\ (Fault \/ UNCHANGED used)
    BY <1>7 DEF Write, TransferFails
  <2>2. chip' = chip \/ chip' = [chip EXCEPT !.reset = @ \/ writer.reset]
    BY <1>7 DEF Write
  <2>3. chip'.out = chip.out
    BY <1>1, <2>2 DEF Chips
  <2> QED
    BY <1>2, <2>1, <2>3, FaultType
<1>8. CASE RecClears
  <2>1. reader' = [reader EXCEPT !.count = 0, !.more = FALSE]
        /\ UNCHANGED <<chip, used, last>>
    BY <1>8 DEF RecClears
  <2>2. reader'.buf = reader.buf /\ Left(reader') = <<>> /\ reader'.inside = reader.inside
        /\ reader'.empty = reader.empty
    BY <1>1, <2>1 DEF Readers, RawReaders, Left
  <2> QED
    BY <2>1, <2>2, QuietOrder
<1>9. CASE RecPowersOff \/ FwDies
  <2>1. UNCHANGED <<last, reader>> /\ (Fault \/ UNCHANGED used) /\ chip' = Off
    BY <1>9 DEF RecPowersOff, FwDies
  <2> QED
    BY <1>2, <2>1, FaultType DEF Off
<1>10. CASE RecFindsCard \/ FwBoots
  <2>1. UNCHANGED <<last, reader>> /\ (Fault \/ UNCHANGED used)
        /\ (chip' = chip \/ \E x : chip' = [chip EXCEPT !.state = x])
    BY <1>10 DEF RecFindsCard, FwBoots
  <2>2. chip'.out = chip.out
    BY <1>1, <2>1 DEF Chips
  <2> QED
    BY <1>2, <2>1, <2>2, FaultType
<1>11. CASE RecSpeedsUp \/ RecInitsBus \/ RecLoads \/ RecEnds
  <2>1. UNCHANGED <<last, reader, chip>> /\ (Fault \/ UNCHANGED used)
    BY <1>11 DEF RecSpeedsUp, RecInitsBus, RecLoads, RecEnds
  <2> QED
    BY <1>2, <2>1, FaultType
<1>12. CASE RecResets \/ RecReplays
  <2>1. UNCHANGED <<last, reader>> /\ (Fault \/ UNCHANGED used)
        /\ (chip' = chip \/ \E x : chip' = [chip EXCEPT !.reset = @ \/ x])
    BY <1>12 DEF RecResets, RecReplays, RecWrites, TransferFails
  <2>2. chip'.out = chip.out
    BY <1>1, <2>1 DEF Chips
  <2> QED
    BY <1>2, <2>1, <2>2, FaultType
<1>13. CASE FwInterrupts
  <2>1. reader' = [reader EXCEPT !.wakes = @ + 1] /\ UNCHANGED <<chip, last>> /\ Fault
    BY <1>13 DEF FwInterrupts
  <2>2. reader'.buf = reader.buf /\ Left(reader') = Left(reader)
        /\ reader'.inside = reader.inside /\ reader'.empty = reader.empty
    BY <1>1, <2>1 DEF Readers, RawReaders, Left
  <2> QED
    BY <2>1, <2>2, QuietOrder, FaultType
<1>14. CASE FwSends
  BY <1>14, SendOrder DEF FwSends
<1>15. CASE RxFetch \/ RxParse \/ RxSeries
  BY <1>15, ReaderOrder
<1> QED
  BY <1>3, <1>4, <1>5, <1>6, <1>7, <1>8, <1>9, <1>10, <1>11, <1>12, <1>13, <1>14, <1>15
     DEF Next, Recovery, Threads

\* What rx_thread (rk915_serias_read) hands up from a transfer that it has read
\* is newer than all it has handed up before, for any number of bursts, any
\* number of transfers in a burst and packets in a series of at least two, and
\* any errors and recoveries. Nothing is said of what it parses again after a
\* read that found nothing, nor of events that are lost.
THEOREM EventsInOrderOnce == Spec => EventsOnceInOrder
<1>1. Init => OrderInv
  BY DEF Init, OrderInv, Idle, Off, Rising, UpTo, Above, Left
<1>2. TypeOK /\ OrderInv /\ [Next]_vars =>
        OrderInv' /\ [last' # last /\ ~reader.empty => last'.n > last.n]_vars
  BY StepOrder
<1> QED
  BY <1>1, <1>2, TypesCorrect, PTL DEF Spec, EventsOnceInOrder
=============================================================================
