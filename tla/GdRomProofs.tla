---------------------------- MODULE GdRomProofs ----------------------------
(***************************************************************************)
(* Proofs about GdRom, for any sizes of sectors, buffers, ticks and DMA    *)
(* transfers, any lengths of reads and replies and any driver of the       *)
(* module: drive and driver agree on the phase, no sector is lost, and no  *)
(* buffer overflows.                                                       *)
(*                                                                         *)
(* The tick of the DMA is a loop over the units it moves.  What the loop   *)
(* computes is shown by induction; the induction is over a set of numbers  *)
(* (SetInduction), which the provers can instantiate.                      *)
(***************************************************************************)
EXTENDS GdRom, WellFoundedInduction, TLAPS

PioStates == {"pio_send", "pio_get"}

\* What a transfer by PIO holds: words to move, and the state in which the drive
\* goes on is that of the command, as long as no slot took its data.
PioOK ==
    /\ host.at = "wait" => gd.state # "waitpacket"
    /\ gd.state \in PioStates => gd.pio.index < gd.pio.size \/ Wordless
    /\ gd.state \in PioStates \/ host.at = "data" => gd.pio.next # "waitcmd"
    /\ gd.state \in PioStates /\ gd.pio.next = "readsector_pio" /\ ~ dma.torn =>
          gd.state = "pio_send" /\ gd.remaining > 0 /\ xfer.n > 0
    /\ gd.state = "pio_send" /\ xfer.n > 0 /\ gd.pio.next # "readsector_pio" /\ ~ dma.torn =>
          gd.remaining = 0

\* Data are only counted for a read.
ReadOK ==
    /\ xfer.n = 0 => xfer.moved = 0
    /\ gd.state \in {"waitpacket", "pio_get"} => xfer.n = 0
    /\ gd.state = "readsector_dma" => xfer.n > 0

\* What the DMA has still to move, the drive can send.
DmaFits(d, s) ==
    /\ s.GDEN /\ s.GDLEN \in Lens
    /\ s.GDLEND % Align = 0 /\ s.GDLEND < DmaLen(s)
    /\ DmaLen(s) <= s.GDLEND + Available(d)

\* A DMA that was not set for more than a read had has that read in progress, and
\* its data.
DmaOK == sb.GDST /\ ~ dma.ahead => gd.state = "readsector_dma" /\ DmaFits(gd, sb)

IInv == TypeOK /\ PhasesAgree /\ NoSectorLost /\ PioOK /\ ReadOK /\ DmaOK
-----------------------------------------------------------------------------
(* Constants and arithmetic. *)

\* The sizes are positive numbers.
LEMMA Sizes ==
    /\ NSECT \in Nat \ {0} /\ PioCapacity \in Nat \ {0} /\ Chunk \in Nat \ {0}
    /\ Align \in Nat \ {0} /\ Wrap \in Nat \ {0} /\ PacketWords \in Nat \ {0}
    /\ Tiny \in Nat /\ MaxStops \in Nat
  BY GdRomAssumption

\* So are those of sectors; a sector fits in the PIO buffer.
LEMMA SectorSize ==
    ASSUME NEW t \in SectorTypes
    PROVE  t \in Nat \ {0} /\ t <= PioCapacity
  BY GdRomAssumption

\* A read has at least one sector.
LEMMA SectorCount == \A n \in Sectors : n \in Nat \ {0}
  BY GdRomAssumption

\* Products of positive numbers are positive.
LEMMA MulPos ==
    ASSUME NEW a \in Nat \ {0}, NEW b \in Nat \ {0}
    PROVE  a * b \in Nat \ {0}
  OBVIOUS

\* Products grow with a factor.
LEMMA MulMono ==
    ASSUME NEW a \in Nat, NEW b \in Nat, NEW c \in Nat, a <= b
    PROVE  a * c \in Nat /\ b * c \in Nat /\ a * c <= b * c
<1>1. PICK k \in Nat : b = a + k
  BY b - a \in Nat
<1>2. b * c = a * c + k * c /\ k * c \in Nat /\ a * c \in Nat
  BY <1>1
<1>3. QED
  BY <1>2

\* Sectors taken from those that remain.
LEMMA Taken ==
    ASSUME NEW r \in Nat, NEW n \in 0 .. r, NEW t \in Nat
    PROVE  n * t \in Nat /\ (r - n) * t \in Nat /\ n * t + (r - n) * t = r * t
  OBVIOUS

\* A batch of a read by PIO has at least one sector and fits in the buffer.
LEMMA BatchFits ==
    ASSUME NEW r \in Nat \ {0}, NEW t \in SectorTypes
    PROVE  /\ MinOf(r, PioCapacity \div t) \in 1 .. r
           /\ MinOf(r, PioCapacity \div t) * t \in 1 .. PioCapacity
<1>1. t \in Nat \ {0} /\ t <= PioCapacity /\ PioCapacity \in Nat
  BY Sizes, SectorSize
<1> DEFINE q == PioCapacity \div t
           n == MinOf(r, q)
<1>2. q \in Nat /\ PioCapacity = t * q + (PioCapacity % t) /\ PioCapacity % t \in 0 .. t - 1
  BY <1>1
<1>3. q # 0
  BY <1>1, <1>2
<1> HIDE DEF q
<1>4. n \in Nat \ {0} /\ n <= r /\ n <= q
  BY <1>2, <1>3 DEF MinOf
<1> HIDE DEF n
<1>5. n * t <= q * t /\ q * t = t * q
  BY <1>1, <1>2, <1>4, MulMono
<1>6. n * t \in Nat \ {0}
  BY <1>1, <1>4, MulPos
<1>7. n \in 1 .. r /\ n * t \in 1 .. PioCapacity
  BY <1>1, <1>2, <1>4, <1>5, <1>6
<1>8. QED
  BY <1>7 DEF n, q

\* Sums of multiples are multiples.
LEMMA AlignedSum ==
    ASSUME NEW c \in Nat \ {0}, NEW a \in Int, NEW b \in Int, a % c = 0, b % c = 0
    PROVE  (a + b) % c = 0
<1>1. PICK p \in Int : a = c * p
  OBVIOUS
<1>2. PICK q \in Int : b = c * q
  OBVIOUS
<1>3. a + b = c * (p + q) + 0
  BY <1>1, <1>2
<1>4. QED
  BY <1>3

-----------------------------------------------------------------------------
(* What gd_set_state does with the drive. *)

\* The command and its data, which the end of a command leaves alone.
SameRead(d, e) ==
    /\ e.packet = d.packet /\ e.dma = d.dma /\ e.start = d.start
    /\ e.remaining = d.remaining /\ e.type = d.type /\ e.failed = d.failed

\* The end of a command interrupts and leaves the drive waiting for the next.
LEMMA CommandEnds ==
    ASSUME NEW d \in Drive
    PROVE  /\ pio_end(d) = procpacketdone(d)
           /\ procpacketdone(d) \in Drive /\ SameRead(d, procpacketdone(d))
           /\ procpacketdone(d).pio = d.pio
           /\ procpacketdone(d).state = "waitcmd" /\ procpacketdone(d).INTRQ
           /\ ~ procpacketdone(d).BSY /\ ~ procpacketdone(d).DRQ
  BY DEF pio_end, procpacketdone, waitcmd, Drive, SameRead, States

\* A phase of a transfer by PIO interrupts, as does a transfer without data, which
\* ends at once.
LEMMA PhaseStarts ==
    ASSUME NEW d \in Drive, NEW size \in 0 .. PioCapacity, NEW next \in NextStates,
           NEW s \in PioStates
    PROVE  LET e == [d EXCEPT !.pio = [size |-> size, index |-> 0, next |-> next]] IN
           \A r \in {pio_end(e), pio_data(e, s)} :
              /\ r \in Drive /\ SameRead(d, r)
              /\ r.pio = [size |-> size, index |-> 0, next |-> next]
              /\ r.INTRQ /\ ~ r.BSY
              /\ r = pio_end(e) => r.state = "waitcmd" /\ ~ r.DRQ
              /\ r = pio_data(e, s) => r.state = s /\ r.DRQ
<1> DEFINE p == [size |-> size, index |-> 0, next |-> next]
           e == [d EXCEPT !.pio = p]
<1>1. p \in [size : 0 .. PioCapacity, index : 0 .. PioCapacity, next : NextStates]
  BY Sizes
<1> HIDE DEF p
<1>2. e \in Drive /\ SameRead(d, e) /\ e.pio = p
  BY <1>1 DEF Drive, SameRead
<1> HIDE DEF e
<1>3. /\ pio_end(e) \in Drive /\ SameRead(d, pio_end(e)) /\ pio_end(e).pio = p
      /\ pio_end(e).INTRQ /\ ~ pio_end(e).BSY /\ pio_end(e).state = "waitcmd"
      /\ ~ pio_end(e).DRQ
  BY <1>2, CommandEnds DEF SameRead
<1>4. /\ pio_data(e, s) \in Drive /\ SameRead(d, pio_data(e, s)) /\ pio_data(e, s).pio = p
      /\ pio_data(e, s).INTRQ /\ ~ pio_data(e, s).BSY
      /\ pio_data(e, s).state = s /\ pio_data(e, s).DRQ
  BY <1>2 DEF pio_data, Drive, SameRead, States, PioStates
<1>5. pio_end(e) # pio_data(e, s)
  BY <1>3, <1>4
<1>6. QED
  BY <1>3, <1>4, <1>5 DEF p, e

\* A transfer to the guest.
LEMMA TransferStarts ==
    ASSUME NEW d \in Drive, NEW words \in 0 .. PioCapacity, NEW next \in NextStates
    PROVE  LET r == gd_spi_pio_end(d, words, next) IN
           /\ r \in Drive /\ SameRead(d, r)
           /\ r.pio = [size |-> words, index |-> 0, next |-> next]
           /\ r.INTRQ /\ ~ r.BSY
           /\ IF words = 0 THEN r.state = "waitcmd" /\ ~ r.DRQ
                           ELSE r.state = "pio_send" /\ r.DRQ
<1> DEFINE e == [d EXCEPT !.pio = [size |-> words, index |-> 0, next |-> next]]
<1>1. gd_spi_pio_end(d, words, next)
        = IF words = 0 THEN pio_end(e) ELSE pio_data(e, "pio_send")
  BY DEF gd_spi_pio_end
<1>2. "pio_send" \in PioStates
  BY DEF PioStates
<1>3. QED
  BY <1>1, <1>2, PhaseStarts

\* A transfer from the guest: one byte makes a data phase of no words.
LEMMA ReadStarts ==
    ASSUME NEW d \in Drive, NEW len \in 0 .. 2 * PioCapacity, NEW next \in NextStates
    PROVE  LET r == gd_spi_pio_read_end(d, len, next) IN
           /\ r \in Drive /\ SameRead(d, r)
           /\ r.pio = [size |-> len \div 2, index |-> 0, next |-> next]
           /\ r.INTRQ /\ ~ r.BSY /\ len \div 2 \in 0 .. PioCapacity
           /\ IF len = 0 THEN r.state = "waitcmd" /\ ~ r.DRQ
                         ELSE r.state = "pio_get" /\ r.DRQ
<1> DEFINE e == [d EXCEPT !.pio = [size |-> len \div 2, index |-> 0, next |-> next]]
<1>1. gd_spi_pio_read_end(d, len, next)
        = IF len = 0 THEN pio_end(e) ELSE pio_data(e, "pio_get")
  BY DEF gd_spi_pio_read_end
<1>2. "pio_get" \in PioStates /\ len \div 2 \in 0 .. PioCapacity
  BY Sizes DEF PioStates
<1>3. QED
  BY <1>1, <1>2, PhaseStarts

\* A batch of sectors is fetched for a transfer by PIO.
LEMMA BatchStarts ==
    ASSUME NEW d \in Drive, d.remaining > 0
    PROVE  LET r == readsector_pio(d) IN
           /\ r \in Drive /\ r.state = "pio_send" /\ r.DRQ /\ r.INTRQ /\ ~ r.BSY
           /\ r.pio.index = 0 /\ r.pio.size > 0
           /\ r.pio.next \in {"readsector_pio", "pio_end"}
           /\ r.pio.next = "readsector_pio" <=> r.remaining > 0
           /\ r.start + r.remaining = d.start + d.remaining
           /\ r.pio.size + r.remaining * d.type = d.remaining * d.type
           /\ r.packet = d.packet /\ r.dma = d.dma /\ r.type = d.type /\ r.failed = d.failed
<1> DEFINE n == MinOf(d.remaining, PioCapacity \div d.type)
           e == [d EXCEPT !.BSY = TRUE, !.start = @ + n, !.remaining = @ - n]
           next == IF n < d.remaining THEN "readsector_pio" ELSE "pio_end"
<1>1. d.remaining \in Nat \ {0} /\ d.type \in SectorTypes /\ d.start \in Nat /\ d.type \in Nat
  BY SectorSize DEF Drive
<1>2. n \in 1 .. d.remaining /\ n * d.type \in 1 .. PioCapacity
  BY <1>1, BatchFits
<1>3. readsector_pio(d) = gd_spi_pio_end(e, n * d.type, next)
  BY DEF readsector_pio
<1> HIDE DEF n
<1>4. /\ e \in Drive /\ e.start = d.start + n /\ e.remaining = d.remaining - n
      /\ e.packet = d.packet /\ e.dma = d.dma /\ e.type = d.type /\ e.failed = d.failed
  <2>1. d.start + n \in Nat /\ d.remaining - n \in Nat
    BY <1>1, <1>2
  <2>2. QED
    BY <2>1 DEF Drive
<1>5. n * d.type + (d.remaining - n) * d.type = d.remaining * d.type
  BY <1>1, <1>2, Taken
<1>6. next \in NextStates /\ n * d.type \in 0 .. PioCapacity /\ n * d.type # 0
  BY <1>2, Sizes DEF NextStates
<1> DEFINE r == gd_spi_pio_end(e, n * d.type, next)
<1> HIDE DEF e
<1>7. /\ r \in Drive /\ SameRead(e, r)
      /\ r.pio = [size |-> n * d.type, index |-> 0, next |-> next]
      /\ r.INTRQ /\ ~ r.BSY /\ r.state = "pio_send" /\ r.DRQ
  BY <1>4, <1>6, TransferStarts
<1> HIDE DEF r
<1>8. r.pio.index = 0 /\ r.pio.size = n * d.type /\ r.pio.next = next
  BY <1>7
<1>9. /\ r.start + r.remaining = d.start + d.remaining
      /\ r.remaining > 0 <=> n < d.remaining
  BY <1>1, <1>2, <1>4, <1>7 DEF SameRead
<1>10. QED
  BY <1>2, <1>3, <1>4, <1>5, <1>7, <1>8, <1>9 DEF SameRead, r

-----------------------------------------------------------------------------
\* Without sectors, which a slot took, the transfer ends.
LEMMA BatchEmpty ==
    ASSUME NEW d \in Drive, d.remaining = 0
    PROVE  LET r == readsector_pio(d) IN
           /\ r \in Drive /\ r.state = "waitcmd" /\ ~ r.DRQ /\ r.INTRQ /\ ~ r.BSY
           /\ r.pio.index = 0 /\ r.pio.size = 0
           /\ r.start + r.remaining = d.start + d.remaining
           /\ r.dma = d.dma /\ r.type = d.type /\ r.failed = d.failed
<1> DEFINE n == MinOf(d.remaining, PioCapacity \div d.type)
           e == [d EXCEPT !.BSY = TRUE, !.start = @ + n, !.remaining = @ - n]
           next == IF n < d.remaining THEN "readsector_pio" ELSE "pio_end"
<1>1. d.type \in Nat \ {0} /\ d.start \in Nat /\ d.type <= PioCapacity /\ PioCapacity \in Nat
      /\ d.remaining \in Nat
  BY Sizes, SectorSize DEF Drive
<1>2. PioCapacity \div d.type \in Nat
  BY <1>1
<1>3. n = 0
  BY <1>2 DEF MinOf
<1>4. readsector_pio(d) = gd_spi_pio_end(e, 0, "pio_end")
  <2>1. readsector_pio(d) = gd_spi_pio_end(e, n * d.type, next)
    BY DEF readsector_pio
  <2> HIDE DEF n
  <2>2. n * d.type = 0 /\ next = "pio_end"
    BY <1>1, <1>3
  <2>3. QED
    BY <2>1, <2>2
<1> HIDE DEF n
<1>5. /\ e \in Drive /\ e.start = d.start /\ e.remaining = d.remaining /\ e.dma = d.dma
      /\ e.type = d.type /\ e.failed = d.failed
  <2>1. d.start + n = d.start /\ d.remaining - n = d.remaining
    BY <1>1, <1>3
  <2>2. QED
    BY <1>1, <2>1 DEF Drive
<1> HIDE DEF e
<1>6. 0 \in 0 .. PioCapacity /\ "pio_end" \in NextStates
  BY Sizes DEF NextStates
<1> DEFINE r == gd_spi_pio_end(e, 0, "pio_end")
<1>7. /\ r \in Drive /\ SameRead(e, r) /\ r.pio = [size |-> 0, index |-> 0, next |-> "pio_end"]
      /\ r.INTRQ /\ ~ r.BSY /\ r.state = "waitcmd" /\ ~ r.DRQ
  BY <1>5, <1>6, TransferStarts
<1> HIDE DEF r
<1>8. r.pio.index = 0 /\ r.pio.size = 0
  BY <1>7
<1>9. QED
  BY <1>4, <1>5, <1>7, <1>8 DEF SameRead, r

-----------------------------------------------------------------------------
(* The loop of GDRomschd. *)

\* What the loop leaves alone.
SamePhase(d, e) ==
    /\ e.state = d.state /\ e.BSY = d.BSY /\ e.DRQ = d.DRQ /\ e.DRDY = d.DRDY
    /\ e.INTRQ = d.INTRQ /\ e.packet = d.packet /\ e.pio = d.pio /\ e.type = d.type

\* e is d after n units were moved, if it had as many; else verify() failed.
After(d, n, e) ==
    /\ e \in Drive /\ SamePhase(d, e) /\ (d.failed => e.failed)
    /\ e.dma <= NSECT * e.type
    /\ ~ e.failed => Available(e) + n = Available(d)
    /\ ~ d.failed /\ n <= Available(d) => ~ e.failed
    /\ e.start + e.remaining = d.start + d.remaining

\* A drive that has data fills its buffer, and neither loses nor adds any.
LEMMA FillOK ==
    ASSUME NEW d \in Drive, d.dma <= NSECT * d.type
    PROVE  /\ After(d, 0, [fill(d) EXCEPT !.failed = d.failed])
           /\ fill(d) \in Drive /\ (d.failed => fill(d).failed)
           /\ ~ fill(d).failed => fill(d).dma > 0
           /\ ~ d.failed => (fill(d).failed <=> Available(d) = 0)
<1>1. d.remaining \in Nat /\ d.start \in Nat /\ d.dma \in Nat /\ d.type \in SectorTypes
      /\ d.type \in Nat \ {0} /\ NSECT \in Nat \ {0} /\ d.failed \in BOOLEAN
      /\ Available(d) \in Nat
  BY Sizes, SectorSize DEF Drive, Available
<1>2. CASE d.dma # 0
  <2>1. fill(d) = d /\ [fill(d) EXCEPT !.failed = d.failed] = d
    BY <1>2 DEF fill, Drive
  <2>2. Available(d) # 0
    BY <1>1, <1>2 DEF Available
  <2>3. QED
    BY <1>1, <1>2, <2>1, <2>2 DEF After, SamePhase
<1>3. CASE d.dma = 0 /\ d.remaining = 0
  <2>1. fill(d) = [d EXCEPT !.failed = TRUE]
    BY <1>3 DEF fill
  <2>2. [fill(d) EXCEPT !.failed = d.failed] = d
    BY <2>1 DEF Drive
  <2>3. Available(d) = 0
    BY <1>1, <1>3 DEF Available
  <2>4. fill(d) \in Drive /\ fill(d).failed
    BY <2>1 DEF Drive
  <2>5. After(d, 0, d)
    BY <1>1 DEF After, SamePhase
  <2>6. QED
    BY <2>2, <2>3, <2>4, <2>5
<1>4. CASE d.dma = 0 /\ d.remaining # 0
  <2> DEFINE n == MinOf(d.remaining, NSECT)
             e == [d EXCEPT !.dma = n * d.type, !.start = @ + n, !.remaining = @ - n]
  <2>1. fill(d) = e
    BY <1>4 DEF fill
  <2>2. n \in 1 .. d.remaining /\ n \in Nat \ {0} /\ n <= NSECT
    BY <1>1, <1>4 DEF MinOf
  <2> HIDE DEF n
  <2>3. n * d.type \in Nat \ {0}
    BY <1>1, <2>2, MulPos
  <2>4. n * d.type <= NSECT * d.type
    BY <1>1, <2>2, MulMono
  <2>5. n * d.type + (d.remaining - n) * d.type = d.remaining * d.type
    BY <1>1, <2>2, Taken
  <2>6. /\ e \in Drive /\ SamePhase(d, e) /\ e.failed = d.failed
        /\ e.dma = n * d.type /\ e.start = d.start + n /\ e.remaining = d.remaining - n
        /\ e.type = d.type
    <3>1. d.start + n \in Nat /\ d.remaining - n \in Nat /\ n * d.type \in Nat
      BY <1>1, <2>2, <2>3
    <3>2. QED
      BY <3>1 DEF Drive, SamePhase
  <2> HIDE DEF e
  <2>7. [fill(d) EXCEPT !.failed = d.failed] = e
    BY <2>1, <2>6 DEF Drive
  <2>8. Available(e) + 0 = Available(d) /\ Available(d) # 0
    <3>1. Available(e) = n * d.type + (d.remaining - n) * d.type
          /\ Available(d) = d.remaining * d.type
      BY <1>1, <1>4, <2>6 DEF Available
    <3>2. d.remaining * d.type \in Nat \ {0}
      BY <1>1, <1>4, MulPos
    <3>3. QED
      BY <2>5, <3>1, <3>2
  <2>9. e.start + e.remaining = d.start + d.remaining
    BY <1>1, <2>2, <2>6
  <2>10. QED
    BY <2>1, <2>3, <2>4, <2>6, <2>7, <2>8, <2>9 DEF After
<1>5. QED
  BY <1>2, <1>3, <1>4

\* A drive with data does not fail.
LEMMA FillKeeps ==
    ASSUME NEW d \in Drive, ~ d.failed, d.dma <= NSECT * d.type, Available(d) # 0
    PROVE  After(d, 0, fill(d))
<1>1. /\ After(d, 0, [fill(d) EXCEPT !.failed = d.failed])
      /\ fill(d) \in Drive /\ fill(d).failed = d.failed
  BY FillOK DEF Drive
<1> DEFINE f == fill(d)
<1> HIDE DEF f
<1>2. f \in Drive /\ f.failed = d.failed => [f EXCEPT !.failed = d.failed] = f
  BY DEF Drive
<1>3. QED
  BY <1>1, <1>2 DEF f

\* One round of the loop moves one unit.
LEMMA MoveUnitOK ==
    ASSUME NEW d \in Drive, d.dma <= NSECT * d.type
    PROVE  After(d, 1, MoveUnit[d])
<1> DEFINE f == fill(d)
           g == [f EXCEPT !.failed = d.failed]
           e == [f EXCEPT !.dma = @ - 1]
<1>1. /\ After(d, 0, g) /\ f \in Drive /\ (d.failed => f.failed)
      /\ ~ f.failed => f.dma > 0
      /\ ~ d.failed => (f.failed <=> Available(d) = 0)
  BY FillOK
<1>2. MoveUnit[d] = IF f.failed THEN f ELSE e
  BY DEF MoveUnit
<1> HIDE DEF f
<1>3. /\ SamePhase(d, f) /\ f.dma <= NSECT * f.type /\ Available(f) = Available(g)
      /\ f.start + f.remaining = d.start + d.remaining /\ (~ d.failed => g.failed = d.failed)
  <2>1. /\ g.state = f.state /\ g.BSY = f.BSY /\ g.DRQ = f.DRQ /\ g.DRDY = f.DRDY
        /\ g.INTRQ = f.INTRQ /\ g.packet = f.packet /\ g.pio = f.pio /\ g.type = f.type
        /\ g.dma = f.dma /\ g.start = f.start /\ g.remaining = f.remaining
        /\ g.failed = d.failed
    BY <1>1 DEF Drive
  <2> HIDE DEF g
  <2>2. QED
    BY <1>1, <2>1 DEF After, SamePhase, Available
<1>4. /\ f.dma \in Nat /\ f.remaining \in Nat /\ f.type \in Nat /\ NSECT \in Nat
      /\ d.failed \in BOOLEAN /\ f.failed \in BOOLEAN /\ Available(d) \in Nat
      /\ Available(f) \in Nat /\ f.remaining * f.type \in Nat
  BY <1>1, Sizes, SectorSize DEF Drive, Available
<1>5. CASE f.failed
  <2>1. ~ d.failed => ~ (1 <= Available(d))
    BY <1>1, <1>4, <1>5
  <2>2. QED
    BY <1>1, <1>2, <1>3, <1>5, <2>1 DEF After
<1>6. CASE ~ f.failed
  <2>1. /\ e \in Drive /\ SamePhase(f, e) /\ e.failed = f.failed
        /\ e.dma = f.dma - 1 /\ e.start = f.start /\ e.remaining = f.remaining
    BY <1>1, <1>4, <1>6 DEF Drive, SamePhase
  <2> HIDE DEF e
  <2>2. e.type = f.type
    BY <2>1 DEF SamePhase
  <2>3. Available(f) = Available(d)
    BY <1>1, <1>3, <1>4, <1>6 DEF After
  <2>4. Available(e) + 1 = Available(d)
    BY <1>4, <2>1, <2>2, <2>3 DEF Available
  <2>5. e.dma <= NSECT * e.type
    <3>1. NSECT * f.type \in Nat
      BY <1>4
    <3>2. QED
      BY <1>3, <1>4, <2>1, <2>2, <3>1
  <2>6. QED
    BY <1>1, <1>2, <1>3, <1>6, <2>1, <2>4, <2>5 DEF After, SamePhase
<1>7. QED
  BY <1>5, <1>6

\* Induction over the natural numbers, for a set of them.
LEMMA SetInduction ==
    ASSUME NEW T \in SUBSET Nat, 0 \in T, \A i \in T : i + 1 \in T
    PROVE  T = Nat
<1> SUFFICES ASSUME T # Nat PROVE FALSE
  OBVIOUS
<1> DEFINE Less == OpToRel(<, Nat)
           Rest == Nat \ T
<1>1. IsWellFoundedOn(Less, Nat)
  BY NatLessThanWellFounded
<1>2. Rest \subseteq Nat /\ Rest # {}
  OBVIOUS
<1>3. \A i, j \in Nat : i < j => <<i, j>> \in Less
  BY DEF OpToRel
<1> HIDE DEF Less, Rest
<1>4. PICK x \in Rest : \A y \in Rest : ~ (<<y, x>> \in Less)
  BY <1>1, <1>2, WFMin
<1> USE DEF Rest
<1>5. x \in Nat /\ x # 0 /\ x - 1 \in Nat /\ x - 1 < x /\ x = (x - 1) + 1
  BY <1>4
<1>6. x - 1 \in T
  BY <1>3, <1>4, <1>5
<1>7. QED
  BY <1>4, <1>5, <1>6

\* f is the run of the loop over n units.
Loop(d, n, f) == f = [i \in 0 .. n |-> IF i = 0 THEN d ELSE MoveUnit[f[i - 1]]]

\* The recursive definition in Moved defines a function.
LEMMA LoopExists == ASSUME NEW d, NEW n \in Nat PROVE \E f : Loop(d, n, f)
<1> DEFINE T == {i \in Nat : \E f : Loop(d, i, f)}
<1>1. 0 \in T
  <2> DEFINE g == [i \in 0 .. 0 |-> d]
  <2>1. Loop(d, 0, g)
    BY DEF Loop
  <2>2. QED
    BY <2>1
<1>2. ASSUME NEW i \in T PROVE i + 1 \in T
  <2>1. PICK f : Loop(d, i, f)
    BY <1>2
  <2> DEFINE g == [j \in 0 .. i + 1 |-> IF j = 0 THEN d ELSE MoveUnit[f[j - 1]]]
  <2>2. \A j \in 0 .. i : g[j] = f[j]
    BY <2>1 DEF Loop
  <2>3. \A j \in 0 .. i + 1 : j # 0 => j - 1 \in 0 .. i
    OBVIOUS
  <2>4. Loop(d, i + 1, g)
    BY <2>2, <2>3 DEF Loop
  <2>5. QED
    BY <2>4
<1>3. T = Nat
  <2> HIDE DEF T
  <2>1. T \in SUBSET Nat
    BY DEF T
  <2>2. QED
    BY <1>1, <1>2, <2>1, SetInduction
<1>4. QED
  BY <1>3

\* The loop moves the units it is asked for, as long as the drive has them.
LEMMA MovedOK ==
    ASSUME NEW d \in Drive, d.dma <= NSECT * d.type, NEW n \in Nat
    PROVE  After(d, n, Moved(d, n))
<1> DEFINE f == CHOOSE g : Loop(d, n, g)
<1>1. Loop(d, n, f)
  BY LoopExists
<1>2. Moved(d, n) = f[n]
  BY DEF Moved, Loop
<1> HIDE DEF f
<1>3. f[0] = d /\ \A i \in 1 .. n : f[i] = MoveUnit[f[i - 1]]
  BY <1>1 DEF Loop
<1>4. Available(d) \in Nat /\ d.failed \in BOOLEAN
  BY SectorSize DEF Available, Drive
<1> DEFINE T == {i \in Nat : i <= n => After(d, i, f[i])}
<1>5. 0 \in T
  BY <1>3, <1>4 DEF After, SamePhase
<1>6. ASSUME NEW i \in T PROVE i + 1 \in T
  <2> SUFFICES ASSUME i + 1 <= n PROVE After(d, i + 1, f[i + 1])
    BY <1>6
  <2>1. i \in Nat /\ After(d, i, f[i]) /\ i + 1 \in 1 .. n /\ f[i + 1] = MoveUnit[f[i]]
    BY <1>3, <1>6
  <2>2. Available(f[i]) \in Nat /\ f[i] \in Drive /\ f[i].failed \in BOOLEAN
    BY <2>1, SectorSize DEF Available, Drive, After
  <2>3. After(f[i], 1, f[i + 1])
    BY <2>1, <2>2, MoveUnitOK DEF After
  <2>4. Available(f[i + 1]) \in Nat
    BY <2>3, SectorSize DEF Available, Drive, After
  <2>5. ~ f[i + 1].failed => Available(f[i + 1]) + (i + 1) = Available(d)
    BY <1>4, <2>1, <2>2, <2>3, <2>4 DEF After
  <2>6. ~ d.failed /\ i + 1 <= Available(d) => ~ f[i + 1].failed
    BY <1>4, <2>1, <2>2, <2>3, <2>4 DEF After
  <2>7. QED
    BY <2>1, <2>3, <2>5, <2>6 DEF After, SamePhase
<1>7. T = Nat
  <2> HIDE DEF T
  <2>1. T \in SUBSET Nat
    BY DEF T
  <2>2. QED
    BY <1>5, <1>6, <2>1, SetInduction
<1>8. QED
  BY <1>2, <1>7

-----------------------------------------------------------------------------
(* A tick of the DMA. *)

Registers == [GDST : BOOLEAN, GDEN : BOOLEAN, GDLEN : 0 .. Wrap - 1,
              GDLEND : 0 .. Wrap - 1, sched : BOOLEAN]

Histories == [ahead : BOOLEAN, starved : BOOLEAN, torn : BOOLEAN]

\* A tick that finds something to do, whatever was programmed.
LEMMA TickDoes ==
    ASSUME NEW d \in Drive, ~ d.failed, d.dma <= NSECT * d.type,
           NEW s \in Registers, ~ Idle(d, s)
    PROVE  LET len == TickLen(d, s)
               e == TickDrive(d, s) IN
           /\ len \in Nat /\ TickRegs(d, s) \in Registers /\ Available(d) \in Nat \ {0}
           /\ e \in Drive /\ e.dma <= NSECT * e.type /\ Available(e) \in Nat
           /\ e.type = d.type /\ e.pio = d.pio /\ e.packet = d.packet
           /\ e.start + e.remaining = d.start + d.remaining
           /\ ~ e.failed => Available(e) + len = Available(d)
           /\ len <= Available(d) => ~ e.failed
           /\ \/ /\ e.state = d.state /\ e.BSY = d.BSY /\ e.DRQ = d.DRQ /\ e.INTRQ = d.INTRQ
                 /\ ~ e.failed => Available(e) # 0
              \/ /\ e.state = "waitcmd" /\ ~ e.BSY /\ ~ e.DRQ /\ e.INTRQ
                 /\ ~ e.failed /\ Available(e) = 0
<1> DEFINE len == TickLen(d, s)
           m == Moved(d, len)
           lend == (s.GDLEND + len) % Wrap
           LEND == lend - (lend % Align)
<1>1. /\ Wrap \in Nat \ {0} /\ Chunk \in Nat \ {0} /\ Align \in Nat \ {0}
      /\ s.GDLEN \in 0 .. Wrap - 1 /\ s.GDLEND \in 0 .. Wrap - 1
      /\ Word \in Nat /\ Word > Wrap
  BY Sizes, GdRomAssumption DEF Registers
<1>2. /\ d.dma \in Nat /\ d.remaining \in Nat /\ d.type \in Nat \ {0}
      /\ Available(d) \in Nat \ {0}
  <2>1. d.dma \in Nat /\ d.remaining \in Nat /\ d.type \in Nat \ {0} /\ Available(d) \in Nat
    BY SectorSize DEF Drive, Available
  <2>2. d.dma # 0 \/ d.remaining # 0
    BY DEF Idle
  <2>3. d.remaining # 0 => d.remaining * d.type \in Nat \ {0}
    BY <2>1, MulPos
  <2>4. d.remaining = 0 => d.remaining * d.type = 0
    BY <2>1
  <2>5. QED
    BY <2>1, <2>2, <2>3, <2>4 DEF Available
<1>3. len \in Nat
  <2>1. DmaLen(s) \in Nat /\ DmaLen(s) + Word - s.GDLEND \in Nat
    BY <1>1 DEF DmaLen
  <2>2. (DmaLen(s) + Word - s.GDLEND) % Word \in Nat
    BY <1>1, <2>1
  <2>3. QED
    BY <1>1, <1>2, <2>2 DEF TickLen, MinOf
<1>4. TickDrive(d, s) = IF m.remaining = 0 /\ m.dma = 0 /\ ~ m.failed
                        THEN procpacketdone(m) ELSE m
  BY DEF TickDrive
<1>5. TickRegs(d, s) = [s EXCEPT !.GDLEND = LEND, !.GDST = ~ (LEND = s.GDLEN),
                                 !.sched = ~ (LEND = s.GDLEN)]
  BY DEF TickRegs
<1> HIDE DEF len
<1>6. After(d, len, m)
  BY <1>3, MovedOK
<1>7. LEND \in 0 .. Wrap - 1
  <2>1. lend \in 0 .. Wrap - 1
    BY <1>1, <1>3
  <2> HIDE DEF lend
  <2>2. lend % Align \in 0 .. lend
    BY <1>1, <2>1
  <2>3. QED
    BY <1>1, <2>1, <2>2
<1> HIDE DEF m, LEND
<1>8. TickRegs(d, s) \in Registers
  BY <1>5, <1>7 DEF Registers
<1>9. m \in Drive /\ m.dma \in Nat /\ m.remaining \in Nat /\ m.type \in Nat \ {0}
      /\ Available(m) \in Nat /\ m.failed \in BOOLEAN
  BY <1>6, SectorSize DEF After, Drive, Available
<1>10. CASE m.remaining = 0 /\ m.dma = 0 /\ ~ m.failed
  <2>1. TickDrive(d, s) = procpacketdone(m) /\ Available(m) = 0
    BY <1>4, <1>9, <1>10 DEF Available
  <2>2. Available(procpacketdone(m)) = Available(m)
    BY <1>9, CommandEnds DEF SameRead, Available
  <2>3. QED
    BY <1>2, <1>3, <1>6, <1>8, <1>9, <1>10, <2>1, <2>2, CommandEnds
       DEF After, SamePhase, SameRead, len
<1>11. CASE ~ (m.remaining = 0 /\ m.dma = 0 /\ ~ m.failed)
  <2>1. TickDrive(d, s) = m
    BY <1>4, <1>11
  <2>2. ~ m.failed => Available(m) # 0
    <3>1. m.remaining # 0 => m.remaining * m.type \in Nat \ {0}
      BY <1>9, MulPos
    <3>2. m.remaining = 0 => m.remaining * m.type = 0
      BY <1>9
    <3>3. QED
      BY <1>9, <1>11, <3>1, <3>2 DEF Available
  <2>3. QED
    BY <1>2, <1>3, <1>6, <1>8, <1>9, <2>1, <2>2 DEF After, SamePhase, len
<1>12. QED
  BY <1>10, <1>11

\* A tick moves what is left of the DMA, or Chunk units of it; SB_GDLEND keeps
\* its alignment, and reaches SB_GDLEN exactly at the end.
LEMMA TickLength ==
    ASSUME NEW d \in Drive, NEW s \in Registers, s.GDST, DmaFits(d, s)
    PROVE  LET len == TickLen(d, s)
               r == TickRegs(d, s) IN
           /\ ~ Idle(d, s) /\ len \in Nat \ {0} /\ len <= Available(d)
           /\ s.GDLEND + len <= DmaLen(s)
           /\ r \in Registers /\ r.GDEN = s.GDEN /\ r.GDLEN = s.GDLEN
           /\ r.GDST <=> s.GDLEND + len # DmaLen(s)
           /\ r.GDST => r.GDLEND = s.GDLEND + len /\ r.GDLEND % Align = 0
<1> DEFINE left == DmaLen(s) - s.GDLEND
           len == TickLen(d, s)
           lend == (s.GDLEND + len) % Wrap
<1>1. /\ Wrap \in Nat \ {0} /\ Chunk \in Nat \ {0} /\ Align \in Nat \ {0}
      /\ s.GDLEN \in 0 .. Wrap - 1 /\ s.GDLEND \in 0 .. Wrap - 1
      /\ s.GDLEND < DmaLen(s) /\ s.GDLEND % Align = 0
  BY Sizes DEF Registers, DmaFits
<1>2. DmaLen(s) \in 1 .. Wrap /\ DmaLen(s) % Align = 0 /\ Chunk % Align = 0
  BY <1>1, GdRomAssumption DEF DmaLen, DmaFits
<1>3. d.dma \in Nat /\ d.remaining \in Nat /\ d.type \in Nat /\ Available(d) \in Nat
  BY SectorSize DEF Drive, Available
<1>4. left \in 1 .. Wrap /\ left <= Available(d)
  BY <1>1, <1>2, <1>3 DEF DmaFits
<1>5. (DmaLen(s) + Word - s.GDLEND) % Word = left
  <2>1. Word \in Nat /\ Word > Wrap
    BY GdRomAssumption
  <2>2. DmaLen(s) + Word - s.GDLEND = Word + left /\ left \in 0 .. Word - 1
    BY <1>1, <1>2, <1>4, <2>1
  <2> HIDE DEF left
  <2>3. (Word + left) % Word = left
    BY <2>1, <2>2
  <2>4. QED
    BY <2>2, <2>3
<1>6. d.remaining = 0 => left <= d.dma
  BY <1>3, <1>4 DEF Available
<1> HIDE DEF left
<1>7. len = IF left < Chunk THEN left ELSE Chunk
  BY <1>1, <1>3, <1>4, <1>5, <1>6 DEF TickLen, MinOf
<1> HIDE DEF len
<1>8. len \in Nat \ {0} /\ len <= left
  BY <1>1, <1>4, <1>7
<1>8a. len <= Available(d)
  BY <1>3, <1>4, <1>8
<1>9. s.GDLEND + len <= DmaLen(s) /\ (s.GDLEND + len = DmaLen(s) <=> len = left)
  BY <1>1, <1>2, <1>8 DEF left
<1>10. ~ Idle(d, s)
  <2>1. Available(d) # 0
    BY <1>3, <1>4
  <2>2. ~ (d.dma = 0 /\ d.remaining = 0)
    BY <1>3, <2>1 DEF Available
  <2>3. QED
    BY <2>2 DEF Idle, DmaFits
<1>11. TickRegs(d, s) =
         [s EXCEPT !.GDLEND = lend - (lend % Align),
                   !.GDST = ~ (lend - (lend % Align) = s.GDLEN),
                   !.sched = ~ (lend - (lend % Align) = s.GDLEN)]
  BY <1>10 DEF TickRegs, len
<1>12. CASE len = left
  <2>1. lend = s.GDLEN
    BY <1>1, <1>2, <1>9, <1>12 DEF DmaLen
  <2>2. s.GDLEN % Align = 0
    BY GdRomAssumption DEF DmaFits
  <2>3. lend - (lend % Align) = s.GDLEN
    BY <1>1, <2>1, <2>2
  <2> HIDE DEF lend
  <2>4. TickRegs(d, s) \in Registers /\ TickRegs(d, s).GDEN = s.GDEN
        /\ TickRegs(d, s).GDLEN = s.GDLEN /\ ~ TickRegs(d, s).GDST
    BY <1>11, <2>3 DEF Registers
  <2>5. QED
    BY <1>8, <1>9, <1>10, <1>12, <1>8a, <2>4 DEF len
<1>13. CASE len # left
  <2>1. len = Chunk /\ s.GDLEND + len < DmaLen(s) /\ s.GDLEND + len \in 1 .. Wrap - 1
    BY <1>1, <1>2, <1>7, <1>8, <1>9, <1>13
  <2>2. lend = s.GDLEND + len
    BY <1>1, <2>1
  <2>3. (s.GDLEND + Chunk) % Align = 0
    BY <1>1, <1>2, AlignedSum
  <2>4. lend - (lend % Align) = s.GDLEND + len /\ (s.GDLEND + len) % Align = 0
    BY <2>1, <2>2, <2>3, <1>1
  <2>5. s.GDLEND + len # s.GDLEN /\ s.GDLEND + len \in 0 .. Wrap - 1
    BY <1>1, <2>1 DEF DmaLen
  <2> HIDE DEF lend
  <2>6. TickRegs(d, s) \in Registers /\ TickRegs(d, s).GDEN = s.GDEN
        /\ TickRegs(d, s).GDLEN = s.GDLEN /\ TickRegs(d, s).GDST
        /\ TickRegs(d, s).GDLEND = s.GDLEND + len
    BY <1>11, <2>4, <2>5 DEF Registers
  <2>7. QED
    BY <1>8, <1>9, <1>10, <1>13, <1>8a, <2>4, <2>6 DEF len
<1>14. QED
  BY <1>12, <1>13

\* After a tick a DMA that fitted still fits, unless it is over; the read ends with
\* it.
LEMMA TickFits ==
    ASSUME NEW d \in Drive, ~ d.failed, d.dma <= NSECT * d.type, NEW s \in Registers,
           s.GDST, DmaFits(d, s)
    PROVE  LET e == TickDrive(d, s)
               r == TickRegs(d, s) IN
           /\ ~ Idle(d, s) /\ ~ e.failed
           /\ r.GDST => DmaFits(e, r) /\ e.state = d.state
<1> DEFINE len == TickLen(d, s)
           e == TickDrive(d, s)
           r == TickRegs(d, s)
<1>1. /\ ~ Idle(d, s) /\ len \in Nat \ {0} /\ len <= Available(d)
      /\ s.GDLEND + len <= DmaLen(s)
      /\ r \in Registers /\ r.GDEN = s.GDEN /\ r.GDLEN = s.GDLEN
      /\ r.GDST <=> s.GDLEND + len # DmaLen(s)
      /\ r.GDST => r.GDLEND = s.GDLEND + len /\ r.GDLEND % Align = 0
  BY TickLength
<1>2. /\ ~ e.failed /\ Available(e) \in Nat /\ Available(d) \in Nat
      /\ Available(e) + len = Available(d)
      /\ e.state = d.state \/ Available(e) = 0
  BY <1>1, TickDoes
<1> HIDE DEF len, e, r
<1>3. s.GDLEND \in Nat /\ DmaLen(s) \in Nat /\ DmaLen(s) <= s.GDLEND + Available(d)
  BY Sizes DEF Registers, DmaLen, DmaFits
<1>4. DmaLen(r) = DmaLen(s)
  BY <1>1 DEF DmaLen
<1>5. ASSUME r.GDST PROVE DmaFits(e, r) /\ e.state = d.state
  <2>1. s.GDLEND + len < DmaLen(s) /\ DmaLen(s) <= s.GDLEND + len + Available(e)
    BY <1>1, <1>2, <1>3, <1>5
  <2>2. Available(e) # 0
    BY <1>1, <1>2, <1>3, <2>1
  <2>3. QED
    BY <1>1, <1>2, <1>4, <1>5, <2>1, <2>2 DEF DmaFits
<1>6. QED
  BY <1>1, <1>2, <1>5 DEF e, r

-----------------------------------------------------------------------------
(* One lemma per operation. *)

\* The parts of the state have their types.
LEMMA State ==
    ASSUME IInv
    PROVE  /\ gd \in Drive /\ gd.pio.index <= gd.pio.size /\ gd.dma <= NSECT * gd.type
           /\ sb \in Registers /\ stops \in 0 .. MaxStops /\ dma \in Histories
           /\ host.at \in {"idle", "packet", "poll", "wait", "data"} /\ host.left \in Nat
           /\ xfer.n \in Nat /\ xfer.moved \in Nat /\ xfer.n \in Sectors \cup {0}
           /\ gd.type \in Nat \ {0} /\ Available(gd) \in Nat
<1>1. gd \in Drive /\ sb \in Registers /\ dma \in Histories
  BY DEF IInv, TypeOK, Registers, Histories
<1>2. gd.type \in Nat \ {0} /\ Available(gd) \in Nat
  BY <1>1, SectorSize DEF Drive, Available
<1>3. host.at \in {"idle", "packet", "poll", "wait", "data"} /\ host.left \in Nat
  BY DEF IInv, TypeOK
<1>4. xfer.moved \in Nat /\ xfer.n \in Sectors \cup {0}
  BY DEF IInv, TypeOK
<1>5. xfer.n \in Nat
  BY <1>4, SectorCount
<1>6. gd.pio.index <= gd.pio.size /\ gd.dma <= NSECT * gd.type /\ stops \in 0 .. MaxStops
  BY DEF IInv, TypeOK
<1>7. QED
  BY <1>1, <1>2, <1>3, <1>4, <1>5, <1>6

\* PhasesAgree, without the CASE.
Phases ==
    /\ gd.BSY <=> gd.state = "readsector_dma"
    /\ gd.DRQ <=> gd.state \in {"waitpacket", "pio_send", "pio_get"}
    /\ host.at \in {"idle", "poll"} => gd.state = "waitcmd"
    /\ host.at = "packet" =>
          \/ gd.state = "waitpacket" /\ gd.packet + host.left = PacketWords
          \/ gd.state = "waitcmd" /\ dma.torn
    /\ host.at = "data" =>
          /\ gd.pio.size - gd.pio.index = host.left /\ host.left > 0
          /\ gd.state \in PioStates \/ (gd.state = "waitcmd" /\ dma.torn)
    /\ host.at = "wait" => gd.INTRQ \/ gd.state = "readsector_dma" \/ Wordless

\* They are the same.
LEMMA PhasesSame ==
    ASSUME host.at \in {"idle", "packet", "poll", "wait", "data"}
    PROVE  PhasesAgree <=> Phases
<1>1. CASE host.at = "idle"
  BY <1>1 DEF PhasesAgree, Phases, PioStates
<1>2. CASE host.at = "poll"
  BY <1>2 DEF PhasesAgree, Phases, PioStates
<1>3. CASE host.at = "packet"
  BY <1>3 DEF PhasesAgree, Phases, PioStates
<1>4. CASE host.at = "data"
  BY <1>4 DEF PhasesAgree, Phases, PioStates
<1>5. CASE host.at = "wait"
  BY <1>5 DEF PhasesAgree, Phases, PioStates
<1>6. QED
  BY <1>1, <1>2, <1>3, <1>4, <1>5

\* The invariant, in the form in which the operations use it and establish it.
Known ==
    /\ gd \in Drive /\ gd.pio.index <= gd.pio.size /\ gd.dma <= NSECT * gd.type
    /\ sb \in Registers /\ stops \in 0 .. MaxStops /\ dma \in Histories
    /\ host \in [at : {"idle", "packet", "poll", "wait", "data"}, left : Nat]
    /\ xfer \in [n : Sectors \cup {0}, moved : Nat]
    /\ Phases /\ NoSectorLost /\ PioOK /\ ReadOK /\ DmaOK

\* It is equivalent to IInv.
LEMMA KnownIsInv == Known <=> IInv
  BY PhasesSame DEF Known, IInv, TypeOK, Registers, Histories

\* A new command ends what the slot did during the last; a DMA that goes on is
\* ahead of it.
LEMMA NewHistory ==
    ASSUME IInv
    PROVE  /\ NewCommand \in Histories /\ ~ NewCommand.torn
           /\ sb.GDST => NewCommand.ahead
           /\ NewCommand.starved => NewCommand.ahead
<1>1. dma \in Histories /\ sb.GDST \in BOOLEAN /\ (dma.starved => dma.ahead)
  BY State DEF IInv, NoSectorLost, Registers
<1>2. QED
  BY <1>1 DEF NewCommand, Histories

\* A command ends, or asks for data that are not counted: identification and
\* replies, mode data, aborted commands.
LEMMA Answered ==
    ASSUME IInv, dma' \in Histories, sb.GDST \/ dma'.starved => dma'.ahead,
           UNCHANGED <<sb, stops>>, xfer' = NoRead,
           host' = [at |-> "wait", left |-> 0],
           gd' \in Drive, gd'.dma <= NSECT * gd'.type, ~ gd'.failed,
           gd'.INTRQ, ~ gd'.BSY, gd'.pio.index <= gd'.pio.size,
           \/ gd'.state = "waitcmd" /\ ~ gd'.DRQ
           \/ /\ gd'.state \in PioStates /\ gd'.DRQ
              /\ gd'.pio.index < gd'.pio.size \/ (gd'.state = "pio_get" /\ gd'.pio.size = 0)
              /\ gd'.pio.next \in {"pio_end", "process_set_mode"}
    PROVE  IInv'
<1>1. /\ host' \in [at : {"idle", "packet", "poll", "wait", "data"}, left : Nat]
      /\ xfer' \in [n : Sectors \cup {0}, moved : Nat]
      /\ xfer'.n = 0 /\ xfer'.moved = 0 /\ host'.at = "wait"
  BY DEF NoRead
<1>2. Phases'
  BY <1>1 DEF Phases, PioStates
<1>3. NoSectorLost'
  <2>1. gd'.type \in Nat
    BY SectorSize DEF Drive
  <2>2. QED
    BY <1>1, <2>1 DEF NoSectorLost, PioStates
<1>4. PioOK' /\ ReadOK' /\ DmaOK'
  BY <1>1 DEF PioOK, ReadOK, DmaOK, PioStates, Wordless
<1>5. sb' \in Registers /\ stops' \in 0 .. MaxStops
  BY State
<1>6. Known'
  BY <1>1, <1>2, <1>3, <1>4, <1>5 DEF Known
<1>7. QED
  BY <1>6, KnownIsInv, PTL

\* A DMA that runs while the drive takes commands and packets is ahead.
LEMMA NoDma == ASSUME IInv, gd.state # "readsector_dma", sb.GDST PROVE dma.ahead
  BY DEF IInv, DmaOK

\* A command is only written to a drive that waits for one.
LEMMA CommandTaken ==
    ASSUME IInv, ~ gd.failed, MayCommand
    PROVE  /\ gd.state = "waitcmd"
           /\ procata(Accepts(gd)) \in Drive /\ SameRead(gd, procata(Accepts(gd)))
           /\ procata(Accepts(gd)).pio = gd.pio
           /\ procata(Accepts(gd)).DRQ = gd.DRQ /\ procata(Accepts(gd)).BSY
           /\ procata(Accepts(gd)).state = gd.state
<1>1. gd.state = "waitcmd"
  BY KnownIsInv DEF Known, Phases, MayCommand
<1>2. gd \in Drive
  BY State
<1>3. Accepts(gd) \in Drive /\ SameRead(gd, Accepts(gd)) /\ Accepts(gd).pio = gd.pio
      /\ Accepts(gd).DRQ = gd.DRQ /\ Accepts(gd).state = gd.state
  BY <1>1, <1>2 DEF Accepts, Drive, SameRead
<1>4. QED
  BY <1>1, <1>3 DEF procata, Drive, SameRead

\* AtaImmediate keeps the invariant.
LEMMA AtaImmediateOK == ASSUME IInv, ~ gd.failed, AtaImmediate PROVE IInv'
<1> DEFINE d == procata(Accepts(gd))
<1>1. MayCommand /\ gd' = waitcmd([d EXCEPT !.INTRQ = TRUE])
      /\ host' = [at |-> "wait", left |-> 0] /\ xfer' = NoRead /\ dma' = NewCommand
      /\ UNCHANGED <<sb, stops>>
  BY DEF AtaImmediate
<1>2. /\ gd.state = "waitcmd" /\ d \in Drive /\ SameRead(gd, d)
      /\ d.pio = gd.pio /\ d.DRQ = gd.DRQ
  BY <1>1, CommandTaken
<1>3. ~ gd.DRQ
  BY <1>1 DEF MayCommand
<1> HIDE DEF d
<1>4. /\ gd' \in Drive /\ SameRead(d, gd') /\ gd'.pio = d.pio /\ gd'.DRQ = d.DRQ
      /\ gd'.state = "waitcmd" /\ gd'.INTRQ /\ ~ gd'.BSY
  BY <1>1, <1>2 DEF waitcmd, Drive, SameRead, States
<1>5. gd'.dma <= NSECT * gd'.type /\ ~ gd'.failed /\ gd'.pio.index <= gd'.pio.size
  BY <1>2, <1>4, State DEF SameRead
<1>6. QED
  BY <1>1, <1>2, <1>3, <1>4, <1>5, Answered, NewHistory

\* AtaIdentify keeps the invariant.
LEMMA AtaIdentifyOK == ASSUME IInv, ~ gd.failed, NEW len \in Replies, AtaIdentify(len) PROVE IInv'
<1> DEFINE d == procata(Accepts(gd))
<1>1. MayCommand /\ gd' = gd_spi_pio_end(d, len \div 2, "pio_end")
      /\ host' = [at |-> "wait", left |-> 0] /\ xfer' = NoRead /\ dma' = NewCommand
      /\ UNCHANGED <<sb, stops>>
  BY DEF AtaIdentify
<1>2. d \in Drive /\ SameRead(gd, d)
  BY <1>1, CommandTaken
<1> HIDE DEF d
<1>3. len \div 2 \in 0 .. PioCapacity /\ "pio_end" \in NextStates
  BY Sizes, GdRomAssumption DEF NextStates
<1>4. /\ gd' \in Drive /\ SameRead(d, gd')
      /\ gd'.pio = [size |-> len \div 2, index |-> 0, next |-> "pio_end"]
      /\ gd'.INTRQ /\ ~ gd'.BSY
      /\ IF len \div 2 = 0 THEN gd'.state = "waitcmd" /\ ~ gd'.DRQ
         ELSE gd'.state = "pio_send" /\ gd'.DRQ
  BY <1>1, <1>2, <1>3, TransferStarts
<1>5. gd'.dma <= NSECT * gd'.type /\ ~ gd'.failed
  BY <1>2, <1>4, State DEF SameRead
<1>6. gd'.pio.index = 0 /\ gd'.pio.size = len \div 2 /\ gd'.pio.next = "pio_end"
  BY <1>4
<1>7. QED
  BY <1>1, <1>2, <1>3, <1>4, <1>5, <1>6, Answered, NewHistory DEF PioStates

\* AtaPacket keeps the invariant.
LEMMA AtaPacketOK == ASSUME IInv, ~ gd.failed, AtaPacket PROVE IInv'
<1> DEFINE d == procata(Accepts(gd))
<1>1. MayCommand
      /\ gd' = [d EXCEPT !.state = "waitpacket", !.packet = 0, !.BSY = FALSE, !.DRQ = TRUE]
      /\ host' = [at |-> "packet", left |-> PacketWords] /\ xfer' = NoRead
      /\ dma' = NewCommand /\ UNCHANGED <<sb, stops>>
  BY DEF AtaPacket
<1>2. d \in Drive /\ SameRead(gd, d) /\ d.pio = gd.pio
  BY <1>1, CommandTaken
<1> HIDE DEF d
<1>3. /\ gd' \in Drive /\ gd'.pio = d.pio /\ gd'.dma = d.dma /\ gd'.type = d.type
      /\ gd'.failed = d.failed /\ gd'.state = "waitpacket" /\ gd'.packet = 0
      /\ ~ gd'.BSY /\ gd'.DRQ
  <2>1. 0 \in 0 .. PacketWords /\ "waitpacket" \in States
    BY Sizes DEF States
  <2>2. QED
    BY <1>1, <1>2, <2>1 DEF Drive
<1>4. /\ host' \in [at : {"idle", "packet", "poll", "wait", "data"}, left : Nat]
      /\ xfer' \in [n : Sectors \cup {0}, moved : Nat]
      /\ xfer'.n = 0 /\ xfer'.moved = 0 /\ host'.at = "packet" /\ host'.left = PacketWords
  BY <1>1, Sizes DEF NoRead
<1>5. gd'.dma <= NSECT * gd'.type /\ ~ gd'.failed /\ gd'.pio.index <= gd'.pio.size
  BY <1>2, <1>3, State DEF SameRead
<1>6. Phases' /\ NoSectorLost' /\ PioOK' /\ ReadOK' /\ DmaOK'
  BY <1>1, <1>2, <1>3, <1>4, <1>5, Sizes, NewHistory
     DEF Phases, NoSectorLost, PioOK, ReadOK, DmaOK, PioStates
<1>7. sb' \in Registers /\ stops' \in 0 .. MaxStops /\ dma' \in Histories
  BY <1>1, State, NewHistory
<1>8. Known'
  BY <1>3, <1>4, <1>5, <1>6, <1>7 DEF Known
<1>9. QED
  BY <1>8, KnownIsInv, PTL

\* AtaNop keeps the invariant, with a DMA on or not.
LEMMA AtaNopOK == ASSUME IInv, ~ gd.failed, AtaNop PROVE IInv'
<1>1. gd' = waitcmd([procata(gd) EXCEPT !.DRQ = FALSE, !.INTRQ = TRUE])
      /\ host' = [at |-> "wait", left |-> 0] /\ xfer' = NoRead /\ dma' = NewCommand
      /\ UNCHANGED <<sb, stops>>
  BY DEF AtaNop
<1>2. /\ gd' \in Drive /\ SameRead(gd, gd') /\ gd'.pio = gd.pio /\ ~ gd'.DRQ
      /\ gd'.state = "waitcmd" /\ gd'.INTRQ /\ ~ gd'.BSY
  BY <1>1, State DEF waitcmd, procata, Drive, SameRead, States
<1>3. gd'.dma <= NSECT * gd'.type /\ ~ gd'.failed /\ gd'.pio.index <= gd'.pio.size
  BY <1>2, State DEF SameRead
<1>4. QED
  BY <1>1, <1>2, <1>3, Answered, NewHistory

\* AtaSoftReset keeps the invariant.
LEMMA AtaSoftResetOK == ASSUME IInv, ~ gd.failed, AtaSoftReset PROVE IInv'
<1>1. gd' = [waitcmd(procata(gd)) EXCEPT !.DRDY = FALSE, !.DRQ = FALSE]
      /\ host' = [at |-> "poll", left |-> 0] /\ xfer' = NoRead /\ dma' = NewCommand
      /\ UNCHANGED <<sb, stops>>
  BY DEF AtaSoftReset
<1>2. /\ gd' \in Drive /\ SameRead(gd, gd') /\ gd'.pio = gd.pio /\ ~ gd'.DRQ
      /\ gd'.state = "waitcmd" /\ ~ gd'.BSY
  BY <1>1, State DEF waitcmd, procata, Drive, SameRead, States
<1>3. gd'.dma <= NSECT * gd'.type /\ ~ gd'.failed /\ gd'.pio.index <= gd'.pio.size
  BY <1>2, State DEF SameRead
<1>4. /\ host' \in [at : {"idle", "packet", "poll", "wait", "data"}, left : Nat]
      /\ xfer' \in [n : Sectors \cup {0}, moved : Nat]
      /\ xfer'.n = 0 /\ xfer'.moved = 0 /\ host'.at = "poll"
  BY <1>1 DEF NoRead
<1>5. gd'.type \in Nat
  BY <1>2, SectorSize DEF Drive
<1>6. Phases' /\ NoSectorLost' /\ PioOK' /\ ReadOK' /\ DmaOK'
  BY <1>1, <1>2, <1>3, <1>4, <1>5, NewHistory
     DEF Phases, NoSectorLost, PioOK, ReadOK, DmaOK, PioStates
<1>7. sb' \in Registers /\ stops' \in 0 .. MaxStops /\ dma' \in Histories
  BY <1>1, State, NewHistory
<1>8. Known'
  BY <1>2, <1>3, <1>4, <1>6, <1>7 DEF Known
<1>9. QED
  BY <1>8, KnownIsInv, PTL

\* The packet is complete.
LEMMA PacketTaken ==
    ASSUME IInv, ~ gd.failed, LastWord
    PROVE  /\ gd.state = "waitpacket" /\ (sb.GDST \/ dma.starved => dma.ahead)
           /\ xfer.n = 0 /\ dma \in Histories
           /\ procpacket(gd) \in Drive /\ procpacket(gd).pio = gd.pio
           /\ procpacket(gd).dma = gd.dma /\ procpacket(gd).type = gd.type
           /\ ~ procpacket(gd).failed /\ procpacket(gd).state = "waitpacket"
           /\ procpacket(gd).BSY /\ ~ procpacket(gd).DRQ
<1>1. gd.state = "waitpacket"
  BY KnownIsInv DEF Known, Phases, LastWord
<1>2. (sb.GDST \/ dma.starved => dma.ahead) /\ xfer.n = 0
  BY <1>1, NoDma DEF IInv, ReadOK, NoSectorLost
<1>3. gd \in Drive /\ dma \in Histories /\ PacketWords \in 0 .. PacketWords
  BY State, Sizes
<1>4. QED
  BY <1>1, <1>2, <1>3 DEF procpacket, Drive

\* SpiNoData keeps the invariant.
LEMMA SpiNoDataOK == ASSUME IInv, ~ gd.failed, SpiNoData PROVE IInv'
<1> DEFINE d == procpacket(gd)
<1>1. LastWord
  BY DEF SpiNoData, SpiDone
<1>2. /\ gd.state = "waitpacket" /\ (sb.GDST \/ dma.starved => dma.ahead) /\ d \in Drive /\ d.pio = gd.pio
      /\ dma \in Histories /\ d.dma = gd.dma /\ d.type = gd.type /\ ~ d.failed
  BY <1>1, PacketTaken
<1>3. gd' = procpacketdone(d) /\ host' = [at |-> "wait", left |-> 0] /\ xfer' = NoRead
      /\ UNCHANGED <<sb, stops, dma>>
  BY <1>2 DEF SpiNoData, SpiDone
<1> HIDE DEF d
<1>4. /\ gd' \in Drive /\ SameRead(d, gd') /\ gd'.pio = d.pio /\ gd'.state = "waitcmd"
      /\ gd'.INTRQ /\ ~ gd'.BSY /\ ~ gd'.DRQ
  BY <1>2, <1>3, CommandEnds
<1>5. gd'.dma <= NSECT * gd'.type /\ ~ gd'.failed /\ gd'.pio.index <= gd'.pio.size
  BY <1>2, <1>4, State DEF SameRead
<1>6. QED
  BY <1>2, <1>3, <1>4, <1>5, Answered
\* SpiReply keeps the invariant.
LEMMA SpiReplyOK ==
    ASSUME IInv, ~ gd.failed, NEW len \in Replies, SpiReply(len)
    PROVE  IInv'
<1> DEFINE d == procpacket(gd)
<1>1. LastWord
  BY DEF SpiReply, SpiDone
<1>2. /\ gd.state = "waitpacket" /\ (sb.GDST \/ dma.starved => dma.ahead) /\ d \in Drive
      /\ dma \in Histories /\ d.dma = gd.dma /\ d.type = gd.type /\ ~ d.failed
  BY <1>1, PacketTaken
<1>3. gd' = gd_spi_pio_end(d, len \div 2, "pio_end") /\ host' = [at |-> "wait", left |-> 0]
      /\ xfer' = NoRead /\ UNCHANGED <<sb, stops, dma>>
  BY <1>2 DEF SpiReply, SpiDone
<1> HIDE DEF d
<1>4. len \div 2 \in 0 .. PioCapacity /\ "pio_end" \in NextStates
  BY Sizes, GdRomAssumption DEF NextStates
<1>5. /\ gd' \in Drive /\ SameRead(d, gd')
      /\ gd'.pio = [size |-> len \div 2, index |-> 0, next |-> "pio_end"]
      /\ gd'.INTRQ /\ ~ gd'.BSY /\ len \div 2 \in 0 .. PioCapacity
      /\ IF len \div 2 = 0 THEN gd'.state = "waitcmd" /\ ~ gd'.DRQ
         ELSE gd'.state = "pio_send" /\ gd'.DRQ
  BY <1>2, <1>3, <1>4, TransferStarts
<1>6. gd'.dma <= NSECT * gd'.type /\ ~ gd'.failed
  BY <1>2, <1>5, State DEF SameRead
<1>7. gd'.pio.index = 0 /\ gd'.pio.size = len \div 2 /\ gd'.pio.next = "pio_end"
  BY <1>5
<1>8. QED
  BY <1>2, <1>3, <1>4, <1>5, <1>6, <1>7, Answered DEF PioStates

\* SpiSetMode keeps the invariant, with mode data of one byte included.
LEMMA SpiSetModeOK ==
    ASSUME IInv, ~ gd.failed, NEW len \in Replies, SpiSetMode(len)
    PROVE  IInv'
<1> DEFINE d == procpacket(gd)
<1>1. LastWord
  BY DEF SpiSetMode, SpiDone
<1>2. /\ gd.state = "waitpacket" /\ (sb.GDST \/ dma.starved => dma.ahead) /\ d \in Drive
      /\ dma \in Histories /\ d.dma = gd.dma /\ d.type = gd.type /\ ~ d.failed
  BY <1>1, PacketTaken
<1>3. gd' = gd_spi_pio_read_end(d, len, "process_set_mode") /\ host' = [at |-> "wait", left |-> 0]
      /\ xfer' = NoRead /\ UNCHANGED <<sb, stops, dma>>
  BY <1>2 DEF SpiSetMode, SpiDone
<1> HIDE DEF d
<1>4. len \in 0 .. 2 * PioCapacity /\ "process_set_mode" \in NextStates
  BY Sizes, GdRomAssumption DEF NextStates
<1>5. /\ gd' \in Drive /\ SameRead(d, gd')
      /\ gd'.pio = [size |-> len \div 2, index |-> 0, next |-> "process_set_mode"]
      /\ gd'.INTRQ /\ ~ gd'.BSY /\ len \div 2 \in 0 .. PioCapacity
      /\ IF len = 0 THEN gd'.state = "waitcmd" /\ ~ gd'.DRQ
         ELSE gd'.state = "pio_get" /\ gd'.DRQ
  BY <1>2, <1>3, <1>4, ReadStarts
<1>6. gd'.dma <= NSECT * gd'.type /\ ~ gd'.failed
  BY <1>2, <1>5, State DEF SameRead
<1>7. gd'.pio.index = 0 /\ gd'.pio.size = len \div 2 /\ gd'.pio.next = "process_set_mode"
  BY <1>5
<1>8. QED
  BY <1>2, <1>3, <1>4, <1>5, <1>6, <1>7, Answered DEF PioStates

\* What a command that reads n sectors of size t starts from.
LEMMA ReadParams ==
    ASSUME IInv, ~ gd.failed, LastWord, NEW n \in Sectors, NEW t \in SectorTypes
    PROVE  /\ n \in Nat \ {0} /\ t \in Nat \ {0}
           /\ readParams(n, t) \in Drive /\ readParams(n, t).start = 0
           /\ readParams(n, t).remaining = n /\ readParams(n, t).type = t
           /\ ~ readParams(n, t).failed /\ readParams(n, t).pio = gd.pio
           /\ readParams(n, t).BSY /\ ~ readParams(n, t).DRQ
<1> DEFINE d == procpacket(gd)
<1>1. d \in Drive /\ ~ d.failed /\ d.pio = gd.pio /\ d.BSY /\ ~ d.DRQ
  BY PacketTaken
<1>2. n \in Nat \ {0} /\ t \in Nat \ {0}
  BY SectorCount, SectorSize
<1>3. readParams(n, t) = [d EXCEPT !.start = 0, !.remaining = n, !.type = t]
  BY DEF readParams
<1> HIDE DEF d
<1>4. n \in Nat /\ 0 \in Nat
  BY <1>2
<1>5. QED
  BY <1>1, <1>2, <1>3, <1>4 DEF Drive

\* SpiReadPio keeps the invariant.
LEMMA SpiReadPioOK ==
    ASSUME IInv, ~ gd.failed, NEW n \in Sectors, NEW t \in SectorTypes, SpiReadPio(n, t)
    PROVE  IInv'
<1> DEFINE d == readParams(n, t)
           e == [d EXCEPT !.dma = 0]
<1>1. LastWord
  BY DEF SpiReadPio, SpiDone
<1>2. gd.state = "waitpacket" /\ (sb.GDST \/ dma.starved => dma.ahead) /\ dma \in Histories
  BY <1>1, PacketTaken
<1>3. gd' = readsector_pio(e) /\ host' = [at |-> "wait", left |-> 0]
      /\ xfer' = [n |-> n, moved |-> 0] /\ UNCHANGED <<sb, stops, dma>>
  BY <1>2 DEF SpiReadPio, SpiDone
<1>4. /\ n \in Nat \ {0} /\ t \in Nat \ {0} /\ d \in Drive /\ d.start = 0
      /\ d.remaining = n /\ d.type = t /\ ~ d.failed
  BY <1>1, ReadParams
<1> HIDE DEF d
<1>5. /\ e \in Drive /\ e.dma = 0 /\ e.start = 0 /\ e.remaining = n /\ e.type = t
      /\ ~ e.failed
  BY <1>4 DEF Drive
<1> HIDE DEF e
<1>6. /\ gd' \in Drive /\ gd'.state = "pio_send" /\ gd'.DRQ /\ gd'.INTRQ /\ ~ gd'.BSY
      /\ gd'.pio.index = 0 /\ gd'.pio.size > 0
      /\ gd'.pio.next \in {"readsector_pio", "pio_end"}
      /\ gd'.pio.next = "readsector_pio" <=> gd'.remaining > 0
      /\ gd'.start + gd'.remaining = n
      /\ gd'.pio.size + gd'.remaining * t = n * t
      /\ gd'.dma = 0 /\ gd'.type = t /\ ~ gd'.failed
  <2>1. e.remaining > 0 /\ e.start + e.remaining = n
    BY <1>4, <1>5
  <2>2. QED
    BY <1>3, <1>5, <2>1, BatchStarts
<1>7. /\ host' \in [at : {"idle", "packet", "poll", "wait", "data"}, left : Nat]
      /\ xfer' \in [n : Sectors \cup {0}, moved : Nat]
      /\ xfer'.n = n /\ xfer'.moved = 0 /\ host'.at = "wait"
  BY <1>3
<1>8. gd'.pio.size \in Nat /\ gd'.remaining \in Nat /\ NSECT * t \in Nat
      /\ gd'.remaining * t \in Nat
  BY <1>4, <1>6, Sizes DEF Drive
<1>9. NoSectorLost'
  BY <1>2, <1>3, <1>4, <1>6, <1>7, <1>8 DEF NoSectorLost
<1>10. Phases' /\ PioOK' /\ ReadOK' /\ DmaOK'
  BY <1>2, <1>3, <1>4, <1>6, <1>7, <1>8 DEF Phases, PioOK, ReadOK, DmaOK, PioStates
<1>11. sb' \in Registers /\ stops' \in 0 .. MaxStops
  BY <1>3, State
<1>12. gd'.pio.index <= gd'.pio.size /\ gd'.dma <= NSECT * gd'.type
  BY <1>6, <1>8
<1>13. Known'
  BY <1>2, <1>3, <1>6, <1>7, <1>9, <1>10, <1>11, <1>12 DEF Known
<1>14. QED
  BY <1>13, KnownIsInv, PTL

\* SpiReadDma keeps the invariant.
LEMMA SpiReadDmaOK ==
    ASSUME IInv, ~ gd.failed, NEW n \in Sectors, NEW t \in SectorTypes, SpiReadDma(n, t)
    PROVE  IInv'
<1> DEFINE d == readParams(n, t)
           p == [size |-> 0, index |-> 0, next |-> "waitcmd"]
           e == [d EXCEPT !.pio = p]
           f == [e EXCEPT !.state = "readsector_dma", !.dma = 0]
<1>1. LastWord
  BY DEF SpiReadDma, SpiDone
<1>2. gd.state = "waitpacket" /\ (sb.GDST \/ dma.starved => dma.ahead) /\ dma \in Histories
  BY <1>1, PacketTaken
<1>3. gd' = fill(f) /\ host' = [at |-> "wait", left |-> 0]
      /\ xfer' = [n |-> n, moved |-> 0] /\ UNCHANGED <<sb, stops, dma>>
  BY <1>2 DEF SpiReadDma, SpiDone, readsector_dma
<1>4. /\ n \in Nat \ {0} /\ t \in Nat \ {0} /\ d \in Drive /\ d.start = 0
      /\ d.remaining = n /\ d.type = t /\ ~ d.failed /\ d.BSY /\ ~ d.DRQ
  BY <1>1, ReadParams
<1>5. p \in [size : 0 .. PioCapacity, index : 0 .. PioCapacity, next : NextStates]
      /\ p.size = 0 /\ p.index = 0
  BY Sizes DEF NextStates
<1> HIDE DEF d, p
<1>6. /\ e \in Drive /\ e.start = 0 /\ e.remaining = n /\ e.type = t /\ ~ e.failed
      /\ e.BSY /\ ~ e.DRQ /\ e.pio = p
  BY <1>4, <1>5 DEF Drive
<1> HIDE DEF e
<1>7. /\ f \in Drive /\ f.start = 0 /\ f.remaining = n /\ f.type = t /\ ~ f.failed
      /\ f.BSY /\ ~ f.DRQ /\ f.pio = p /\ f.dma = 0 /\ f.state = "readsector_dma"
  BY <1>6 DEF Drive, States
<1> HIDE DEF f
<1>8. Available(f) = n * t /\ n * t \in Nat \ {0} /\ NSECT * t \in Nat
  BY <1>4, <1>7, MulPos, Sizes DEF Available
<1>9. After(f, 0, gd')
  <2>1. f.dma <= NSECT * f.type /\ Available(f) > 0
    BY <1>7, <1>8
  <2>2. QED
    BY <1>3, <1>7, <2>1, FillKeeps
<1>10. /\ gd' \in Drive /\ gd'.state = "readsector_dma" /\ gd'.BSY /\ ~ gd'.DRQ /\ gd'.pio = p
       /\ gd'.type = t /\ ~ gd'.failed /\ gd'.dma <= NSECT * gd'.type
       /\ gd'.start + gd'.remaining = n
  BY <1>4, <1>7, <1>8, <1>9 DEF After, SamePhase
<1>11. gd'.dma \in Nat /\ gd'.remaining * gd'.type \in Nat
       /\ gd'.dma + gd'.remaining * gd'.type = n * t
  <2>1. gd'.dma \in Nat /\ gd'.remaining \in Nat
    BY <1>10 DEF Drive
  <2>2. QED
    BY <1>4, <1>8, <1>9, <1>10, <2>1 DEF After, Available
<1>12. /\ host' \in [at : {"idle", "packet", "poll", "wait", "data"}, left : Nat]
       /\ xfer' \in [n : Sectors \cup {0}, moved : Nat]
       /\ xfer'.n = n /\ xfer'.moved = 0 /\ host'.at = "wait"
  BY <1>3
<1>13. NoSectorLost'
  <2>1. xfer'.moved + Available(gd)' = xfer'.n * gd'.type
    BY <1>4, <1>10, <1>11, <1>12 DEF Available
  <2>2. QED
    BY <1>2, <1>3, <1>10, <1>12, <2>1 DEF NoSectorLost
<1>14. Phases' /\ PioOK' /\ ReadOK' /\ DmaOK'
  BY <1>2, <1>3, <1>4, <1>10, <1>12 DEF Phases, PioOK, ReadOK, DmaOK, PioStates
<1>15. sb' \in Registers /\ stops' \in 0 .. MaxStops
  BY <1>3, State
<1>16. gd'.pio.index <= gd'.pio.size
  BY <1>5, <1>10
<1>17. Known'
  BY <1>2, <1>3, <1>10, <1>12, <1>13, <1>14, <1>15, <1>16 DEF Known
<1>18. QED
  BY <1>17, KnownIsInv, PTL
\* PacketWord keeps the invariant.
LEMMA PacketWordOK == ASSUME IInv, ~ gd.failed, PacketWord PROVE IInv'
<1>1. Known
  BY KnownIsInv
<1>2. host.at = "packet" /\ host.left > 1 /\ gd.DRQ /\ host' = [host EXCEPT !.left = @ - 1]
      /\ UNCHANGED <<sb, xfer, stops, dma>>
  BY DEF PacketWord
<1>3. gd.state = "waitpacket" /\ gd.packet + host.left = PacketWords
  BY <1>1, <1>2 DEF Known, Phases
<1>4. gd.packet \in Nat /\ host.left \in Nat /\ PacketWords \in Nat /\ gd \in Drive
  BY State, Sizes DEF Drive
<1>5. gd.packet + 1 \in 0 .. PacketWords /\ host.left - 1 \in Nat
      /\ (gd.packet + 1) + (host.left - 1) = PacketWords
  BY <1>2, <1>3, <1>4
<1>6. gd' = [gd EXCEPT !.packet = @ + 1]
  BY <1>3 DEF PacketWord
<1>7. /\ gd' \in Drive /\ gd'.packet = gd.packet + 1 /\ gd'.state = gd.state
      /\ gd'.BSY = gd.BSY /\ gd'.DRQ = gd.DRQ /\ gd'.INTRQ = gd.INTRQ /\ gd'.pio = gd.pio
      /\ gd'.dma = gd.dma /\ gd'.start = gd.start /\ gd'.remaining = gd.remaining
      /\ gd'.type = gd.type /\ gd'.failed = gd.failed
  BY <1>4, <1>5, <1>6 DEF Drive
<1>8. /\ host' \in [at : {"idle", "packet", "poll", "wait", "data"}, left : Nat]
      /\ host'.at = "packet" /\ host'.left = host.left - 1
  BY <1>1, <1>2, <1>5 DEF Known
<1>9. Phases'
  BY <1>1, <1>3, <1>5, <1>7, <1>8 DEF Known, Phases
<1>10. NoSectorLost' /\ PioOK' /\ ReadOK' /\ DmaOK'
  BY <1>1, <1>2, <1>3, <1>7, <1>8
     DEF Known, NoSectorLost, PioOK, ReadOK, DmaOK, PioStates
<1>11. Known'
  BY <1>1, <1>2, <1>7, <1>8, <1>9, <1>10 DEF Known
<1>12. QED
  BY <1>11, KnownIsInv, PTL
\* ReadStatus keeps the invariant: the driver finds the phase it has to go on with.
LEMMA ReadStatusOK == ASSUME IInv, ~ gd.failed, ReadStatus PROVE IInv'
<1>1. Known
  BY KnownIsInv
<1>2. /\ host.at \in {"poll", "wait"} /\ UNCHANGED <<sb, xfer, stops, dma>>
      /\ gd' = [gd EXCEPT !.INTRQ = FALSE]
      /\ host' = IF gd.BSY THEN host
                 ELSE IF ~ gd.DRQ THEN [at |-> "idle", left |-> 0]
                 ELSE IF gd.pio.size = gd.pio.index THEN [at |-> "wait", left |-> 0]
                 ELSE [at |-> "data", left |-> gd.pio.size - gd.pio.index]
  BY DEF ReadStatus
<1>3. /\ gd' \in Drive /\ gd'.packet = gd.packet /\ gd'.state = gd.state
      /\ gd'.BSY = gd.BSY /\ gd'.DRQ = gd.DRQ /\ gd'.pio = gd.pio
      /\ gd'.dma = gd.dma /\ gd'.start = gd.start /\ gd'.remaining = gd.remaining
      /\ gd'.type = gd.type /\ gd'.failed = gd.failed
  BY <1>2, State DEF Drive
<1>4. gd.state \in States /\ (Wordless' <=> Wordless)
  BY <1>3, State DEF Drive, Wordless
<1>5. /\ host' \in [at : {"idle", "packet", "poll", "wait", "data"}, left : Nat]
      /\ Phases' /\ (host'.at = "wait" => gd.state = "readsector_dma" \/ Wordless)
      /\ host'.at = "data" => gd.state \in PioStates
  <2>1. CASE gd.BSY
    BY <1>1, <1>2, <1>3, <2>1 DEF Known, Phases
  <2>2. CASE ~ gd.BSY /\ gd.DRQ
    <3>1. gd.state \in PioStates /\ (gd.pio.index < gd.pio.size \/ Wordless)
      BY <1>1, <1>2, <2>2 DEF Known, Phases, PioOK, PioStates
    <3>2. gd.pio.size \in Nat /\ gd.pio.index \in Nat /\ gd.pio.index <= gd.pio.size
      BY State DEF Drive
    <3>3. CASE gd.pio.size = gd.pio.index
      <4>1. host' = [at |-> "wait", left |-> 0] /\ Wordless
        BY <1>2, <2>2, <3>1, <3>2, <3>3
      <4>2. QED
        BY <1>1, <1>3, <1>4, <4>1 DEF Known, Phases
    <3>4. CASE gd.pio.size # gd.pio.index
      <4>1. gd.pio.size - gd.pio.index \in Nat \ {0}
        BY <3>2, <3>4
      <4>2. host' = [at |-> "data", left |-> gd.pio.size - gd.pio.index]
        BY <1>2, <2>2, <3>4
      <4>3. /\ host' \in [at : {"idle", "packet", "poll", "wait", "data"}, left : Nat]
            /\ host'.at = "data" /\ host'.left = gd.pio.size - gd.pio.index
        BY <4>1, <4>2
      <4>4. QED
        BY <1>1, <1>3, <3>1, <4>1, <4>3 DEF Known, Phases
    <3>5. QED
      BY <3>3, <3>4
  <2>3. CASE ~ gd.BSY /\ ~ gd.DRQ
    <3>1. gd.state = "waitcmd"
      BY <1>1, <1>4, <2>3 DEF Known, Phases, States
    <3>2. host' = [at |-> "idle", left |-> 0]
      BY <1>2, <2>3
    <3>3. QED
      BY <1>1, <1>3, <3>1, <3>2 DEF Known, Phases
  <2>4. QED
    BY <2>1, <2>2, <2>3
<1>6. NoSectorLost'
  BY <1>1, <1>2, <1>3 DEF Known, NoSectorLost, Available
<1>7. PioOK' /\ ReadOK'
  BY <1>1, <1>2, <1>3, <1>4, <1>5 DEF Known, PioOK, ReadOK, Wordless, PioStates
<1>8. DmaOK'
  BY <1>1, <1>2, <1>3 DEF Known, DmaOK, DmaFits, Available
<1>9. Known'
  BY <1>1, <1>2, <1>3, <1>5, <1>6, <1>7, <1>8 DEF Known
<1>10. QED
  BY <1>9, KnownIsInv, PTL

\* DataWord keeps the invariant: the last word of a phase goes on with the next.
LEMMA DataWordOK == ASSUME IInv, ~ gd.failed, DataWord PROVE IInv'
<1> DEFINE m == [gd EXCEPT !.pio.index = @ + 1]
           one == IF xfer.n > 0 THEN 1 ELSE 0
<1>1. Known
  BY KnownIsInv
<1>2. /\ host.at = "data" /\ UNCHANGED <<sb, stops, dma>>
      /\ xfer' = [xfer EXCEPT !.moved = @ + one]
      /\ host' = IF host.left = 1 THEN [at |-> "wait", left |-> 0]
                 ELSE [host EXCEPT !.left = @ - 1]
  BY DEF DataWord
<1>3. /\ gd \in Drive /\ gd.pio.size \in 0 .. PioCapacity /\ gd.pio.index \in Nat
      /\ gd.pio.size \in Nat /\ host.left \in Nat /\ xfer.n \in Nat /\ xfer.moved \in Nat
      /\ gd.type \in Nat \ {0} /\ gd.remaining \in Nat /\ gd.start \in Nat
      /\ gd.dma <= NSECT * gd.type /\ dma \in Histories
  BY State DEF Drive
<1>4. /\ gd.pio.size - gd.pio.index = host.left /\ host.left > 0
      /\ gd.state \in PioStates \/ (gd.state = "waitcmd" /\ dma.torn)
      /\ gd.pio.next # "waitcmd" /\ gd.state # "readsector_dma"
  BY <1>1, <1>2 DEF Known, Phases, PioOK, PioStates
<1>5. gd.pio.index < gd.pio.size /\ gd.pio.index # gd.pio.size
  BY <1>3, <1>4
<1>6. gd' = IF m.pio.index = m.pio.size THEN gd_set_next(m) ELSE m
  BY <1>5 DEF DataWord, NextWord
<1>7. gd.pio.index + 1 \in 0 .. PioCapacity
  BY <1>3, <1>5, Sizes
<1>8. /\ m \in Drive /\ m.pio.index = gd.pio.index + 1 /\ m.pio.size = gd.pio.size
      /\ m.pio.next = gd.pio.next /\ m.state = gd.state /\ m.BSY = gd.BSY /\ m.DRQ = gd.DRQ
      /\ m.INTRQ = gd.INTRQ /\ SameRead(gd, m)
  BY <1>3, <1>7 DEF Drive, SameRead
<1> HIDE DEF m
<1>9. /\ xfer' \in [n : Sectors \cup {0}, moved : Nat]
      /\ xfer'.n = xfer.n /\ xfer'.moved = xfer.moved + one /\ one \in {0, 1}
      /\ (xfer.n > 0 <=> one = 1)
  <2>1. xfer.moved + one \in Nat
    BY <1>3
  <2>2. QED
    BY <1>1, <1>2, <2>1 DEF Known
<1> HIDE DEF one
<1>10. gd.remaining * gd.type \in Nat
  BY <1>3
<1>11. /\ sb' \in Registers /\ stops' \in 0 .. MaxStops /\ dma' \in Histories
       /\ sb'.GDST \/ dma'.starved => dma'.ahead
  BY <1>2, <1>4, NoDma, State DEF IInv, NoSectorLost
<1>12. xfer.n > 0 => gd.start + gd.remaining = xfer.n
  BY <1>1 DEF Known, NoSectorLost
<1>13. CASE host.left # 1
  <2>1. gd' = m /\ m.pio.index < m.pio.size
    BY <1>3, <1>4, <1>5, <1>6, <1>8, <1>13
  <2>2. /\ host' \in [at : {"idle", "packet", "poll", "wait", "data"}, left : Nat]
        /\ host'.at = "data" /\ host'.left = host.left - 1 /\ host'.left \in Nat \ {0}
    BY <1>1, <1>2, <1>3, <1>4, <1>13 DEF Known
  <2>3. Phases'
    <3>1. gd'.pio.size - gd'.pio.index = host'.left /\ host'.left > 0
      BY <1>3, <1>4, <1>8, <2>1, <2>2
    <3>2. (gd.BSY <=> gd.state = "readsector_dma")
          /\ (gd.DRQ <=> gd.state \in {"waitpacket", "pio_send", "pio_get"})
      BY <1>1 DEF Known, Phases
    <3>3. QED
      BY <1>2, <1>4, <1>8, <2>1, <2>2, <3>1, <3>2 DEF Phases
  <2>4. NoSectorLost'
    <3>1. gd.state = "pio_send" /\ xfer.n > 0 /\ ~ dma.torn =>
            xfer.moved + (gd.pio.size - gd.pio.index) + gd.remaining * gd.type
              = xfer.n * gd.type
      BY <1>1 DEF Known, NoSectorLost
    <3>2. gd.state = "pio_send" /\ xfer.n > 0 /\ ~ dma.torn =>
            (xfer.moved + 1) + (gd.pio.size - (gd.pio.index + 1)) + gd.remaining * gd.type
              = xfer.n * gd.type
      <4>1. (xfer.moved + 1) + (gd.pio.size - (gd.pio.index + 1))
              = xfer.moved + (gd.pio.size - gd.pio.index)
        BY <1>3
      <4>2. QED
        BY <3>1, <4>1
    <3>3. gd.state = "waitcmd" => dma.torn
      BY <1>4 DEF PioStates
    <3>4. QED
      BY <1>2, <1>4, <1>8, <1>9, <1>11, <1>12, <2>1, <3>2, <3>3 DEF NoSectorLost, SameRead
  <2>5. PioOK' /\ ReadOK'
    BY <1>1, <1>2, <1>4, <1>8, <1>9, <2>1, <2>2, <1>3
       DEF Known, PioOK, ReadOK, SameRead, PioStates
  <2>6. gd'.pio.index <= gd'.pio.size /\ gd'.dma <= NSECT * gd'.type
    BY <1>3, <1>7, <1>8, <2>1 DEF SameRead
  <2>7. DmaOK'
    BY <1>11 DEF DmaOK
  <2>8. Known'
    BY <1>8, <1>9, <1>11, <2>1, <2>2, <2>3, <2>4, <2>5, <2>6, <2>7 DEF Known
  <2>9. QED
    BY <2>8, KnownIsInv, PTL
<1>14. CASE host.left = 1
  <2>1. gd' = gd_set_next(m) /\ gd.pio.size - gd.pio.index = 1
    BY <1>3, <1>4, <1>6, <1>8, <1>14
  <2>2. /\ host' \in [at : {"idle", "packet", "poll", "wait", "data"}, left : Nat]
        /\ host'.at = "wait"
    BY <1>2, <1>14
  <2>3. gd.state = "pio_send" /\ xfer.n > 0 /\ ~ dma.torn =>
          xfer.moved + 1 + gd.remaining * gd.type = xfer.n * gd.type
    BY <1>1, <2>1 DEF Known, NoSectorLost
  <2>4. xfer.n > 0 /\ ~ dma.torn => gd.state = "pio_send"
    BY <1>1, <1>3, <1>4 DEF Known, ReadOK, PioStates
  <2>5. DmaOK'
    BY <1>11 DEF DmaOK
  <2>6. CASE gd.pio.next = "readsector_pio" /\ gd.remaining > 0
    <3>1. ~ dma.torn => gd.state = "pio_send" /\ xfer.n > 0
      BY <1>1, <1>4, <2>6 DEF Known, PioOK
    <3>2. gd' = readsector_pio(m) /\ m.remaining > 0
      BY <1>8, <2>1, <2>6 DEF gd_set_next, SameRead
    <3>3. /\ gd' \in Drive /\ gd'.state = "pio_send" /\ gd'.DRQ /\ gd'.INTRQ /\ ~ gd'.BSY
          /\ gd'.pio.index = 0 /\ gd'.pio.size > 0
          /\ gd'.pio.next \in {"readsector_pio", "pio_end"}
          /\ gd'.pio.next = "readsector_pio" <=> gd'.remaining > 0
          /\ gd'.start + gd'.remaining = gd.start + gd.remaining
          /\ gd'.pio.size + gd'.remaining * gd.type = gd.remaining * gd.type
          /\ gd'.dma = gd.dma /\ gd'.type = gd.type /\ ~ gd'.failed
      BY <1>3, <1>8, <3>2, BatchStarts DEF SameRead
    <3>4. gd'.pio.size \in Nat /\ gd'.remaining \in Nat /\ gd'.remaining * gd.type \in Nat
      BY <1>3, <3>3 DEF Drive
    <3>5. Phases'
      BY <2>2, <3>3 DEF Phases, PioStates
    <3>6. NoSectorLost'
      <4>1. ~ dma.torn => xfer'.moved + (gd'.pio.size - gd'.pio.index)
                            + gd'.remaining * gd'.type = xfer'.n * gd'.type
        BY <1>3, <1>9, <1>10, <2>3, <3>1, <3>3, <3>4
      <4>2. QED
        BY <1>2, <1>9, <1>11, <1>12, <3>3, <4>1 DEF NoSectorLost
    <3>7. PioOK' /\ ReadOK'
      BY <1>1, <1>2, <1>3, <1>9, <2>2, <3>1, <3>3, <3>4 DEF Known, PioOK, ReadOK, PioStates
    <3>8. gd'.pio.index <= gd'.pio.size /\ gd'.dma <= NSECT * gd'.type
      BY <1>3, <3>3, <3>4
    <3>9. Known'
      BY <1>9, <1>11, <2>2, <2>5, <3>3, <3>5, <3>6, <3>7, <3>8 DEF Known
    <3>10. QED
      BY <3>9, KnownIsInv, PTL
  <2>7. CASE ~ (gd.pio.next = "readsector_pio" /\ gd.remaining > 0)
    <3>1. /\ gd' \in Drive /\ gd'.state = "waitcmd" /\ ~ gd'.DRQ /\ gd'.INTRQ /\ ~ gd'.BSY
          /\ gd'.start + gd'.remaining = gd.start + gd.remaining
          /\ gd'.dma = gd.dma /\ gd'.type = gd.type /\ ~ gd'.failed
          /\ gd'.pio.index <= gd'.pio.size
      <4>1. CASE gd.pio.next = "readsector_pio"
        <5>1. gd' = readsector_pio(m) /\ m.remaining = 0
          BY <1>3, <1>8, <2>1, <2>7, <4>1 DEF gd_set_next, SameRead
        <5>2. QED
          BY <1>3, <1>8, <5>1, BatchEmpty DEF SameRead
      <4>2. CASE gd.pio.next # "readsector_pio"
        <5>1. gd' = pio_end(m)
          BY <1>4, <1>8, <2>1, <4>2 DEF gd_set_next
        <5>2. /\ gd' \in Drive /\ SameRead(m, gd') /\ gd'.pio = m.pio /\ gd'.state = "waitcmd"
              /\ gd'.INTRQ /\ ~ gd'.BSY /\ ~ gd'.DRQ
          BY <1>8, <5>1, CommandEnds
        <5>3. m.pio.index <= m.pio.size
          BY <1>3, <1>5, <1>8
        <5>4. QED
          BY <1>8, <5>2, <5>3 DEF SameRead
      <4>3. QED
        BY <4>1, <4>2
    <3>2. Phases'
      BY <2>2, <3>1 DEF Phases, PioStates
    <3>3. xfer.n > 0 /\ ~ dma.torn => gd.remaining = 0
      BY <1>1, <2>4, <2>7 DEF Known, PioOK, PioStates
    <3>4. ~ dma.torn => xfer'.moved = xfer'.n * gd.type
      <4>1. CASE xfer.n > 0
        BY <1>3, <1>9, <2>3, <2>4, <3>3, <4>1
      <4>2. CASE xfer.n = 0
        BY <1>1, <1>3, <1>9, <4>2 DEF Known, ReadOK
      <4>3. QED
        BY <1>3, <4>1, <4>2
    <3>5. NoSectorLost'
      BY <1>2, <1>9, <1>11, <1>12, <3>1, <3>4 DEF NoSectorLost
    <3>6. PioOK' /\ ReadOK'
      BY <1>1, <1>3, <1>9, <2>2, <3>1 DEF Known, PioOK, ReadOK, PioStates
    <3>7. gd'.dma <= NSECT * gd'.type
      BY <1>3, <3>1
    <3>8. Known'
      BY <1>9, <1>11, <2>2, <2>5, <3>1, <3>2, <3>5, <3>6, <3>7 DEF Known
    <3>9. QED
      BY <3>8, KnownIsInv, PTL
  <2>8. QED
    BY <2>6, <2>7
<1>15. QED
  BY <1>13, <1>14

\* A step that changes registers only keeps the invariant, if a DMA that is not
\* ahead fits.
LEMMA RegistersOK ==
    ASSUME IInv, UNCHANGED <<gd, host, xfer>>, stops' \in 0 .. MaxStops, sb' \in Registers,
           dma' \in Histories, dma'.torn = dma.torn,
           gd.failed \/ dma'.starved => dma'.ahead,
           sb'.GDST /\ ~ dma'.ahead => gd.state = "readsector_dma" /\ DmaFits(gd, sb')
    PROVE  IInv'
<1>1. Known
  BY KnownIsInv
<1>2. DmaOK'
  BY DEF DmaOK
<1>3. Phases'
  BY <1>1 DEF Known, Phases, Wordless
<1>4. NoSectorLost'
  BY <1>1 DEF Known, NoSectorLost
<1>5. PioOK' /\ ReadOK'
  BY <1>1 DEF Known, PioOK, ReadOK, Wordless
<1>6. Known'
  BY <1>1, <1>2, <1>3, <1>4, <1>5 DEF Known
<1>7. QED
  BY <1>6, KnownIsInv, PTL

\* What the history says of a tick.
LEMMA TickHistoryOK ==
    ASSUME NEW h \in Histories, NEW d \in Drive, NEW s \in Registers
    PROVE  LET k == TickHistory(h, d, s) IN
           /\ k \in Histories /\ k.ahead = h.ahead
           /\ k.starved <=> h.starved \/ (s.GDST /\ Available(d) = 0)
           /\ k.torn <=> h.torn \/ (~ Idle(d, s) /\ d.state # "readsector_dma")
<1> DEFINE a == s.GDST /\ Available(d) = 0
           b == ~ Idle(d, s) /\ d.state # "readsector_dma"
<1>1. a \in BOOLEAN /\ b \in BOOLEAN
  OBVIOUS
<1>2. TickHistory(h, d, s) = [h EXCEPT !.starved = h.starved \/ a, !.torn = h.torn \/ b]
  BY DEF TickHistory, Histories
<1> HIDE DEF a, b
<1>3. (h.starved \/ a) \in BOOLEAN /\ (h.torn \/ b) \in BOOLEAN
  BY <1>1
<1>4. QED
  BY <1>2, <1>3 DEF Histories, a, b

\* A tick of a read by DMA keeps the invariant.  The tick starts from registers s
\* and history h: those of the state, or those with which a tiny DMA starts.
LEMMA ReadTickOK ==
    ASSUME IInv, ~ gd.failed, gd.state = "readsector_dma",
           NEW s \in Registers, ~ Idle(gd, s), s.GDST,
           gd' = TickDrive(gd, s), xfer' = TickXfer(gd, s), UNCHANGED <<host, stops>>,
           NEW on \in BOOLEAN, sb' = [TickRegs(gd, s) EXCEPT !.sched = on],
           dma' \in Histories, dma'.torn = dma.torn, dma'.starved => dma'.ahead,
           ~ dma'.ahead => DmaFits(gd, s)
    PROVE  IInv'
<1> DEFINE len == TickLen(gd, s)
           r == TickRegs(gd, s)
<1>1. Known
  BY KnownIsInv
<1>2. /\ gd \in Drive /\ gd.dma <= NSECT * gd.type /\ gd.BSY /\ ~ gd.DRQ
      /\ xfer.n \in Nat /\ xfer.moved \in Nat /\ Available(gd) \in Nat /\ gd.type \in Nat
  BY <1>1, State DEF Known, Phases
<1>3. host.at = "wait" /\ xfer.n > 0
  BY <1>1, State DEF Known, Phases, ReadOK, PioStates
<1>4. /\ len \in Nat /\ r \in Registers
      /\ gd' \in Drive /\ gd'.dma <= NSECT * gd'.type /\ Available(gd)' \in Nat
      /\ gd'.type = gd.type /\ gd'.pio = gd.pio /\ gd'.packet = gd.packet
      /\ gd'.start + gd'.remaining = gd.start + gd.remaining
      /\ ~ gd'.failed => Available(gd)' + len = Available(gd)
      /\ \/ gd'.state = "readsector_dma" /\ gd'.BSY /\ ~ gd'.DRQ
         \/ /\ gd'.state = "waitcmd" /\ ~ gd'.BSY /\ ~ gd'.DRQ /\ gd'.INTRQ
            /\ ~ gd'.failed /\ Available(gd)' = 0
  <2>1. Available(gd)' = Available(TickDrive(gd, s))
    BY DEF Available
  <2>2. QED
    BY <1>2, <2>1, TickDoes
<1>5. ~ dma'.ahead =>
        ~ gd'.failed /\ (r.GDST => DmaFits(gd', r) /\ gd'.state = "readsector_dma")
  BY <1>2, TickFits
<1>6. xfer' = [xfer EXCEPT !.moved = @ + len]
  BY <1>3 DEF TickXfer
<1> HIDE DEF len, r
<1>7. /\ xfer' \in [n : Sectors \cup {0}, moved : Nat]
      /\ xfer'.n = xfer.n /\ xfer'.moved = xfer.moved + len
  <2>1. xfer.moved + len \in Nat
    BY <1>2, <1>4
  <2>2. QED
    BY <1>1, <1>6, <2>1 DEF Known
<1>8. /\ sb' \in Registers /\ sb'.GDST = r.GDST /\ sb'.GDEN = r.GDEN
      /\ sb'.GDLEN = r.GDLEN /\ sb'.GDLEND = r.GDLEND
  BY <1>4 DEF Registers, r
<1>9. DmaOK'
  BY <1>5, <1>8 DEF DmaOK, DmaFits, DmaLen, Available
<1>10. Phases'
  BY <1>1, <1>3, <1>4 DEF Known, Phases
<1>11. PioOK' /\ ReadOK'
  BY <1>3, <1>4, <1>7 DEF PioOK, ReadOK, PioStates
<1>12. NoSectorLost'
  <2>1. xfer.moved + Available(gd) = xfer.n * gd.type /\ gd.start + gd.remaining = xfer.n
    BY <1>1, <1>3 DEF Known, NoSectorLost
  <2>2. ~ gd'.failed => xfer'.moved + Available(gd)' = xfer'.n * gd'.type
    BY <1>2, <1>4, <1>7, <2>1
  <2>3. gd'.state = "waitcmd" => xfer'.moved = xfer'.n * gd'.type
    BY <1>2, <1>4, <1>7, <2>2
  <2>4. gd'.failed \/ dma'.starved => dma'.ahead
    BY <1>5
  <2>5. QED
    BY <1>4, <1>7, <2>1, <2>2, <2>3, <2>4 DEF NoSectorLost
<1>13. gd'.pio.index <= gd'.pio.size
  BY <1>1, <1>4 DEF Known
<1>14. Known'
  BY <1>1, <1>4, <1>7, <1>8, <1>9, <1>10, <1>11, <1>12, <1>13 DEF Known
<1>15. QED
  BY <1>14, KnownIsInv, PTL

\* A tick during another command keeps the invariant: the slot may end the command,
\* and the history says so.
LEMMA TornTickOK ==
    ASSUME IInv, ~ gd.failed, gd.state # "readsector_dma",
           NEW s \in Registers, ~ Idle(gd, s),
           gd' = TickDrive(gd, s), xfer' = TickXfer(gd, s), UNCHANGED <<host, stops>>,
           NEW on \in BOOLEAN, sb' = [TickRegs(gd, s) EXCEPT !.sched = on],
           dma' \in Histories, dma'.torn, dma'.ahead
    PROVE  IInv'
<1> DEFINE len == TickLen(gd, s)
<1>1. Known
  BY KnownIsInv
<1>2. gd \in Drive /\ gd.dma <= NSECT * gd.type /\ xfer.n \in Nat /\ xfer.moved \in Nat
  BY State
<1>3. /\ len \in Nat /\ TickRegs(gd, s) \in Registers
      /\ gd' \in Drive /\ gd'.dma <= NSECT * gd'.type
      /\ gd'.type = gd.type /\ gd'.pio = gd.pio /\ gd'.packet = gd.packet
      /\ gd'.start + gd'.remaining = gd.start + gd.remaining
      /\ \/ gd'.state = gd.state /\ gd'.BSY = gd.BSY /\ gd'.DRQ = gd.DRQ /\ gd'.INTRQ = gd.INTRQ
         \/ gd'.state = "waitcmd" /\ ~ gd'.BSY /\ ~ gd'.DRQ /\ gd'.INTRQ
  BY <1>2, TickDoes
<1>4. xfer' = IF xfer.n = 0 THEN xfer ELSE [xfer EXCEPT !.moved = @ + len]
  BY DEF TickXfer
<1> HIDE DEF len
<1>5. /\ xfer' \in [n : Sectors \cup {0}, moved : Nat] /\ xfer'.n = xfer.n
      /\ xfer.n = 0 => xfer'.moved = xfer.moved
  <2>1. xfer.moved + len \in Nat
    BY <1>2, <1>3
  <2>2. QED
    BY <1>1, <1>4, <2>1 DEF Known
<1>6. sb' \in Registers
  BY <1>3 DEF Registers
<1>7. Phases'
  BY <1>1, <1>3 DEF Known, Phases, Wordless, PioStates
<1>8. NoSectorLost'
  BY <1>1, <1>3, <1>5 DEF Known, NoSectorLost
<1>9. PioOK' /\ ReadOK'
  BY <1>1, <1>2, <1>3, <1>5 DEF Known, PioOK, ReadOK, Wordless, PioStates
<1>10. DmaOK'
  BY DEF DmaOK
<1>11. gd'.pio.index <= gd'.pio.size
  BY <1>1, <1>3 DEF Known
<1>12. Known'
  BY <1>1, <1>3, <1>5, <1>6, <1>7, <1>8, <1>9, <1>10, <1>11 DEF Known
<1>13. QED
  BY <1>12, KnownIsInv, PTL

\* Every tick keeps the invariant.
LEMMA TickOK ==
    ASSUME IInv, ~ gd.failed, NEW s \in Registers, NEW h \in Histories, h.torn = dma.torn,
           h.starved => h.ahead,
           s.GDST /\ ~ h.ahead => gd.state = "readsector_dma" /\ DmaFits(gd, s),
           gd' = TickDrive(gd, s), xfer' = TickXfer(gd, s), UNCHANGED <<host, stops>>,
           NEW on \in BOOLEAN, sb' = [TickRegs(gd, s) EXCEPT !.sched = on],
           dma' = TickHistory(h, gd, s)
    PROVE  IInv'
<1>1. gd \in Drive /\ gd.dma <= NSECT * gd.type /\ stops \in 0 .. MaxStops
  BY State
<1>2. /\ dma' \in Histories /\ dma'.ahead = h.ahead
      /\ dma'.starved <=> h.starved \/ (s.GDST /\ Available(gd) = 0)
      /\ dma'.torn <=> h.torn \/ (~ Idle(gd, s) /\ gd.state # "readsector_dma")
  BY <1>1, TickHistoryOK
<1>3. s.GDST /\ DmaFits(gd, s) => ~ Idle(gd, s)
  BY <1>1, TickFits
<1>4. CASE Idle(gd, s)
  <2>1. gd' = gd /\ xfer' = xfer /\ sb' = [s EXCEPT !.sched = on]
    BY <1>4 DEF TickDrive, TickXfer, TickRegs, Registers
  <2>2. sb' \in Registers /\ sb'.GDST = s.GDST
    BY <2>1 DEF Registers
  <2>3. s.GDST => h.ahead
    BY <1>3, <1>4
  <2>4. dma'.torn = dma.torn
    BY <1>2, <1>4, State DEF Histories
  <2>5. QED
    BY <1>1, <1>2, <2>1, <2>2, <2>3, <2>4, RegistersOK
<1>5. CASE ~ Idle(gd, s) /\ gd.state = "readsector_dma"
  <2>1. s.GDST /\ Available(gd) # 0
    BY <1>1, <1>5, TickDoes DEF Idle
  <2>2. dma'.torn = dma.torn
    BY <1>2, <1>5, State DEF Histories
  <2>3. QED
    BY <1>2, <1>5, <2>1, <2>2, ReadTickOK
<1>6. CASE ~ Idle(gd, s) /\ gd.state # "readsector_dma"
  <2>1. s.GDST
    BY <1>6 DEF Idle
  <2>2. QED
    BY <1>2, <1>6, <2>1, TornTickOK
<1>7. QED
  BY <1>4, <1>5, <1>6

\* GDRomschd keeps the invariant.
LEMMA GDRomschdOK == ASSUME IInv, ~ gd.failed, GDRomschd PROVE IInv'
<1>1. /\ gd' = TickDrive(gd, sb) /\ sb' = TickRegs(gd, sb) /\ xfer' = TickXfer(gd, sb)
      /\ dma' = TickHistory(dma, gd, sb) /\ UNCHANGED <<host, stops>>
  BY DEF GDRomschd
<1>2. sb \in Registers /\ dma \in Histories /\ gd \in Drive /\ gd.dma <= NSECT * gd.type
  BY State
<1>3. /\ dma.starved => dma.ahead
      /\ sb.GDST /\ ~ dma.ahead => gd.state = "readsector_dma" /\ DmaFits(gd, sb)
  BY DEF IInv, NoSectorLost, DmaOK
<1>4. TickRegs(gd, sb) \in Registers
  <2>1. CASE Idle(gd, sb)
    BY <1>2, <2>1 DEF TickRegs, Registers
  <2>2. CASE ~ Idle(gd, sb)
    BY <1>2, <2>2, TickDoes
  <2>3. QED
    BY <2>1, <2>2
<1> DEFINE on == sb'.sched
<1>5. on \in BOOLEAN /\ sb' = [TickRegs(gd, sb) EXCEPT !.sched = on]
  BY <1>1, <1>4 DEF Registers
<1> HIDE DEF on
<1>6. QED
  BY <1>1, <1>2, <1>3, <1>5, TickOK

\* GDROM_DmaStart keeps the invariant, whatever is programmed and whenever.
LEMMA DmaStartOK ==
    ASSUME IInv, ~ gd.failed, NEW len \in Lens, GDROM_DmaStart(len)
    PROVE  IInv'
<1> DEFINE s == [sb EXCEPT !.GDST = TRUE, !.GDLEN = len]
           t == [s EXCEPT !.GDLEND = 0]
           late == ~ s.GDEN
           more == \/ ~ s.GDEN \/ gd.state # "readsector_dma"
                   \/ DmaLen(s) > Available(gd)
           h == [dma EXCEPT !.starved = late, !.ahead = more]
<1>1. /\ UNCHANGED <<host, stops>>
      /\ IF ~ s.GDEN
         THEN sb' = s /\ dma' = h /\ UNCHANGED <<gd, xfer>>
         ELSE IF DmaLen(t) > Tiny
         THEN sb' = [t EXCEPT !.sched = TRUE] /\ dma' = h /\ UNCHANGED <<gd, xfer>>
         ELSE /\ gd' = TickDrive(gd, t)
              /\ sb' = [TickRegs(gd, t) EXCEPT !.sched = @ \/ sb.sched]
              /\ xfer' = TickXfer(gd, t)
              /\ dma' = TickHistory(h, gd, t)
  BY DEF GDROM_DmaStart
<1>2. len \in 0 .. Wrap - 1 /\ 0 \in 0 .. Wrap - 1
  BY Sizes, GdRomAssumption
<1>3. sb \in Registers /\ dma \in Histories /\ gd \in Drive /\ stops \in 0 .. MaxStops
      /\ Available(gd) \in Nat /\ gd.dma <= NSECT * gd.type
  BY State
<1>4. s \in Registers /\ s.GDST /\ s.GDLEN = len /\ s.GDEN = sb.GDEN
  BY <1>2, <1>3 DEF Registers
<1>5. late \in BOOLEAN /\ more \in BOOLEAN /\ (late => more)
  OBVIOUS
<1> HIDE DEF late, more
<1>6. /\ h \in Histories /\ h.torn = dma.torn /\ h.starved = late /\ h.ahead = more
  BY <1>3, <1>5 DEF Histories
<1> HIDE DEF h, s
<1>7. t \in Registers /\ t.GDEN = s.GDEN /\ t.GDST /\ t.GDLEN = len /\ t.GDLEND = 0
  BY <1>2, <1>4 DEF Registers
<1>8. DmaLen(t) = DmaLen(s)
  BY <1>4, <1>7 DEF DmaLen
<1> HIDE DEF t
<1>9. ~ h.ahead => gd.state = "readsector_dma" /\ DmaFits(gd, t)
  <2> SUFFICES ASSUME ~ h.ahead PROVE gd.state = "readsector_dma" /\ DmaFits(gd, t)
    OBVIOUS
  <2>1. s.GDEN /\ gd.state = "readsector_dma" /\ ~ (DmaLen(s) > Available(gd))
    BY <1>6 DEF more
  <2>2. DmaLen(t) \in Nat \ {0} /\ DmaLen(t) <= Available(gd)
    BY <1>2, <1>3, <1>7, <1>8, <2>1, Sizes DEF DmaLen
  <2>3. 0 % Align = 0
    BY Sizes
  <2>4. QED
    BY <1>3, <1>7, <2>1, <2>2, <2>3 DEF DmaFits
<1>10. CASE ~ s.GDEN
  <2>1. sb' = s /\ dma' = h /\ UNCHANGED <<gd, xfer, host, stops>> /\ h.ahead
    BY <1>1, <1>6, <1>10 DEF more
  <2>2. QED
    BY <1>3, <1>4, <1>6, <2>1, RegistersOK
<1>11. CASE s.GDEN /\ DmaLen(t) > Tiny
  <2>1. sb' = [t EXCEPT !.sched = TRUE] /\ dma' = h /\ UNCHANGED <<gd, xfer, host, stops>>
    BY <1>1, <1>11
  <2>2. /\ sb' \in Registers /\ sb'.GDEN = t.GDEN /\ sb'.GDLEN = t.GDLEN
        /\ sb'.GDLEND = t.GDLEND
    BY <1>7, <2>1 DEF Registers
  <2>3. ~ h.ahead => gd.state = "readsector_dma" /\ DmaFits(gd, sb')
    BY <1>9, <2>2 DEF DmaFits, DmaLen
  <2>4. QED
    BY <1>3, <1>5, <1>6, <2>1, <2>2, <2>3, RegistersOK
<1>12. CASE s.GDEN /\ ~ (DmaLen(t) > Tiny)
  <2> DEFINE on == TickRegs(gd, t).sched \/ sb.sched
  <2>1. gd' = TickDrive(gd, t) /\ xfer' = TickXfer(gd, t) /\ dma' = TickHistory(h, gd, t)
        /\ sb' = [TickRegs(gd, t) EXCEPT !.sched = on] /\ on \in BOOLEAN
    BY <1>1, <1>12
  <2> HIDE DEF on
  <2>2. QED
    BY <1>1, <1>5, <1>6, <1>7, <1>9, <2>1, TickOK
<1>13. QED
  BY <1>10, <1>11, <1>12

\* Enabling and stopping the DMA keep the invariant.
LEMMA EnableStopOK ==
    ASSUME IInv, ~ gd.failed, GDROM_DmaEnable \/ GDROM_DmaStop PROVE IInv'
<1>1. sb \in Registers /\ stops \in 0 .. MaxStops /\ MaxStops \in Nat /\ dma \in Histories
  BY State, Sizes
<1>2. /\ dma.starved => dma.ahead
      /\ sb.GDST /\ ~ dma.ahead => gd.state = "readsector_dma" /\ DmaFits(gd, sb)
  BY DEF IInv, NoSectorLost, DmaOK
<1>3. CASE GDROM_DmaEnable
  <2>1. UNCHANGED <<gd, host, xfer, stops, dma>> /\ sb' = [sb EXCEPT !.GDEN = TRUE]
    BY <1>3 DEF GDROM_DmaEnable
  <2>2. /\ sb' \in Registers /\ sb'.GDEN /\ sb'.GDST = sb.GDST /\ sb'.GDLEN = sb.GDLEN
        /\ sb'.GDLEND = sb.GDLEND
    BY <1>1, <2>1 DEF Registers
  <2>3. sb'.GDST /\ ~ dma.ahead => gd.state = "readsector_dma" /\ DmaFits(gd, sb')
    BY <1>2, <2>2 DEF DmaFits, DmaLen
  <2>4. QED
    BY <1>1, <1>2, <2>1, <2>2, <2>3, RegistersOK
<1>4. CASE GDROM_DmaStop
  <2>1. /\ UNCHANGED <<gd, host, xfer>> /\ sb' = [sb EXCEPT !.GDEN = FALSE, !.GDST = FALSE]
        /\ stops < MaxStops /\ stops' = stops + 1
        /\ dma' = [dma EXCEPT !.ahead = FALSE, !.starved = FALSE]
    BY <1>4 DEF GDROM_DmaStop
  <2>2. sb' \in Registers /\ ~ sb'.GDST
    BY <1>1, <2>1 DEF Registers
  <2>3. stops' \in 0 .. MaxStops
    BY <1>1, <2>1
  <2>4. dma' \in Histories /\ dma'.torn = dma.torn /\ ~ dma'.starved
    BY <1>1, <2>1 DEF Histories
  <2>5. QED
    BY <2>1, <2>2, <2>3, <2>4, RegistersOK
<1>5. QED
  BY <1>3, <1>4

\* The drive after power on.
LEMMA PowerOnOK ==
    /\ PowerOn \in Drive /\ PowerOn.state = "waitcmd" /\ ~ PowerOn.BSY /\ ~ PowerOn.DRQ
    /\ PowerOn.pio.index = 0 /\ PowerOn.pio.size = 0 /\ PowerOn.dma = 0 /\ ~ PowerOn.failed
<1>1. (CHOOSE t \in SectorTypes : TRUE) \in SectorTypes
  BY GdRomAssumption
<1>2. 0 \in 0 .. PacketWords /\ 0 \in 0 .. PioCapacity
  BY Sizes
<1>3. QED
  BY <1>1, <1>2 DEF PowerOn, Drive, States, NextStates

\* A drive that has forgotten its command.
Fresh ==
    /\ gd \in Drive /\ gd.state = "waitcmd" /\ ~ gd.BSY /\ ~ gd.DRQ /\ gd.pio.index = 0
    /\ gd.pio.size = 0 /\ gd.dma = 0 /\ ~ gd.failed /\ sb \in Registers /\ ~ sb.GDST
    /\ host = [at |-> "idle", left |-> 0] /\ xfer = NoRead /\ stops \in 0 .. MaxStops
    /\ dma = Orderly

\* The invariant holds for it.
LEMMA FreshOK == Fresh => IInv
<1> SUFFICES ASSUME Fresh PROVE IInv
  OBVIOUS
<1> USE DEF Fresh
<1>1. /\ host \in [at : {"idle", "packet", "poll", "wait", "data"}, left : Nat]
      /\ xfer \in [n : Sectors \cup {0}, moved : Nat]
      /\ xfer.n = 0 /\ xfer.moved = 0 /\ host.at = "idle"
  BY DEF NoRead
<1>2. gd.type \in Nat /\ NSECT * gd.type \in Nat
  BY Sizes, SectorSize DEF Drive
<1>3. Phases /\ NoSectorLost /\ PioOK /\ ReadOK /\ DmaOK
  BY <1>1, <1>2 DEF Phases, NoSectorLost, PioOK, ReadOK, DmaOK, PioStates, Orderly
<1>4. Known
  BY <1>1, <1>2, <1>3 DEF Known, Orderly, Histories
<1>5. QED
  BY <1>4, KnownIsInv

\* gdrom_reg_Reset keeps the invariant.
LEMMA ResetOK == ASSUME IInv, gdrom_reg_Reset PROVE IInv'
<1>1. /\ gd' = [PowerOn EXCEPT !.INTRQ = gd.INTRQ]
      /\ sb' = [sb EXCEPT !.GDST = FALSE, !.GDEN = FALSE]
      /\ host' = [at |-> "idle", left |-> 0] /\ xfer' = NoRead /\ stops' = stops
      /\ dma' = Orderly
  BY DEF gdrom_reg_Reset
<1>2. gd.INTRQ \in BOOLEAN /\ sb \in Registers /\ stops \in 0 .. MaxStops
  BY State DEF Drive
<1>3. /\ gd' \in Drive /\ gd'.state = "waitcmd" /\ ~ gd'.BSY /\ ~ gd'.DRQ
      /\ gd'.pio = PowerOn.pio /\ gd'.dma = 0 /\ ~ gd'.failed
  BY <1>1, <1>2, PowerOnOK DEF Drive
<1>4. sb' \in Registers /\ ~ sb'.GDST
  BY <1>1, <1>2 DEF Registers
<1>5. gd'.pio.index = 0 /\ gd'.pio.size = 0 /\ stops' \in 0 .. MaxStops
  BY <1>1, <1>2, <1>3, PowerOnOK
<1>6. Fresh'
  BY <1>1, <1>3, <1>4, <1>5 DEF Fresh
<1>7. QED
  BY <1>6, FreshOK, PTL

-----------------------------------------------------------------------------
(* Theorems. *)

\* The invariant holds initially.
LEMMA InitOK == Init => IInv
<1> SUFFICES ASSUME Init PROVE IInv
  OBVIOUS
<1>1. sb \in Registers /\ ~ sb.GDST /\ stops \in 0 .. MaxStops
  BY Sizes DEF Init, Registers
<1>2. QED
  BY <1>1, PowerOnOK, FreshOK DEF Init, Fresh
\* Every step of a drive that works keeps it.
LEMMA StepOK == IInv /\ ~ gd.failed /\ Step => IInv'
<1> SUFFICES ASSUME IInv, ~ gd.failed, Step PROVE IInv'
  OBVIOUS
<1>1. CASE AtaImmediate
  BY <1>1, AtaImmediateOK
<1>2. CASE AtaPacket
  BY <1>2, AtaPacketOK
<1>3. CASE AtaNop
  BY <1>3, AtaNopOK
<1>4. CASE AtaSoftReset
  BY <1>4, AtaSoftResetOK
<1>5. ASSUME NEW len \in Replies, AtaIdentify(len) PROVE IInv'
  BY <1>5, AtaIdentifyOK
<1>6. CASE PacketWord
  BY <1>6, PacketWordOK
<1>7. CASE SpiNoData
  BY <1>7, SpiNoDataOK
<1>8. ASSUME NEW len \in Replies, SpiReply(len) PROVE IInv'
  BY <1>8, SpiReplyOK
<1>9. ASSUME NEW len \in Replies, SpiSetMode(len) PROVE IInv'
  BY <1>9, SpiSetModeOK
<1>10. ASSUME NEW n \in Sectors, NEW t \in SectorTypes, SpiReadPio(n, t) PROVE IInv'
  BY <1>10, SpiReadPioOK
<1>11. ASSUME NEW n \in Sectors, NEW t \in SectorTypes, SpiReadDma(n, t) PROVE IInv'
  BY <1>11, SpiReadDmaOK
<1>12. CASE ReadStatus
  BY <1>12, ReadStatusOK
<1>13. CASE DataWord
  BY <1>13, DataWordOK
<1>14. CASE GDRomschd
  BY <1>14, GDRomschdOK
<1>15. ASSUME NEW len \in Lens, GDROM_DmaStart(len) PROVE IInv'
  BY <1>15, DmaStartOK
<1>16. CASE GDROM_DmaEnable \/ GDROM_DmaStop
  BY <1>16, EnableStopOK
<1>17. CASE gdrom_reg_Reset
  BY <1>17, ResetOK
<1>18. QED
  BY <1>1, <1>2, <1>3, <1>4, <1>5, <1>6, <1>7, <1>8, <1>9, <1>10, <1>11, <1>12, <1>13,
     <1>14, <1>15, <1>16, <1>17 DEF Step, SpiCommand, DmaStart

\* So does every step.
LEMMA NextOK == IInv /\ [Next]_vars => IInv'
<1> SUFFICES ASSUME IInv, [Next]_vars PROVE IInv'
  OBVIOUS
<1>1. CASE ~ gd.failed /\ Step
  BY <1>1, StepOK
<1>2. CASE UNCHANGED vars
  <2>1. UNCHANGED <<gd, host, xfer>> /\ sb' = sb /\ stops' = stops /\ dma' = dma
    BY <1>2 DEF vars
  <2>2. sb' \in Registers /\ stops' \in 0 .. MaxStops /\ dma' \in Histories
    BY <2>1, State
  <2>3. /\ gd.failed \/ dma.starved => dma.ahead
        /\ sb.GDST /\ ~ dma.ahead => gd.state = "readsector_dma" /\ DmaFits(gd, sb)
    BY DEF IInv, NoSectorLost, DmaOK
  <2>4. QED
    BY <2>1, <2>2, <2>3, RegistersOK
<1>3. QED
  BY <1>1, <1>2 DEF Next, Died

\* So it always holds.
LEMMA Invariant == Spec => []IInv
  BY InitOK, NextOK, PTL DEF Spec

\* Neither the DMA buffer nor the PIO buffer overflows, and all registers keep
\* their ranges (DmaBuffer, PioBuffer, SB_GDLEND), whatever the driver does.
THEOREM TypeCorrect == Spec => []TypeOK
<1>1. IInv => TypeOK
  BY DEF IInv
<1>2. QED
  BY <1>1, Invariant, PTL

\* Drive, STATUS register and driver agree on the phase of every command, through
\* commands aborted during a DMA, resets, stopped transfers, DMAs of any length
\* started at any time, and mode data of one byte: no interrupt is lost and the
\* verify() of GD_COMMAND_Write holds; where a slot moved data during another
\* command, the driver is left in its packet or data phase.
THEOREM PhasesMatch == Spec => []PhasesAgree
<1>1. IInv => PhasesAgree
  BY DEF IInv
<1>2. QED
  BY <1>1, Invariant, PTL

\* No sector is lost or read twice in any split into batches, buffers, ticks and
\* DMA transfers; the verify() of DmaBuffer::fill fails, and a slot is lost, only
\* for a DMA that was set for more than a read in progress had.
THEOREM SectorsKept == Spec => []NoSectorLost
<1>1. IInv => NoSectorLost
  BY DEF IInv
<1>2. QED
  BY <1>1, Invariant, PTL
=============================================================================
