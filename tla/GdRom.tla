------------------------------- MODULE GdRom -------------------------------
(***************************************************************************)
(* The transfer engine of the GD-ROM drive (core/hw/gdrom/gdromv3.cpp): the *)
(* ATA/SPI command state machine, its PIO and DMA buffers, the GD-DMA       *)
(* registers of Holly with the scheduler slot that moves the data, and a    *)
(* guest driver.  The driver sends commands, reads STATUS when INTRQ is     *)
(* raised, moves the words the drive announced and waits for the next       *)
(* interrupt.  It sees registers only: it starts a DMA of any length before, *)
(* during or after any command whenever SB_GDST is clear.  At any moment it  *)
(* may give up and send ATA_NOP or ATA_SOFT_RESET, with a DMA on or not, stop *)
(* the DMA by clearing SB_GDEN, or reset the machine.                       *)
(*                                                                         *)
(* gd_set_state calls itself: a call runs through transient states          *)
(* (gds_procata, gds_pio_end, ...) until it reaches one in which the drive  *)
(* waits.  Here each transient state is an operator from drive to drive,    *)
(* and gd.state holds only the states in which the drive waits.             *)
(*                                                                         *)
(* Data are counted in units of one 16-bit word.  What the replies say, the *)
(* sense keys, the disc status and CD audio are left out.                   *)
(***************************************************************************)
EXTENDS Naturals

CONSTANTS
    NSECT,        \* sectors in the DMA buffer (16)
    PioCapacity,  \* units a PIO read may fill (PioBuffer::Capacity - 1)
    Chunk,        \* units a scheduler tick moves at most (10240 bytes)
    Align,        \* granularity of SB_GDLEND (32 bytes)
    Wrap,         \* length that SB_GDLEN = 0 stands for (32 MB)
    Tiny,         \* longest DMA done at once, without the scheduler
    SectorTypes,  \* sizes of a sector (2048, 2340 or 2352 bytes)
    Sectors,      \* how many sectors a read asks for
    Replies,      \* lengths of the other transfers, in bytes, 0 included
    Lens,         \* lengths written to SB_GDLEN
    PacketWords,  \* words of a packet (6)
    MaxStops,     \* bound: times the driver clears SB_GDEN
    Word          \* 2^32

ASSUME GdRomAssumption ==
    /\ {NSECT, PioCapacity, Chunk, Align, Wrap, PacketWords} \subseteq Nat \ {0}
    /\ {Tiny, MaxStops} \subseteq Nat
    /\ SectorTypes \subseteq 1 .. PioCapacity /\ SectorTypes # {}
    /\ Sectors \subseteq Nat \ {0} /\ Replies \subseteq 0 .. 2 * PioCapacity
    /\ Lens \subseteq 0 .. Wrap - 1
    /\ \A l \in Lens \cup {Wrap, Chunk} : l % Align = 0
    /\ Word \in Nat /\ Word > Wrap

VARIABLES
    gd,     \* the drive
    sb,     \* SB_GDST, SB_GDEN, SB_GDLEN, SB_GDLEND and the scheduler slot
    host,   \* the driver: [at, left]
    xfer,   \* the read in progress: sectors asked for, units delivered
    stops,  \* times SB_GDEN was cleared
    dma     \* history of the DMA, not in the code: [ahead, starved, torn]

vars == <<gd, sb, host, xfer, stops, dma>>

\* gds_waitcmd, gds_waitpacket, gds_pio_send_data, gds_pio_get_data and
\* gds_readsector_dma.
States == {"waitcmd", "waitpacket", "pio_send", "pio_get", "readsector_dma"}
NextStates == {"waitcmd", "pio_end", "readsector_pio", "process_set_mode"}

Drive ==
    [state : States, BSY : BOOLEAN, DRQ : BOOLEAN, DRDY : BOOLEAN, INTRQ : BOOLEAN,
     packet : 0 .. PacketWords,
     pio : [size : 0 .. PioCapacity, index : 0 .. PioCapacity, next : NextStates],
     dma : Nat, start : Nat, remaining : Nat, type : SectorTypes, failed : BOOLEAN]

\* dma.ahead: SB_GDST was set for more than a read in progress had.
\* dma.starved: it is set, but the slot was not requested, for want of SB_GDEN,
\* or was not kept, for want of data.  dma.torn: during this command, which is no
\* DMA read, the slot moved data: those of a PIO read or of an aborted one.
\* The buffers do not overflow: DmaBuffer holds NSECT sectors, PioBuffer
\* PioCapacity units.
TypeOK ==
    /\ gd \in Drive
    /\ gd.pio.index <= gd.pio.size
    /\ gd.dma <= NSECT * gd.type
    /\ sb \in [GDST : BOOLEAN, GDEN : BOOLEAN, GDLEN : 0 .. Wrap - 1,
               GDLEND : 0 .. Wrap - 1, sched : BOOLEAN]
    /\ host \in [at : {"idle", "packet", "poll", "wait", "data"}, left : Nat]
    /\ xfer \in [n : Sectors \cup {0}, moved : Nat]
    /\ stops \in 0 .. MaxStops
    /\ dma \in [ahead : BOOLEAN, starved : BOOLEAN, torn : BOOLEAN]

NoRead == [n |-> 0, moved |-> 0]
MinOf(a, b) == IF a < b THEN a ELSE b

-----------------------------------------------------------------------------
(* gd_set_state. *)

waitcmd(d) == [d EXCEPT !.state = "waitcmd", !.DRDY = TRUE, !.BSY = FALSE]

procpacketdone(d) == waitcmd([d EXCEPT !.DRQ = FALSE, !.INTRQ = TRUE])

\* gds_pio_end and gds_process_set_mode, which only copies the buffer first.
pio_end(d) == procpacketdone([d EXCEPT !.DRQ = FALSE])

\* Mutant of pio_data: only the first phase of a transfer interrupts.
pio_data_Quiet(d, s) ==
    [d EXCEPT !.state = s, !.DRQ = TRUE, !.BSY = FALSE,
              !.INTRQ = d.INTRQ \/ d.state # s]

\* gds_pio_send_data and gds_pio_get_data.
pio_data(d, s) == [d EXCEPT !.state = s, !.DRQ = TRUE, !.BSY = FALSE, !.INTRQ = TRUE]

\* A transfer to the guest: an empty buffer ends it.
gd_spi_pio_end(d, words, next) ==
    LET f == [d EXCEPT !.pio = [size |-> words, index |-> 0, next |-> next]] IN
    IF words = 0 THEN pio_end(f) ELSE pio_data(f, "pio_send")

\* A transfer from the guest, of len bytes: the length is tested in bytes and
\* kept in words.
gd_spi_pio_read_end(d, len, next) ==
    LET f == [d EXCEPT !.pio = [size |-> len \div 2, index |-> 0, next |-> next]] IN
    IF len = 0 THEN pio_end(f) ELSE pio_data(f, "pio_get")

readsector_pio(d) ==
    LET n == MinOf(d.remaining, PioCapacity \div d.type) IN
    gd_spi_pio_end([d EXCEPT !.BSY = TRUE, !.start = @ + n, !.remaining = @ - n],
                   n * d.type, IF n < d.remaining THEN "readsector_pio" ELSE "pio_end")

\* Mutant of fill: sectors are read ahead whether or not the buffer is empty.
fill_Always(d) ==
    IF d.remaining = 0 THEN d
    ELSE LET n == MinOf(d.remaining, NSECT) IN
         [d EXCEPT !.dma = n * d.type, !.start = @ + n, !.remaining = @ - n]

\* DmaBuffer::fill; failed stands for its verify().
fill(d) ==
    IF d.dma # 0 THEN d
    ELSE IF d.remaining = 0 THEN [d EXCEPT !.failed = TRUE]
    ELSE LET n == MinOf(d.remaining, NSECT) IN
         [d EXCEPT !.dma = n * d.type, !.start = @ + n, !.remaining = @ - n]

readsector_dma(d) == fill([d EXCEPT !.state = "readsector_dma", !.dma = 0])

\* The end of a PIO phase, gd_set_state(pio_buff.next_state).
gd_set_next(d) ==
    CASE d.pio.next = "readsector_pio" -> readsector_pio(d)
      [] d.pio.next = "waitcmd" -> waitcmd(d)
      [] OTHER -> pio_end(d)

-----------------------------------------------------------------------------
(* ATA commands: GD_COMMAND_Write, gds_procata, gd_process_ata_cmd. *)

procata(d) == [d EXCEPT !.DRDY = FALSE, !.BSY = TRUE]

\* verify(gd_state == gds_waitcmd).
Accepts(d) == [d EXCEPT !.failed = @ \/ d.state # "waitcmd"]

\* Driver's view: a command may be written when BSY and DRQ are clear.
MayCommand == host.at = "idle" /\ ~gd.BSY /\ ~gd.DRQ

\* History: a DMA that outlasts its command has no read in progress.
NewCommand == [dma EXCEPT !.ahead = @ \/ sb.GDST, !.torn = FALSE]

\* ATA_EXEC_DIAG, ATA_SET_FEATURES, ATA_IDENTIFY and unknown commands.
AtaImmediate ==
    /\ MayCommand
    /\ gd' = waitcmd([procata(Accepts(gd)) EXCEPT !.INTRQ = TRUE])
    /\ host' = [at |-> "wait", left |-> 0]
    /\ xfer' = NoRead
    /\ dma' = NewCommand
    /\ UNCHANGED <<sb, stops>>

\* ATA_IDENTIFY_DEV.
AtaIdentify(len) ==
    /\ MayCommand
    /\ gd' = gd_spi_pio_end(procata(Accepts(gd)), len \div 2, "pio_end")
    /\ host' = [at |-> "wait", left |-> 0]
    /\ xfer' = NoRead
    /\ dma' = NewCommand
    /\ UNCHANGED <<sb, stops>>

\* ATA_SPI_PACKET: gds_waitpacket, without an interrupt.
AtaPacket ==
    /\ MayCommand
    /\ gd' = [procata(Accepts(gd)) EXCEPT
                 !.state = "waitpacket", !.packet = 0, !.BSY = FALSE, !.DRQ = TRUE]
    /\ host' = [at |-> "packet", left |-> PacketWords]
    /\ xfer' = NoRead
    /\ dma' = NewCommand
    /\ UNCHANGED <<sb, stops>>

\* Mutant of AtaNop: DRQ is not cleared.
AtaNop_KeepDRQ ==
    /\ gd' = waitcmd([procata(gd) EXCEPT !.INTRQ = TRUE])
    /\ host' = [at |-> "wait", left |-> 0]
    /\ xfer' = NoRead
    /\ dma' = NewCommand
    /\ UNCHANGED <<sb, stops>>

\* ATA_NOP, accepted in every state.
AtaNop ==
    /\ gd' = waitcmd([procata(gd) EXCEPT !.DRQ = FALSE, !.INTRQ = TRUE])
    /\ host' = [at |-> "wait", left |-> 0]
    /\ xfer' = NoRead
    /\ dma' = NewCommand
    /\ UNCHANGED <<sb, stops>>

\* ATA_SOFT_RESET: gd_reset, then GDStatus is zeroed; no interrupt.
AtaSoftReset ==
    /\ gd' = [waitcmd(procata(gd)) EXCEPT !.DRDY = FALSE, !.DRQ = FALSE]
    /\ host' = [at |-> "poll", left |-> 0]
    /\ xfer' = NoRead
    /\ dma' = NewCommand
    /\ UNCHANGED <<sb, stops>>

-----------------------------------------------------------------------------
(* SPI commands: the last word of the packet, gds_procpacket and            *)
(* gd_process_spi_cmd.                                                      *)

procpacket(d) == [d EXCEPT !.DRQ = FALSE, !.BSY = TRUE, !.packet = PacketWords]

\* The driver is about to write the last word of a packet.
LastWord == host.at = "packet" /\ host.left = 1 /\ gd.DRQ

SpiDone(d, x) ==
    /\ LastWord
    /\ gd' = IF gd.state = "waitpacket" THEN d ELSE gd
    /\ xfer' = x
    /\ host' = [at |-> "wait", left |-> 0]
    /\ UNCHANGED <<sb, stops, dma>>

PacketWord ==
    /\ host.at = "packet" /\ host.left > 1 /\ gd.DRQ
    /\ gd' = IF gd.state = "waitpacket" THEN [gd EXCEPT !.packet = @ + 1] ELSE gd
    /\ host' = [host EXCEPT !.left = @ - 1]
    /\ UNCHANGED <<sb, xfer, stops, dma>>

\* SPI_TEST_UNIT, 0x70, SPI_CD_OPEN, SPI_CD_PLAY, SPI_CD_SEEK, SPI_CD_SCAN and
\* unknown commands.
SpiNoData == SpiDone(procpacketdone(procpacket(gd)), NoRead)

\* SPI_REQ_MODE, SPI_GET_TOC, 0x71, SPI_REQ_STAT, SPI_REQ_ERROR, SPI_REQ_SES
\* and SPI_GET_SCD.
SpiReply(len) == SpiDone(gd_spi_pio_end(procpacket(gd), len \div 2, "pio_end"), NoRead)

\* SPI_SET_MODE.
SpiSetMode(len) ==
    SpiDone(gd_spi_pio_read_end(procpacket(gd), len, "process_set_mode"), NoRead)

readParams(n, t) ==
    [procpacket(gd) EXCEPT !.start = 0, !.remaining = n, !.type = t]

\* SPI_CD_READ and SPI_CD_READ2, by PIO or by DMA (Features.CDRead.DMA).
SpiReadPio(n, t) ==
    SpiDone(readsector_pio([readParams(n, t) EXCEPT !.dma = 0]), [n |-> n, moved |-> 0])

SpiReadDma(n, t) ==
    SpiDone(readsector_dma([readParams(n, t) EXCEPT
                !.pio = [size |-> 0, index |-> 0, next |-> "waitcmd"]]),
            [n |-> n, moved |-> 0])

-----------------------------------------------------------------------------
(* The driver moves data through GD_DATA and answers interrupts. *)

\* GD_STATUS_Read cancels INTRQ; the driver polls it after a soft reset, which
\* does not interrupt.  While BSY is set it goes on waiting; with DRQ set it takes
\* the number of words from GD_BYCTLLO/HI, and waits again if there is none.
ReadStatus ==
    /\ host.at = "poll" \/ (host.at = "wait" /\ gd.INTRQ)
    /\ gd' = [gd EXCEPT !.INTRQ = FALSE]
    /\ host' = IF gd.BSY THEN host
               ELSE IF ~gd.DRQ THEN [at |-> "idle", left |-> 0]
               ELSE IF gd.pio.size = gd.pio.index THEN [at |-> "wait", left |-> 0]
               ELSE [at |-> "data", left |-> gd.pio.size - gd.pio.index]
    /\ UNCHANGED <<sb, xfer, stops, dma>>

\* A word was moved; the end of the buffer ends the phase.
NextWord(d) ==
    LET m == [d EXCEPT !.pio.index = @ + 1] IN
    IF m.pio.index = m.pio.size THEN gd_set_next(m) ELSE m

\* GD_DATA read or written in the data phase.
DataWord ==
    /\ host.at = "data"
    /\ gd' = CASE gd.state = "pio_get" -> NextWord(gd)
               [] gd.pio.index # gd.pio.size -> NextWord(gd)
               [] OTHER -> gd
    /\ xfer' = [xfer EXCEPT !.moved = @ + (IF xfer.n > 0 THEN 1 ELSE 0)]
    /\ host' = IF host.left = 1 THEN [at |-> "wait", left |-> 0]
               ELSE [host EXCEPT !.left = @ - 1]
    /\ UNCHANGED <<sb, stops, dma>>

-----------------------------------------------------------------------------
(* GD-DMA. *)

\* The loop of GDRomschd: one unit goes to memory, the drive after n units.
MoveUnit[d \in Drive] ==
    LET f == fill(d) IN IF f.failed THEN f ELSE [f EXCEPT !.dma = @ - 1]

Moved(d, n) ==
    LET move[i \in 0 .. n] == IF i = 0 THEN d ELSE MoveUnit[move[i - 1]]
    IN  move[n]

DmaLen(s) == IF s.GDLEN = 0 THEN Wrap ELSE s.GDLEN

\* Mutant of TickLen: what the previous ticks moved is not deducted.
TickLen_Whole(d, s) ==
    LET len == DmaLen(s) IN
    MinOf(IF d.remaining = 0 THEN MinOf(len, d.dma) ELSE len, Chunk)

\* Length of a tick's transfer.
TickLen(d, s) ==
    LET len == (DmaLen(s) + Word - s.GDLEND) % Word IN
    MinOf(IF d.remaining = 0 THEN MinOf(len, d.dma) ELSE len, Chunk)

\* Mutant of Idle: a read whose sectors are all in the buffer counts as done.
Idle_NoTail(d, s) == ~s.GDST \/ ~s.GDEN \/ d.remaining = 0

\* GDRomschd returns at once: the slot is not rescheduled.
Idle(d, s) == ~s.GDST \/ ~s.GDEN \/ (d.dma = 0 /\ d.remaining = 0)

\* The drive after GDRomschd.
TickDrive(d, s) ==
    IF Idle(d, s) THEN d
    ELSE LET m == Moved(d, TickLen(d, s)) IN
         IF m.remaining = 0 /\ m.dma = 0 /\ ~m.failed THEN procpacketdone(m) ELSE m

\* The registers after GDRomschd; the slot is kept while SB_GDST is set
\* (getGDROMTicks).
TickRegs(d, s) ==
    IF Idle(d, s) THEN [s EXCEPT !.sched = FALSE]
    ELSE LET lend == (s.GDLEND + TickLen(d, s)) % Wrap
             LEND == lend - (lend % Align)
             done == LEND = s.GDLEN
         IN  [s EXCEPT !.GDLEND = LEND, !.GDST = ~done, !.sched = ~done]

TickXfer(d, s) ==
    IF Idle(d, s) \/ xfer.n = 0 THEN xfer
    ELSE [xfer EXCEPT !.moved = @ + TickLen(d, s)]

\* Units the drive can still send.
Available(d) == d.dma + d.remaining * d.type

\* History: a tick finds no data, or data of no DMA read in progress.
TickHistory(h, d, s) ==
    [h EXCEPT !.starved = @ \/ (s.GDST /\ Available(d) = 0),
              !.torn = @ \/ (~ Idle(d, s) /\ d.state # "readsector_dma")]

\* The scheduler runs the drive's slot.
GDRomschd ==
    /\ sb.sched
    /\ gd' = TickDrive(gd, sb)
    /\ sb' = TickRegs(gd, sb)
    /\ xfer' = TickXfer(gd, sb)
    /\ dma' = TickHistory(dma, gd, sb)
    /\ UNCHANGED <<host, stops>>

\* The driver writes SB_GDLEN and then SB_GDST, when no DMA is on by the register.
\* With SB_GDEN clear the write still sets SB_GDST.  A tiny transfer is done
\* here; a slot that is pending already stays so.
GDROM_DmaStart(len) ==
    /\ ~sb.GDST
    /\ LET s == [sb EXCEPT !.GDST = TRUE, !.GDLEN = len]
           t == [s EXCEPT !.GDLEND = 0]
           h == [dma EXCEPT !.starved = ~s.GDEN,
                            !.ahead = \/ ~s.GDEN \/ gd.state # "readsector_dma"
                                      \/ DmaLen(s) > Available(gd)]
       IN  IF ~s.GDEN
           THEN sb' = s /\ dma' = h /\ UNCHANGED <<gd, xfer>>
           ELSE IF DmaLen(t) > Tiny
           THEN sb' = [t EXCEPT !.sched = TRUE] /\ dma' = h /\ UNCHANGED <<gd, xfer>>
           ELSE /\ gd' = TickDrive(gd, t)
                /\ sb' = [TickRegs(gd, t) EXCEPT !.sched = @ \/ sb.sched]
                /\ xfer' = TickXfer(gd, t)
                /\ dma' = TickHistory(h, gd, t)
    /\ UNCHANGED <<host, stops>>

\* SB_GDEN = 1.
GDROM_DmaEnable ==
    /\ ~sb.GDEN
    /\ sb' = [sb EXCEPT !.GDEN = TRUE]
    /\ UNCHANGED <<gd, host, xfer, stops, dma>>

\* SB_GDEN = 0 stops a DMA; the slot stays pending.
GDROM_DmaStop ==
    /\ sb.GDEN /\ stops < MaxStops
    /\ stops' = stops + 1
    /\ sb' = [sb EXCEPT !.GDEN = FALSE, !.GDST = FALSE]
    /\ dma' = [dma EXCEPT !.ahead = FALSE, !.starved = FALSE]
    /\ UNCHANGED <<gd, host, xfer>>

-----------------------------------------------------------------------------
Orderly == [ahead |-> FALSE, starved |-> FALSE, torn |-> FALSE]

PowerOn ==
    [state |-> "waitcmd", BSY |-> FALSE, DRQ |-> FALSE, DRDY |-> FALSE,
     INTRQ |-> FALSE, packet |-> 0,
     pio |-> [size |-> 0, index |-> 0, next |-> "waitcmd"],
     dma |-> 0, start |-> 0, remaining |-> 0,
     type |-> CHOOSE t \in SectorTypes : TRUE, failed |-> FALSE]

\* A soft reset of the machine: the drive forgets its command, but INTRQ, which
\* is in Holly's external word, and the pending slot stay.
gdrom_reg_Reset ==
    /\ gd' = [PowerOn EXCEPT !.INTRQ = gd.INTRQ]
    /\ sb' = [sb EXCEPT !.GDST = FALSE, !.GDEN = FALSE]
    /\ host' = [at |-> "idle", left |-> 0]
    /\ xfer' = NoRead /\ dma' = Orderly
    /\ UNCHANGED stops

Init ==
    /\ gd = PowerOn
    /\ sb = [GDST |-> FALSE, GDEN |-> FALSE, GDLEN |-> 0, GDLEND |-> 0,
             sched |-> FALSE]
    /\ host = [at |-> "idle", left |-> 0]
    /\ xfer = NoRead /\ dma = Orderly
    /\ stops = 0

SpiCommand ==
    \/ SpiNoData
    \/ \E len \in Replies : SpiReply(len) \/ SpiSetMode(len)
    \/ \E n \in Sectors, t \in SectorTypes : SpiReadPio(n, t) \/ SpiReadDma(n, t)

DmaStart == \E len \in Lens : GDROM_DmaStart(len)

\* verify() failed: the emulator is at an end.
Died == gd.failed /\ UNCHANGED vars

Step ==
    \/ AtaImmediate \/ AtaPacket \/ AtaNop \/ AtaSoftReset
    \/ \E len \in Replies : AtaIdentify(len)
    \/ PacketWord \/ SpiCommand
    \/ ReadStatus \/ DataWord
    \/ GDRomschd \/ DmaStart \/ GDROM_DmaEnable \/ GDROM_DmaStop \/ gdrom_reg_Reset

Next == Died \/ (~gd.failed /\ Step)

Spec == Init /\ [][Next]_vars

\* The scheduler runs a pending slot.  The driver answers interrupts, moves the
\* words it was promised, enables the DMA, and starts one whenever STATUS shows a
\* drive that is busy and SB_GDST that none is on.
Fairness ==
    /\ WF_vars(GDRomschd)
    /\ WF_vars(ReadStatus) /\ WF_vars(DataWord)
    /\ WF_vars(gd.BSY /\ DmaStart) /\ WF_vars(GDROM_DmaEnable)

LiveSpec == Spec /\ Fairness

-----------------------------------------------------------------------------
(* Properties. *)

\* SPI_SET_MODE of one byte: the drive announces data, and there is no word.
Wordless == gd.state = "pio_get" /\ gd.pio.size = 0

\* Drive, STATUS register and driver agree on the phase: BSY is set exactly while
\* the drive reads for a DMA, DRQ while it takes a packet or data; an idle driver
\* faces a drive that takes commands, a packet is written to a drive that collects
\* it, a data phase has as many words left in the buffer as the driver means to
\* move, and a driver that waits has an interrupt coming or a DMA to run, unless
\* it was promised a transfer of no words.  So no interrupt is lost and the
\* verify() of GD_COMMAND_Write holds, also when commands are aborted while a DMA
\* goes on.  Only a slot that moved data during another command (dma.torn), and
\* ended it with gds_procpacketdone, leaves the driver in a packet or data phase
\* of a drive that waits for a command.
PhasesAgree ==
    /\ gd.BSY <=> gd.state = "readsector_dma"
    /\ gd.DRQ <=> gd.state \in {"waitpacket", "pio_send", "pio_get"}
    /\ CASE host.at \in {"idle", "poll"} -> gd.state = "waitcmd"
         [] host.at = "packet" ->
               \/ gd.state = "waitpacket" /\ gd.packet + host.left = PacketWords
               \/ gd.state = "waitcmd" /\ dma.torn
         [] host.at = "data" ->
               /\ gd.pio.size - gd.pio.index = host.left /\ host.left > 0
               /\ \/ gd.state \in {"pio_send", "pio_get"}
                  \/ gd.state = "waitcmd" /\ dma.torn
         [] host.at = "wait" -> gd.INTRQ \/ gd.state = "readsector_dma" \/ Wordless

\* No sector is lost or read twice, in any split into buffers, batches and DMA
\* transfers, one DMA over several reads and one read over several DMAs included:
\* sectors fetched and to fetch add up to the request, and so do the units
\* delivered, buffered and to fetch; when the command has ended, everything was
\* delivered, unless a slot took the data of a PIO read (dma.torn).  Only a DMA
\* that was set for more than a read in progress had can ask the drive for data it
\* has not (the verify() of DmaBuffer::fill) or lose its slot to a tick that finds
\* none (GDRomschd returns 0).
NoSectorLost ==
    /\ gd.failed \/ dma.starved => dma.ahead
    /\ xfer.n > 0 => gd.start + gd.remaining = xfer.n
    /\ gd.state = "readsector_dma" /\ ~gd.failed =>
          xfer.moved + Available(gd) = xfer.n * gd.type
    /\ gd.state = "pio_send" /\ xfer.n > 0 /\ ~dma.torn =>
          xfer.moved + (gd.pio.size - gd.pio.index) + gd.remaining * gd.type
              = xfer.n * gd.type
    /\ gd.state = "waitcmd" /\ ~dma.torn => xfer.moved = xfer.n * gd.type

\* A driver that waits for the drive is answered, whatever the lengths of its DMAs
\* and wherever it starts, stops or aborts them, unless the slot of its DMA was
\* lost for want of data or of SB_GDEN (dma.starved: SB_GDST stays set and nothing
\* moves), the verify() of DmaBuffer::fill failed, or it was promised a transfer
\* of no words.
HostServed ==
    (host.at = "wait") ~>
        (host.at # "wait" \/ dma.starved \/ gd.failed \/ Wordless)
=============================================================================
