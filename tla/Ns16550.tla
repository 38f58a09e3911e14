------------------------------ MODULE Ns16550 ------------------------------
(***************************************************************************)
(* The UART (riscv/ns16550.cc) on a wire of the PLIC.  A register is the   *)
(* set of its one bits that matter; the divisor, modem status and scratch  *)
(* registers, which nothing depends on, are left out.                      *)
(*                                                                         *)
(* The word-length bit 1 and the stop bit 2 of lcr are where               *)
(* update_interrupt looks for the FIFO control bits CLEAR_RCVR and         *)
(* CLEAR_XMIT: writing them empties the receive queue, and they read back  *)
(* as zero.  No path sets the break bit BI, so the branch of rx_byte that  *)
(* tests it never runs.                                                    *)
(***************************************************************************)
EXTENDS Plic, Sequences, SequencesExt

CONSTANTS
    UartId,           \* NS16550_INTERRUPT_ID
    UART_QUEUE_SIZE,
    MAX_BACKOFF

ASSUME UartAssumption ==
    /\ UartId \in Ids
    /\ UART_QUEUE_SIZE \in Nat \ {0}
    /\ MAX_BACKOFF \in Nat \ {0}

VARIABLES
    uart,       \* its registers and receive queue
    backoff,    \* backoff_counter
    terminal,   \* what was typed and not yet read from the host's terminal
    cleared     \* history: received bytes that a register write threw away

uartVars == <<uart, backoff, terminal, cleared>>

IerBits == {"RDI", "THRI", "RLSI", "MSI"}
FcrBits == {"ENABLE_FIFO", "CLEAR_RCVR", "CLEAR_XMIT"}
LcrBits == {"WLEN0", "CLEAR_RCVR", "CLEAR_XMIT", "DLAB"}
McrBits == {"LOOP", "OUT2"}
Empty   == {"TEMT", "THRE"}

UartInit ==
    /\ uart = [ier |-> {}, fcr |-> {}, lcr |-> {}, mcr |-> {"OUT2"}, lsr |-> Empty, iir |-> {},
               rx |-> <<>>]
    /\ backoff = 0
    /\ cleared = {}

\* The clear bits, as the code looks for them.
Cleared(u) ==
    LET rcvr == "CLEAR_RCVR" \in u.lcr
        xmit == "CLEAR_XMIT" \in u.lcr
    IN  [u EXCEPT !.lcr = @ \ {"CLEAR_RCVR", "CLEAR_XMIT"},
                  !.rx  = IF rcvr THEN <<>> ELSE @,
                  !.lsr = (IF rcvr THEN @ \ {"DR"} ELSE @) \cup (IF xmit THEN Empty ELSE {})]

\* The causes are or-ed: with both the register holds the code of a third one.
Interrupts(u) ==
    {i \in {"RDI", "THRI"} :
        /\ i \in u.ier
        /\ i = "RDI" => "DR" \in u.lsr
        /\ i = "THRI" => "TEMT" \in u.lsr}

\* Leaves the registers u, with the clear bits done, and drives the wire.
update_interrupt(u) ==
    LET c == Cleared(u)
        i == Interrupts(c)
    IN  /\ uart' = [c EXCEPT !.iir = i, !.lsr = IF "THRI" \in c.ier THEN @ ELSE @ \cup Empty]
        /\ cleared' = IF c.rx # u.rx THEN cleared \cup Range(u.rx) ELSE cleared
        /\ set_interrupt_level(UartId, i # {})

Received(u, b) == [u EXCEPT !.rx = Append(@, b), !.lsr = @ \cup {"DR"}]

\* Mutant: the last byte leaves data ready.
rx_leaves_ready ==
    IF uart.rx = <<>> THEN [uart EXCEPT !.lsr = @ \ {"DR"}] ELSE [uart EXCEPT !.rx = Tail(@)]

\* The registers after rx_byte.
rx_byte ==
    IF uart.rx = <<>>
    THEN [uart EXCEPT !.lsr = @ \ {"DR"}]
    ELSE [uart EXCEPT !.rx = Tail(@), !.lsr = IF Len(uart.rx) = 1 THEN @ \ {"DR"} ELSE @]

\* What a load of register 0 returns; of the divisor latch, nothing that was received.
rx_value == IF "DLAB" \in uart.lcr \/ uart.rx = <<>> THEN 0 ELSE Head(uart.rx)

\* Load of register 0; every other load leaves the device alone.
uart_load_rx ==
    /\ update_interrupt(IF "DLAB" \in uart.lcr THEN uart ELSE rx_byte)
    /\ UNCHANGED <<backoff, terminal>>

uart_store(reg, v) ==
    /\ \/ /\ reg = "TX"
          /\ update_interrupt(
                CASE "DLAB" \in uart.lcr -> uart
                  [] "DLAB" \notin uart.lcr /\ "LOOP" \in uart.mcr ->
                        IF Len(uart.rx) < UART_QUEUE_SIZE THEN Received(uart, v) ELSE uart
                  [] OTHER -> [uart EXCEPT !.lsr = @ \cup Empty])
       \/ /\ reg = "IER"
          /\ update_interrupt(IF "DLAB" \in uart.lcr THEN uart ELSE [uart EXCEPT !.ier = v])
       \/ reg = "FCR" /\ update_interrupt([uart EXCEPT !.fcr = v])
       \/ reg = "LCR" /\ update_interrupt([uart EXCEPT !.lcr = v])
       \/ reg = "MCR" /\ update_interrupt([uart EXCEPT !.mcr = v])
    /\ UNCHANGED <<backoff, terminal>>

\* Mutant: the terminal is read before the back-off is looked at.
tick_reads_first ==
    IF "ENABLE_FIFO" \notin uart.fcr \/ "LOOP" \in uart.mcr \/ Len(uart.rx) >= UART_QUEUE_SIZE
    THEN UNCHANGED <<uartVars, vars>>
    ELSE IF terminal = <<>>
    THEN backoff' = 1 /\ UNCHANGED <<uart, terminal, cleared, vars>>
    ELSE /\ backoff' = IF backoff < MAX_BACKOFF THEN backoff + 1 ELSE 0
         /\ terminal' = Tail(terminal)
         /\ IF backoff > 0 /\ backoff < MAX_BACKOFF
            THEN UNCHANGED <<uart, cleared, vars>>
            ELSE update_interrupt(Received(uart, Head(terminal)))

\* Mutant: a byte from the terminal is queued without raising the wire.
tick_without_update ==
    IF "ENABLE_FIFO" \notin uart.fcr \/ "LOOP" \in uart.mcr \/ Len(uart.rx) >= UART_QUEUE_SIZE
       \/ terminal = <<>>
    THEN UNCHANGED <<uartVars, vars>>
    ELSE /\ terminal' = Tail(terminal)
         /\ uart' = Received(uart, Head(terminal))
         /\ backoff' = 0
         /\ UNCHANGED <<cleared, vars>>

\* ns16550_t::tick: one byte at most, and after an empty terminal none until
\* MAX_BACKOFF ticks have passed.
uart_tick ==
    LET closed == \/ "ENABLE_FIFO" \notin uart.fcr
                  \/ "LOOP" \in uart.mcr
                  \/ Len(uart.rx) >= UART_QUEUE_SIZE
        backing == backoff > 0 /\ backoff < MAX_BACKOFF
    IN  \/ /\ closed
           /\ UNCHANGED <<uartVars, vars>>
        \/ /\ ~closed /\ backing
           /\ backoff' = backoff + 1
           /\ UNCHANGED <<uart, terminal, cleared, vars>>
        \/ /\ ~closed /\ ~backing /\ terminal = <<>>
           /\ backoff' = 1
           /\ UNCHANGED <<uart, terminal, cleared, vars>>
        \/ /\ ~closed /\ ~backing /\ terminal # <<>>
           /\ backoff' = 0
           /\ terminal' = Tail(terminal)
           /\ update_interrupt(Received(uart, Head(terminal)))

\* The wire, the identification register and the data-ready bit agree with the
\* queue and the enables after every operation: update_interrupt ends each path
\* that changes them.
WireAgrees ==
    /\ ("DR" \in uart.lsr) = (uart.rx # <<>>)
    /\ (UartId \in level) = (Interrupts(uart) # {})
    /\ uart.iir = Interrupts(uart)
=============================================================================
