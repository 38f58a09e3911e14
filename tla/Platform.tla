------------------------------ MODULE Platform ------------------------------
(***************************************************************************)
(* The simulated board: the round-robin loop of sim_t::step over the       *)
(* harts, with the PLIC, the UART and the CLINT between them, and the      *)
(* guest's interrupt handlers.                                             *)
(*                                                                         *)
(* A hart runs INTERLEAVE instructions, then the next one; after the last  *)
(* one the devices tick.  processor_t::step looks for interrupts when its  *)
(* turn starts and after an instruction that serialises, and a trap or a   *)
(* WFI ends the turn.  Context h of the PLIC belongs to hart h, which runs *)
(* in M mode.                                                              *)
(*                                                                         *)
(* The guest is the environment.  Hart 0 boots by storing Boot, a sequence *)
(* of device registers and values.  After that a hart works, waits, sends  *)
(* characters, kicks another hart, moves the UART interrupt to another     *)
(* hart or sets its timer, and serves the interrupts it takes the way a    *)
(* driver does: claim, read while data is ready, complete.                 *)
(***************************************************************************)
EXTENDS Ns16550, Clint

CONSTANTS
    INTERLEAVE,     \* instructions of a turn (5000)
    rtc_ticks,      \* INTERLEAVE / INSNS_PER_RTC_TICK
    MaxTyped,       \* bound: characters typed
    MaxMoves,       \* bound: how often the guest moves the UART interrupt
    Boot,           \* the stores hart 0 boots with
    TimerHarts,     \* the harts that enable MTIE
    Deadlines       \* what they set their timers to

ASSUME PlatformAssumption ==
    /\ INTERLEAVE \in Nat \ {0}
    /\ rtc_ticks \in Nat
    /\ MaxTyped \in Nat
    /\ MaxMoves \in Nat
    /\ ClintHarts = Contexts
    /\ TimerHarts \subseteq Contexts
    /\ Deadlines \subseteq Times

\* The guest stores what the registers hold, and routes the UART interrupt once.  The
\* bytes it sends itself are 0, to be told from the typed ones.
ASSUME BootAssumption ==
    /\ Len(Boot) \in Nat \ {0}
    /\ \A i \in 1 .. Len(Boot) :
          \/ Boot[i].reg \in {"ENABLE", "RX"}
          \/ Boot[i].reg = "PRIORITY" /\ Boot[i].value \in Vals
          \/ Boot[i].reg = "TX" /\ Boot[i].value = 0
          \/ Boot[i].reg = "IER" /\ Boot[i].value \subseteq IerBits
          \/ Boot[i].reg = "FCR" /\ Boot[i].value \subseteq FcrBits
          \/ Boot[i].reg = "LCR" /\ Boot[i].value \subseteq LcrBits
          \/ Boot[i].reg = "MCR" /\ Boot[i].value \subseteq McrBits
    /\ \A i, j \in 1 .. Len(Boot) : Boot[i].reg = "ENABLE" /\ Boot[j].reg = "ENABLE" => i = j

VARIABLES
    current_proc, current_step,
    checks,       \* the hart is about to look for interrupts
    pc,           \* where each hart is in its program
    booted,       \* stores of Boot done
    moves,        \* moves of the UART interrupt
    in_wfi,
    deadline,     \* what the guest's timer is being set to
    typed,        \* history: characters typed so far
    received      \* history: what the guest read, in order

loopVars  == <<current_proc, current_step, checks>>
guestVars == <<pc, booted, moves, in_wfi, deadline>>
allVars   == <<vars, uartVars, clintVars, loopVars, guestVars, typed, received>>

Places == {"boot", "main", "claim", "poll", "rx", "tx", "complete", "kicked",
           "timer_high", "timer_low", "timer_done", "route", "mret"}

PlatformType ==
    /\ TypeOK
    /\ uart \in [ier : SUBSET IerBits, fcr : SUBSET FcrBits, lcr : SUBSET LcrBits, mcr : SUBSET McrBits,
                 lsr : SUBSET {"DR", "TEMT", "THRE"}, iir : SUBSET IerBits,
                 rx : UNION {[1 .. n -> 0 .. MaxTyped] : n \in 0 .. UART_QUEUE_SIZE}]
    /\ backoff \in 0 .. MAX_BACKOFF
    /\ mtime \in Times
    /\ mtimecmp \in [ClintHarts -> Times]
    /\ current_proc \in Contexts
    /\ current_step \in 0 .. INTERLEAVE
    /\ pc \in [Contexts -> Places]

PlatformInit ==
    /\ Init /\ UartInit /\ ClintInit
    /\ terminal = <<>>
    /\ current_proc = 0
    /\ current_step = 0
    /\ checks = TRUE
    /\ pc = [h \in Contexts |-> IF h = 0 THEN "boot" ELSE "main"]
    /\ booted = 0
    /\ moves = 0
    /\ in_wfi = [h \in Contexts |-> FALSE]
    /\ deadline = [h \in Contexts |-> 0]
    /\ typed = 0
    /\ received = <<>>
-----------------------------------------------------------------------------
h0 == current_proc
InTurn == current_step < INTERLEAVE

Others == <<typed, received, deadline, in_wfi, booted, moves>>

\* One instruction of the running hart, which goes on at place p.
Instruction(p) ==
    /\ InTurn
    /\ ~checks
    /\ pc' = [pc EXCEPT ![h0] = p]
    /\ current_step' = current_step + 1
    /\ UNCHANGED current_proc

\* ... that does not serialise.
Plain(p) == Instruction(p) /\ UNCHANGED checks

PlicOnly == UNCHANGED <<uartVars, clintVars>>
UartOnly == UNCHANGED clintVars
ClintOnly == UNCHANGED <<vars, uartVars>>
NoDevice == UNCHANGED <<vars, uartVars, clintVars>>

\* mip & mie of hart h, highest priority first.  Interrupts are on in the main
\* program and off in a handler and while hart 0 boots.
Pending(h) ==
    IF mip[h] THEN {"external"}
    ELSE IF msip[h] THEN {"software"}
    ELSE IF mtip[h] /\ h \in TimerHarts THEN {"timer"} ELSE {}

Handler(i) ==
    CASE i = "external" -> "claim"
      [] i = "software" -> "kicked"
      [] i = "timer" -> "timer_high"

\* Mutant: a hart that waits does not look for interrupts.
pending_unless_waiting ==
    /\ InTurn /\ checks
    /\ checks' = FALSE
    /\ IF Pending(h0) # {} /\ pc[h0] = "main" /\ ~in_wfi[h0]
       THEN /\ \E i \in Pending(h0) : pc' = [pc EXCEPT ![h0] = Handler(i)]
            /\ current_step' = INTERLEAVE
       ELSE UNCHANGED <<pc, current_step>>
    /\ UNCHANGED <<in_wfi, current_proc, booted, moves, deadline, typed, received>>
    /\ NoDevice

\* take_pending_interrupt: the trap leaves processor_t::step with the turn used
\* up.  A pending interrupt ends WFI even where it is not taken.
take_pending_interrupt ==
    /\ InTurn /\ checks
    /\ checks' = FALSE
    /\ in_wfi' = [in_wfi EXCEPT ![h0] = @ /\ Pending(h0) = {}]
    /\ IF Pending(h0) # {} /\ pc[h0] = "main"
       THEN /\ \E i \in Pending(h0) : pc' = [pc EXCEPT ![h0] = Handler(i)]
            /\ current_step' = INTERLEAVE
       ELSE UNCHANGED <<pc, current_step>>
    /\ UNCHANGED <<current_proc, booted, moves, deadline, typed, received>>
    /\ NoDevice

\* A waiting hart gives its turn up.
wait_for_interrupt ==
    /\ InTurn /\ ~checks
    /\ in_wfi[h0]
    /\ current_step' = INTERLEAVE
    /\ UNCHANGED <<checks, current_proc, pc, booted, moves, in_wfi, deadline, typed, received>>
    /\ NoDevice

\* The end of a turn, and of a round: CLINT and UART tick.
end_of_turn ==
    /\ current_step = INTERLEAVE
    /\ current_step' = 0
    /\ checks' = TRUE
    /\ current_proc' = (current_proc + 1) % NumContexts
    /\ IF current_proc' = 0
       THEN clint_advance(rtc_ticks) /\ uart_tick
       ELSE NoDevice
    /\ UNCHANGED <<guestVars, typed, received>>
-----------------------------------------------------------------------------
(***************************************************************************)
(* The guest.                                                              *)
(***************************************************************************)
At(p) == pc[h0] = p /\ ~in_wfi[h0]

boot_store ==
    /\ At("boot")
    /\ booted' = booted + 1
    /\ Plain(IF booted' = Len(Boot) THEN "main" ELSE "boot")
    /\ LET s == Boot[booted + 1]
       IN  \/ s.reg = "PRIORITY" /\ priority_write(UartId, s.value) /\ PlicOnly
           \/ s.reg = "ENABLE" /\ context_enable_write(h0, UartId \div WordBits, {UartId}) /\ PlicOnly
           \/ s.reg = "RX" /\ uart_load_rx /\ UartOnly
           \/ s.reg \notin {"PRIORITY", "ENABLE", "RX"} /\ uart_store(s.reg, s.value) /\ UartOnly
    /\ received' = IF Boot[booted + 1].reg = "RX" THEN Append(received, rx_value) ELSE received
    /\ UNCHANGED <<typed, deadline, in_wfi, moves>>

\* Any other instruction, a load from the CLINT among them.
main_work == At("main") /\ Plain("main") /\ clint_load /\ ClintOnly /\ UNCHANGED Others

main_set_time ==
    /\ At("main")
    /\ Plain("main")
    /\ clint_store_mtime(WithLow(mtime, 0)) /\ ClintOnly
    /\ UNCHANGED Others

main_wfi ==
    /\ At("main")
    /\ InTurn /\ ~checks
    /\ in_wfi' = [in_wfi EXCEPT ![h0] = TRUE]
    /\ current_step' = INTERLEAVE
    /\ UNCHANGED <<checks, current_proc, pc, booted, moves, deadline, typed, received>>
    /\ NoDevice

\* Turns the transmit interrupt on; the handler sends and turns it off again.
main_send ==
    /\ At("main")
    /\ Plain("main")
    /\ uart.ier = {"RDI"}
    /\ uart_store("IER", {"RDI", "THRI"}) /\ UartOnly
    /\ UNCHANGED Others

main_kick ==
    /\ At("main")
    /\ Plain("main")
    /\ \E h \in Contexts \ {h0} : clint_store_msip(h, TRUE)
    /\ ClintOnly
    /\ UNCHANGED Others

\* Moves the UART interrupt, handled or not, to any hart: off where it is, then
\* on there.  A guest that did so without end would keep it from being taken.
main_unroute ==
    /\ At("main")
    /\ moves < MaxMoves
    /\ moves' = moves + 1
    /\ Plain("route")
    /\ \E h \in Contexts :
           UartId \in enable[h] /\ context_enable_write(h, UartId \div WordBits, {})
    /\ PlicOnly
    /\ UNCHANGED <<typed, received, deadline, in_wfi, booted>>

main_route ==
    /\ At("route")
    /\ Plain("main")
    /\ \E h \in Contexts : context_enable_write(h, UartId \div WordBits, {UartId})
    /\ PlicOnly
    /\ UNCHANGED Others

\* The handlers.  A claim that finds nothing has nothing to complete.
handle_claim ==
    /\ At("claim")
    /\ Plain(IF Interrupting(h0) THEN "poll" ELSE "mret")
    /\ context_claim(h0) /\ PlicOnly
    /\ UNCHANGED Others

handle_poll ==
    /\ At("poll")
    /\ Plain(IF "DR" \in uart.lsr THEN "rx" ELSE IF "THRI" \in uart.ier THEN "tx" ELSE "complete")
    /\ NoDevice /\ UNCHANGED Others

handle_rx ==
    /\ At("rx")
    /\ Plain("poll")
    /\ uart_load_rx /\ UartOnly
    /\ received' = Append(received, rx_value)
    /\ UNCHANGED <<typed, deadline, in_wfi, booted, moves>>

handle_tx ==
    /\ At("tx")
    /\ Plain("poll")
    /\ uart_store("IER", {"RDI"}) /\ UartOnly
    /\ UNCHANGED Others

handle_complete ==
    /\ At("complete")
    /\ Plain("mret")
    /\ \/ context_write_claim(h0, UartId)
       \/ UartId \notin enable[h0] /\ UNCHANGED vars
    /\ PlicOnly
    /\ UNCHANGED Others

handle_kick ==
    /\ At("kicked")
    /\ Plain("mret")
    /\ clint_store_msip(h0, FALSE) /\ ClintOnly
    /\ UNCHANGED Others

\* The timer is set by halves: the high one to its largest value, the low one,
\* the high one.
timer_high ==
    /\ At("timer_high")
    /\ Plain("timer_low")
    /\ clint_store_mtimecmp(h0, WithHigh(mtimecmp[h0], Half - 1)) /\ ClintOnly
    /\ \E d \in Deadlines : deadline' = [deadline EXCEPT ![h0] = d]
    /\ UNCHANGED <<typed, received, in_wfi, booted, moves>>

timer_low ==
    /\ At("timer_low")
    /\ Plain("timer_done")
    /\ clint_store_mtimecmp(h0, WithLow(mtimecmp[h0], deadline[h0] % Half)) /\ ClintOnly
    /\ UNCHANGED Others

timer_done ==
    /\ At("timer_done")
    /\ Plain("mret")
    /\ clint_store_mtimecmp(h0, WithHigh(mtimecmp[h0], deadline[h0] \div Half)) /\ ClintOnly
    /\ UNCHANGED Others

\* MRET serialises.
handle_mret ==
    /\ At("mret")
    /\ Instruction("main")
    /\ checks' = TRUE
    /\ NoDevice /\ UNCHANGED Others
-----------------------------------------------------------------------------
\* Someone types.
type ==
    /\ typed < MaxTyped
    /\ typed' = typed + 1
    /\ terminal' = Append(terminal, typed + 1)
    /\ UNCHANGED <<vars, uart, backoff, cleared, clintVars, loopVars, guestVars, received>>

Guest ==
    \/ boot_store \/ main_work \/ main_set_time \/ main_wfi \/ main_send \/ main_kick \/ main_unroute \/ main_route
    \/ handle_claim \/ handle_poll \/ handle_rx \/ handle_tx \/ handle_complete \/ handle_kick
    \/ timer_high \/ timer_low \/ timer_done \/ handle_mret

Simulate == take_pending_interrupt \/ wait_for_interrupt \/ end_of_turn \/ Guest

PlatformNext == Simulate \/ type

\* The simulator never stops stepping (htif_t::run calls idle again and again).
PlatformSpec == PlatformInit /\ [][PlatformNext]_allVars /\ WF_allVars(Simulate)
-----------------------------------------------------------------------------
\* What the guest read, what is in the UART's queue and what is still in the terminal.
Input == received \o uart.rx \o terminal

\* Every typed character is in one place, in the order it was typed, unless a register
\* write threw it away; 0 is what the guest sent itself, or read from an empty queue.
InputIntact ==
    /\ {Input[i] : i \in DOMAIN Input} \ {0} = (1 .. typed) \ cleared
    /\ \A i, j \in DOMAIN Input :
           i < j /\ Input[i] # 0 /\ Input[j] # 0 => Input[i] < Input[j]

\* The registers of the devices keep their ranges, the UART's wire agrees with its queue
\* and registers, and MTIP with the two times, after every store, tick and claim.
PlatformInv == PlatformType /\ WireAgrees /\ MtipCoherent

\* A timer set half by half never fires before its deadline.
NeverEarly ==
    [][\A h \in TimerHarts : ~mtip[h] /\ mtip'[h] => mtime' >= deadline'[h]]_allVars

\* Whatever is typed is read in the end, or thrown away: the byte reaches the
\* queue after the back-off, the wire rises, some hart takes the interrupt,
\* awake or waiting, and its handler finds the byte.
InputIsRead ==
    \A b \in 1 .. MaxTyped : typed >= b ~> (b \in Range(received) \/ b \in cleared)

\* A hart that waits with an interrupt pending and enabled does not wait for
\* ever: its turn comes and processor_t::step looks before it gives the turn up.
WakesUp == \A h \in Contexts : (in_wfi[h] /\ Pending(h) # {}) ~> (~in_wfi[h] \/ Pending(h) = {})
=============================================================================
