-------------------------------- MODULE Host --------------------------------
\* The host interface: the loop htif_t::run that serves the words tohost and
\* fromhost, the device list, the console device and the proxied system calls with
\* their table of file descriptors.  The target runs only inside idle(), so one pass
\* of the loop is a command served, or an idle slice, followed by tick and delivery.
EXTENDS Integers, Sequences, FiniteSets

CONSTANTS
    Commands,       \* what the program asks: records [dev, op, arg]
    Files,          \* names openat can find
    MaxCommands,    \* bound: commands issued
    MaxTyped,       \* bound: characters typed
    MaxHostFds      \* host descriptors a process may have

\* The calls, a number out of the table, a test's result and the question who is there.
Calls == {"openat", "close", "read", "write", "dupfd", "exit", "bad", "result", "identify"}

ASSUME HostAssumption == /\ MaxCommands \in Nat
                         /\ MaxTyped \in Nat
                         /\ MaxHostFds \in Nat \ {0, 1, 2, 3, 4, 5}
                         /\ \A c \in Commands :
                                /\ c.dev \in {"syscall", "bcd", "none"}
                                /\ c.dev = "syscall" => c.op \in Calls
                                /\ c.dev = "bcd" => c.op \in {"getc", "putc", "unknown", "identify"}
                                /\ c.dev = "none" => c.op \in {"unknown", "identify"}
                                /\ c.op \in {"exit", "result"} => c.arg \in Nat

VARIABLES
    host,       \* the simulator's own state
    mem,        \* the words tohost and fromhost of target memory
    phase,      \* "poll", inside idle() "idle", "stopped", or "dead" (exit(-1), abort)
    signal_exit,
    issued,     \* commands issued so far
    accepted,   \* history: the commands taken that are due an answer
    received,   \* history: the answers the program has taken from fromhost, in order
    held        \* the program's view: its descriptors and the files behind them

vars == <<host, mem, phase, signal_exit, issued, accepted, received, held>>

None == [dev |-> "none", op |-> "none", arg |-> 0, id |-> 0]
Free == -1
Stdio == [fd \in 0..5 |-> IF fd \in {0, 3} THEN "stdin" ELSE "stdout"]

-----------------------------------------------------------------------------
\* The table of descriptors.

\* Everything that is not in the table is descriptor -1 to the host.
lookup(h, fd) == IF fd \in 0 .. Len(h.fds) - 1 THEN h.fds[fd + 1] ELSE Free

\* The first free slot, or one more.
FreeSlot(h) ==
    CHOOSE i \in 0 .. Len(h.fds) :
        /\ lookup(h, i) = Free
        /\ \A j \in 0 .. i - 1 : lookup(h, j) # Free

alloc(h, hostfd) ==
    LET i == FreeSlot(h)
    IN  [h EXCEPT !.fds = IF i = Len(@) THEN Append(@, hostfd) ELSE [@ EXCEPT ![i + 1] = hostfd],
                  !.ret = i]

dealloc(h, fd) == [h EXCEPT !.fds[fd + 1] = Free]

-----------------------------------------------------------------------------
\* The kernel the simulator runs on: open files by host descriptor.

LowestFree(h) == CHOOSE n \in 0 .. MaxHostFds :
                    n \notin DOMAIN h.open /\ \A k \in 0 .. n - 1 : k \in DOMAIN h.open

KernelOpen(h, file) ==
    [h EXCEPT !.open = [n \in DOMAIN @ \cup {LowestFree(h)} |->
                            IF n \in DOMAIN @ THEN @[n] ELSE file]]

KernelClose(h, hostfd) == [h EXCEPT !.open = [n \in DOMAIN @ \ {hostfd} |-> @[n]]]

-----------------------------------------------------------------------------
\* The system calls.  Each leaves its result in h.ret; a negative one is an error.

Error == -1
fail(h) == [h EXCEPT !.ret = Error]

\* EBADF.
BadFd(h, fd) == lookup(h, fd) \notin DOMAIN h.open

sys_openat(h, file) ==
    IF file \in Files /\ Cardinality(DOMAIN h.open) < MaxHostFds
    THEN alloc(KernelOpen(h, file), LowestFree(h))
    ELSE fail(h)

\* Mutant: the slot of a closed descriptor stays taken.
close_keeps_slot(h, fd) ==
    IF BadFd(h, fd) THEN fail(h)
    ELSE [KernelClose(h, lookup(h, fd)) EXCEPT !.ret = 0]

sys_close(h, fd) ==
    IF BadFd(h, fd) THEN fail(h)
    ELSE [dealloc(KernelClose(h, lookup(h, fd)), fd) EXCEPT !.ret = 0]

\* A read of the terminal takes a character, and waits for one: see Blocked.
sys_read(h, fd) ==
    CASE BadFd(h, fd) -> fail(h)
      [] ~BadFd(h, fd) /\ h.open[lookup(h, fd)] = "stdin" ->
            [h EXCEPT !.ret = 1, !.typed = @ - 1]
      [] OTHER -> [h EXCEPT !.ret = 1]

sys_write(h, fd) == IF BadFd(h, fd) THEN fail(h) ELSE [h EXCEPT !.ret = 1]

\* fcntl hands its command on; F_DUPFD returns the host's number for the copy.
sys_fcntl_dupfd(h, fd) ==
    IF BadFd(h, fd) \/ Cardinality(DOMAIN h.open) = MaxHostFds THEN fail(h)
    ELSE [KernelOpen(h, h.open[lookup(h, fd)]) EXCEPT !.ret = LowestFree(h)]

sys_exit(h, code) == [h EXCEPT !.exitcode = 2 * code + 1, !.ret = 0]

dispatch(h, c) ==
    CASE c.op = "openat" -> sys_openat(h, c.arg)
      [] c.op = "close"  -> sys_close(h, c.arg)
      [] c.op = "read"   -> sys_read(h, c.arg)
      [] c.op = "write"  -> sys_write(h, c.arg)
      [] c.op = "dupfd"  -> sys_fcntl_dupfd(h, c.arg)
      [] c.op = "exit"   -> sys_exit(h, c.arg)

\* A number that is not in the table of calls ends the simulator.
BadSyscall(c) == c.dev = "syscall" /\ c.op = "bad"

-----------------------------------------------------------------------------
\* The devices and their commands.

respond(h, c) == [h EXCEPT !.fromhost_queue = Append(@, c)]

\* An odd payload is the result of a test and has no answer.
handle_syscall(h, c) ==
    IF c.op = "result" THEN [h EXCEPT !.exitcode = 2 * c.arg + 1]
    ELSE respond(dispatch(h, c), c)

\* The console: a read waits in pending_reads, a write only goes to the terminal.
handle_bcd(h, c) == IF c.op = "getc" THEN [h EXCEPT !.pending_reads = Append(@, c)] ELSE h

\* Every device says what it is; a command nobody registered does nothing.
handle_command(h, c) ==
    CASE c.op = "identify" -> respond(h, c)
      [] c.op # "identify" /\ c.dev = "syscall" -> handle_syscall(h, c)
      [] c.op # "identify" /\ c.dev = "bcd"     -> handle_bcd(h, c)
      [] c.op # "identify" /\ c.dev = "none"    -> h

\* One character for the oldest read.
tick(h) ==
    IF h.pending_reads # <<>> /\ h.typed > 0
    THEN [respond(h, Head(h.pending_reads)) EXCEPT !.pending_reads = Tail(@), !.typed = @ - 1]
    ELSE h

Answered(c) == c.op \notin {"result", "putc", "unknown"}

-----------------------------------------------------------------------------
\* The loop.

Init ==
    /\ host = [exitcode |-> 0, fds |-> <<3, 4, 5>>, open |-> Stdio, ret |-> 0,
               fromhost_queue |-> <<>>, pending_reads |-> <<>>, typed |-> 0]
    /\ mem = [tohost |-> None, fromhost |-> None]
    /\ phase = "poll"
    /\ signal_exit = FALSE
    /\ issued = 0
    /\ accepted = {}
    /\ received = <<>>
    /\ held = [fd \in 0..2 |-> Stdio[fd + 3]]

Looping == ~signal_exit /\ host.exitcode = 0

\* Mutant: an answer goes out whether or not the last one was taken.
deliver_always(h, tohost) ==
    IF h.fromhost_queue # <<>>
    THEN /\ mem' = [tohost |-> tohost, fromhost |-> Head(h.fromhost_queue)]
         /\ host' = [h EXCEPT !.fromhost_queue = Tail(@)]
    ELSE mem' = [mem EXCEPT !.tohost = tohost] /\ host' = h

\* Mutant: only a pass that served a command delivers.
deliver_after_command(h, tohost) ==
    IF h.fromhost_queue # <<>> /\ mem.fromhost = None /\ phase = "poll"
    THEN /\ mem' = [tohost |-> tohost, fromhost |-> Head(h.fromhost_queue)]
         /\ host' = [h EXCEPT !.fromhost_queue = Tail(@)]
    ELSE mem' = [mem EXCEPT !.tohost = tohost] /\ host' = h

\* The oldest answer goes out when the program has cleared the last one; the command
\* word is the one the pass leaves in memory.
deliver(h, tohost) ==
    IF h.fromhost_queue # <<>> /\ mem.fromhost = None
    THEN /\ mem' = [tohost |-> tohost, fromhost |-> Head(h.fromhost_queue)]
         /\ host' = [h EXCEPT !.fromhost_queue = Tail(@)]
    ELSE mem' = [mem EXCEPT !.tohost = tohost] /\ host' = h

\* What the program concludes from the answer to a call on descriptors.
View(h, c) ==
    CASE c.dev = "syscall" /\ c.op = "openat" /\ h.ret # Error ->
            [fd \in DOMAIN held \cup {h.ret} |-> IF fd = h.ret THEN c.arg ELSE held[fd]]
      [] c.dev = "syscall" /\ c.op = "dupfd" /\ h.ret # Error ->
            [fd \in DOMAIN held \cup {h.ret} |-> IF fd = h.ret THEN held[c.arg] ELSE held[fd]]
      [] c.dev = "syscall" /\ c.op = "close" /\ h.ret # Error ->
            [fd \in DOMAIN held \ {c.arg} |-> held[fd]]
      [] OTHER -> held

\* read() of the terminal holds up the whole simulator until somebody types.
Blocked ==
    /\ mem.tohost.dev = "syscall"
    /\ mem.tohost.op = "read"
    /\ host.typed = 0
    /\ ~BadFd(host, mem.tohost.arg)
    /\ host.open[lookup(host, mem.tohost.arg)] = "stdin"

\* A pass that finds a command.
serve ==
    /\ phase = "poll"
    /\ Looping
    /\ mem.tohost # None
    /\ ~BadSyscall(mem.tohost)
    /\ ~Blocked
    /\ LET h == handle_command(host, mem.tohost)
       IN  /\ deliver(tick(h), None)
           /\ held' = View(h, mem.tohost)
    /\ accepted' = IF Answered(mem.tohost) THEN accepted \cup {mem.tohost} ELSE accepted
    /\ UNCHANGED <<phase, signal_exit, issued, received>>

\* dispatch throws and nothing catches it; the word has been cleared.
bad_syscall ==
    /\ phase = "poll"
    /\ Looping
    /\ BadSyscall(mem.tohost)
    /\ mem' = [mem EXCEPT !.tohost = None]
    /\ phase' = "dead"
    /\ UNCHANGED <<host, signal_exit, issued, accepted, received, held>>

\* A pass that finds none runs the target for a slice ...
idle ==
    /\ phase = "poll"
    /\ Looping
    /\ mem.tohost = None
    /\ phase' = "idle"
    /\ UNCHANGED <<host, mem, signal_exit, issued, accepted, received, held>>

\* ... and goes on to the devices and to fromhost when the slice is over.
idle_ends ==
    /\ phase = "idle"
    /\ deliver(tick(host), mem.tohost)
    /\ phase' = "poll"
    /\ UNCHANGED <<signal_exit, issued, accepted, received, held>>

stop ==
    /\ phase = "poll"
    /\ ~Looping
    /\ phase' = "stopped"
    /\ UNCHANGED <<host, mem, signal_exit, issued, accepted, received, held>>

\* The second signal does not wait for the loop.
handle_signal ==
    /\ phase \in {"poll", "idle"}
    /\ IF signal_exit THEN phase' = "dead" /\ UNCHANGED signal_exit
                      ELSE signal_exit' = TRUE /\ UNCHANGED phase
    /\ UNCHANGED <<host, mem, issued, accepted, received, held>>

-----------------------------------------------------------------------------
\* The program, inside a slice, and the terminal.  The program waits for tohost to be
\* clear, clears fromhost when it takes an answer, and uses descriptors it was given.

program_issues ==
    /\ phase = "idle"
    /\ mem.tohost = None
    /\ issued < MaxCommands
    /\ \E c \in Commands :
        /\ c.dev = "syscall" /\ c.op = "dupfd" => c.arg \in DOMAIN held
        /\ mem' = [mem EXCEPT !.tohost = [dev |-> c.dev, op |-> c.op, arg |-> c.arg,
                                          id |-> issued + 1]]
    /\ issued' = issued + 1
    /\ UNCHANGED <<host, phase, signal_exit, accepted, received, held>>

program_takes ==
    /\ phase = "idle"
    /\ mem.fromhost # None
    /\ mem' = [mem EXCEPT !.fromhost = None]
    /\ received' = Append(received, mem.fromhost)
    /\ UNCHANGED <<host, phase, signal_exit, issued, accepted, held>>

type ==
    /\ phase \in {"poll", "idle"}
    /\ host.typed < MaxTyped
    /\ host' = [host EXCEPT !.typed = @ + 1]
    /\ UNCHANGED <<mem, phase, signal_exit, issued, accepted, received, held>>

Over == phase \in {"stopped", "dead"} /\ UNCHANGED vars

Next ==
    \/ serve \/ bad_syscall \/ idle \/ idle_ends \/ stop \/ handle_signal
    \/ program_issues \/ program_takes \/ type \/ Over

\* The loop never waits except in a read of the terminal, and a program that is owed
\* an answer polls fromhost: it finds it in a later slice, if not in this one.
Fairness == /\ WF_vars(serve) /\ WF_vars(bad_syscall) /\ WF_vars(idle)
            /\ WF_vars(idle_ends) /\ WF_vars(stop)
            /\ SF_vars(program_takes)

Spec == Init /\ [][Next]_vars /\ Fairness

-----------------------------------------------------------------------------
\* Properties.

HostType ==
    /\ phase \in {"poll", "idle", "stopped", "dead"}
    /\ host.typed \in 0..MaxTyped
    /\ \A i \in DOMAIN host.fds : host.fds[i] \in 0 .. MaxHostFds - 1 \cup {Free}
    /\ host.exitcode \in Nat

\* fds_t: a descriptor the program holds leads to the file it opened under it, no two of
\* them to the same host descriptor, and no host descriptor is left that the table
\* does not lead to, whatever the order in which slots and host numbers are reused.
FilesIntact ==
    /\ \A fd \in DOMAIN held : /\ lookup(host, fd) \in DOMAIN host.open
                               /\ host.open[lookup(host, fd)] = held[fd]
    /\ \A fd, fe \in DOMAIN held : fd # fe => lookup(host, fd) # lookup(host, fe)
    /\ DOMAIN host.open \ (0..2) = {lookup(host, fd) : fd \in DOMAIN held}

\* The types, and the table of descriptors as the program sees it.
HostInv == HostType /\ FilesIntact

Outgoing == (IF mem.fromhost = None THEN <<>> ELSE <<mem.fromhost>>) \o host.fromhost_queue

\* The answers the program took, the one in fromhost, the ones queued and the console
\* reads that wait for theirs.
Answers == received \o Outgoing \o host.pending_reads

\* A command that waits for the terminal; every other one is answered at once.
Waits(c) == c.dev = "bcd" /\ c.op = "getc"

\* The commands of s that wait are in the order they were given, and so are the others.
InOrder(s) ==
    \A i, j \in DOMAIN s : i < j /\ Waits(s[i]) = Waits(s[j]) => s[i].id < s[j].id

\* htif_t::run: what the program took and what is still on its way are exactly the
\* commands that are due an answer; none is lost or doubled.  The console reads are
\* answered in the order they were made, and so are all other commands; a read may be
\* overtaken by one that does not wait for the terminal.
AnsweredOnceInOrder ==
    /\ {Answers[i] : i \in DOMAIN Answers} = accepted
    /\ InOrder(Answers)

\* htif_t::run: a system call is answered in the end, however many console reads are
\* queued before it, unless the simulator stops or is itself waiting for the terminal.
CallsReturn ==
    \A i \in 1..MaxCommands :
        (mem.tohost.id = i /\ mem.tohost.dev = "syscall")
            ~> \/ \E k \in DOMAIN received : received[k].id = i
               \/ phase \in {"stopped", "dead"}
               \/ Blocked
=============================================================================
