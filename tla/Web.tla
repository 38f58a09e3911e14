-------------------------------- MODULE Web ---------------------------------
\* The web debugger: the page in the browser, the socket between them, the server's
\* debug session and the Spike processes it runs on pseudo terminals.  Each handler of
\* the server and of the page runs to its end before the next one starts.
EXTENDS Integers, SequencesExt

CONSTANTS
    MaxConns,   \* bound: connections, the first one included
    MaxSpikes,  \* bound: Spike processes started
    MaxClicks   \* bound: clicks on the control buttons

ASSUME WebAssumption == /\ MaxConns \in Nat \ {0}
                        /\ MaxSpikes \in Nat \ {0}
                        /\ MaxClicks \in Nat

VARIABLES
    session,    \* the server's DebugSession of each connection, with its timers
    spike,      \* the processes
    page,       \* debugState: connected, debugging, and whether a file is loaded
    conn,       \* the page's connection, its latest
    toPage,     \* messages under way to the page, in order
    toServer,   \* messages under way to the server, in order
    clicks,     \* clicks made
    excused     \* history: connections where a step showed no instruction, or it was lost

vars == <<session, spike, page, conn, toPage, toServer, clicks, excused>>

NoSpike == 0
Conns == 1..MaxConns
Spikes == 1..MaxSpikes

\* `starting' and `announcing' count the timers of 1500 and 500 ms under way.  `late' is
\* history: the session was announced when its process had already exited.
NewSession ==
    [spikeProcess |-> NoSpike, isRunning |-> FALSE, isInitialized |-> FALSE,
     isContinuousMode |-> FALSE, waitingForOutput |-> FALSE, waitingForFrontend |-> FALSE,
     starting |-> 0, announcing |-> 0, gone |-> FALSE, late |-> FALSE]

\* status: "none" before it starts, "alive", "exiting" until the server hears, "dead".
NoProcess == [status |-> "none", owner |-> 0, input |-> 0, out |-> <<>>]

-----------------------------------------------------------------------------
\* Spike's side of the terminal.  readline writes the prompt, and writes the line so far
\* again for each character it reads, prompt included; then the command runs, and
\* prints one line for an instruction it starts: "stop" for ecall, ebreak and wfi, none
\* for an interrupt, a fetch that traps or the same instruction again.

Shown == {<<"line">>, <<"stop">>, <<>>}

spike_runs(p) ==
    /\ spike[p].status = "alive"
    /\ spike[p].input > 0
    /\ \E shown \in Shown :
        /\ spike' = [spike EXCEPT ![p].input = @ - 1,
                                  ![p].out = @ \o <<"echo">> \o shown \o <<"prompt">>]
        /\ excused' = IF shown = <<>> THEN [excused EXCEPT ![spike[p].owner] = TRUE] ELSE excused
    /\ UNCHANGED <<session, page, conn, toPage, toServer, clicks>>

\* A process may also end by itself: a file it cannot load, a failed assertion.
spike_ends(p) ==
    /\ spike[p].status = "alive"
    /\ spike' = [spike EXCEPT ![p].status = "exiting"]
    /\ UNCHANGED <<session, page, conn, toPage, toServer, clicks, excused>>

-----------------------------------------------------------------------------
\* The session's methods, on a turn t: the session s, the processes and what is sent.

emit(t, message) == [t EXCEPT !.sent = Append(@, message)]

StopContinuous(s) == [s EXCEPT !.isContinuousMode = FALSE, !.waitingForOutput = FALSE,
                               !.waitingForFrontend = FALSE]

sendCommand(t) ==
    IF t.s.spikeProcess # NoSpike /\ t.s.isRunning
    THEN [t EXCEPT !.spike[t.s.spikeProcess].input = @ + 1]
    ELSE t

executeNextInstruction(t) ==
    IF /\ t.s.isContinuousMode /\ t.s.isRunning /\ t.s.spikeProcess # NoSpike
       /\ ~t.s.waitingForOutput /\ ~t.s.waitingForFrontend
    THEN sendCommand([t EXCEPT !.s.waitingForOutput = TRUE])
    ELSE t

\* Mutant: the process is let go and not killed.
stop_without_kill(t) ==
    emit([t EXCEPT !.s = [StopContinuous(@) EXCEPT !.spikeProcess = NoSpike,
                                                   !.isRunning = FALSE, !.isInitialized = FALSE,
                                                   !.late = FALSE]],
         "debug-stopped")

stopDebug(t) ==
    LET p == t.s.spikeProcess
        killed == IF p = NoSpike THEN t.spike
                  ELSE [t.spike EXCEPT ![p].status = IF @ = "alive" THEN "exiting" ELSE @]
    IN  emit([t EXCEPT !.spike = killed,
                       !.s = [StopContinuous(@) EXCEPT !.spikeProcess = NoSpike,
                                                       !.isRunning = FALSE, !.isInitialized = FALSE,
                                                       !.late = FALSE]],
             "debug-stopped")

\* The file may be missing; otherwise p is the process that pty.spawn starts.
startDebug(t, c, p, found) ==
    LET t1 == IF t.s.spikeProcess # NoSpike THEN stopDebug(t) ELSE t
    IN  IF ~found THEN t1
        ELSE [t1 EXCEPT !.spike[p] = [status |-> "alive", owner |-> c, input |-> 0, out |-> <<"prompt">>],
                        !.s.spikeProcess = p,
                        !.s.isRunning = TRUE,
                        !.s.late = FALSE,
                        !.s.starting = @ + 1]

continueDebug(t) == executeNextInstruction([t EXCEPT !.s.isContinuousMode = TRUE])

stepDebug(t) == sendCommand(t)

pauseDebug(t) == [t EXCEPT !.s = StopContinuous(@)]

resetDebug(t) == emit(stopDebug(t), "debug-reset")

onFrontendReady(t) ==
    IF t.s.waitingForFrontend /\ t.s.isContinuousMode /\ t.s.isRunning
    THEN executeNextInstruction([t EXCEPT !.s.waitingForFrontend = FALSE])
    ELSE t

\* Mutant: only a prompt by itself counts.
contains_prompt_only(item) == item = "prompt"

\* What is written again while a command is typed counts as a prompt too.
containsSpikePrompt(item) == item \in {"prompt", "echo"}

\* Mutant: a prompt runs the next instruction without waiting for the page.
prompt_runs_next(t) ==
    IF t.s.isContinuousMode /\ t.s.waitingForOutput /\ t.s.isRunning
    THEN sendCommand([t EXCEPT !.s.waitingForFrontend = TRUE, !.s.waitingForOutput = FALSE])
    ELSE t

PromptSeen(t) ==
    IF t.s.isContinuousMode /\ t.s.waitingForOutput /\ t.s.isRunning
    THEN [t EXCEPT !.s.waitingForFrontend = TRUE, !.s.waitingForOutput = FALSE]
    ELSE t

\* ecall, ebreak and wfi end continuous mode.
checkForExitPatterns(t, item) ==
    IF item = "stop" THEN [t EXCEPT !.s = StopContinuous(@)] ELSE t

IsInstruction(item) == item \in {"line", "stop"}

\* The page hears of an instruction only once the session is initialised.
parseExecutionLog(t, item) ==
    IF t.s.isInitialized /\ IsInstruction(item)
    THEN checkForExitPatterns(emit(t, "execution-update"), item)
    ELSE t

handleSpikeOutput(t, chunk) ==
    LET line(u, item) == IF containsSpikePrompt(item) THEN PromptSeen(u)
                         ELSE parseExecutionLog(u, item)
    IN  FoldLeft(line, t, chunk)

-----------------------------------------------------------------------------
\* The events of the server.

\* Only the page's own connection has a listener at its other end.
Turn(c) == [s |-> session[c], spike |-> spike, sent |-> <<>>]

EndTurn(c, t) ==
    /\ session' = [session EXCEPT ![c] = t.s]
    /\ spike' = t.spike
    /\ toPage' = IF c = conn /\ page.connected THEN toPage \o t.sent ELSE toPage

\* The terminal hands over what has been written in pieces of its own choice, and no piece
\* is kept for the next.  Where one ends inside an item, a cut is what it shows of the item
\* and what the next piece does: an instruction cut before its disassembly and a prompt
\* are lost, one cut later is still a line, and the echo repeats the prompt.
Cuts(item) ==
    CASE item = "echo" -> {<<>>, <<"echo">>} \X {<<>>, <<"echo">>}
      [] item = "stop" -> {<<>>, <<"line">>, <<"stop">>} \X {<<>>}
      [] OTHER -> {<<>>, <<item>>} \X {<<>>}

Lost(item, cut) == item # "prompt" /\ cut[1] = <<>> /\ cut[2] = <<>>

spike_data(p) ==
    LET c == spike[p].owner
        out == spike[p].out
    IN  /\ spike[p].status \in {"alive", "exiting"}
        /\ \E n \in DOMAIN out : \E cut \in Cuts(out[n]) :
            LET chunk == SubSeq(out, 1, n - 1) \o cut[1]
                rest == cut[2] \o SubSeq(out, n + 1, Len(out))
            IN  /\ EndTurn(c, handleSpikeOutput([Turn(c) EXCEPT !.spike[p].out = rest], chunk))
                /\ excused' = [excused EXCEPT ![c] = \/ @
                                                     \/ Lost(out[n], cut)
                                                     \/ /\ ~session[c].isInitialized
                                                        /\ \E i \in DOMAIN chunk : IsInstruction(chunk[i])]
        /\ UNCHANGED <<page, conn, toServer, clicks>>

\* The exit of any process of the session, or an error of its terminal.
spike_exit(p) ==
    LET c == spike[p].owner
        t == [Turn(c) EXCEPT !.spike[p] = [@ EXCEPT !.status = "dead", !.input = 0, !.out = <<>>]]
    IN  /\ spike[p].status = "exiting"
        /\ EndTurn(c, emit([t EXCEPT !.s = [StopContinuous(@) EXCEPT !.isRunning = FALSE,
                                                                     !.spikeProcess = NoSpike]],
                           "debug-stopped"))
        /\ UNCHANGED <<page, conn, toServer, clicks, excused>>

starting_timer(c) ==
    /\ session[c].starting > 0
    /\ session' = [session EXCEPT ![c].starting = @ - 1,
                                  ![c].announcing = IF session[c].isRunning THEN @ + 1 ELSE @]
    /\ UNCHANGED <<spike, page, conn, toPage, toServer, clicks, excused>>

announcing_timer(c) ==
    /\ session[c].announcing > 0
    /\ EndTurn(c, emit([Turn(c) EXCEPT !.s.announcing = @ - 1, !.s.isInitialized = TRUE,
                                         !.s.late = ~session[c].isRunning],
                       "debug-started"))
    /\ UNCHANGED <<page, conn, toServer, clicks, excused>>

Handled(t, message, c) ==
    CASE message = "continue-debug" -> {continueDebug(t)}
      [] message = "step-debug"     -> {stepDebug(t)}
      [] message = "pause-debug"    -> {pauseDebug(t)}
      [] message = "reset-debug"    -> {resetDebug(t)}
      [] message = "frontend-ready" -> {onFrontendReady(t)}
      [] message = "start-debug"    ->
            LET p == CHOOSE p \in Spikes : spike[p].status = "none"
            IN  {startDebug(t, c, p, found) : found \in BOOLEAN}

server_receives ==
    /\ toServer # <<>>
    /\ \E t \in Handled(Turn(conn), Head(toServer), conn) : EndTurn(conn, t)
    /\ toServer' = Tail(toServer)
    /\ UNCHANGED <<page, conn, clicks, excused>>

\* cleanup, when the server notices.
server_disconnect(c) ==
    /\ c < conn \/ (c = conn /\ ~page.connected)
    /\ ~session[c].gone
    /\ EndTurn(c, [stopDebug(Turn(c)) EXCEPT !.s.gone = TRUE])
    /\ UNCHANGED <<page, conn, toServer, clicks, excused>>

-----------------------------------------------------------------------------
\* The page.

page_receives ==
    /\ toPage # <<>>
    /\ toPage' = Tail(toPage)
    /\ page' = CASE Head(toPage) = "debug-started" -> [page EXCEPT !.debugging = TRUE]
                 [] Head(toPage) \in {"debug-stopped", "debug-reset"} -> [page EXCEPT !.debugging = FALSE]
                 [] OTHER -> page
    /\ toServer' = IF Head(toPage) = "execution-update" THEN Append(toServer, "frontend-ready")
                   ELSE toServer
    /\ UNCHANGED <<session, spike, conn, clicks, excused>>

Click(message) ==
    /\ page.connected
    /\ clicks < MaxClicks
    /\ clicks' = clicks + 1
    /\ toServer' = Append(toServer, message)
    /\ UNCHANGED <<session, spike, page, conn, toPage, excused>>

\* How many members of a sequence are of some kinds.
Count(s, kinds) == Cardinality({i \in DOMAIN s : s[i] \in kinds})

Starts == Count(toServer, {"start-debug"})
Started == Cardinality({p \in Spikes : spike[p].status # "none"})

\* One button starts and continues.
click_start ==
    \/ page.debugging /\ Click("continue-debug")
    \/ ~page.debugging /\ page.file /\ Started + Starts < MaxSpikes /\ Click("start-debug")

\* The other buttons are enabled while the page is debugging.
click_pause == page.debugging /\ Click("pause-debug")
click_step == page.debugging /\ Click("step-debug")
click_reset == page.debugging /\ Click("reset-debug")

\* A file is uploaded, or refused, or cleared.
upload ==
    /\ \E accepted \in BOOLEAN : page' = [page EXCEPT !.file = accepted]
    /\ UNCHANGED <<session, spike, conn, toPage, toServer, clicks, excused>>

\* What is under way either way is lost with the connection.
disconnect ==
    /\ page.connected
    /\ page' = [page EXCEPT !.connected = FALSE, !.debugging = FALSE]
    /\ toPage' = <<>>
    /\ toServer' = <<>>
    /\ UNCHANGED <<session, spike, conn, clicks, excused>>

connect ==
    /\ ~page.connected
    /\ conn < MaxConns
    /\ conn' = conn + 1
    /\ page' = [page EXCEPT !.connected = TRUE]
    /\ UNCHANGED <<session, spike, toPage, toServer, clicks, excused>>

-----------------------------------------------------------------------------
Init ==
    /\ session = [c \in Conns |-> NewSession]
    /\ spike = [p \in Spikes |-> NoProcess]
    /\ page = [connected |-> TRUE, debugging |-> FALSE, file |-> FALSE]
    /\ conn = 1
    /\ toPage = <<>>
    /\ toServer = <<>>
    /\ clicks = 0
    /\ excused = [c \in Conns |-> FALSE]

Next ==
    \/ \E p \in Spikes : spike_runs(p) \/ spike_ends(p) \/ spike_data(p) \/ spike_exit(p)
    \/ \E c \in Conns : starting_timer(c) \/ announcing_timer(c) \/ server_disconnect(c)
    \/ server_receives \/ page_receives
    \/ click_start \/ click_pause \/ click_step \/ click_reset
    \/ upload \/ disconnect \/ connect

Spec == Init /\ [][Next]_vars

-----------------------------------------------------------------------------
\* Properties.

WebType ==
    \A c \in Conns :
        /\ session[c].spikeProcess \in Spikes \cup {NoSpike}
        /\ ~(session[c].waitingForOutput /\ session[c].waitingForFrontend)
        /\ session[c].waitingForOutput \/ session[c].waitingForFrontend => session[c].isContinuousMode

\* What the page will think of debugging once it has read what is under way: the last
\* news of it is debug-started, or there is none and it is debugging now.
WillDebug ==
    LET Quiet(n) == \A i \in n .. Len(toPage) : toPage[i] \in {"debug-started", "execution-update"}
    IN  \/ page.debugging /\ Quiet(1)
        \/ \E n \in DOMAIN toPage : toPage[n] = "debug-started" /\ Quiet(n)

\* A session that runs what the page asks for and shows it; or one announced too late.
Serving(s) == s.isInitialized /\ (s.isRunning \/ s.late)

\* debug-started and debug-stopped: a page that will go on offering its buttons has a
\* session that is initialised and has a process, whatever starts, resets, late timers and
\* late exits have crossed.  Excused is a session whose process exited between the two
\* timers of startDebug: the second announces it all the same.
PageAgrees == page.connected /\ WillDebug => Serving(session[conn])

Of(c) == {p \in Spikes : spike[p].owner = c /\ spike[p].status \in {"alive", "exiting"}}
Lines(s) == Count(s, {"line", "stop", "execution-update", "frontend-ready"})

\* Instructions that a process is asked for or has printed.
Instructions(p) == spike[p].input + Lines(spike[p].out)

\* An instruction of the page's session is asked for, printed, shown or acknowledged.
UnderWay ==
    \/ \E p \in Of(conn) : Instructions(p) > 0
    \/ Lines(toPage) + Lines(toServer) > 0

\* executeNextInstruction and onFrontendReady: a continuous run is never left waiting for
\* something that no longer comes.  The acknowledgement of the page cannot overtake the
\* prompt it has to come after, because the command's own echo counts as one.
\* Excused are sessions in which a step showed no instruction, one was run before the
\* session was initialised, or the terminal's pieces cut one, or every prompt of an echo:
\* they do wait for ever.
NotStalled ==
    page.connected =>
        LET s == session[conn]
        IN  /\ s.isRunning
            /\ s.waitingForOutput \/ s.waitingForFrontend
            /\ ~excused[conn]
            => UnderWay

\* The session's flags, what the page offers, and that a continuous run does not stall.
WebInv == WebType /\ PageAgrees /\ NotStalled

Requests(s) == Count(s, {"step-debug", "continue-debug"})

\* The instructions under way, of all sessions, and the requests for more.
Everything == MapThenSumSet(Instructions, Spikes) + Lines(toPage) + Lines(toServer)
              + Requests(toServer)

\* waitingForFrontend: continuous mode never gets ahead of the page.  Only a click adds to
\* the instructions under way; the terminal's output, acknowledgements, pauses
\* and late prompts at most pass one on.
OnlyClicksAdd == [][Everything' > Everything => clicks' > clicks]_vars

Held(p) == \E c \in Conns : session[c].spikeProcess = p

\* stopDebug, startDebug, cleanup: a session lets go of a Spike that runs only by killing
\* it, or when another of its processes exits.  The second is how one is left behind:
\* the exit of a process that was replaced takes its successor for itself.
LetGo ==
    [][\A p \in Spikes :
        Held(p) /\ ~Held(p)' /\ spike[p]'.status = "alive"
            => \E q \in Spikes \ {p} : /\ spike[q].owner = spike[p].owner
                                       /\ spike[q].status = "exiting"
                                       /\ spike[q]'.status = "dead"]_vars

\* startDebug's second timer: a page told that debugging has started has a session with a
\* process.  The timer does not look whether there is one.
PageRuns == page.connected /\ WillDebug => session[conn].isRunning

\* server.js, on disconnect: the session is to be cleaned up.  Once the
\* server has done so, no Spike of that session runs on.
NoOrphan ==
    \A c \in Conns : session[c].gone =>
        \A p \in Spikes : spike[p].owner = c => spike[p].status # "alive"
=============================================================================
