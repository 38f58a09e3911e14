------------------------------- MODULE MCHost -------------------------------
\* A program that opens, closes and reopens files, reads the terminal both ways and ends.
EXTENDS Host

Call(op, arg) == [dev |-> "syscall", op |-> op, arg |-> arg]

\* A command's argument is a descriptor, an exit code or a file.
MCCommands ==
    {Call("openat", f) : f \in {"a", "b", "missing"}}
    \cup {Call("close", fd) : fd \in {0, 3, 4}}
    \cup {Call("read", 0), Call("write", 3), Call("exit", 1), Call("result", 0),
          Call("bad", 0), Call("identify", 0)}
    \cup {[dev |-> "bcd", op |-> op, arg |-> 0] : op \in {"getc", "putc", "identify"}}
    \cup {[dev |-> "none", op |-> "unknown", arg |-> 0]}

\* A program that also duplicates a descriptor it has.
DupCommands == {Call("dupfd", 1), Call("openat", "a"), Call("write", 3)}

MCFiles == {"a", "b"}
=============================================================================
