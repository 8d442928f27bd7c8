------------------------------ MODULE MCStreams ------------------------------
(***************************************************************************)
(* What a program says: the pumps of its standard output and error, the    *)
(* in-memory log and the rotated file.  The components touch each other's  *)
(* state only at the borders their modules model as free choices, so they  *)
(* are checked next to each other and not as a product: `part' names the   *)
(* one that moves, the others stay in their initial state.                 *)
(***************************************************************************)
EXTENDS Integers, Sequences

VARIABLES
    part,
    memory, epoch, first, newlines,
    disk, mode, handle, current_size, writes_since_fallback, writing, data,
    written, refused, wiped, clearing, diskFaults, truncs,
    config, backends, gen, up, wrote, output, eof, pump, todo, ring, hub,
    sink, transit, excused, lost, cut, listening, pumpFaults

ringVars     == <<memory, epoch, first, newlines>>
rotatorVars  == <<disk, mode, handle, current_size, writes_since_fallback, writing, data,
                  written, refused, wiped, clearing, diskFaults, truncs>>
pumpVars     == <<config, backends, gen, up, wrote, output, eof, pump, todo, ring, hub,
                  sink, transit, excused, lost, cut, listening, pumpFaults>>
vars == <<part, ringVars, rotatorVars, pumpVars>>

-----------------------------------------------------------------------------
\* Seeds shorter and longer than the limit, with and without a line end in
\* their tail.  The ring wraps twice.
SeedFiles ==
    {[size |-> 0, newlines |-> {}], [size |-> 1, newlines |-> {}],
     [size |-> 6, newlines |-> {1, 4}], [size |-> 5, newlines |-> {3, 4}],
     [size |-> 5, newlines |-> {}]}

Ring == INSTANCE RingLog
        WITH ring <- memory, Capacity <- 4, MaxLines <- 2, Files <- SeedFiles,
             MaxSeed <- 3, MaxChunk <- 5, MaxBytes <- 9, MaxClears <- 1

\* Two backups, writes that fit and writes that fill more than a file.
Rotator == INSTANCE LogRotator
           WITH step <- writing, faults <- diskFaults,
                MaxSize <- 2, Backups <- 2, RecoverAfter <- 2, WriteSizes <- {1, 3},
                MaxWritten <- 7, MaxFaults <- 3, MaxTruncs <- 1

LogBase ==
    [enabled |-> "On", stdout |-> <<"File">>, stderr |-> <<>>, stdout_syslog |-> FALSE,
     stderr_syslog |-> FALSE, redirect_stderr |-> TRUE, events |-> TRUE, opens |-> TRUE,
     syslog |-> "datagram"]

\* A file and the standard output; a list that names a TCP syslog and sets the flag
\* too; a TCP syslog that both streams share; memory with both flags; a list whose
\* file cannot be opened, with a stream of its own for errors and no syslog to reach.
LogConfigs == {
    [LogBase EXCEPT !.stdout = <<"File", "DevStdout">>, !.stderr = <<"Null">>],
    [LogBase EXCEPT !.stdout = <<"File", "Syslog">>, !.stdout_syslog = TRUE,
                    !.stderr = <<"Null">>, !.syslog = "tcp", !.events = FALSE],
    [LogBase EXCEPT !.stdout = <<"Syslog">>, !.syslog = "tcp"],
    [LogBase EXCEPT !.enabled = "InMemoryOnly", !.stdout_syslog = TRUE,
                    !.stderr_syslog = TRUE],
    [LogBase EXCEPT !.stdout = <<"File", "DevStdout">>, !.opens = FALSE,
                    !.stderr_syslog = TRUE, !.redirect_stderr = FALSE,
                    !.syslog = "unreachable"]}

\* Longer than a chunk, with a carriage return at its border, and empty lines.
ChildWrites == [stdout |-> {<<"c", "r">>, <<"n">>}, stderr |-> {<<"c">>}]

Pump == INSTANCE LogPump
        WITH pipe <- output, faults <- pumpFaults,
             Configs <- LogConfigs, MaxPumpChunk <- 2, ChannelSize <- 1, Writes <- ChildWrites,
             MaxOut <- [stdout |-> 3, stderr |-> 1], MaxChildren <- 2, MaxFaults <- 1

-----------------------------------------------------------------------------
Init ==
    /\ part \in {"ring", "rotator", "pump"}
    /\ Ring!Init /\ Rotator!Init /\ Pump!Init
    /\ part # "ring" => memory = Ring!Empty
    /\ part # "pump" => config = CHOOSE c \in LogConfigs : TRUE

Next ==
    /\ UNCHANGED part
    /\ \/ part = "ring" /\ UNCHANGED <<rotatorVars, pumpVars>> /\ Ring!Next
       \/ part = "rotator" /\ UNCHANGED <<ringVars, pumpVars>> /\ Rotator!Next
       \/ part = "pump" /\ UNCHANGED <<ringVars, rotatorVars>> /\ Pump!Next

Spec == Init /\ [][Next]_vars

-----------------------------------------------------------------------------
(* Properties of the parts, stated there in full.                          *)

\* ContinuousRingBuffer answers every read as the stream it holds the tail of.
RingExact == part = "ring" => Ring!RingExact

\* LogRotator::write_all keeps the log whole when operations of the disk fail.
RotationSound == part = "rotator" => Rotator!RotationSound

\* The log pumps deliver what a child writes, to every destination.
LinesDelivered == part = "pump" => Pump!LinesDelivered
=============================================================================
