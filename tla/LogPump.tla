------------------------------- MODULE LogPump -------------------------------
(***************************************************************************)
(* From a child's pipes to the destinations of its log: the destinations a *)
(* program's log settings select (build_process_log_backends), the pump    *)
(* that cuts each stream into lines and hands every line to the ring, the  *)
(* event hub and the destinations in turn, the drain of the pumps when the *)
(* child is gone, and the pumps of the next child.                         *)
(*                                                                         *)
(* A byte is [gen, at, k]: the child that wrote it, its number, and its    *)
(* kind: "c", a carriage return "r" or a newline "n".  ring[s] holds the   *)
(* lines of stream s; the hub and the destinations hold their numbers.     *)
(*                                                                         *)
(* A destination may accept a line before it has it: a TCP syslog queues   *)
(* it for a task of its own, the daemon's standard output hands it to a    *)
(* thread.  transit[s][d] holds such lines; what becomes of them no write  *)
(* reports.                                                                *)
(***************************************************************************)
EXTENDS Integers, Sequences, FiniteSets, SequencesExt

CONSTANTS
    Configs,        \* the log settings of the program
    MaxPumpChunk,   \* MAX_PUMP_CHUNK_SIZE
    ChannelSize,    \* messages the channel of a TCP syslog holds (1024)
    Writes,         \* bound: Writes[s]: the writes of a child to stream s
    MaxOut,         \* bound: MaxOut[s]: lines and unread bytes of stream s
    MaxChildren,    \* bound: children
    MaxFaults       \* bound: reads, writes and deliveries that fail

VARIABLES
    config,         \* the settings, whether the log file can be opened, and
                    \* what syslog is: "unreachable", "datagram" or "tcp"
    backends,       \* backends[s]: the destinations of stream s, in order
    gen, up,        \* number of the child, and whether it runs
    wrote,          \* wrote[s]: what the child wrote to the stream
    pipe, eof,      \* pipe[s]: what of it is not read yet; no writer is left
    pump,           \* pump[s]: "none", "reading", "writing" or "done"
    todo,           \* todo[s]: destinations that still get the last line
    ring, hub,      \* ring[s], hub[s]: the lines pushed and published
    sink,           \* sink[s][d]: the lines destination d received
    transit,        \* transit[s][d]: the lines it accepted and has not received
    excused,        \* history: <<s, d, line>> whose write failed or was aborted
    lost,           \* history: <<s, d, line>> dropped although the write was Ok
    cut,            \* history: <<s, child>> whose pump ended before the end of file
    listening,      \* somebody is subscribed to the hub's logs
    faults

childVars == <<config, backends, gen, up, wrote, eof>>
lineVars  == <<ring, hub, sink, transit>>
histVars  == <<excused, lost, cut, faults>>
vars == <<childVars, pipe, pump, todo, lineVars, histVars, listening>>

Streams == {"stdout", "stderr"}
Files   == {"file.stdout", "file.stderr"}
Sinks   == {"memory.stdout", "memory.stderr", "syslog", "console"} \cup Files

-----------------------------------------------------------------------------
(* The destinations.  A setting is the sequence of its comma-separated     *)
(* parts: "Auto", "Null", "File", "Syslog", "DevStdout", or "Invalid".     *)

Parse(setting) ==
    IF setting = <<>> \/ "Invalid" \in ToSet(setting) THEN <<"Auto">> ELSE setting

ContainsSyslog(setting) == "Syslog" \in ToSet(Parse(setting))

\* build_backend: one destination after the other; when the file cannot be
\* opened there is none at all.
BuildBackend(setting, s, opens) ==
    LET of(part) == CASE part = "File"      -> <<"file." \o s>>
                      [] part = "Syslog"    -> <<"syslog">>
                      [] part = "DevStdout" -> <<"console">>
                      [] OTHER              -> <<>>
    IN IF "File" \in ToSet(Parse(setting)) /\ ~opens THEN <<>>
       ELSE FlattenSeq([i \in DOMAIN Parse(setting) |-> of(Parse(setting)[i])])

AttachSyslog(base, wanted) == IF wanted THEN Append(base, "syslog") ELSE base

IsFileDisabled(setting) == setting = <<"Null">>

StreamSyslog(c, s)  == IF s = "stdout" THEN c.stdout_syslog ELSE c.stderr_syslog
StreamSetting(c, s) == IF s = "stdout" THEN c.stdout ELSE c.stderr

IsDisabled(c, s) ==
    \/ c.enabled = "Off"
    \/ c.enabled = "On" /\ ~StreamSyslog(c, s) /\ IsFileDisabled(StreamSetting(c, s))

\* build_process_log_backends.
Backends(c, s) ==
    LET memory == c.enabled = "InMemoryOnly"
        named(t) == ~memory /\ ContainsSyslog(StreamSetting(c, t))
        own(t) == IF IsDisabled(c, t) THEN <<>>
                  ELSE AttachSyslog(IF memory THEN <<"memory." \o t>>
                                    ELSE BuildBackend(StreamSetting(c, t), t, c.opens),
                                    StreamSyslog(c, t) /\ ~named(t))
    IN IF s = "stdout" \/ ~c.redirect_stderr THEN own(s)
       ELSE IF IsDisabled(c, s) THEN <<>>
       ELSE AttachSyslog(own("stdout"),
                         c.stderr_syslog /\ ~c.stdout_syslog /\ ~named("stdout"))

-----------------------------------------------------------------------------
(* The child and its streams.                                              *)

NewPumps(c) == [s \in Streams |-> IF IsDisabled(c, s) THEN "none" ELSE "reading"]

Nothing == [s \in Streams |-> <<>>]

Init ==
    /\ \E c \in Configs :
          /\ config = c /\ pump = NewPumps(c)
          /\ backends = [s \in Streams |-> Backends(c, s)]
    /\ gen = 1 /\ up = TRUE
    /\ wrote = Nothing /\ pipe = Nothing /\ eof = [s \in Streams |-> FALSE]
    /\ todo = Nothing /\ ring = Nothing /\ hub = Nothing
    /\ sink = [s \in Streams |-> [d \in Sinks |-> <<>>]] /\ transit = sink
    /\ excused = {} /\ lost = {} /\ cut = {} /\ faults = 0 /\ listening = FALSE

\* The child, or a grandchild that inherited the pipe, writes.
ChildWrites(s, w) ==
    LET at == Len(wrote[s])
        bs == [i \in DOMAIN w |-> [gen |-> gen, at |-> at + i, k |-> w[i]]]
    IN
    /\ ~eof[s] /\ pump[s] \in {"reading", "writing"}
    /\ Len(ring[s]) + Len(pipe[s]) + Len(w) <= MaxOut[s]
    /\ wrote' = [wrote EXCEPT ![s] = @ \o bs]
    /\ pipe'  = [pipe  EXCEPT ![s] = @ \o bs]
    /\ UNCHANGED <<config, backends, gen, up, eof, pump, todo, lineVars, histVars, listening>>

ChildExits ==
    /\ up /\ up' = FALSE
    /\ UNCHANGED <<config, backends, gen, wrote, eof, pipe, pump, todo, lineVars,
                   histVars, listening>>

\* The last process that holds the pipe closes it.
PipeCloses(s) ==
    /\ ~up /\ ~eof[s] /\ eof' = [eof EXCEPT ![s] = TRUE]
    /\ UNCHANGED <<config, backends, gen, up, wrote, pipe, pump, todo, lineVars,
                   histVars, listening>>

-----------------------------------------------------------------------------
(* The pump.                                                               *)

\* read_until a newline, at most MaxPumpChunk bytes, or what is left at the
\* end of file: the number of bytes it returns, 0 while it waits.
ReadUntil(s) ==
    LET p    == pipe[s]
        full == IF Len(p) < MaxPumpChunk THEN Len(p) ELSE MaxPumpChunk
        ends == {i \in 1 .. full : p[i].k = "n"}
    IN IF ends # {} THEN CHOOSE i \in ends : \A j \in ends : i <= j
       ELSE IF full = MaxPumpChunk \/ eof[s] THEN full ELSE 0

\* Without the newline and the carriage return before it.
Stripped(b) ==
    IF Last(b).k # "n" THEN b
    ELSE IF Len(b) > 1 /\ b[Len(b) - 1].k = "r" THEN Front(Front(b)) ELSE Front(b)

WritesNext(s, rest) ==
    /\ todo' = [todo EXCEPT ![s] = rest]
    /\ pump' = [pump EXCEPT ![s] = IF rest = <<>> THEN "reading" ELSE "writing"]

\* Fault: a chunk without a newline is cut off the pipe and dropped.
PumpLineDropsPartial(s) ==
    LET n == ReadUntil(s) IN
    /\ pump[s] = "reading" /\ n > 0
    /\ pipe' = [pipe EXCEPT ![s] = SubSeq(@, n + 1, Len(@))]
    /\ IF pipe[s][n].k = "n"
       THEN /\ ring' = [ring EXCEPT ![s] = Append(@, Stripped(SubSeq(pipe[s], 1, n)))]
            /\ hub' = [hub EXCEPT ![s] = IF config.events \/ listening
                                         THEN Append(@, Len(ring[s]) + 1) ELSE @]
            /\ WritesNext(s, backends[s])
       ELSE UNCHANGED <<ring, hub, todo, pump>>
    /\ UNCHANGED <<childVars, sink, transit, histVars, listening>>

\* A line goes to the ring and, when somebody wants it, to the hub.
PumpLine(s) ==
    LET n == ReadUntil(s) IN
    /\ pump[s] = "reading" /\ n > 0
    /\ pipe' = [pipe EXCEPT ![s] = SubSeq(@, n + 1, Len(@))]
    /\ ring' = [ring EXCEPT ![s] = Append(@, Stripped(SubSeq(pipe[s], 1, n)))]
    /\ hub' = [hub EXCEPT ![s] = IF config.events \/ listening
                                 THEN Append(@, Len(ring[s]) + 1) ELSE @]
    /\ WritesNext(s, backends[s])
    /\ UNCHANGED <<childVars, sink, transit, histVars, listening>>

-----------------------------------------------------------------------------
(* The destinations' writes.                                               *)

Fault == faults < MaxFaults /\ faults' = faults + 1

Line(s)        == Len(ring[s])
Received(s, d) == sink' = [sink EXCEPT ![s][d] = Append(@, Line(s))]
Underway(s, d) == transit' = [transit EXCEPT ![s][d] = Append(@, Line(s))]
Dropped(s, d)  == lost' = lost \cup {<<s, d, Line(s)>>}

\* A file that cannot be written to is the one destination that returns an error.
Refuses(s, d) ==
    /\ d \in Files /\ Fault
    /\ excused' = excused \cup {<<s, d, Line(s)>>}
    /\ UNCHANGED <<sink, transit, lost>>

\* What syslog skips: a line of white space.
Blank(line) == \A i \in DOMAIN line : line[i].k = "r"

\* Streams that share a destination share its channel.
Queued(s) ==
    IF config.redirect_stderr
    THEN Len(transit["stdout"]["syslog"]) + Len(transit["stderr"]["syslog"])
    ELSE Len(transit[s]["syslog"])

\* SyslogLogBackend::write_chunk is always Ok: it discards the line without a
\* socket, skips a blank one, ignores that a datagram was not sent and drops the
\* line when the channel is full.
SyslogWrite(s) ==
    LET skipped == config.syslog = "unreachable" \/ Blank(Last(ring[s]))
        full    == Queued(s) >= ChannelSize
    IN
    /\ \/ skipped /\ UNCHANGED <<sink, transit, lost, faults>>
       \/ ~skipped /\ config.syslog = "datagram" /\ UNCHANGED transit
            /\ \/ Received(s, "syslog") /\ UNCHANGED <<lost, faults>>
               \/ Fault /\ Dropped(s, "syslog") /\ UNCHANGED sink
       \/ ~skipped /\ config.syslog = "tcp" /\ UNCHANGED <<sink, faults>>
            /\ \/ ~full /\ Underway(s, "syslog") /\ UNCHANGED lost
               \/ full /\ Dropped(s, "syslog") /\ UNCHANGED transit
    /\ UNCHANGED excused

\* StdIoLogBackend::write_chunk hands the line to a thread of the runtime, and
\* drops the handle through which that thread could report an error.
ConsoleWrite(s) == Underway(s, "console") /\ UNCHANGED <<sink, excused, lost, faults>>

\* The file or the buffer has the line.
Accepts(s, d) ==
    CASE d = "syslog"  -> SyslogWrite(s)
      [] d = "console" -> ConsoleWrite(s)
      [] OTHER         -> Received(s, d) /\ UNCHANGED <<transit, excused, lost, faults>>

\* Fault: after a destination that refuses, the line goes to no other.
WriteChunkStopsAtError(s) ==
    LET d == Head(todo[s]) IN
    /\ pump[s] = "writing"
    /\ \/ Accepts(s, d) /\ WritesNext(s, Tail(todo[s]))
       \/ Refuses(s, d) /\ WritesNext(s, <<>>)
    /\ UNCHANGED <<childVars, pipe, ring, hub, cut, listening>>

\* CompositeLogBackend::write_chunk: the next destination; when it refuses,
\* the line still goes to the others.
WriteChunk(s) ==
    LET d == Head(todo[s]) IN
    /\ pump[s] = "writing"
    /\ Accepts(s, d) \/ Refuses(s, d)
    /\ WritesNext(s, Tail(todo[s]))
    /\ UNCHANGED <<childVars, pipe, ring, hub, cut, listening>>

\* The task behind a TCP syslog takes its messages in order and connects as
\* needed; the threads that write to the standard output overtake each other.
Arrives(s, d) ==
    \E i \in DOMAIN transit[s][d] :
        /\ d = "syslog" => i = 1
        /\ transit' = [transit EXCEPT ![s][d] = RemoveAt(@, i)]
        /\ \/ /\ sink' = [sink EXCEPT ![s][d] = Append(@, transit[s][d][i])]
              /\ UNCHANGED <<lost, faults>>
           \/ /\ Fault /\ lost' = lost \cup {<<s, d, transit[s][d][i]>>}
              /\ UNCHANGED sink
        /\ UNCHANGED <<childVars, pipe, pump, todo, ring, hub, excused, cut, listening>>

-----------------------------------------------------------------------------
(* The end of a stream.                                                    *)

\* End of file.
PumpEnds(s) ==
    /\ pump[s] = "reading" /\ pipe[s] = <<>> /\ eof[s]
    /\ pump' = [pump EXCEPT ![s] = "done"]
    /\ UNCHANGED <<childVars, pipe, todo, lineVars, histVars, listening>>

\* A read error ends the pump as well.
ReadFails(s) ==
    /\ pump[s] = "reading" /\ Fault
    /\ pump' = [pump EXCEPT ![s] = "done"] /\ cut' = cut \cup {<<s, gen>>}
    /\ UNCHANGED <<childVars, pipe, todo, lineVars, excused, lost, listening>>

-----------------------------------------------------------------------------
(* drain_pumps, and the next child.                                        *)

Busy(s) == pump[s] \in {"reading", "writing"}

\* DRAIN_TIMEOUT: the pumps that are not done are aborted where they wait.
DrainTimeout ==
    /\ ~up /\ \E s \in Streams : Busy(s)
    /\ pump' = [s \in Streams |-> IF Busy(s) THEN "done" ELSE pump[s]]
    /\ cut' = cut \cup {<<s, gen>> : s \in {t \in Streams : Busy(t)}}
    /\ excused' = excused \cup
          UNION {{<<s, d, Len(ring[s])>> : d \in ToSet(todo[s])} : s \in Streams}
    /\ todo' = Nothing
    /\ UNCHANGED <<childVars, pipe, lineVars, lost, faults, listening>>

\* spawn_child: new pipes and new pumps; the destinations stay.
SpawnChild ==
    /\ ~up /\ \A s \in Streams : ~Busy(s)
    /\ gen < MaxChildren /\ gen' = gen + 1 /\ up' = TRUE
    /\ wrote' = Nothing /\ pipe' = Nothing /\ eof' = [s \in Streams |-> FALSE]
    /\ pump' = NewPumps(config)
    /\ UNCHANGED <<config, backends, todo, lineVars, histVars, listening>>

\* A client subscribes to the hub's logs, or leaves (with log events enabled
\* it makes no difference).
Subscribe ==
    /\ ~config.events /\ listening' = ~listening
    /\ UNCHANGED <<childVars, pipe, pump, todo, lineVars, histVars>>

Next ==
    \/ \E s \in Streams :
          \/ \E w \in Writes[s] : ChildWrites(s, w)
          \/ \E d \in {"syslog", "console"} : Arrives(s, d)
          \/ PipeCloses(s) \/ PumpLine(s) \/ WriteChunk(s) \/ PumpEnds(s) \/ ReadFails(s)
    \/ ChildExits \/ DrainTimeout \/ SpawnChild \/ Subscribe

Spec == Init /\ [][Next]_vars

-----------------------------------------------------------------------------
(* Properties.                                                             *)

\* Every byte once, and in order (LogPumpBuilder::spawn, drain_pumps): what the
\* pumps have taken from the pipes stands in the ring, child after child, in
\* the order it was written; only newlines and carriage returns before them are
\* left out, wherever the chunk limit cuts a line.  A drain that was not cut
\* short has taken everything the child wrote.
PumpExact ==
    \A s \in Streams :
        LET got   == FlattenSeq(ring[s])
            taken == Len(wrote[s]) - Len(pipe[s])
            now   == {got[i].at : i \in {j \in DOMAIN got : got[j].gen = gen}}
        IN /\ \A i \in 1 .. Len(got) - 1 :
                 \/ got[i].gen < got[i + 1].gen
                 \/ got[i].gen = got[i + 1].gen /\ got[i].at < got[i + 1].at
           /\ now \subseteq {i \in 1 .. taken : wrote[s][i].k # "n"}
           /\ \A i \in 1 .. taken :
                 \/ i \in now \/ wrote[s][i].k = "n"
                 \/ wrote[s][i].k = "r" /\ i < taken /\ wrote[s][i + 1].k = "n"
           /\ pump[s] = "done" /\ <<s, gen>> \notin cut => taken = Len(wrote[s])

\* What destination d passes over by its nature: syslog without a socket has no
\* line, with one it has those that are not blank.
Skips(s, d, n) == d = "syslog" /\ (config.syslog = "unreachable" \/ Blank(ring[s][n]))

\* The destinations agree (CompositeLogBackend, EventHub::publish_log): a file or
\* a memory channel has every line of the ring that its stream sends it but those
\* whose own write failed or was aborted, whatever the other destinations do with
\* them, and none is attached twice.  Syslog has or will get every line that is
\* not blank, and the daemon's standard output every line, but those that were
\* dropped under way, by a full channel or a send that failed.  All keep the
\* order, except that output.  The hub misses none when log events are enabled.
DestinationsAgree ==
    \A s \in Streams :
        /\ \A d \in Sinks :
              LET got == sink[s][d] \o transit[s][d] IN
              /\ IF d = "console" THEN IsInjective(got)
                                  ELSE \A i \in 1 .. Len(got) - 1 : got[i] < got[i + 1]
              /\ d \in ToSet(backends[s]) =>
                    \A n \in 1 .. Len(ring[s]) :
                        n \notin ToSet(got) <=>
                            \/ Skips(s, d, n) \/ <<s, d, n>> \in excused \cup lost
                            \/ n = Len(ring[s]) /\ d \in ToSet(todo[s])
        /\ config.events => hub[s] = [n \in DOMAIN ring[s] |-> n]

\* What a child writes reaches the ring exactly, and all destinations equally.
LinesDelivered == PumpExact /\ DestinationsAgree

=============================================================================
