----------------------------- MODULE StdinWriter -----------------------------
(***************************************************************************)
(* Standard input of a child: send_stdin puts a message into a bounded     *)
(* channel, the writer task (spawn_stdin_writer) moves messages into its   *)
(* buffer while that is below a limit and writes the buffer to the pipe,   *)
(* which takes as much as it likes.                                        *)
(***************************************************************************)
EXTENDS Integers, Sequences, SequencesExt

CONSTANTS
    Callers,        \* bound: concurrent calls of send_stdin
    ChannelSize,    \* messages in the channel (16)
    BufferLimit,    \* MAX_STDIN_BUFFER_BYTES
    MessageSize,    \* bound: bytes of a message
    MaxMessages     \* bound: calls

VARIABLES
    calling,        \* calling[c]: the message of a call that waits, or <<>>
    calls,          \* number of calls so far
    channel,        \* the queue
    open,           \* a sender exists: stdin_tx, or a call's clone
    accepted,       \* history: bytes of the calls that returned Ok
    writer,         \* "loop", "drain" (the bounded rest) or "gone"
    buffer, cancelled,
    pipe,           \* bytes the child received
    clean           \* history: the writer ended because the senders were gone

vars == <<calling, calls, channel, open, accepted, writer, buffer, cancelled, pipe, clean>>
callVars == <<calling, calls, open, accepted>>

Message(n) == [i \in 1 .. MessageSize |-> (n - 1) * MessageSize + i]

Init ==
    /\ calling = [c \in Callers |-> <<>>] /\ calls = 0
    /\ channel = <<>> /\ open = TRUE /\ accepted = <<>>
    /\ writer = "loop" /\ buffer = <<>> /\ cancelled = FALSE
    /\ pipe = <<>> /\ clean = FALSE

-----------------------------------------------------------------------------
(* send_stdin.                                                             *)

SendStdin(c) ==
    /\ open /\ calling[c] = <<>> /\ calls < MaxMessages
    /\ calling' = [calling EXCEPT ![c] = Message(calls + 1)] /\ calls' = calls + 1
    /\ UNCHANGED <<channel, open, accepted, writer, buffer, cancelled, pipe, clean>>

\* The channel has room: the call returns Ok.
SendOk(c) ==
    /\ calling[c] # <<>> /\ writer # "gone" /\ Len(channel) < ChannelSize
    /\ channel' = Append(channel, calling[c])
    /\ accepted' = accepted \o calling[c]
    /\ calling' = [calling EXCEPT ![c] = <<>>]
    /\ UNCHANGED <<calls, open, writer, buffer, cancelled, pipe, clean>>

\* NotRunning when the writer is gone, StdinWriteTimeout when the channel stays
\* full.
SendFails(c) ==
    /\ calling[c] # <<>> /\ (writer = "gone" \/ Len(channel) = ChannelSize)
    /\ calling' = [calling EXCEPT ![c] = <<>>]
    /\ UNCHANGED <<calls, channel, open, accepted, writer, buffer, cancelled, pipe, clean>>

\* The actor forgets stdin_tx when the child is gone, or drain_pumps cancels.
ForgetSender ==
    /\ open /\ open' = FALSE
    /\ UNCHANGED <<calling, calls, channel, accepted, writer, buffer, cancelled, pipe, clean>>

Cancel ==
    /\ ~cancelled /\ cancelled' = TRUE
    /\ UNCHANGED <<callVars, channel, writer, buffer, pipe, clean>>

-----------------------------------------------------------------------------
(* The writer.                                                             *)

\* Fault: after a partial write the whole buffer is written again.
WriteRepeats(n) ==
    /\ writer \in {"loop", "drain"} /\ (writer = "loop" => ~cancelled) /\ n \in 1 .. Len(buffer)
    /\ pipe' = pipe \o SubSeq(buffer, 1, n)
    /\ buffer' = IF n = Len(buffer) THEN <<>> ELSE buffer
    /\ UNCHANGED <<callVars, channel, writer, cancelled, clean>>

\* The pipe takes n bytes of the buffer.
Write(n) ==
    /\ writer \in {"loop", "drain"} /\ (writer = "loop" => ~cancelled) /\ n \in 1 .. Len(buffer)
    /\ pipe' = pipe \o SubSeq(buffer, 1, n)
    /\ buffer' = SubSeq(buffer, n + 1, Len(buffer))
    /\ UNCHANGED <<callVars, channel, writer, cancelled, clean>>

\* The pipe is full or the buffer empty: a message is taken.
Receive ==
    /\ writer = "loop" /\ ~cancelled /\ Len(buffer) < BufferLimit /\ channel # <<>>
    /\ buffer' = buffer \o Head(channel) /\ channel' = Tail(channel)
    /\ UNCHANGED <<callVars, writer, cancelled, pipe, clean>>

\* No sender is left and the channel is empty; the rest is written for at most
\* SHORT_RETRY_DELAY.
Closed ==
    /\ writer = "loop" /\ ~cancelled /\ Len(buffer) < BufferLimit
    /\ channel = <<>> /\ ~open /\ \A c \in Callers : calling[c] = <<>>
    /\ writer' = "drain" /\ clean' = TRUE
    /\ UNCHANGED <<callVars, channel, buffer, cancelled, pipe>>

\* The child closed its end, or the task was cancelled: what is left in the
\* buffer is written only when it was not.
Breaks ==
    /\ writer = "loop"
    /\ \/ cancelled /\ writer' = "gone"
       \/ ~cancelled /\ buffer # <<>> /\ writer' = "drain"
    /\ UNCHANGED <<callVars, channel, buffer, cancelled, pipe, clean>>

\* The rest is written, or given up; the pipe closes.
DrainEnds ==
    /\ writer = "drain" /\ writer' = "gone"
    /\ clean' = (clean /\ buffer = <<>>)
    /\ UNCHANGED <<callVars, channel, buffer, cancelled, pipe>>

Next ==
    \/ \E c \in Callers : SendStdin(c) \/ SendOk(c) \/ SendFails(c)
    \/ ForgetSender \/ Cancel
    \/ \E n \in 1 .. BufferLimit + MessageSize : Write(n)
    \/ Receive \/ Closed \/ Breaks \/ DrainEnds

Spec == Init /\ [][Next]_vars

-----------------------------------------------------------------------------
(* Properties.                                                             *)

\* The messages of q, laid end to end, are what follows the first k bytes of s.
EndToEnd(q, s, k) ==
    \E off \in [1 .. Len(q) + 1 -> 0 .. Len(s)] :
        /\ off[1] = k /\ off[Len(q) + 1] = Len(s)
        /\ \A i \in 1 .. Len(q) :
              /\ off[i + 1] = off[i] + Len(q[i])
              /\ \A j \in 1 .. Len(q[i]) : s[off[i] + j] = q[i][j]

\* Standard input in order (send_stdin, spawn_stdin_writer): the child receives
\* the bytes of the accepted calls in the order they were accepted, none twice
\* and none skipped, however the pipe splits them: what it has, what is in the
\* writer's buffer and what is in the channel make up what was accepted; and
\* when the pipe is closed because no sender is left, all of it was received.
StdinInOrder ==
    /\ IsPrefix(pipe \o buffer, accepted)
    /\ EndToEnd(channel, accepted, Len(pipe) + Len(buffer))
    /\ writer = "gone" /\ clean => pipe = accepted
=============================================================================
