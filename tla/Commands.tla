------------------------------ MODULE Commands ------------------------------
(* How a command travels from Run (eval/sandbox.go 100-118) to the sandbox   *)
(* (read_command of sandbox.rs, 106-142): a byte that counts its fields,    *)
(* then the fields, each ended by a zero, through a pipe of which the       *)
(* reader takes any piece that has arrived.  SandboxWrapper and Sandbox     *)
(* have the rest of a run; there a command is one message.                  *)
EXTENDS SequencesExt, Integers

CONSTANTS
    Inputs,     \* the commands given to Run: sequences of fields
    MaxByte,    \* the largest byte: 255 in the code
    MaxChunk,   \* what a read returns at most: 1024 in the code
    MaxCommands \* bound: commands sent

(* No field holds a zero: neither a path nor an argument of execve can. *)
ASSUME CommandsAssumption ==
    /\ MaxByte \in Nat \ {0} /\ MaxChunk \in Nat \ {0} /\ MaxCommands \in Nat
    /\ Inputs \subseteq Seq(Seq(1 .. MaxByte))

VARIABLES
    sent,       \* the commands given to Run
    wpc,        \* the judge: "idle", "writing" or "waiting" for "done", "closed", "fatal"
    unwritten,  \* the bytes of the command that are not yet in the pipe
    pipe,
    rpc,        \* the sandbox: reads the "count", the "fields", "runs" a command, or is "dead"
    count,      \* cmds[0]
    at,         \* how many fields are complete
    fields,     \* exec and args
    execd       \* the commands executed, as execve gets them

vars == <<sent, wpc, unwritten, pipe, rpc, count, at, fields, execd>>
judgeVars == <<sent, wpc, unwritten>>
readerVars == <<rpc, count, at, fields, execd>>

Init ==
    /\ sent = <<>> /\ wpc = "idle" /\ unwritten = <<>>
    /\ pipe = <<>>
    /\ rpc = "count" /\ count = 0 /\ at = 0 /\ fields = <<>> /\ execd = <<>>

-----------------------------------------------------------------------------
(* The judge. *)

(* No zero ends the last field. *)
MessageOpen(cmd) ==
    LET msg[k \in 0 .. Len(cmd)] ==
            IF k = 0 THEN <<Len(cmd) % (MaxByte + 1)>>
            ELSE msg[k - 1] \o IF k = Len(cmd) THEN cmd[k] ELSE Append(cmd[k], 0)
    IN  msg

(* The message after each number of fields. *)
Message(cmd) ==
    LET msg[k \in 0 .. Len(cmd)] ==
            IF k = 0 THEN <<Len(cmd) % (MaxByte + 1)>> ELSE msg[k - 1] \o Append(cmd[k], 0)
    IN  msg

Encode(cmd) == Message(cmd)[Len(cmd)]

Accepts(cmd) == Len(cmd) \in 1 .. MaxByte

RunCall ==
    /\ wpc = "idle"
    /\ Len(sent) < MaxCommands
    /\ \E cmd \in Inputs :
        IF Accepts(cmd)
        THEN sent' = Append(sent, cmd) /\ wpc' = "writing" /\ unwritten' = Encode(cmd)
        ELSE wpc' = "fatal" /\ UNCHANGED <<sent, unwritten>>
    /\ UNCHANGED <<pipe, readerVars>>

(* The kernel takes a write in pieces when it is large. *)
Write ==
    /\ wpc = "writing"
    /\ \E n \in {k \in 1 .. Len(unwritten) : k <= MaxChunk \/ k = Len(unwritten)} :
        /\ pipe' = pipe \o SubSeq(unwritten, 1, n)
        /\ unwritten' = SubSeq(unwritten, n + 1, Len(unwritten))
    /\ wpc' = IF unwritten' = <<>> THEN "waiting" ELSE "writing"
    /\ UNCHANGED <<sent, readerVars>>

(* Run does not wait for "done". *)
RunReturnEarly ==
    /\ wpc = "waiting"
    /\ \/ rpc # "dead" /\ wpc' = "idle"
       \/ rpc = "dead" /\ wpc' = "fatal"
    /\ UNCHANGED <<sent, unwritten, pipe, readerVars>>

(* "done" has come; or the sandbox's end, on which the judge exits. *)
RunReturn ==
    /\ wpc = "waiting"
    /\ \/ rpc = "count" /\ Len(execd) = Len(sent) /\ wpc' = "idle"
       \/ rpc = "dead" /\ wpc' = "fatal"
    /\ UNCHANGED <<sent, unwritten, pipe, readerVars>>

(* Finish, or the judge's death, which may leave a command half written. *)
Close ==
    /\ wpc \in {"idle", "writing", "waiting"}
    /\ wpc' \in IF wpc = "idle" THEN {"closed", "fatal"} ELSE {"fatal"}
    /\ UNCHANGED <<sent, unwritten, pipe, readerVars>>

Closed == wpc \in {"closed", "fatal"}

-----------------------------------------------------------------------------
(* read_command *)

ReadCount ==
    /\ rpc = "count"
    /\ pipe # <<>>
    /\ count' = Head(pipe)
    /\ pipe' = Tail(pipe)
    /\ at' = 0
    /\ fields' = [i \in 1 .. Head(pipe) |-> <<>>]
    /\ rpc' = "fields"
    /\ UNCHANGED <<judgeVars, execd>>

(* A byte is pushed as the character of that number, and the String that   *)
(* results is UTF-8: from 128 on, a byte becomes two.                       *)
AsUtf8(b) == IF b < 128 THEN <<b>> ELSE <<192 + (b \div 64), 128 + (b % 64)>>

(* What every field must be to arrive as it was sent. *)
PlainInputs == Inputs \subseteq Seq(Seq(1 .. 127))

(* A byte replaces the ones before it. *)
ConsumeRestart(st, b) ==
    CASE st.at = count -> st
      [] st.at # count /\ b = 0 -> [st EXCEPT !.at = @ + 1]
      [] st.at # count /\ b # 0 -> [st EXCEPT !.fields[st.at + 1] = AsUtf8(b)]

(* One byte of a chunk; past the last field the chunk is dropped. *)
Consume(st, b) ==
    CASE st.at = count -> st
      [] st.at # count /\ b = 0 -> [st EXCEPT !.at = @ + 1]
      [] st.at # count /\ b # 0 -> [st EXCEPT !.fields[st.at + 1] = @ \o AsUtf8(b)]

(* The loop over the bytes of a chunk, after each number of them. *)
Consumed(chunk) ==
    LET st[k \in 0 .. Len(chunk)] ==
            IF k = 0 THEN [at |-> at, fields |-> fields] ELSE Consume(st[k - 1], chunk[k])
    IN  st

ReadChunk ==
    /\ rpc = "fields"
    /\ at < count
    /\ \E n \in 1 .. Len(pipe) :
        LET st == Consumed(SubSeq(pipe, 1, n))[n]
        IN  /\ n <= MaxChunk
            /\ at' = st.at /\ fields' = st.fields
            /\ pipe' = SubSeq(pipe, n + 1, Len(pipe))
    /\ UNCHANGED <<judgeVars, rpc, count, execd>>

(* An empty command ends the sandbox. *)
Exec ==
    /\ rpc = "fields"
    /\ at = count
    /\ IF fields[1] = <<>>
       THEN rpc' = "dead" /\ UNCHANGED execd
       ELSE /\ rpc' = "runs"
            /\ execd' = Append(execd, fields)
    /\ UNCHANGED <<judgeVars, pipe, count, at, fields>>

CommandDone ==
    /\ rpc = "runs"
    /\ rpc' = "count"
    /\ UNCHANGED <<judgeVars, pipe, count, at, fields, execd>>

(* The end of the commands, or "command ended unexpectedly". *)
EndOfInput ==
    /\ Closed /\ pipe = <<>>
    /\ rpc = "count" \/ (rpc = "fields" /\ at < count)
    /\ rpc' = "dead"
    /\ UNCHANGED <<judgeVars, pipe, count, at, fields, execd>>

Over == Closed /\ rpc = "dead" /\ UNCHANGED vars

Step == Write \/ RunReturn \/ ReadCount \/ ReadChunk \/ Exec \/ CommandDone \/ EndOfInput

Next == RunCall \/ Close \/ Step \/ Over

Spec == Init /\ [][Next]_vars
LiveSpec == Spec /\ WF_vars(Step)

-----------------------------------------------------------------------------
(* The variables have their types: in particular the count that the sandbox *)
(* reads is one that its arithmetic on u8 is made for (sandbox.rs 113-122). *)
TypeOK ==
    /\ wpc \in {"idle", "writing", "waiting", "closed", "fatal"}
    /\ rpc \in {"count", "fields", "runs", "dead"}
    /\ \A q \in {unwritten, pipe} : ToSet(q) \subseteq 0 .. MaxByte
    /\ rpc = "fields" => count \in 1 .. MaxByte /\ at \in 0 .. count /\ Len(fields) = count
    /\ Len(execd) <= Len(sent)

(* Every command executed is, byte for byte and field for field, the one    *)
(* given to Run at that place, however pipe and reader cut it in pieces,    *)
(* and never a part of one, if the fields are ASCII.  "Binary format is     *)
(* [#of commands + args] command [0x0] arg [0x0] arg ... [0x0]"             *)
(* (sandbox.go 102).                                                        *)
CommandsArrive == \A i \in 1 .. Len(execd) : execd[i] = sent[i]

(* What the sandbox drops of a chunk after the last field is never part of  *)
(* another command: "we only support getting one command written at a time" *)
(* (sandbox.rs 117), and Run writes none before it has seen "done".         *)
OneAtATime ==
    wpc = "idle" => pipe = <<>> /\ rpc \in {"count", "dead"}

(* Judge and sandbox are in step, and the count is a count. *)
Inv == TypeOK /\ OneAtATime

(* A command that was written is executed, unless the judge ends before:    *)
(* the reader never waits for bytes that do not come.                       *)
EveryCommandRuns ==
    \A n \in 1 .. MaxCommands :
        Len(sent) = n ~> (Len(execd) >= n \/ wpc = "fatal")
=============================================================================
