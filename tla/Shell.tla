-------------------------------- MODULE Shell --------------------------------
(***************************************************************************)
(* The network shell: sessions, the output stream of each, the message     *)
(* queue and the ring of instant queries between the shell thread and the  *)
(* command thread, and the timer that deletes streams.                     *)
(*                                                                         *)
(* Only the shell thread may use a socket, so what the command thread      *)
(* prints goes through the tx_queue of the session.  When a session is     *)
(* closed its stream may still be in use; the flag done says that it is    *)
(* not.  A line is known by the stream it came from, an answer by the      *)
(* number of messages each of its writes takes.  Sockets, and the streams  *)
(* of the serial ports, are external.  The serial ports share the message  *)
(* queue, as the stream Usb, which is never closed and never blocks.       *)
(***************************************************************************)
EXTENDS Integers, Sequences, FiniteSets

CONSTANTS Clients, Usb,
          MaxServ,      \* MAX_SERV; the ring gc has twice as many slots
          TxLength,     \* of a tx_queue
          InboxLength,  \* of the message queue
          MaxQueries,   \* that the ring of queries holds
          Answers,      \* what a line may print: sequences of sizes of writes
          MaxItems,     \* bound: things each client sends
          Patient       \* clients wait for answers, see MaySend and MayHangUp

ASSUME ShellAssumption ==
    /\ Usb \notin Clients
    /\ {MaxServ, TxLength, InboxLength, MaxQueries} \subseteq Nat \ {0}
    /\ MaxItems \in [Clients -> Nat]
    /\ Answers \subseteq Seq(Nat \ {0}) /\ Answers # {}
    /\ Patient \in BOOLEAN

Streams == Clients \cup {Usb}
Items == {"line", "?", "$I", "$X"}

VARIABLES session,            \* the shell_t of a client, and its socket
          hung,               \* clients that closed the connection
          arrived,            \* what a socket has received
          alive,              \* streams that exist
          done, closed,       \* OutputStream::done, closed
          tx, need_write,     \* tx_queue, by its length
          gc,                 \* streams to be deleted when done
          shell, buf,         \* the shell thread, the buffer it works on
          inbox,              \* the message queue
          queries,            \* the ring of queries
          pc, current, out,   \* the command thread, its line, what is to be printed
          writing,            \* its call of OutputStream::write
          items, sent, served \* per client: things sent, lines sent, lines executed

clientVars == <<hung, items, sent>>
streamVars == <<alive, done, closed>>
writeVars == <<tx, need_write>>
shellVars == <<session, shell, buf, gc>>
commandVars == <<pc, current, out, writing, served>>
vars == <<clientVars, arrived, streamVars, writeVars, shellVars, inbox, queries, commandVars>>

NotWriting == [os |-> Usb, left |-> 0]
At(place, c) == [at |-> place, os |-> c]
Selecting == At("select", Usb)

Init == /\ session = [c \in Clients |-> "none"]
        /\ hung = {}
        /\ arrived = [c \in Clients |-> <<>>]
        /\ alive = {Usb}
        /\ done = {}
        /\ closed = {}
        /\ tx = [c \in Clients |-> 0]
        /\ need_write = [c \in Clients |-> FALSE]
        /\ gc = <<>>
        /\ shell = Selecting
        /\ buf = <<>>
        /\ inbox = <<>>
        /\ queries = <<>>
        /\ pc = "receive"
        /\ current = Usb
        /\ out = <<>>
        /\ writing = NotWriting
        /\ items = [c \in Clients |-> 0]
        /\ sent = [c \in Clients |-> 0]
        /\ served = [c \in Clients |-> 0]

-----------------------------------------------------------------------------
(* The clients.                                                            *)

Among(seq, x) == \E i \in DOMAIN seq : seq[i] = x

(* c has asked for a status and has not got it.                            *)
Asking(c) ==
    \/ \E q \in {"?", "$I"} :
        Among(arrived[c], q) \/ (shell.os = c /\ Among(buf, q)) \/ Among(queries, <<c, q>>)
    \/ writing.os = c /\ pc = "output" /\ current # c
    \/ pc = "idle" /\ current = c

(* A patient client sends a line when everything before has been answered. *)
MaySend(c, item) ==
    Patient /\ item = "line" => sent[c] = served[c] /\ ~Asking(c)

(* It hangs up when it has got its answers, or in the middle of a line if  *)
(* it has sent nothing but lines.                                          *)
MayHangUp(c) ==
    Patient => ~Asking(c) /\ (sent[c] = served[c] \/ items[c] = sent[c])

ClientSends(c, item) ==
    /\ session[c] = "open" /\ c \notin hung
    /\ items[c] < MaxItems[c]
    /\ MaySend(c, item)
    /\ arrived' = [arrived EXCEPT ![c] = Append(@, item)]
    /\ items' = [items EXCEPT ![c] = @ + 1]
    /\ sent' = [sent EXCEPT ![c] = IF item = "line" THEN @ + 1 ELSE @]
    /\ UNCHANGED <<hung, streamVars, writeVars, shellVars, inbox, queries, commandVars>>

HangUp(c) ==
    /\ session[c] = "open" /\ c \notin hung
    /\ MayHangUp(c)
    /\ hung' = hung \cup {c}
    /\ UNCHANGED <<arrived, items, sent, streamVars, writeVars, shellVars, inbox, queries,
                   commandVars>>

(* A line from a serial port, by way of its own thread.                    *)
UsbSends ==
    /\ Len(inbox) < InboxLength
    /\ inbox' = Append(inbox, Usb)
    /\ UNCHANGED <<clientVars, arrived, streamVars, writeVars, shellVars, queries, commandVars>>

-----------------------------------------------------------------------------
(* The shell thread.                                                       *)

(* mutant: as many slots as there may be sessions *)
PushGc_Half(c) ==
    gc' = IF Len(gc) + 1 = MaxServ THEN <<>> ELSE Append(gc, c)

(* push_back does not ask whether there is room: a ring that becomes full  *)
(* looks empty.                                                            *)
PushGc(c) ==
    gc' = IF Len(gc) + 1 = 2 * MaxServ THEN <<>> ELSE Append(gc, c)

(* mutant: the messages that wait are left in the queue *)
close_shell_KeepsTx(c) ==
    /\ session' = [session EXCEPT ![c] = "closed"]
    /\ need_write' = [need_write EXCEPT ![c] = FALSE]
    /\ IF c \in done
       THEN /\ alive' = alive \ {c}
            /\ UNCHANGED <<closed, gc>>
       ELSE /\ closed' = closed \cup {c}
            /\ PushGc(c)
            /\ UNCHANGED alive
    /\ shell' = Selecting
    /\ UNCHANGED <<tx, buf, done>>

close_shell(c) ==
    /\ session' = [session EXCEPT ![c] = "closed"]
    /\ need_write' = [need_write EXCEPT ![c] = FALSE]
    /\ IF c \in done
       THEN /\ alive' = alive \ {c}
            /\ UNCHANGED <<closed, gc>>
       ELSE /\ closed' = closed \cup {c}
            /\ PushGc(c)
            /\ UNCHANGED alive
    /\ tx' = [tx EXCEPT ![c] = 0]
    /\ shell' = Selecting
    /\ UNCHANGED <<buf, done>>

Accept(c) ==
    /\ shell = Selecting
    /\ session[c] = "none"
    /\ session' = [session EXCEPT ![c] = "open"]
    /\ alive' = alive \cup {c}
    /\ UNCHANGED <<clientVars, arrived, done, closed, writeVars, shell, buf, gc, inbox, queries,
                   commandVars>>

(* One message, when the socket takes it; an error closes the session.     *)
WriteMessage(c, place) ==
    /\ tx[c] > 0
    /\ tx' = [tx EXCEPT ![c] = @ - 1]
    /\ need_write' = [need_write EXCEPT ![c] = IF place = "select" THEN tx[c] > 1 ELSE @]
    /\ UNCHANGED <<session, streamVars, shell, buf, gc>>

process_writes(c, place) ==
    \/ WriteMessage(c, place)
    \/ tx[c] > 0 /\ c \in hung /\ close_shell(c)

WriteReady(c) ==
    /\ shell = Selecting /\ session[c] = "open" /\ need_write[c]
    /\ \/ process_writes(c, "select")
       \/ /\ tx[c] = 0
          /\ need_write' = [need_write EXCEPT ![c] = FALSE]
          /\ UNCHANGED <<session, streamVars, tx, shell, buf, gc>>
    /\ UNCHANGED <<clientVars, arrived, inbox, queries, commandVars>>

ReadReady(c) ==
    /\ shell = Selecting /\ session[c] = "open"
    /\ arrived[c] # <<>>
    /\ buf' = arrived[c]
    /\ arrived' = [arrived EXCEPT ![c] = <<>>]
    /\ shell' = At("buffer", c)
    /\ UNCHANGED <<clientVars, streamVars, writeVars, session, gc, inbox, queries, commandVars>>

ReadClose(c) ==
    /\ shell = Selecting /\ session[c] = "open"
    /\ arrived[c] = <<>> /\ c \in hung
    /\ close_shell(c)
    /\ UNCHANGED <<clientVars, arrived, inbox, queries, commandVars>>

-----------------------------------------------------------------------------
(* process_command_buffer, in the shell thread.                            *)

Taken(place, rest) ==
    /\ shell' = IF place = "buffer" /\ rest = <<>> THEN Selecting ELSE At(place, shell.os)
    /\ buf' = rest

Next1(item) == buf # <<>> /\ shell.at = "buffer" /\ Head(buf) = item

clear_flags(s) == done' = done \ {s}

(* mutant: the ring is not asked whether it is full *)
push_query_Unchecked(kind) ==
    queries' = Append(queries, <<shell.os, kind>>)

push_query(kind) ==
    queries' = IF Len(queries) = MaxQueries THEN queries ELSE Append(queries, <<shell.os, kind>>)

RealtimeQuery ==
    /\ Next1("?")
    /\ push_query("?")
    /\ Taken("buffer", Tail(buf))
    /\ UNCHANGED <<clientVars, arrived, streamVars, writeVars, session, gc, inbox, commandVars>>

InstantQuery ==
    /\ Next1("$I")
    /\ clear_flags(shell.os)
    /\ push_query("$I")
    /\ Taken("buffer", Tail(buf))
    /\ UNCHANGED <<clientVars, arrived, alive, closed, writeVars, session, gc, inbox, commandVars>>

Unlock ==
    /\ Next1("$X")
    /\ clear_flags(shell.os)
    /\ Taken("puts", Tail(buf))
    /\ UNCHANGED <<clientVars, arrived, alive, closed, writeVars, session, gc, inbox, queries,
                   commandVars>>

(* The "ok" of the shell thread itself: xWriteMutex, which the command      *)
(* thread holds while it writes, then a slot of the queue that only this   *)
(* thread empties.                                                         *)
ShellPuts ==
    /\ shell.at = "puts"
    /\ writing.os # shell.os /\ tx[shell.os] < TxLength
    /\ tx' = [tx EXCEPT ![shell.os] = @ + 1]
    /\ need_write' = [need_write EXCEPT ![shell.os] = TRUE]
    /\ Taken("buffer", buf)
    /\ UNCHANGED <<clientVars, arrived, streamVars, session, gc, inbox, queries, commandVars>>

(* mutant: the flag done of the line before is kept *)
Newline_KeepsDone ==
    /\ Next1("line")
    /\ Taken("submit", Tail(buf))
    /\ UNCHANGED <<clientVars, arrived, streamVars, writeVars, session, gc, inbox, queries,
                   commandVars>>

Newline ==
    /\ Next1("line")
    /\ clear_flags(shell.os)
    /\ Taken("submit", Tail(buf))
    /\ UNCHANGED <<clientVars, arrived, alive, closed, writeVars, session, gc, inbox, queries,
                   commandVars>>

(* send_message_queue, the first time and again.                           *)
Submit ==
    /\ shell.at \in {"submit", "resubmit"}
    /\ Len(inbox) < InboxLength
    /\ inbox' = Append(inbox, shell.os)
    /\ Taken("buffer", buf)
    /\ UNCHANGED <<clientVars, arrived, streamVars, writeVars, session, gc, queries, commandVars>>

(* mutant: the line is dropped when there is no room *)
GiveUp_Drops ==
    /\ shell.at = "submit"
    /\ Len(inbox) = InboxLength
    /\ Taken("buffer", buf)
    /\ UNCHANGED <<clientVars, arrived, streamVars, writeVars, session, gc, inbox, queries,
                   commandVars>>

(* 100 ms have passed: the rest of the buffer is not looked at.            *)
GiveUp ==
    /\ shell.at = "submit"
    /\ Len(inbox) = InboxLength
    /\ Taken("resubmit", <<>>)
    /\ UNCHANGED <<clientVars, arrived, streamVars, writeVars, session, gc, inbox, queries,
                   commandVars>>

ResubmitWrites ==
    /\ shell.at = "resubmit"
    /\ process_writes(shell.os, "resubmit")
    /\ UNCHANGED <<clientVars, arrived, inbox, queries, commandVars>>

-----------------------------------------------------------------------------
(* The command thread.                                                     *)

Printing == writing # NotWriting

Receive ==
    /\ pc = "receive" /\ inbox # <<>>
    /\ current' = Head(inbox)
    /\ inbox' = Tail(inbox)
    /\ pc' = "dispatch"
    /\ UNCHANGED <<clientVars, arrived, streamVars, writeVars, shellVars, queries, out, writing,
                   served>>

(* Most lines go through Dispatcher::dispatch, which clears the flags; a   *)
(* checksum error, M110, an uploaded line or a comment does not.           *)
Dispatch ==
    /\ pc = "dispatch"
    /\ \/ clear_flags(current)
       \/ UNCHANGED done
    /\ out' \in IF current = Usb THEN {<<>>} ELSE Answers
    /\ pc' = "output"
    /\ UNCHANGED <<clientVars, arrived, alive, closed, writeVars, shellVars, inbox, queries,
                   current, writing, served>>

(* OutputStream::write takes xWriteMutex and keeps it until its pieces are *)
(* in tx_queue; of a closed stream it does nothing.                        *)
Write(s, n) == writing' = IF s \in closed \cup {Usb} THEN NotWriting ELSE [os |-> s, left |-> n]

PrintPart ==
    /\ pc = "output" /\ ~Printing /\ out # <<>>
    /\ Write(current, Head(out))
    /\ out' = Tail(out)
    /\ UNCHANGED <<clientVars, arrived, streamVars, writeVars, shellVars, inbox, queries, pc,
                   current, served>>

(* handle_query: in safe_sleep, after a line, or when there is no line.    *)
AnswerQuery ==
    /\ pc \in {"output", "idle"} /\ ~Printing /\ queries # <<>>
    /\ queries' = Tail(queries)
    /\ LET q == Head(queries) IN
        /\ Write(q[1], 1)
        /\ IF q[2] = "$I" THEN clear_flags(q[1]) ELSE UNCHANGED done
        /\ current' = IF pc = "idle" THEN q[1] ELSE current
    /\ UNCHANGED <<clientVars, arrived, alive, closed, writeVars, shellVars, inbox, pc, out,
                   served>>

(* write_back: the pieces go to tx_queue, then the shell thread is told.   *)
(* A send that waits for room looks at closed only when it has got it.     *)
write_back ==
    /\ Printing
    /\ LET c == writing.os IN
        \/ /\ writing.left > 0 /\ tx[c] < TxLength
           /\ tx' = [tx EXCEPT ![c] = IF c \in closed THEN @ ELSE @ + 1]
           /\ Write(c, writing.left - 1)
           /\ UNCHANGED need_write
        \/ /\ writing.left = 0
           /\ need_write' = [need_write EXCEPT ![c] = session[c] = "open"]
           /\ writing' = NotWriting
           /\ UNCHANGED tx
    /\ UNCHANGED <<clientVars, arrived, streamVars, shellVars, inbox, queries, pc, current, out,
                   served>>

set_done(s) == done' = done \cup ({s} \ {Usb})

(* The line is over, and its queries are answered.                         *)
SetDone ==
    /\ pc = "output" /\ ~Printing /\ out = <<>> /\ queries = <<>>
    /\ set_done(current)
    /\ served' = [c \in Clients |-> IF c = current THEN served[c] + 1 ELSE served[c]]
    /\ pc' = "receive"
    /\ current' = Usb
    /\ UNCHANGED <<clientVars, arrived, alive, closed, writeVars, shellVars, inbox, queries,
                   out, writing>>

(* The message queue has timed out.                                        *)
Idle ==
    /\ pc = "receive" /\ inbox = <<>> /\ queries # <<>>
    /\ pc' = "idle"
    /\ UNCHANGED <<clientVars, arrived, streamVars, writeVars, shellVars, inbox, queries, current,
                   out, writing, served>>

(* handle_query(true) marks the stream of its last query.                  *)
EndIdle ==
    /\ pc = "idle" /\ ~Printing /\ queries = <<>>
    /\ set_done(current)
    /\ pc' = "receive"
    /\ current' = Usb
    /\ UNCHANGED <<clientVars, arrived, alive, closed, writeVars, shellVars, inbox, queries,
                   out, writing, served>>

-----------------------------------------------------------------------------
(* The timer: the oldest stream, if it is done.                            *)
os_garbage_collector ==
    /\ gc # <<>> /\ Head(gc) \in done
    /\ alive' = alive \ {Head(gc)}
    /\ gc' = Tail(gc)
    /\ UNCHANGED <<clientVars, arrived, done, closed, writeVars, session, shell, buf, inbox,
                   queries, commandVars>>

(* What the shell thread does between two calls of select.                 *)
ShellStep ==
    \/ RealtimeQuery \/ InstantQuery \/ Unlock \/ ShellPuts
    \/ Newline \/ Submit \/ GiveUp \/ ResubmitWrites

Serve(c) == WriteReady(c) \/ ReadReady(c) \/ ReadClose(c)

CommandStep ==
    \/ Receive \/ Dispatch \/ PrintPart \/ AnswerQuery \/ write_back \/ SetDone \/ Idle \/ EndIdle

Next ==
    \/ \E c \in Clients :
        \/ \E item \in Items : ClientSends(c, item)
        \/ HangUp(c) \/ Accept(c) \/ Serve(c)
    \/ UsbSends
    \/ ShellStep
    \/ CommandStep
    \/ os_garbage_collector

Spec == Init /\ [][Next]_vars

(* Threads and the timer run; a client that does not hang up reads what it *)
(* is sent, so its socket is ready to be served again and again.           *)
FairSpec ==
    /\ Spec
    /\ WF_vars(CommandStep) /\ WF_vars(ShellStep) /\ WF_vars(os_garbage_collector)
    /\ \A c \in Clients : SF_vars(Serve(c))

-----------------------------------------------------------------------------
(* Properties.                                                             *)

Number(seq, x) == Cardinality({i \in DOMAIN seq : seq[i] = x})
Count(b) == IF b THEN 1 ELSE 0

Running == pc \in {"dispatch", "output"}

TypeOK ==
    /\ session \in [Clients -> {"none", "open", "closed"}]
    /\ hung \subseteq Clients
    /\ arrived \in [Clients -> Seq(Items)]
    /\ alive \subseteq Streams
    /\ done \subseteq Clients
    /\ closed \subseteq Clients
    /\ tx \in [Clients -> 0 .. TxLength]
    /\ need_write \in [Clients -> BOOLEAN]
    /\ gc \in Seq(Clients) /\ Len(gc) < 2 * MaxServ
    /\ shell \in [at : {"select", "buffer", "puts", "submit", "resubmit"}, os : Streams]
    /\ buf \in Seq(Items)
    /\ inbox \in Seq(Streams) /\ Len(inbox) <= InboxLength
    /\ queries \in Seq(Clients \X {"?", "$I"}) /\ Len(queries) <= MaxQueries
    /\ pc \in {"receive", "dispatch", "output", "idle"}
    /\ current \in Streams
    /\ out \in Seq(Nat)
    /\ writing \in [os : Streams, left : Nat]
    /\ {items, sent, served} \subseteq [Clients -> Nat]

(* A stream that somebody will still use exists: the one of the line being  *)
(* executed, of a line or a query that waits, of a write that is under way *)
(* (Shell.cpp:90-92), and those in the ring, which are closed and there     *)
(* once each: a session that is closed leaves the living alone.            *)
StreamsOutliveRequests ==
    /\ Running => current \in alive
    /\ writing.os \in alive
    /\ \A i \in DOMAIN inbox : inbox[i] \in alive
    /\ \A i \in DOMAIN queries : queries[i][1] \in alive
    /\ \A i \in DOMAIN gc : gc[i] \in alive \cap closed
    /\ \A i, j \in DOMAIN gc : i # j => gc[i] # gc[j]

(* A line of an open session is somewhere on its way exactly once until it *)
(* has been executed, message queue full or not.                           *)
LineAccounted(c) ==
    session[c] = "open" =>
        sent[c] = served[c]
                  + Number(arrived[c], "line")
                  + (IF shell.os = c THEN Number(buf, "line") ELSE 0)
                  + Count(shell.os = c /\ shell.at \in {"submit", "resubmit"})
                  + Number(inbox, c)
                  + Count(Running /\ current = c)

(* The shell thread always returns to its sockets.                         *)
ShellRuns == []<>(shell = Selecting)

(* The command thread comes back for the next line, whatever a client does *)
(* while its answer is printed, as long as the shell thread runs.          *)
CommandReturns == ShellRuns => (pc # "receive" ~> pc = "receive")

(* A line that was sent is executed once, or its client has gone.          *)
LinesServed ==
    \A c \in Clients :
        /\ []LineAccounted(c)
        /\ ShellRuns => (sent[c] > served[c] ~> (sent[c] = served[c] \/ c \in hung))

(* If every stream that is closed is done sooner or later, every one is    *)
(* deleted: nothing but a stream that is never done holds up the others.   *)
StreamsReleased ==
    ShellRuns /\ (\A c \in Clients : c \in closed ~> c \in done)
        => \A c \in Clients : c \in closed ~> c \notin alive

(* While the shell thread waits for room in the message queue, the command *)
(* thread is not held up by what it prints (Shell.cpp:306-309).            *)
WaitingServesWriters == shell.at = "resubmit" /\ Printing ~> ~Printing

=============================================================================
