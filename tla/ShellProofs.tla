----------------------------- MODULE ShellProofs -----------------------------
(* Proofs about Shell, for any clients, queues and answers: its types; and, *)
(* for clients that wait for their answers, that a stream is deleted only   *)
(* when nobody will use it any more, and that a line is in one place until  *)
(* it has been executed.                                                   *)
EXTENDS Shell, FiniteSetTheorems, TLAPS

-----------------------------------------------------------------------------
(* Sequences.                                                              *)

Unique(seq, x) == \A i, j \in DOMAIN seq : seq[i] = x /\ seq[j] = x => i = j

LEMMA InEmpty == ASSUME NEW x PROVE ~Among(<<>>, x) /\ Unique(<<>>, x)
  BY DEF Among, Unique

LEMMA InAppend ==
    ASSUME NEW S, NEW seq \in Seq(S), NEW y \in S, NEW x
    PROVE  /\ Among(Append(seq, y), x) <=> Among(seq, x) \/ x = y
           /\ Unique(seq, x) /\ (x # y \/ ~Among(seq, x)) => Unique(Append(seq, y), x)
  <1>1. /\ DOMAIN Append(seq, y) = 1 .. Len(seq) + 1 /\ DOMAIN seq = 1 .. Len(seq)
        /\ Len(seq) \in Nat
        /\ \A i \in 1 .. Len(seq) : Append(seq, y)[i] = seq[i]
        /\ Append(seq, y)[Len(seq) + 1] = y
    OBVIOUS
  <1> QED BY <1>1 DEF Among, Unique

LEMMA InTail ==
    ASSUME NEW S, NEW seq \in Seq(S), seq # <<>>, NEW x
    PROVE  /\ Among(seq, x) <=> x = Head(seq) \/ Among(Tail(seq), x)
           /\ Unique(seq, x) => Unique(Tail(seq), x)
           /\ Unique(seq, x) /\ x = Head(seq) => ~Among(Tail(seq), x)
  <1>1. /\ DOMAIN seq = 1 .. Len(seq) /\ Len(seq) \in Nat /\ Len(seq) >= 1
        /\ DOMAIN Tail(seq) = 1 .. Len(seq) - 1
        /\ \A i \in 1 .. Len(seq) - 1 : Tail(seq)[i] = seq[i + 1]
        /\ Head(seq) = seq[1]
    OBVIOUS
  <1>2. Among(seq, x) <=> x = Head(seq) \/ Among(Tail(seq), x)
    <2>1. ASSUME NEW i \in DOMAIN seq, seq[i] = x, x # Head(seq)
          PROVE  i - 1 \in DOMAIN Tail(seq) /\ Tail(seq)[i - 1] = x
      BY <1>1, <2>1
    <2>2. ASSUME NEW i \in DOMAIN Tail(seq)
          PROVE  i + 1 \in DOMAIN seq /\ Tail(seq)[i] = seq[i + 1]
      BY <1>1
    <2>3. 1 \in DOMAIN seq /\ Head(seq) = seq[1]
      BY <1>1
    <2> QED BY <2>1, <2>2, <2>3 DEF Among
  <1>3. Unique(seq, x) => Unique(Tail(seq), x)
    <2> SUFFICES ASSUME Unique(seq, x), NEW i \in DOMAIN Tail(seq), NEW j \in DOMAIN Tail(seq),
                        Tail(seq)[i] = x, Tail(seq)[j] = x
                 PROVE  i = j
      BY DEF Unique
    <2>1. i + 1 \in DOMAIN seq /\ j + 1 \in DOMAIN seq /\ seq[i + 1] = x /\ seq[j + 1] = x
      BY <1>1
    <2>2. i + 1 = j + 1
      BY <2>1 DEF Unique
    <2> QED BY <1>1, <2>2
  <1>4. Unique(seq, x) /\ x = Head(seq) => ~Among(Tail(seq), x)
    <2> SUFFICES ASSUME Unique(seq, x), x = Head(seq), NEW i \in DOMAIN Tail(seq),
                        Tail(seq)[i] = x
                 PROVE  FALSE
      BY DEF Among
    <2>1. i + 1 \in DOMAIN seq /\ 1 \in DOMAIN seq /\ seq[i + 1] = x /\ seq[1] = x /\ i \in Nat
          /\ i >= 1
      BY <1>1
    <2>2. i + 1 = 1
      BY <2>1 DEF Unique
    <2> QED BY <2>1, <2>2
  <1> QED BY <1>2, <1>3, <1>4

LEMMA OfLargerSet ==
    ASSUME NEW S, NEW T, S \subseteq T, NEW seq \in Seq(S)
    PROVE  seq \in Seq(T)
  OBVIOUS

-----------------------------------------------------------------------------
(* Types.                                                                  *)

LEMMA Limits ==
    /\ MaxServ \in Nat /\ MaxServ > 0 /\ TxLength \in Nat /\ TxLength > 0
    /\ InboxLength \in Nat /\ InboxLength > 0 /\ MaxQueries \in Nat /\ MaxQueries > 0
    /\ Usb \notin Clients
    /\ \A a \in Answers : a \in Seq(Nat)
  <1>1. ASSUME NEW a \in Answers PROVE a \in Seq(Nat)
    <2>1. a \in Seq(Nat \ {0})
      BY ShellAssumption
    <2> QED BY <2>1, OfLargerSet
  <1> QED BY <1>1, ShellAssumption

Places == {"select", "buffer", "puts", "submit", "resubmit"}
Queries == Clients \X {"?", "$I"}

ClientTypes == /\ hung \subseteq Clients
               /\ arrived \in [Clients -> Seq(Items)]
               /\ items \in [Clients -> Nat] /\ sent \in [Clients -> Nat]
               /\ served \in [Clients -> Nat]
StreamTypes == alive \subseteq Streams /\ done \subseteq Clients /\ closed \subseteq Clients
SessionTypes == /\ session \in [Clients -> {"none", "open", "closed"}]
                /\ tx \in [Clients -> 0 .. TxLength]
                /\ need_write \in [Clients -> BOOLEAN]
RingTypes == gc \in Seq(Clients) /\ Len(gc) < 2 * MaxServ
ShellTypes == /\ shell = At(shell.at, shell.os)
              /\ shell.at \in Places /\ shell.os \in Streams
              /\ shell.at # "select" => shell.os \in Clients
              /\ buf \in Seq(Items)
QueueTypes == /\ inbox \in Seq(Streams) /\ Len(inbox) <= InboxLength
              /\ queries \in Seq(Queries) /\ Len(queries) <= MaxQueries
CommandTypes == /\ pc \in {"receive", "dispatch", "output", "idle"}
                /\ current \in Streams
                /\ out \in Seq(Nat)
                /\ writing \in [os : Streams, left : Nat]

TypeInv == /\ ClientTypes /\ StreamTypes /\ SessionTypes /\ RingTypes
           /\ ShellTypes /\ QueueTypes /\ CommandTypes

LEMMA TypeInit == Init => TypeInv
  BY Limits DEF Init, TypeInv, ClientTypes, StreamTypes, SessionTypes, RingTypes, ShellTypes,
                QueueTypes, CommandTypes, Streams, Selecting, At, NotWriting, Places, Items

(* What a step leaves alone keeps its types.                               *)
LEMMA TypesKept ==
    ASSUME TypeInv
    PROVE  /\ UNCHANGED <<clientVars, arrived, served>> => ClientTypes'
           /\ UNCHANGED <<alive, done, closed>> => StreamTypes'
           /\ UNCHANGED <<session, tx, need_write>> => SessionTypes'
           /\ UNCHANGED gc => RingTypes'
           /\ UNCHANGED <<shell, buf>> => ShellTypes'
           /\ UNCHANGED <<inbox, queries>> => QueueTypes'
           /\ UNCHANGED <<pc, current, out, writing>> => CommandTypes'
  <1>1. UNCHANGED <<clientVars, arrived, served>> => ClientTypes'
    BY DEF TypeInv, ClientTypes, clientVars
  <1>2. UNCHANGED <<alive, done, closed>> => StreamTypes'
    BY DEF TypeInv, StreamTypes
  <1>3. UNCHANGED <<session, tx, need_write>> => SessionTypes'
    BY DEF TypeInv, SessionTypes
  <1>4. UNCHANGED gc => RingTypes'
    BY DEF TypeInv, RingTypes
  <1>5. UNCHANGED <<shell, buf>> => ShellTypes'
    BY DEF TypeInv, ShellTypes
  <1>6. UNCHANGED <<inbox, queries>> => QueueTypes'
    BY DEF TypeInv, QueueTypes
  <1>7. UNCHANGED <<pc, current, out, writing>> => CommandTypes'
    BY DEF TypeInv, CommandTypes
  <1> QED BY <1>1, <1>2, <1>3, <1>4, <1>5, <1>6, <1>7

LEMMA TakenTypes ==
    ASSUME TypeInv, shell.at # "select", NEW place \in Places, place # "select",
           NEW rest \in Seq(Items), Taken(place, rest)
    PROVE  ShellTypes'
  <1>1. shell.os \in Clients
    BY DEF TypeInv, ShellTypes
  <1>2. CASE place = "buffer" /\ rest = <<>>
    BY <1>2, Limits DEF Taken, Selecting, At, ShellTypes, Places, Streams
  <1>3. CASE ~(place = "buffer" /\ rest = <<>>)
    BY <1>1, <1>3 DEF Taken, At, ShellTypes, Places, Streams
  <1> QED BY <1>2, <1>3

(* The buffer without its first item.                                      *)
LEMMA NextTypes ==
    ASSUME TypeInv, NEW item, Next1(item), NEW place \in Places, place # "select",
           Taken(place, Tail(buf))
    PROVE  ShellTypes'
  <1>1. Tail(buf) \in Seq(Items)
    BY DEF TypeInv, ShellTypes, Next1
  <1> QED BY <1>1, TakenTypes DEF Next1

LEMMA ClearTypes ==
    ASSUME TypeInv, NEW s, clear_flags(s), UNCHANGED <<alive, closed>>
    PROVE  StreamTypes'
  BY DEF TypeInv, StreamTypes, clear_flags

LEMMA SetTypes ==
    ASSUME TypeInv, NEW s \in Streams, set_done(s), UNCHANGED <<alive, closed>>
    PROVE  StreamTypes'
  BY DEF TypeInv, StreamTypes, set_done, Streams

LEMMA PushTypes ==
    ASSUME TypeInv, shell.at # "select", NEW kind \in {"?", "$I"}, push_query(kind),
           UNCHANGED inbox
    PROVE  QueueTypes'
  <1>1. CASE Len(queries) = MaxQueries
    BY <1>1 DEF TypeInv, QueueTypes, push_query
  <1>2. CASE Len(queries) # MaxQueries
    <2>1. <<shell.os, kind>> \in Queries
      BY DEF TypeInv, ShellTypes, Queries
    <2>2. queries' = Append(queries, <<shell.os, kind>>)
      BY <1>2 DEF push_query
    <2> QED BY <1>2, <2>1, <2>2, Limits DEF TypeInv, QueueTypes
  <1> QED BY <1>1, <1>2

LEMMA WriteTypes ==
    ASSUME TypeInv, NEW s \in Streams, NEW n \in Nat, Write(s, n)
    PROVE  writing' \in [os : Streams, left : Nat]
  BY DEF Write, NotWriting, Streams

LEMMA CloseTypes ==
    ASSUME TypeInv, NEW c \in Clients, close_shell(c)
    PROVE  StreamTypes' /\ SessionTypes' /\ RingTypes' /\ ShellTypes'
  <1>1. StreamTypes'
    BY DEF TypeInv, StreamTypes, close_shell
  <1>2. SessionTypes'
    BY Limits DEF TypeInv, SessionTypes, close_shell
  <1>3. RingTypes'
    <2>1. CASE c \in done
      BY <2>1 DEF TypeInv, RingTypes, close_shell
    <2>2. CASE c \notin done /\ Len(gc) + 1 = 2 * MaxServ
      <3>1. gc' = <<>>
        BY <2>2 DEF close_shell, PushGc
      <3> QED BY <3>1, Limits DEF RingTypes
    <2>3. CASE c \notin done /\ Len(gc) + 1 # 2 * MaxServ
      <3>1. gc' = Append(gc, c)
        BY <2>3 DEF close_shell, PushGc
      <3> QED BY <2>3, <3>1, Limits DEF TypeInv, RingTypes
    <2> QED BY <2>1, <2>2, <2>3
  <1>4. ShellTypes'
    BY DEF TypeInv, ShellTypes, close_shell, Selecting, At, Places, Streams
  <1> QED BY <1>1, <1>2, <1>3, <1>4

LEMMA WritesTypes ==
    ASSUME TypeInv, NEW c \in Clients, NEW place, process_writes(c, place)
    PROVE  StreamTypes' /\ SessionTypes' /\ RingTypes' /\ ShellTypes'
  <1>1. CASE WriteMessage(c, place)
    <2>1. SessionTypes'
      <3>1. /\ tx[c] \in 0 .. TxLength /\ tx[c] - 1 \in 0 .. TxLength
            /\ tx' = [tx EXCEPT ![c] = tx[c] - 1]
        BY <1>1, Limits DEF TypeInv, SessionTypes, WriteMessage
      <3>2. need_write' \in [Clients -> BOOLEAN]
        <4> DEFINE more == IF place = "select" THEN tx[c] > 1 ELSE need_write[c]
        <4>1. need_write' = [need_write EXCEPT ![c] = more]
          BY <1>1 DEF WriteMessage
        <4>2. need_write \in [Clients -> BOOLEAN]
          BY DEF TypeInv, SessionTypes
        <4>3. more \in BOOLEAN
          <5>1. (tx[c] > 1) \in BOOLEAN /\ need_write[c] \in BOOLEAN
            BY <4>2
          <5> QED BY <5>1, Zenon
        <4> HIDE DEF more
        <4> QED BY <4>1, <4>2, <4>3
      <3> QED BY <1>1, <3>1, <3>2 DEF TypeInv, SessionTypes, WriteMessage
    <2> QED BY <1>1, <2>1, TypesKept DEF WriteMessage, streamVars
  <1>2. CASE close_shell(c)
    BY <1>2, CloseTypes
  <1> QED BY <1>1, <1>2 DEF process_writes

LEMMA ClientTypesNext ==
    ASSUME TypeInv, NEW c \in Clients,
           (\E item \in Items : ClientSends(c, item)) \/ HangUp(c) \/ Accept(c) \/ Serve(c)
    PROVE  TypeInv'
  <1> USE DEF clientVars, streamVars, writeVars, shellVars, commandVars
  <1>1. ASSUME NEW item \in Items, ClientSends(c, item)
        PROVE  TypeInv'
    <2>1. arrived' \in [Clients -> Seq(Items)]
      BY <1>1 DEF TypeInv, ClientTypes, ClientSends
    <2>2. items' \in [Clients -> Nat] /\ sent' \in [Clients -> Nat]
      BY <1>1 DEF TypeInv, ClientTypes, ClientSends
    <2>3. ClientTypes'
      BY <1>1, <2>1, <2>2 DEF TypeInv, ClientTypes, ClientSends
    <2> QED BY <1>1, <2>3, TypesKept DEF TypeInv, ClientSends
  <1>2. CASE HangUp(c)
    <2>1. ClientTypes'
      BY <1>2 DEF TypeInv, ClientTypes, HangUp
    <2> QED BY <1>2, <2>1, TypesKept DEF TypeInv, HangUp
  <1>3. CASE Accept(c)
    <2>1. StreamTypes' /\ SessionTypes'
      BY <1>3 DEF TypeInv, StreamTypes, SessionTypes, Accept, Streams
    <2> QED BY <1>3, <2>1, TypesKept DEF TypeInv, Accept
  <1>4. CASE WriteReady(c)
    <2>1. CASE process_writes(c, "select")
      BY <1>4, <2>1, WritesTypes, TypesKept DEF TypeInv, WriteReady
    <2>2. CASE ~process_writes(c, "select")
      <3>1. SessionTypes'
        BY <1>4, <2>2 DEF TypeInv, SessionTypes, WriteReady
      <3> QED BY <1>4, <2>2, <3>1, TypesKept DEF TypeInv, WriteReady
    <2> QED BY <2>1, <2>2
  <1>5. CASE ReadReady(c)
    <2>1. ClientTypes'
      BY <1>5 DEF TypeInv, ClientTypes, ReadReady
    <2>2. ShellTypes'
      BY <1>5 DEF TypeInv, ClientTypes, ShellTypes, ReadReady, At, Places, Streams
    <2> QED BY <1>5, <2>1, <2>2, TypesKept DEF TypeInv, ReadReady
  <1>6. CASE ReadClose(c)
    BY <1>6, CloseTypes, TypesKept DEF TypeInv, ReadClose
  <1> QED BY <1>1, <1>2, <1>3, <1>4, <1>5, <1>6 DEF Serve

LEMMA ShellTypesNext ==
    ASSUME TypeInv, ShellStep
    PROVE  TypeInv'
  <1> USE DEF clientVars, streamVars, writeVars, shellVars, commandVars
  <1>0. {"buffer", "puts", "submit", "resubmit"} \subseteq Places
    BY DEF Places
  <1>1. CASE RealtimeQuery
    <2>1. ShellTypes' /\ QueueTypes'
      BY <1>0, <1>1, NextTypes, PushTypes DEF RealtimeQuery, Next1
    <2> QED BY <1>1, <2>1, TypesKept DEF TypeInv, RealtimeQuery
  <1>2. CASE InstantQuery
    <2>1. ShellTypes' /\ QueueTypes' /\ StreamTypes'
      BY <1>0, <1>2, NextTypes, PushTypes, ClearTypes DEF InstantQuery, Next1
    <2> QED BY <1>2, <2>1, TypesKept DEF TypeInv, InstantQuery
  <1>3. CASE Unlock
    <2>1. ShellTypes' /\ StreamTypes'
      BY <1>0, <1>3, NextTypes, ClearTypes DEF Unlock
    <2> QED BY <1>3, <2>1, TypesKept DEF TypeInv, Unlock
  <1>4. CASE ShellPuts
    <2>1. buf \in Seq(Items) /\ shell.os \in Clients
      BY <1>4 DEF TypeInv, ShellTypes, ShellPuts
    <2>2. ShellTypes'
      BY <1>0, <1>4, <2>1, TakenTypes DEF ShellPuts
    <2>3. SessionTypes'
      <3>1. tx[shell.os] + 1 \in 0 .. TxLength
        BY <1>4, <2>1, Limits DEF TypeInv, SessionTypes, ShellPuts
      <3> QED BY <1>4, <2>1, <3>1 DEF TypeInv, SessionTypes, ShellPuts
    <2> QED BY <1>4, <2>2, <2>3, TypesKept DEF TypeInv, ShellPuts
  <1>5. CASE Newline
    <2>1. ShellTypes' /\ StreamTypes'
      BY <1>0, <1>5, NextTypes, ClearTypes DEF Newline
    <2> QED BY <1>5, <2>1, TypesKept DEF TypeInv, Newline
  <1>6. CASE Submit
    <2>1. buf \in Seq(Items)
      BY DEF TypeInv, ShellTypes
    <2>2. ShellTypes'
      BY <1>0, <1>6, <2>1, TakenTypes DEF Submit
    <2>3. QueueTypes'
      BY <1>6, Limits DEF TypeInv, QueueTypes, ShellTypes, Submit
    <2> QED BY <1>6, <2>2, <2>3, TypesKept DEF TypeInv, Submit
  <1>7. CASE GiveUp
    <2>1. <<>> \in Seq(Items)
      OBVIOUS
    <2>2. ShellTypes'
      BY <1>0, <1>7, <2>1, TakenTypes DEF GiveUp
    <2> QED BY <1>7, <2>2, TypesKept DEF TypeInv, GiveUp
  <1>8. CASE ResubmitWrites
    <2>1. shell.os \in Clients
      BY <1>8 DEF TypeInv, ShellTypes, ResubmitWrites
    <2> QED BY <1>8, <2>1, WritesTypes, TypesKept DEF TypeInv, ResubmitWrites
  <1> QED BY <1>1, <1>2, <1>3, <1>4, <1>5, <1>6, <1>7, <1>8 DEF ShellStep

LEMMA CommandTypesNext ==
    ASSUME TypeInv, CommandStep
    PROVE  TypeInv'
  <1> USE DEF clientVars, streamVars, writeVars, shellVars, commandVars
  <1>0. Usb \in Streams
    BY DEF Streams
  <1>1. CASE Receive
    <2>1. QueueTypes' /\ Head(inbox) \in Streams
      <3>1. /\ Head(inbox) \in Streams /\ Tail(inbox) \in Seq(Streams)
            /\ Len(Tail(inbox)) <= InboxLength
        BY <1>1, Limits DEF TypeInv, QueueTypes, Receive
      <3> QED BY <1>1, <3>1 DEF TypeInv, QueueTypes, Receive
    <2>2. CommandTypes'
      BY <1>1, <2>1 DEF TypeInv, CommandTypes, Receive
    <2> QED BY <1>1, <2>1, <2>2, TypesKept DEF TypeInv, Receive
  <1>2. CASE Dispatch
    <2>1. StreamTypes'
      BY <1>2, ClearTypes, TypesKept DEF Dispatch
    <2>2. out' \in Seq(Nat)
      <3>1. CASE current = Usb
        BY <1>2, <3>1 DEF Dispatch
      <3>2. CASE current # Usb
        BY <1>2, <3>2, Limits DEF Dispatch
      <3> QED BY <3>1, <3>2
    <2>3. CommandTypes'
      BY <1>2, <2>2 DEF TypeInv, CommandTypes, Dispatch
    <2> QED BY <1>2, <2>1, <2>3, TypesKept DEF TypeInv, Dispatch
  <1>3. CASE PrintPart
    <2>1. Head(out) \in Nat /\ Tail(out) \in Seq(Nat) /\ current \in Streams
      BY <1>3 DEF TypeInv, CommandTypes, PrintPart
    <2>2. writing' \in [os : Streams, left : Nat]
      BY <1>3, <2>1, WriteTypes DEF PrintPart
    <2>3. CommandTypes'
      BY <1>3, <2>1, <2>2 DEF TypeInv, CommandTypes, PrintPart
    <2> QED BY <1>3, <2>3, TypesKept DEF TypeInv, PrintPart
  <1>4. CASE AnswerQuery
    <2> DEFINE q == Head(queries)
    <2>1. q[1] \in Streams /\ QueueTypes'
      <3>1. q \in Queries /\ Tail(queries) \in Seq(Queries) /\ Len(Tail(queries)) <= MaxQueries
        BY <1>4, Limits DEF TypeInv, QueueTypes, AnswerQuery
      <3> QED BY <1>4, <3>1 DEF TypeInv, QueueTypes, AnswerQuery, Queries, Streams
    <2>2. StreamTypes'
      BY <1>4, ClearTypes, TypesKept DEF AnswerQuery
    <2>3. writing' \in [os : Streams, left : Nat]
      BY <1>4, <2>1, WriteTypes DEF AnswerQuery
    <2>4. CommandTypes'
      BY <1>4, <2>1, <2>3 DEF TypeInv, CommandTypes, AnswerQuery
    <2> QED BY <1>4, <2>1, <2>2, <2>4, TypesKept DEF TypeInv, AnswerQuery
  <1>5. CASE write_back
    <2>1. /\ writing.os \in Streams /\ writing.left \in Nat
          /\ NotWriting \in [os : Streams, left : Nat]
      BY <1>0 DEF TypeInv, CommandTypes, NotWriting
    <2>2. CASE writing.left > 0
      <3>1. /\ tx[writing.os] < TxLength
            /\ tx' = [tx EXCEPT ![writing.os] = IF writing.os \in closed THEN @ ELSE @ + 1]
            /\ Write(writing.os, writing.left - 1)
            /\ UNCHANGED need_write
        BY <1>5, <2>1, <2>2 DEF write_back
      <3>2. CommandTypes'
        <4>1. writing' \in [os : Streams, left : Nat]
          BY <2>1, <2>2, <3>1, WriteTypes
        <4> QED BY <1>5, <4>1 DEF TypeInv, CommandTypes, write_back
      <3>3. tx' \in [Clients -> 0 .. TxLength]
        <4>1. tx \in [Clients -> 0 .. TxLength]
          BY DEF TypeInv, SessionTypes
        <4>2. CASE writing.os \in Clients /\ writing.os \notin closed
          <5>1. tx[writing.os] + 1 \in 0 .. TxLength
            BY <3>1, <4>1, <4>2, Limits
          <5> QED BY <3>1, <4>1, <4>2, <5>1
        <4>3. CASE writing.os \notin Clients \/ writing.os \in closed
          BY <3>1, <4>1, <4>3
        <4> QED BY <4>2, <4>3
      <3>4. SessionTypes'
        BY <1>5, <3>1, <3>3 DEF TypeInv, SessionTypes, write_back
      <3> QED BY <1>5, <3>2, <3>4, TypesKept DEF TypeInv, write_back
    <2>3. CASE writing.left = 0
      <3>1. /\ need_write' = [need_write EXCEPT ![writing.os] = session[writing.os] = "open"]
            /\ writing' = NotWriting /\ UNCHANGED tx
        BY <1>5, <2>3 DEF write_back
      <3>2. CommandTypes'
        BY <1>5, <2>1, <3>1 DEF TypeInv, CommandTypes, write_back
      <3>3. SessionTypes'
        BY <1>5, <3>1 DEF TypeInv, SessionTypes, write_back
      <3> QED BY <1>5, <3>2, <3>3, TypesKept DEF TypeInv, write_back
    <2> QED BY <2>1, <2>2, <2>3
  <1>6. CASE SetDone
    <2>1. current \in Streams /\ CommandTypes'
      BY <1>0, <1>6 DEF TypeInv, CommandTypes, SetDone
    <2>2. StreamTypes'
      BY <1>6, <2>1, SetTypes DEF SetDone
    <2>3. ClientTypes'
      BY <1>6 DEF TypeInv, ClientTypes, SetDone
    <2> QED BY <1>6, <2>1, <2>2, <2>3, TypesKept DEF TypeInv, SetDone
  <1>7. CASE Idle
    <2>1. CommandTypes'
      BY <1>7 DEF TypeInv, CommandTypes, Idle
    <2> QED BY <1>7, <2>1, TypesKept DEF TypeInv, Idle
  <1>8. CASE EndIdle
    <2>1. current \in Streams /\ CommandTypes'
      BY <1>0, <1>8 DEF TypeInv, CommandTypes, EndIdle
    <2>2. StreamTypes'
      BY <1>8, <2>1, SetTypes DEF EndIdle
    <2> QED BY <1>8, <2>1, <2>2, TypesKept DEF TypeInv, EndIdle
  <1> QED BY <1>1, <1>2, <1>3, <1>4, <1>5, <1>6, <1>7, <1>8 DEF CommandStep

LEMMA TypeNext == TypeInv /\ [Next]_vars => TypeInv'
  <1> SUFFICES ASSUME TypeInv, [Next]_vars PROVE TypeInv'
    OBVIOUS
  <1> USE DEF clientVars, streamVars, writeVars, shellVars, commandVars
  <1>1. CASE UsbSends
    <2>1. QueueTypes'
      BY <1>1, Limits DEF TypeInv, QueueTypes, UsbSends, Streams
    <2> QED BY <1>1, <2>1, TypesKept DEF TypeInv, UsbSends
  <1>2. CASE os_garbage_collector
    <2>1. StreamTypes' /\ RingTypes'
      BY <1>2, Limits DEF TypeInv, StreamTypes, RingTypes, os_garbage_collector
    <2> QED BY <1>2, <2>1, TypesKept DEF TypeInv, os_garbage_collector
  <1>3. CASE UNCHANGED vars
    BY <1>3, TypesKept DEF TypeInv, vars
  <1> QED BY <1>1, <1>2, <1>3, ClientTypesNext, ShellTypesNext, CommandTypesNext DEF Next

(* The types of the shell, and the limits of its queues and rings, for any  *)
(* clients, whatever they send and whenever they hang up.                  *)
THEOREM TypeCorrect == Spec => []TypeOK
  <1>1. TypeInv => TypeOK
    BY DEF TypeInv, TypeOK, ClientTypes, StreamTypes, SessionTypes, RingTypes, ShellTypes,
           QueueTypes, CommandTypes, Places, Queries, At, Streams
  <1> QED BY TypeInit, TypeNext, <1>1, PTL DEF Spec

-----------------------------------------------------------------------------
(* Where a line or a query of a client is.                                 *)

Queried(c) == \E q \in {"?", "$I"} : Among(queries, <<c, q>>)
Wanted(c) == \/ \E q \in {"?", "$I"} : \/ Among(arrived[c], q)
                                       \/ shell.os = c /\ Among(buf, q)
             \/ Queried(c)

InSocket(c) == Among(arrived[c], "line")
InBuffer(c) == shell.os = c /\ Among(buf, "line")
InShell(c) == shell.os = c /\ shell.at \in {"submit", "resubmit"}
InQueue(c) == Among(inbox, c)
InThread(c) == Running /\ current = c

Submitted(c) == InShell(c) \/ InQueue(c) \/ InThread(c)

(* Nothing will use the stream of c.                                       *)
Unused(c) == ~Submitted(c) /\ ~Queried(c) /\ writing.os # c

(* A client that waits for its answers has one line under way at most.     *)
UniqueLines(c) == /\ Unique(arrived[c], "line") /\ Unique(inbox, c)
                  /\ shell.os = c => Unique(buf, "line")
OneLine(c) ==
    /\ UniqueLines(c)
    /\ sent[c] = served[c] => ~InSocket(c) /\ ~InBuffer(c) /\ ~Submitted(c)
    /\ InSocket(c) => ~InBuffer(c) /\ ~Submitted(c)
    /\ InBuffer(c) => ~Submitted(c)
    /\ InShell(c) => ~InQueue(c) /\ ~InThread(c)
    /\ InQueue(c) => ~InThread(c)

(* One that sends nothing but lines, or has hung up, waits for no answer to *)
(* a query, and is done only when its line is.                             *)
Settled(c) == /\ items[c] >= sent[c]
              /\ items[c] = sent[c] \/ c \in hung =>
                     ~Asking(c) /\ (c \in done => ~Submitted(c))

(* The places of the two threads.                                          *)
ShellPlace == /\ shell.at = "select" => shell.os = Usb
              /\ shell.at # "select" => session[shell.os] = "open"
CommandPlace == /\ pc \in {"receive", "dispatch"} => writing = NotWriting
                /\ pc = "idle" /\ Printing => current = writing.os
                /\ pc = "receive" => current = Usb

(* A stream from its session's beginning to its end.                       *)
Life(c) ==
    /\ session[c] # "closed" => c \notin closed
    /\ session[c] = "none" => Unused(c) /\ c \notin hung
    /\ session[c] = "open" => c \in alive
    /\ session[c] = "closed" => c \in hung /\ (c \notin alive => Unused(c))

Ring == /\ \A i \in DOMAIN gc : gc[i] \in alive \cap closed
        /\ \A i, j \in DOMAIN gc : i # j => gc[i] # gc[j]

Control == Usb \in alive /\ ShellPlace /\ CommandPlace
StreamInv == Control /\ Ring /\ \A c \in Clients : OneLine(c) /\ Settled(c) /\ Life(c)

LEMMA StreamInit == Init => StreamInv
  <1> SUFFICES ASSUME Init PROVE StreamInv
    OBVIOUS
  <1>1. Control /\ Ring
    BY DEF Init, Control, ShellPlace, CommandPlace, Ring, Selecting, At, NotWriting, Printing
  <1> SUFFICES ASSUME NEW c \in Clients PROVE OneLine(c) /\ Settled(c) /\ Life(c)
    BY <1>1 DEF StreamInv
  <1>2. /\ arrived[c] = <<>> /\ buf = <<>> /\ inbox = <<>> /\ queries = <<>> /\ c # Usb
        /\ shell.os = Usb /\ shell.at = "select" /\ pc = "receive" /\ current = Usb
        /\ writing.os = Usb /\ session[c] = "none" /\ hung = {} /\ closed = {}
        /\ items[c] = 0 /\ sent[c] = 0
    BY Limits DEF Init, Selecting, At, NotWriting
  <1>3. Unused(c) /\ ~InSocket(c) /\ ~InBuffer(c)
    BY <1>2, InEmpty DEF Unused, Submitted, InShell, InQueue, InThread, Running, Queried, InSocket,
                         InBuffer
  <1>4. OneLine(c)
    BY <1>2, <1>3, InEmpty DEF OneLine, UniqueLines, Unused, Submitted
  <1>5. ~Asking(c)
    BY <1>2, InEmpty DEF Asking
  <1> QED BY <1>2, <1>3, <1>4, <1>5 DEF Settled, Life, Unused

-----------------------------------------------------------------------------
(* What the steps of the shell thread do to its buffer.                    *)

LEMMA BufferTaken ==
    ASSUME TypeInv, NEW item, Next1(item), NEW place, Taken(place, Tail(buf)),
           NEW c \in Clients, NEW x
    PROVE  /\ shell'.os = c => shell.os = c
           /\ shell'.os = c /\ Among(buf', x) => Among(buf, x)
           /\ shell'.os = c /\ Unique(buf, x) => Unique(buf', x)
           /\ shell'.os = c /\ Unique(buf, x) /\ x = item => ~Among(buf', x)
           /\ shell'.at \in {"select", place}
           /\ shell.os = c => Among(buf, item)
  <1>1. buf \in Seq(Items) /\ buf # <<>> /\ item = Head(buf)
    BY DEF TypeInv, ShellTypes, Next1
  <1>2. buf' = Tail(buf) /\ (shell' = Selecting \/ shell' = At(place, shell.os))
    BY DEF Taken
  <1>3. c # Usb
    BY Limits
  <1> QED BY <1>1, <1>2, <1>3, InTail DEF Selecting, At

(* A step that submits nothing, hides no answer and sends nothing: what it  *)
(* takes from the buffer of c may become a query.                          *)
LEMMA QuietStep ==
    ASSUME TypeInv, Control, NEW c \in Clients, OneLine(c), Settled(c), Life(c),
           UNCHANGED <<clientVars, arrived, session, alive, closed, inbox, commandVars>>,
           done' \subseteq done,
           \A x : shell'.os = c /\ Among(buf', x) => shell.os = c /\ Among(buf, x),
           shell'.os = c => shell.os = c /\ (Unique(buf, "line") => Unique(buf', "line")),
           InShell(c)' => InShell(c),
           \A q \in {"?", "$I"} : Among(queries', <<c, q>>) =>
               Among(queries, <<c, q>>) \/ (shell.os = c /\ Among(buf, q))
    PROVE  OneLine(c)' /\ Settled(c)' /\ Life(c)'
  <1> USE DEF clientVars, commandVars
  <1>1. Submitted(c)' => Submitted(c)
    BY DEF Submitted, InQueue, InThread, Running
  <1>2. OneLine(c)'
    BY DEF OneLine, UniqueLines, Submitted, InSocket, InBuffer, InQueue, InThread, Running
  <1>3. Asking(c)' => Asking(c)
    BY DEF Asking
  <1>4. Settled(c)'
    BY <1>1, <1>3 DEF Settled
  <1>5. session[c] # "open" /\ Unused(c) => Unused(c)'
    <2>1. session[c] # "open" => shell.os # c
      BY Limits DEF Control, ShellPlace
    <2> QED BY <1>1, <2>1 DEF Unused, Queried
  <1>6. Life(c)'
    BY <1>5 DEF Life
  <1> QED BY <1>2, <1>4, <1>6

(* A stream that is done and whose client has hung up is used by nobody.    *)
LEMMA DoneIsUnused ==
    ASSUME Control, NEW c \in Clients, Settled(c), c \in hung, c \in done,
           pc \in {"receive", "dispatch", "output", "idle"}
    PROVE  Unused(c)
  <1>1. ~Asking(c) /\ ~Submitted(c)
    BY DEF Settled
  <1>2. ~Queried(c)
    BY <1>1 DEF Queried, Asking
  <1>3. writing.os # c
    <2> SUFFICES ASSUME writing.os = c PROVE FALSE
      OBVIOUS
    <2>1. Printing
      BY Limits DEF Printing, NotWriting
    <2>2. pc \in {"output", "idle"}
      BY <2>1 DEF Control, CommandPlace, Printing
    <2>3. CASE pc = "output"
      BY <1>1, <2>3 DEF Asking, Submitted, InThread, Running
    <2>4. CASE pc = "idle"
      BY <1>1, <2>1, <2>4 DEF Asking, Control, CommandPlace
    <2> QED BY <2>2, <2>3, <2>4
  <1> QED BY <1>1, <1>2, <1>3 DEF Unused

(* The end of a session: a stream that is done goes, another is left to the *)
(* timer.                                                                  *)
LEMMA StreamClose ==
    ASSUME TypeInv, StreamInv, NEW c \in Clients, session[c] = "open", c \in hung,
           close_shell(c), shell.os \in {c, Usb},
           UNCHANGED <<clientVars, arrived, inbox, queries, commandVars>>
    PROVE  StreamInv'
  <1> USE DEF clientVars, commandVars
  <1>0. c # Usb /\ session \in [Clients -> {"none", "open", "closed"}]
    BY Limits DEF TypeInv, SessionTypes
  <1>1. shell' = Selecting /\ buf' = buf /\ done' = done
        /\ session' = [session EXCEPT ![c] = "closed"]
    BY DEF close_shell
  <1>2. c \in alive /\ c \notin closed /\ Settled(c) /\ Control /\ Ring
    BY DEF StreamInv, Life
  <1>3. c \in done => Unused(c)
    BY <1>2, DoneIsUnused DEF TypeInv, CommandTypes
  <1>4. Unused(c) => Unused(c)'
    BY <1>1 DEF Unused, Submitted, InShell, InQueue, InThread, Running, Queried, Selecting, At
  <1>5. Control'
    BY <1>0, <1>1, <1>2 DEF Control, ShellPlace, CommandPlace, Printing, Selecting, At, close_shell
  <1>6. Ring'
    <2>1. CASE c \in done
      BY <1>2, <2>1 DEF Ring, close_shell
    <2>2. CASE c \notin done /\ gc' = <<>>
      BY <2>2 DEF Ring
    <2>3. CASE c \notin done /\ gc' = Append(gc, c)
      <3>1. /\ DOMAIN gc' = 1 .. Len(gc) + 1 /\ DOMAIN gc = 1 .. Len(gc) /\ Len(gc) \in Nat
            /\ \A i \in 1 .. Len(gc) : gc'[i] = gc[i]
            /\ gc'[Len(gc) + 1] = c
        BY <2>3 DEF TypeInv, RingTypes
      <3>2. alive' = alive /\ closed' = closed \cup {c}
        BY <2>3 DEF close_shell
      <3>3. \A i \in DOMAIN gc : gc[i] # c /\ gc[i] \in alive \cap closed
        BY <1>2 DEF Ring
      <3> QED BY <1>2, <3>1, <3>2, <3>3 DEF Ring
    <2> QED BY <2>1, <2>2, <2>3 DEF close_shell, PushGc
  <1>7. ASSUME NEW d \in Clients PROVE OneLine(d)' /\ Settled(d)' /\ Life(d)'
    <2>1. shell'.os # d /\ shell'.at = "select" /\ OneLine(d) /\ Settled(d) /\ Life(d)
      BY <1>1, Limits DEF Selecting, At, StreamInv
    <2>2. OneLine(d)'
      BY <2>1 DEF OneLine, UniqueLines, Submitted, InSocket, InBuffer, InShell, InQueue, InThread,
                  Running
    <2>3. Asking(d)' => Asking(d)
      BY <2>1 DEF Asking
    <2>4. Submitted(d)' => Submitted(d)
      BY <2>1 DEF Submitted, InShell, InQueue, InThread, Running
    <2>5. Settled(d)'
      BY <1>1, <2>1, <2>3, <2>4 DEF Settled
    <2>6. CASE d = c
      <3>1. session'[c] = "closed" /\ (c \notin alive' => c \in done)
        BY <1>0, <1>1, <1>2 DEF close_shell
      <3> QED BY <1>3, <1>4, <2>2, <2>5, <2>6, <3>1 DEF Life
    <2>7. CASE d # c
      <3>1. /\ session'[d] = session[d] /\ (d \in alive' <=> d \in alive)
            /\ (d \in closed' <=> d \in closed)
        BY <1>0, <2>7 DEF close_shell
      <3>2. Unused(d) => Unused(d)'
        BY <2>4 DEF Unused, Queried
      <3> QED BY <2>1, <2>2, <2>5, <3>1, <3>2 DEF Life
    <2> QED BY <2>6, <2>7
  <1> QED BY <1>5, <1>6, <1>7 DEF StreamInv

LEMMA QuietSteps ==
    ASSUME TypeInv, StreamInv, ShellPlace',
           UNCHANGED <<clientVars, arrived, session, alive, closed, gc, inbox, commandVars>>,
           done' \subseteq done,
           \A c \in Clients :
               /\ \A x : shell'.os = c /\ Among(buf', x) => shell.os = c /\ Among(buf, x)
               /\ shell'.os = c => shell.os = c /\ (Unique(buf, "line") => Unique(buf', "line"))
               /\ InShell(c)' => InShell(c)
               /\ \A q \in {"?", "$I"} : Among(queries', <<c, q>>) =>
                      Among(queries, <<c, q>>) \/ (shell.os = c /\ Among(buf, q))
    PROVE  StreamInv'
  <1>1. Control'
    BY DEF StreamInv, Control, CommandPlace, Printing, commandVars
  <1>2. Ring'
    BY DEF StreamInv, Ring
  <1>3. ASSUME NEW c \in Clients PROVE OneLine(c)' /\ Settled(c)' /\ Life(c)'
    BY QuietStep DEF StreamInv
  <1> QED BY <1>1, <1>2, <1>3 DEF StreamInv

LEMMA ShellPlaceTaken ==
    ASSUME TypeInv, ShellPlace, NEW place, NEW rest, Taken(place, rest), shell.at # "select",
           place # "select", UNCHANGED session
    PROVE  ShellPlace'
  BY DEF TypeInv, ShellTypes, ShellPlace, Taken, Selecting, At

LEMMA PushDoes ==
    ASSUME TypeInv, shell.at # "select", NEW kind \in {"?", "$I"}, push_query(kind),
           NEW c \in Clients, NEW q, Among(queries', <<c, q>>)
    PROVE  Among(queries, <<c, q>>) \/ (shell.os = c /\ q = kind)
  <1>1. CASE queries' = queries
    BY <1>1
  <1>2. CASE queries' = Append(queries, <<shell.os, kind>>)
    <2>1. queries \in Seq(Queries) /\ <<shell.os, kind>> \in Queries
      BY DEF TypeInv, QueueTypes, ShellTypes, Queries
    <2>2. Among(queries, <<c, q>>) \/ <<c, q>> = <<shell.os, kind>>
      BY <1>2, <2>1, InAppend
    <2> QED BY <2>2
  <1> QED BY <1>1, <1>2 DEF push_query

LEMMA StreamQueries ==
    ASSUME TypeInv, StreamInv, RealtimeQuery \/ InstantQuery \/ Unlock
    PROVE  StreamInv'
  <1> USE DEF clientVars, streamVars, writeVars, shellVars
  <1>1. PICK item \in {"?", "$I", "$X"} :
             /\ Next1(item) /\ Taken(IF item = "$X" THEN "puts" ELSE "buffer", Tail(buf))
             /\ IF item = "$X" THEN UNCHANGED queries ELSE push_query(item)
             /\ done' \subseteq done
             /\ UNCHANGED <<clientVars, arrived, session, alive, closed, gc, inbox, commandVars>>
    BY DEF RealtimeQuery, InstantQuery, Unlock, clear_flags
  <1> DEFINE place == IF item = "$X" THEN "puts" ELSE "buffer"
  <1>2. shell.at = "buffer"
    BY <1>1 DEF Next1
  <1>3. ShellPlace'
    BY <1>1, <1>2, ShellPlaceTaken DEF StreamInv, Control
  <1>4. ASSUME NEW c \in Clients
        PROVE  /\ \A x : shell'.os = c /\ Among(buf', x) => shell.os = c /\ Among(buf, x)
               /\ shell'.os = c => shell.os = c /\ (Unique(buf, "line") => Unique(buf', "line"))
               /\ InShell(c)' => InShell(c)
               /\ shell.os = c => Among(buf, item)
    <2>1. Taken(place, Tail(buf)) /\ Next1(item) /\ place \in {"puts", "buffer"}
      BY <1>1
    <2> HIDE DEF place
    <2> QED BY <2>1, BufferTaken DEF InShell
  <1>5. ASSUME NEW c \in Clients, NEW q \in {"?", "$I"}, Among(queries', <<c, q>>)
        PROVE  Among(queries, <<c, q>>) \/ (shell.os = c /\ Among(buf, q))
    <2>1. CASE item = "$X"
      BY <1>1, <1>5, <2>1
    <2>2. CASE item # "$X"
      BY <1>1, <1>2, <1>4, <1>5, <2>2, PushDoes
    <2> QED BY <2>1, <2>2
  <1> QED BY <1>1, <1>3, <1>4, <1>5, QuietSteps

(* A message of the shell thread, and the rest of a buffer that is dropped. *)
LEMMA StreamMessages ==
    ASSUME TypeInv, StreamInv, ShellPuts \/ GiveUp
    PROVE  StreamInv'
  <1> USE DEF clientVars, streamVars, writeVars, shellVars
  <1>1. PICK place \in {"buffer", "resubmit"}, rest \in {buf, <<>>} :
             /\ Taken(place, rest) /\ shell.at # "select"
             /\ place = "resubmit" => shell.at = "submit"
             /\ UNCHANGED <<clientVars, arrived, session, alive, done, closed, gc, inbox, queries,
                            commandVars>>
    BY DEF ShellPuts, GiveUp
  <1>2. ShellPlace'
    BY <1>1, ShellPlaceTaken DEF StreamInv, Control
  <1>3. ASSUME NEW c \in Clients
        PROVE  /\ \A x : shell'.os = c /\ Among(buf', x) => shell.os = c /\ Among(buf, x)
               /\ shell'.os = c => shell.os = c /\ (Unique(buf, "line") => Unique(buf', "line"))
               /\ InShell(c)' => InShell(c)
    <2>1. buf' = rest /\ (shell' = Selecting \/ shell' = At(place, shell.os)) /\ c # Usb
      BY <1>1, Limits DEF Taken
    <2> QED BY <1>1, <2>1, InEmpty DEF InShell, Selecting, At
  <1> QED BY <1>1, <1>2, <1>3, QuietSteps

LEMMA StreamWrites ==
    ASSUME TypeInv, StreamInv, NEW c \in Clients, NEW place, process_writes(c, place),
           session[c] = "open", shell.os \in {c, Usb},
           UNCHANGED <<clientVars, arrived, inbox, queries, commandVars>>
    PROVE  StreamInv'
  <1>1. CASE WriteMessage(c, place)
    <2>1. UNCHANGED <<session, alive, done, closed, gc, shell, buf>>
      BY <1>1 DEF WriteMessage, streamVars
    <2> QED BY <2>1, QuietSteps DEF StreamInv, Control, ShellPlace, InShell
  <1>2. CASE tx[c] > 0 /\ c \in hung /\ close_shell(c)
    BY <1>2, StreamClose
  <1> QED BY <1>1, <1>2 DEF process_writes

(* A line goes from the buffer to the message queue.                       *)
LEMMA StreamNewline ==
    ASSUME TypeInv, StreamInv, Newline
    PROVE  StreamInv'
  <1> USE DEF clientVars, streamVars, writeVars, shellVars, commandVars
  <1>1. /\ Next1("line") /\ Taken("submit", Tail(buf)) /\ clear_flags(shell.os)
        /\ UNCHANGED <<clientVars, arrived, session, alive, closed, gc, inbox, queries,
                       commandVars>>
    BY DEF Newline
  <1>2. shell.at = "buffer" /\ shell' = At("submit", shell.os) /\ buf' = Tail(buf)
    BY <1>1 DEF Next1, Taken
  <1>3. Control'
    BY <1>1, <1>2, ShellPlaceTaken DEF StreamInv, Control, CommandPlace, Printing
  <1>4. Ring'
    BY <1>1 DEF StreamInv, Ring
  <1>5. ASSUME NEW c \in Clients PROVE OneLine(c)' /\ Settled(c)' /\ Life(c)'
    <2>1. OneLine(c) /\ Settled(c) /\ Life(c)
      BY DEF StreamInv
    <2>2. /\ shell'.os = shell.os /\ shell'.at = "submit"
          /\ \A x : shell.os = c /\ Among(buf', x) => Among(buf, x)
          /\ shell.os = c /\ Unique(buf, "line") => Unique(buf', "line") /\ ~Among(buf', "line")
          /\ shell.os = c => Among(buf, "line")
      BY <1>1, <1>2, BufferTaken DEF At
    <2>3. OneLine(c)'
      BY <1>1, <1>2, <2>1, <2>2 DEF OneLine, UniqueLines, Submitted, InSocket, InBuffer, InShell,
                                     InQueue, InThread, Running
    <2>4. Asking(c)' => Asking(c)
      BY <1>1, <2>2 DEF Asking
    <2>5. c # shell.os => (Submitted(c)' => Submitted(c)) /\ (Unused(c) => Unused(c)')
      BY <1>1, <2>2 DEF Submitted, InShell, InQueue, InThread, Running, Unused, Queried
    <2>6. Settled(c)'
      BY <1>1, <2>1, <2>4, <2>5 DEF Settled, clear_flags
    <2>7. c = shell.os => session[c] = "open"
      BY <1>2 DEF StreamInv, Control, ShellPlace
    <2>8. Life(c)'
      BY <1>1, <2>1, <2>5, <2>7 DEF Life
    <2> QED BY <2>3, <2>6, <2>8
  <1> QED BY <1>3, <1>4, <1>5 DEF StreamInv

LEMMA StreamSubmit ==
    ASSUME TypeInv, StreamInv, Submit
    PROVE  StreamInv'
  <1> USE DEF clientVars, streamVars, writeVars, shellVars, commandVars
  <1>1. /\ shell.at \in {"submit", "resubmit"} /\ Taken("buffer", buf)
        /\ inbox' = Append(inbox, shell.os)
        /\ UNCHANGED <<clientVars, arrived, session, alive, done, closed, gc, queries, commandVars>>
    BY DEF Submit
  <1>2. Control'
    BY <1>1, ShellPlaceTaken DEF StreamInv, Control, CommandPlace, Printing
  <1>3. Ring'
    BY <1>1 DEF StreamInv, Ring
  <1>4. ASSUME NEW c \in Clients PROVE OneLine(c)' /\ Settled(c)' /\ Life(c)'
    <2>1. OneLine(c) /\ Settled(c) /\ Life(c)
      BY DEF StreamInv
    <2>2. /\ shell'.os = c => shell.os = c
          /\ buf' = buf /\ shell'.at \in {"select", "buffer"}
      BY <1>1, Limits DEF Taken, Selecting, At
    <2>3. /\ Among(inbox', c) <=> Among(inbox, c) \/ shell.os = c
          /\ Unique(inbox, c) /\ (shell.os # c \/ ~Among(inbox, c)) => Unique(inbox', c)
      BY <1>1, InAppend DEF TypeInv, QueueTypes, ShellTypes
    <2>4. OneLine(c)'
      BY <1>1, <2>1, <2>2, <2>3 DEF OneLine, UniqueLines, Submitted, InSocket, InBuffer, InShell,
                                     InQueue, InThread, Running
    <2>5. Asking(c)' => Asking(c)
      BY <1>1, <2>2 DEF Asking
    <2>6. Submitted(c)' => Submitted(c)
      BY <1>1, <2>2, <2>3 DEF Submitted, InShell, InQueue, InThread, Running
    <2>7. Settled(c)' /\ Life(c)'
      BY <1>1, <2>1, <2>5, <2>6 DEF Settled, Life, Unused, Queried
    <2> QED BY <2>4, <2>7
  <1> QED BY <1>2, <1>3, <1>4 DEF StreamInv

LEMMA StreamShell == ASSUME TypeInv, StreamInv, ShellStep PROVE StreamInv'
  <1>1. CASE ResubmitWrites
    <2>1. shell.os \in Clients /\ session[shell.os] = "open"
      BY <1>1 DEF ResubmitWrites, TypeInv, ShellTypes, StreamInv, Control, ShellPlace
    <2> QED BY <1>1, <2>1, StreamWrites DEF ResubmitWrites
  <1> QED BY <1>1, StreamQueries, StreamMessages, StreamNewline, StreamSubmit DEF ShellStep

-----------------------------------------------------------------------------
(* The clients, and their sockets.                                         *)

LEMMA StreamSends ==
    ASSUME Patient, TypeInv, StreamInv, NEW k \in Clients, NEW item \in Items,
           ClientSends(k, item)
    PROVE  StreamInv'
  <1> USE DEF clientVars, streamVars, writeVars, shellVars, commandVars
  <1>1. Control' /\ Ring'
    BY DEF ClientSends, StreamInv, Control, ShellPlace, CommandPlace, Printing, Ring
  <1>2. ASSUME NEW c \in Clients PROVE OneLine(c)' /\ Settled(c)' /\ Life(c)'
    <2>1. OneLine(c) /\ Settled(c) /\ Life(c)
      BY DEF StreamInv
    <2>2. /\ arrived \in [Clients -> Seq(Items)] /\ items \in [Clients -> Nat]
          /\ sent \in [Clients -> Nat]
      BY DEF TypeInv, ClientTypes
    <2>3. /\ Submitted(c)' <=> Submitted(c)
          /\ InBuffer(c)' <=> InBuffer(c)
          /\ InShell(c)' <=> InShell(c)
          /\ InQueue(c)' <=> InQueue(c)
          /\ InThread(c)' <=> InThread(c)
          /\ Unused(c)' <=> Unused(c)
      BY DEF ClientSends, Submitted, InBuffer, InShell, InQueue, InThread, Running, Unused, Queried
    <2>4. Life(c)'
      BY <2>1, <2>3 DEF Life, ClientSends
    <2>5. CASE c # k
      <3>1. arrived'[c] = arrived[c] /\ items'[c] = items[c] /\ sent'[c] = sent[c]
        BY <2>2, <2>5 DEF ClientSends
      <3>2. Asking(c)' => Asking(c)
        BY <3>1 DEF Asking, ClientSends
      <3>3. OneLine(c)'
        BY <2>1, <2>3, <3>1 DEF OneLine, UniqueLines, InSocket, ClientSends
      <3>4. Settled(c)'
        BY <2>1, <2>3, <3>1, <3>2 DEF Settled, ClientSends
      <3> QED BY <2>4, <3>3, <3>4
    <2>6. CASE c = k
      <3>1. /\ arrived'[c] = Append(arrived[c], item) /\ items'[c] = items[c] + 1
            /\ sent'[c] = (IF item = "line" THEN sent[c] + 1 ELSE sent[c])
            /\ c \notin hung
        BY <2>2, <2>6 DEF ClientSends
      <3>2. arrived[c] \in Seq(Items) /\ items[c] \in Nat /\ sent[c] \in Nat
        BY <2>2
      <3>3. /\ \A x : Among(arrived'[c], x) <=> Among(arrived[c], x) \/ x = item
            /\ Unique(arrived[c], "line") /\ ("line" # item \/ ~Among(arrived[c], "line"))
                   => Unique(arrived'[c], "line")
        BY <3>1, <3>2, InAppend
      <3>4. item = "line" => sent[c] = served[c] /\ ~Asking(c)
        BY <2>6 DEF ClientSends, MaySend
      <3>5. CASE item = "line"
        <4>1. sent'[c] # served'[c] \/ ~(sent[c] = served[c])
          BY <3>1, <3>2, <3>5 DEF ClientSends
        <4>2. OneLine(c)'
          BY <2>1, <2>3, <3>3, <3>4, <3>5, <4>1 DEF OneLine, UniqueLines, InSocket, ClientSends
        <4>3. ~Asking(c)'
          BY <3>3, <3>4, <3>5 DEF Asking, ClientSends
        <4>4. ~Submitted(c)'
          BY <2>1, <2>3, <3>4, <3>5 DEF OneLine
        <4>5. Settled(c)'
          BY <2>1, <3>1, <3>2, <3>5, <4>3, <4>4 DEF Settled
        <4> QED BY <2>4, <4>2, <4>5
      <3>6. CASE item # "line"
        <4>1. OneLine(c)'
          BY <2>1, <2>3, <3>1, <3>3, <3>6 DEF OneLine, UniqueLines, InSocket, ClientSends
        <4>2. items'[c] > sent'[c] /\ c \notin hung'
          BY <2>1, <3>1, <3>2, <3>6 DEF Settled, ClientSends
        <4>3. Settled(c)'
          BY <3>1, <3>2, <3>6, <4>2 DEF Settled
        <4> QED BY <2>4, <4>1, <4>3
      <3> QED BY <3>5, <3>6
    <2> QED BY <2>5, <2>6
  <1> QED BY <1>1, <1>2 DEF StreamInv

LEMMA StreamHangUp ==
    ASSUME Patient, TypeInv, StreamInv, NEW k \in Clients, HangUp(k)
    PROVE  StreamInv'
  <1> USE DEF clientVars, streamVars, writeVars, shellVars, commandVars
  <1>1. Control' /\ Ring'
    BY DEF HangUp, StreamInv, Control, ShellPlace, CommandPlace, Printing, Ring
  <1>2. ASSUME NEW c \in Clients PROVE OneLine(c)' /\ Settled(c)' /\ Life(c)'
    <2>1. OneLine(c) /\ Settled(c) /\ Life(c)
      BY DEF StreamInv
    <2>2. /\ Submitted(c)' <=> Submitted(c)
          /\ Unused(c)' <=> Unused(c)
          /\ Asking(c)' <=> Asking(c)
      BY DEF HangUp, Submitted, InShell, InQueue, InThread, Running, Unused, Queried, Asking
    <2>3. OneLine(c)'
      BY <2>1 DEF OneLine, UniqueLines, Submitted, InSocket, InBuffer, InShell, InQueue, InThread,
                  Running, HangUp
    <2>4. c = k => ~Asking(c) /\ (items[c] = sent[c] \/ ~Submitted(c)) /\ session[c] = "open"
      BY <2>1 DEF HangUp, MayHangUp, OneLine
    <2>5. Settled(c)'
      BY <2>1, <2>2, <2>4 DEF Settled, HangUp
    <2>6. Life(c)'
      BY <2>1, <2>2, <2>4 DEF Life, HangUp
    <2> QED BY <2>3, <2>5, <2>6
  <1> QED BY <1>1, <1>2 DEF StreamInv

LEMMA StreamAccept ==
    ASSUME TypeInv, StreamInv, NEW k \in Clients, Accept(k)
    PROVE  StreamInv'
  <1> USE DEF clientVars, streamVars, writeVars, shellVars, commandVars
  <1>1. session' = [session EXCEPT ![k] = "open"] /\ alive' = alive \cup {k}
        /\ session \in [Clients -> {"none", "open", "closed"}]
    BY DEF Accept, TypeInv, SessionTypes
  <1>2. Control' /\ Ring'
    BY <1>1 DEF Accept, StreamInv, Control, ShellPlace, CommandPlace, Printing, Ring, Selecting, At
  <1>3. ASSUME NEW c \in Clients PROVE OneLine(c)' /\ Settled(c)' /\ Life(c)'
    <2>1. OneLine(c) /\ Settled(c) /\ Life(c)
      BY DEF StreamInv
    <2>2. /\ Submitted(c)' <=> Submitted(c)
          /\ Unused(c)' <=> Unused(c)
          /\ Asking(c)' <=> Asking(c)
      BY DEF Accept, Submitted, InShell, InQueue, InThread, Running, Unused, Queried, Asking
    <2>3. OneLine(c)' /\ Settled(c)'
      BY <2>1, <2>2 DEF OneLine, Settled, UniqueLines, Submitted, InSocket, InBuffer, InShell,
                        InQueue, InThread, Running, Accept
    <2>4. Life(c)'
      <3>1. c = k => session[c] = "none" /\ session'[c] = "open" /\ c \in alive'
        BY <1>1 DEF Accept
      <3>2. c # k => session'[c] = session[c] /\ (c \in alive' <=> c \in alive)
        BY <1>1
      <3> QED BY <2>1, <2>2, <3>1, <3>2 DEF Life, Accept
    <2> QED BY <2>3, <2>4
  <1> QED BY <1>2, <1>3 DEF StreamInv

LEMMA StreamRead ==
    ASSUME TypeInv, StreamInv, NEW k \in Clients, ReadReady(k)
    PROVE  StreamInv'
  <1> USE DEF clientVars, streamVars, writeVars, shellVars, commandVars
  <1>1. /\ shell.os = Usb /\ shell.at = "select" /\ shell'.os = k /\ shell'.at = "buffer"
        /\ session[k] = "open" /\ buf' = arrived[k]
        /\ arrived' = [arrived EXCEPT ![k] = <<>>] /\ arrived \in [Clients -> Seq(Items)]
    BY DEF ReadReady, Selecting, At, TypeInv, ClientTypes
  <1>2. Control' /\ Ring'
    BY <1>1 DEF ReadReady, StreamInv, Control, ShellPlace, CommandPlace, Printing, Ring
  <1>3. ASSUME NEW c \in Clients PROVE OneLine(c)' /\ Settled(c)' /\ Life(c)'
    <2>1. OneLine(c) /\ Settled(c) /\ Life(c) /\ c # Usb
      BY Limits DEF StreamInv
    <2>2. /\ Submitted(c)' <=> Submitted(c)
          /\ Unused(c)' <=> Unused(c)
      BY <1>1, <2>1 DEF ReadReady, Submitted, InShell, InQueue, InThread, Running, Unused, Queried
    <2>3. /\ c = k => arrived'[c] = <<>>
          /\ c # k => arrived'[c] = arrived[c]
      BY <1>1
    <2>4. Asking(c)' => Asking(c)
      BY <1>1, <2>1, <2>3, InEmpty DEF ReadReady, Asking
    <2>5. UniqueLines(c)' /\ (InSocket(c)' => InSocket(c)) /\ (InBuffer(c)' => InSocket(c))
          /\ ~(InSocket(c)' /\ InBuffer(c)')
      BY <1>1, <2>1, <2>3, InEmpty DEF OneLine, UniqueLines, InSocket, InBuffer, ReadReady
    <2>6. /\ InShell(c)' <=> InShell(c)
          /\ InQueue(c)' <=> InQueue(c)
          /\ InThread(c)' <=> InThread(c)
          /\ UNCHANGED <<sent, served, items, hung, done, session, alive, closed>>
      BY <1>1, <2>1 DEF ReadReady, InShell, InQueue, InThread, Running
    <2>7. OneLine(c)'
      BY <2>1, <2>2, <2>5, <2>6 DEF OneLine
    <2>8. Settled(c)' /\ Life(c)'
      BY <2>1, <2>2, <2>4, <2>6 DEF Settled, Life
    <2> QED BY <2>7, <2>8
  <1> QED BY <1>2, <1>3 DEF StreamInv

LEMMA StreamServe ==
    ASSUME TypeInv, StreamInv, NEW c \in Clients, Serve(c)
    PROVE  StreamInv'
  <1> USE DEF clientVars, streamVars, writeVars, shellVars, commandVars
  <1>0. Selecting.os = Usb
    BY DEF Selecting, At
  <1>1. CASE WriteReady(c)
    <2>1. CASE process_writes(c, "select")
      BY <1>0, <1>1, <2>1, StreamWrites DEF WriteReady
    <2>2. CASE ~process_writes(c, "select")
      <3>1. UNCHANGED <<clientVars, arrived, session, alive, done, closed, gc, shell, buf, inbox,
                        queries, commandVars>>
        BY <1>1, <2>2 DEF WriteReady
      <3> QED BY <3>1, QuietSteps DEF StreamInv, Control, ShellPlace, InShell
    <2> QED BY <2>1, <2>2
  <1>2. CASE ReadReady(c)
    BY <1>2, StreamRead
  <1>3. CASE ReadClose(c)
    BY <1>0, <1>3, StreamClose DEF ReadClose
  <1> QED BY <1>1, <1>2, <1>3 DEF Serve

-----------------------------------------------------------------------------
(* The command thread, and the timer.                                      *)

(* A step of it that takes no line and ends none: a stream it marks as done *)
(* is that of a query.                                                     *)
LEMMA CommandQuiet ==
    ASSUME StreamInv, CommandPlace',
           UNCHANGED <<clientVars, arrived, alive, closed, shellVars, served>>,
           \A c \in Clients :
               /\ InQueue(c)' => InQueue(c)
               /\ Unique(inbox, c) => Unique(inbox', c)
               /\ InThread(c)' => InThread(c)
               /\ Asking(c)' => Asking(c)
               /\ c \in done' => c \in done \/ Asking(c)
               /\ Unused(c) => Unused(c)'
    PROVE  StreamInv'
  <1> USE DEF clientVars, shellVars
  <1>1. Control' /\ Ring'
    BY DEF StreamInv, Control, ShellPlace, Ring
  <1>2. ASSUME NEW c \in Clients PROVE OneLine(c)' /\ Settled(c)' /\ Life(c)'
    <2>1. OneLine(c) /\ Settled(c) /\ Life(c)
      BY DEF StreamInv
    <2>2. Submitted(c)' => Submitted(c)
      BY DEF Submitted, InShell
    <2>3. OneLine(c)'
      BY <2>1, <2>2 DEF OneLine, UniqueLines, InSocket, InBuffer, InShell
    <2>4. Settled(c)' /\ Life(c)'
      BY <2>1, <2>2 DEF Settled, Life
    <2> QED BY <2>3, <2>4
  <1> QED BY <1>1, <1>2 DEF StreamInv

LEMMA StreamUsb ==
    ASSUME TypeInv, StreamInv, UsbSends
    PROVE  StreamInv'
  <1> USE DEF clientVars, streamVars, writeVars, shellVars, commandVars
  <1>1. CommandPlace'
    BY DEF UsbSends, StreamInv, Control, CommandPlace, Printing
  <1>2. ASSUME NEW c \in Clients
        PROVE  /\ Among(inbox', c) => Among(inbox, c)
               /\ Unique(inbox, c) => Unique(inbox', c)
    BY Limits, InAppend DEF UsbSends, TypeInv, QueueTypes, Streams
  <1> QED BY <1>1, <1>2, CommandQuiet DEF UsbSends, InQueue, InThread, Running, Asking, Unused,
                                           Submitted, InShell, Queried

LEMMA StreamReceive ==
    ASSUME TypeInv, StreamInv, Receive
    PROVE  StreamInv'
  <1> USE DEF clientVars, streamVars, writeVars, shellVars, commandVars
  <1>1. Control' /\ Ring'
    BY DEF Receive, StreamInv, Control, ShellPlace, CommandPlace, Printing, Ring
  <1>2. ASSUME NEW c \in Clients PROVE OneLine(c)' /\ Settled(c)' /\ Life(c)'
    <2>1. OneLine(c) /\ Settled(c) /\ Life(c)
      BY DEF StreamInv
    <2>2. /\ InQueue(c) <=> c = current' \/ InQueue(c)'
          /\ Unique(inbox, c) => Unique(inbox', c) /\ (c = current' => ~InQueue(c)')
      BY InTail DEF Receive, TypeInv, QueueTypes, InQueue
    <2>3. /\ InThread(c)' <=> c = current'
          /\ ~InThread(c)
          /\ InShell(c)' <=> InShell(c)
          /\ InSocket(c)' <=> InSocket(c)
          /\ InBuffer(c)' <=> InBuffer(c)
      BY DEF Receive, InThread, Running, InShell, InSocket, InBuffer
    <2>4. UniqueLines(c)' /\ Unique(inbox, c)
      BY <2>1, <2>2 DEF OneLine, UniqueLines, Receive
    <2>5. Submitted(c)' <=> Submitted(c)
      BY <2>2, <2>3 DEF Submitted
    <2>6. OneLine(c)'
      BY <2>1, <2>2, <2>3, <2>4, <2>5 DEF OneLine, Receive
    <2>7. Asking(c)' => Asking(c)
      BY DEF Receive, Asking
    <2>8. Settled(c)' /\ Life(c)'
      BY <2>1, <2>5, <2>7 DEF Settled, Life, Unused, Queried, Receive
    <2> QED BY <2>6, <2>8
  <1> QED BY <1>1, <1>2 DEF StreamInv

LEMMA StreamSetDone ==
    ASSUME TypeInv, StreamInv, SetDone
    PROVE  StreamInv'
  <1> USE DEF clientVars, streamVars, writeVars, shellVars, commandVars
  <1>1. Control' /\ Ring'
    BY DEF SetDone, StreamInv, Control, ShellPlace, CommandPlace, Printing, Ring
  <1>2. ASSUME NEW c \in Clients PROVE OneLine(c)' /\ Settled(c)' /\ Life(c)'
    <2>1. OneLine(c) /\ Settled(c) /\ Life(c)
      BY DEF StreamInv
    <2>2. /\ InThread(c) <=> c = current
          /\ ~InThread(c)'
          /\ InShell(c)' <=> InShell(c)
          /\ InQueue(c)' <=> InQueue(c)
          /\ InSocket(c)' <=> InSocket(c)
          /\ InBuffer(c)' <=> InBuffer(c)
          /\ UniqueLines(c)' <=> UniqueLines(c)
      BY DEF SetDone, InThread, Running, InShell, InQueue, InSocket, InBuffer, UniqueLines
    <2>3. c # current => served'[c] = served[c]
      BY DEF SetDone
    <2>4. Submitted(c)' => Submitted(c) /\ c # current
      BY <2>1, <2>2 DEF OneLine, Submitted
    <2>5. OneLine(c)'
      BY <2>1, <2>2, <2>3, <2>4 DEF OneLine, Submitted, SetDone
    <2>6. Asking(c)' => Asking(c)
      BY DEF SetDone, Asking
    <2>7. Settled(c)'
      BY <2>1, <2>4, <2>6 DEF Settled, SetDone, set_done
    <2>8. Life(c)'
      BY <2>1, <2>4 DEF Life, Unused, Queried, SetDone
    <2> QED BY <2>5, <2>7, <2>8
  <1> QED BY <1>1, <1>2 DEF StreamInv

LEMMA StreamAnswer ==
    ASSUME TypeInv, StreamInv, AnswerQuery
    PROVE  StreamInv'
  <1> USE DEF clientVars, streamVars, writeVars, shellVars, commandVars
  <1> DEFINE q == Head(queries)
  <1>1. /\ q \in Queries
        /\ \A x : Among(queries, x) <=> x = q \/ Among(queries', x)
    BY InTail DEF AnswerQuery, TypeInv, QueueTypes
  <1>2. q = <<q[1], q[2]>> /\ q[1] \in Clients /\ q[2] \in {"?", "$I"}
    BY <1>1 DEF Queries
  <1>3. /\ writing' = NotWriting \/ writing'.os = q[1]
        /\ current' = (IF pc = "idle" THEN q[1] ELSE current)
        /\ pc \in {"output", "idle"} /\ ~Printing
        /\ \A s : s \in done' => s \in done
        /\ UNCHANGED <<clientVars, arrived, alive, closed, shellVars, inbox, pc, served>>
    BY DEF AnswerQuery, Write, clear_flags
  <1> HIDE DEF q
  <1>4. CommandPlace'
    BY <1>3 DEF CommandPlace, Printing
  <1>5. ASSUME NEW c \in Clients
        PROVE  /\ InThread(c)' <=> InThread(c)
               /\ Asking(c)' => Asking(c)
               /\ Unused(c) => Unused(c)'
    <2>1. c = q[1] => Queried(c) /\ Asking(c)
      BY <1>1, <1>2 DEF Queried, Asking
    <2>2. InThread(c)' <=> InThread(c)
      BY <1>3 DEF InThread, Running
    <2>3. writing'.os = c => c = q[1]
      BY <1>3, Limits DEF NotWriting
    <2>4. Asking(c)' => Asking(c)
      BY <1>1, <1>3, <2>1, <2>3 DEF Asking
    <2>5. Unused(c) => Unused(c)'
      BY <1>1, <1>3, <2>1, <2>2, <2>3 DEF Unused, Submitted, InShell, InQueue, Queried
    <2> QED BY <2>2, <2>4, <2>5
  <1> QED BY <1>3, <1>4, <1>5, CommandQuiet DEF InQueue

(* The other steps of the command thread.                                  *)
LEMMA StreamPrint ==
    ASSUME TypeInv, StreamInv, Dispatch \/ PrintPart \/ write_back \/ Idle \/ EndIdle
    PROVE  StreamInv'
  <1> USE DEF clientVars, streamVars, writeVars, shellVars, commandVars
  <1>1. UNCHANGED <<clientVars, arrived, alive, closed, shellVars, inbox, queries, served>>
    BY DEF Dispatch, PrintPart, write_back, Idle, EndIdle
  <1>2. CommandPlace
    BY DEF StreamInv, Control
  <1>3. writing' = writing \/ writing' = NotWriting
        \/ writing'.os = IF PrintPart THEN current ELSE writing.os
    BY DEF Dispatch, PrintPart, write_back, Idle, EndIdle, Write
  <1>4. CommandPlace'
    <2>1. CASE Dispatch \/ PrintPart
      BY <2>1 DEF CommandPlace, Dispatch, PrintPart
    <2>2. CASE write_back
      BY <1>2, <2>2 DEF CommandPlace, Printing, write_back, Write
    <2>3. CASE Idle \/ EndIdle
      BY <1>2, <2>3 DEF CommandPlace, Printing, Idle, EndIdle
    <2> QED BY <2>1, <2>2, <2>3
  <1>5. ASSUME NEW c \in Clients
        PROVE  /\ InThread(c)' => InThread(c)
               /\ Asking(c)' => Asking(c)
               /\ c \in done' => c \in done \/ Asking(c)
               /\ Unused(c) => Unused(c)'
    <2>0. c # Usb /\ NotWriting.os = Usb
      BY Limits DEF NotWriting
    <2>1. InThread(c)' => InThread(c)
      BY <1>2, <2>0 DEF InThread, Running, Dispatch, PrintPart, write_back, Idle, EndIdle,
                        CommandPlace
    <2>2. writing'.os = c => writing.os = c \/ (PrintPart /\ current = c)
      BY <1>3, <2>0
    <2>3. Unused(c) => Unused(c)'
      BY <1>1, <2>1, <2>2 DEF Unused, Submitted, InShell, InQueue, InThread, Running, Queried,
                              PrintPart
    <2>4. c \in done' => c \in done \/ Asking(c)
      BY DEF Dispatch, PrintPart, write_back, Idle, EndIdle, clear_flags, set_done, Asking
    <2>5. Asking(c)' => Asking(c)
      <3>1. CASE Dispatch
        BY <1>1, <1>2, <2>0, <3>1 DEF Asking, Dispatch, CommandPlace
      <3>2. CASE PrintPart
        BY <1>1, <2>2, <3>2 DEF Asking, PrintPart, Printing
      <3>3. CASE write_back
        BY <1>1, <1>3, <2>0, <3>3 DEF Asking, write_back, PrintPart
      <3>4. CASE Idle \/ EndIdle
        BY <1>1, <1>2, <2>0, <3>4 DEF Asking, Idle, EndIdle, CommandPlace
      <3> QED BY <3>1, <3>2, <3>3, <3>4
    <2> QED BY <2>1, <2>3, <2>4, <2>5
  <1> QED BY <1>1, <1>4, <1>5, CommandQuiet DEF InQueue

LEMMA StreamCommand == ASSUME TypeInv, StreamInv, CommandStep PROVE StreamInv'
  BY StreamReceive, StreamSetDone, StreamAnswer, StreamPrint DEF CommandStep

LEMMA StreamCollected ==
    ASSUME TypeInv, StreamInv, os_garbage_collector
    PROVE  StreamInv'
  <1> USE DEF clientVars, streamVars, writeVars, shellVars, commandVars
  <1> DEFINE g == Head(gc)
  <1>1. /\ gc # <<>> /\ g \in done /\ alive' = alive \ {g} /\ gc' = Tail(gc)
        /\ gc \in Seq(Clients)
    BY DEF os_garbage_collector, TypeInv, RingTypes
  <1>2. /\ DOMAIN gc = 1 .. Len(gc) /\ Len(gc) \in Nat /\ Len(gc) >= 1 /\ g = gc[1]
        /\ DOMAIN gc' = 1 .. Len(gc) - 1
        /\ \A i \in 1 .. Len(gc) - 1 : gc'[i] = gc[i + 1]
    BY <1>1
  <1> HIDE DEF g
  <1>3. Ring
    BY DEF StreamInv
  <1>4. g \in closed /\ g \in Clients
    BY <1>1, <1>2, <1>3 DEF Ring
  <1>5. Control'
    BY <1>1, <1>4, Limits DEF os_garbage_collector, StreamInv, Control, ShellPlace, CommandPlace,
                              Printing
  <1>6. Ring'
    <2>1. \A i \in DOMAIN gc' : i + 1 \in DOMAIN gc /\ i + 1 # 1 /\ i \in Nat /\ gc'[i] = gc[i + 1]
      BY <1>2
    <2>2. 1 \in DOMAIN gc /\ closed' = closed
      BY <1>2 DEF os_garbage_collector
    <2>3. ASSUME NEW i \in DOMAIN gc' PROVE gc'[i] \in alive' \cap closed'
      BY <1>1, <1>2, <1>3, <2>1, <2>2 DEF Ring
    <2>4. ASSUME NEW i \in DOMAIN gc', NEW j \in DOMAIN gc', i # j PROVE gc'[i] # gc'[j]
      <3>1. i + 1 # j + 1
        BY <2>1, <2>4
      <3> QED BY <1>3, <2>1, <3>1 DEF Ring
    <2> QED BY <2>3, <2>4 DEF Ring
  <1>7. ASSUME NEW c \in Clients PROVE OneLine(c)' /\ Settled(c)' /\ Life(c)'
    <2>1. OneLine(c) /\ Settled(c) /\ Life(c)
      BY DEF StreamInv
    <2>2. /\ Submitted(c)' <=> Submitted(c)
          /\ Unused(c)' <=> Unused(c)
          /\ Asking(c)' <=> Asking(c)
      BY DEF os_garbage_collector, Submitted, InShell, InQueue, InThread, Running, Unused, Queried,
             Asking
    <2>3. OneLine(c)' /\ Settled(c)'
      BY <2>1, <2>2 DEF OneLine, Settled, UniqueLines, Submitted, InSocket, InBuffer, InShell,
                        InQueue, InThread, Running, os_garbage_collector
    <2>4. c = g => session[c] = "closed" /\ Unused(c)
      <3>1. c = g => session[c] = "closed" /\ c \in hung /\ c \in done
        BY <1>1, <1>4, <2>1 DEF Life
      <3> QED BY <2>1, <3>1, DoneIsUnused DEF StreamInv, TypeInv, CommandTypes
    <2>5. c # g => (c \in alive' <=> c \in alive)
      BY <1>1
    <2>6. Life(c)'
      BY <2>1, <2>2, <2>4, <2>5 DEF Life, os_garbage_collector
    <2> QED BY <2>3, <2>6
  <1> QED BY <1>5, <1>6, <1>7 DEF StreamInv

LEMMA StreamNext == ASSUME Patient PROVE TypeInv /\ StreamInv /\ [Next]_vars => StreamInv'
  <1> SUFFICES ASSUME TypeInv, StreamInv, [Next]_vars PROVE StreamInv'
    OBVIOUS
  <1>1. CASE UNCHANGED vars
    BY <1>1, QuietSteps DEF vars, clientVars, streamVars, writeVars, shellVars, commandVars,
                            StreamInv, Control, ShellPlace, InShell
  <1> QED BY <1>1, StreamSends, StreamHangUp, StreamAccept, StreamServe, StreamUsb, StreamShell,
             StreamCommand, StreamCollected DEF Next

(* With clients that wait for their answers no stream is deleted that      *)
(* somebody will still use: that of a line or a query that waits, of the   *)
(* line being executed, of a write that is under way, or one in the ring,  *)
(* for any clients, lengths of the queues and of the rings, and answers.   *)
THEOREM StreamsOutlive ==
    ASSUME Patient
    PROVE  Spec => []StreamsOutliveRequests
  <1>1. TypeInv /\ StreamInv => StreamsOutliveRequests
    <2> SUFFICES ASSUME TypeInv, StreamInv PROVE StreamsOutliveRequests
      OBVIOUS
    <2>1. ASSUME NEW c \in Streams, c = Usb \/ ~Unused(c) PROVE c \in alive
      <3>1. CASE c = Usb
        BY <3>1 DEF StreamInv, Control
      <3>2. CASE c # Usb
        <4>1. c \in Clients /\ session[c] \in {"none", "open", "closed"}
          BY <3>2 DEF Streams, TypeInv, SessionTypes
        <4> QED BY <2>1, <3>2, <4>1 DEF StreamInv, Life
      <3> QED BY <3>1, <3>2
    <2>2. Running => current \in alive
      BY <2>1 DEF TypeInv, CommandTypes, Unused, Submitted, InThread
    <2>3. writing.os \in alive
      BY <2>1 DEF TypeInv, CommandTypes, Unused
    <2>4. ASSUME NEW i \in DOMAIN inbox PROVE inbox[i] \in alive
      BY <2>1 DEF TypeInv, QueueTypes, Unused, Submitted, InQueue, Among
    <2>5. ASSUME NEW i \in DOMAIN queries PROVE queries[i][1] \in alive
      <3>1. queries[i] \in Queries
        BY DEF TypeInv, QueueTypes
      <3>2. /\ queries[i] = <<queries[i][1], queries[i][2]>>
            /\ queries[i][1] \in Streams /\ queries[i][2] \in {"?", "$I"}
        BY <3>1 DEF Queries, Streams
      <3>3. Queried(queries[i][1])
        BY <3>2 DEF Queried, Among
      <3> QED BY <2>1, <3>2, <3>3 DEF Unused
    <2> QED BY <2>2, <2>3, <2>4, <2>5 DEF StreamsOutliveRequests, StreamInv, Ring
  <1> QED BY TypeInit, TypeNext, StreamInit, StreamNext, <1>1, PTL DEF Spec

-----------------------------------------------------------------------------
(* Where the line of a client is that has not been executed.               *)

Somewhere(c) == InSocket(c) \/ InBuffer(c) \/ Submitted(c)
LineInv == \A c \in Clients :
               session[c] # "closed" => sent[c] = served[c] + Count(Somewhere(c))

LEMMA LineInit == Init => LineInv
  <1> SUFFICES ASSUME Init, NEW c \in Clients
               PROVE  sent[c] = 0 /\ served[c] = 0 /\ ~Somewhere(c)
    BY DEF LineInv, Count
  <1>1. /\ arrived[c] = <<>> /\ buf = <<>> /\ inbox = <<>> /\ shell.at = "select"
        /\ pc = "receive" /\ sent[c] = 0 /\ served[c] = 0
    BY DEF Init, Selecting, At
  <1> QED BY <1>1, InEmpty DEF Somewhere, InSocket, InBuffer, Submitted, InShell, InQueue, InThread,
                               Running

(* Of an open session only a line that is sent, and one that is executed,  *)
(* changes whether there is one.                                           *)
LEMMA ShellKeepsLines ==
    ASSUME TypeInv, StreamInv, ShellStep, NEW c \in Clients, session'[c] # "closed"
    PROVE  /\ Somewhere(c)' <=> Somewhere(c)
           /\ UNCHANGED <<sent, served>>
  <1> USE DEF clientVars, streamVars, writeVars, shellVars, commandVars
  <1>0. c # Usb
    BY Limits
  <1>1. ASSUME NEW place \in {"buffer", "puts", "submit"}, NEW item \in Items, Next1(item),
               Taken(place, Tail(buf)), item = "line" <=> place = "submit",
               UNCHANGED <<arrived, inbox, pc, current>>
        PROVE  Somewhere(c)' <=> Somewhere(c)
    <2>1. buf \in Seq(Items) /\ buf # <<>> /\ item = Head(buf) /\ shell.at = "buffer"
      BY <1>1 DEF TypeInv, ShellTypes, Next1
    <2>2. Among(buf, "line") <=> item = "line" \/ Among(buf', "line")
      BY <1>1, <2>1, InTail DEF Taken
    <2>3. CASE shell' = At(place, shell.os)
      BY <1>1, <2>1, <2>2, <2>3 DEF Somewhere, InSocket, InBuffer, Submitted, InShell, InQueue,
                                    InThread, Running, At
    <2>4. CASE shell' = Selecting /\ place = "buffer" /\ buf' = <<>>
      BY <1>0, <1>1, <2>1, <2>2, <2>4, InEmpty DEF Somewhere, InSocket, InBuffer, Submitted, InShell,
                                                   InQueue, InThread, Running, At, Selecting
    <2> QED BY <1>1, <2>3, <2>4 DEF Taken
  <1>2. CASE RealtimeQuery \/ InstantQuery \/ Unlock \/ Newline
    BY <1>1, <1>2 DEF RealtimeQuery, InstantQuery, Unlock, Newline, Items
  <1>3. CASE ShellPuts
    <2>1. /\ buf' = buf /\ shell.at = "puts"
          /\ shell' = At("buffer", shell.os) \/ (shell' = Selecting /\ buf = <<>>)
      BY <1>3 DEF ShellPuts, Taken
    <2> QED BY <1>0, <1>3, <2>1, InEmpty DEF ShellPuts, Somewhere, InSocket, InBuffer, Submitted,
                                             InShell, InQueue, InThread, Running, At, Selecting
  <1>4. CASE Submit
    <2>1. /\ buf' = buf /\ shell.at \in {"submit", "resubmit"}
          /\ shell' = At("buffer", shell.os) \/ (shell' = Selecting /\ buf = <<>>)
      BY <1>4 DEF Submit, Taken
    <2>2. Among(inbox', c) <=> Among(inbox, c) \/ c = shell.os
      BY <1>4, InAppend DEF Submit, TypeInv, QueueTypes, ShellTypes
    <2> QED BY <1>0, <1>4, <2>1, <2>2, InEmpty DEF Submit, Somewhere, InSocket, InBuffer, Submitted,
                                                   InShell, InQueue, InThread, Running, At, Selecting
  <1>5. CASE GiveUp
    <2>1. shell' = At("resubmit", shell.os) /\ shell.at = "submit"
      BY <1>5 DEF GiveUp, Taken
    <2> QED BY <1>5, <2>1 DEF GiveUp, Somewhere, InSocket, InBuffer, Submitted, InShell, InQueue,
                              InThread, Running, At
  <1>6. CASE ResubmitWrites
    <2>1. CASE close_shell(shell.os)
      <3>1. c # shell.os
        BY <1>6, <2>1 DEF close_shell, TypeInv, SessionTypes
      <3> QED BY <1>0, <1>6, <2>1, <3>1 DEF ResubmitWrites, close_shell, Somewhere, InSocket, InBuffer,
                                            Submitted, InShell, InQueue, InThread, Running, At,
                                            Selecting
    <2>2. CASE WriteMessage(shell.os, "resubmit")
      BY <1>6, <2>2 DEF ResubmitWrites, WriteMessage, Somewhere, InSocket, InBuffer, Submitted,
                        InShell, InQueue, InThread, Running
    <2> QED BY <1>6, <2>1, <2>2 DEF ResubmitWrites, process_writes
  <1>7. UNCHANGED <<sent, served>>
    BY DEF ShellStep, RealtimeQuery, InstantQuery, Unlock, ShellPuts, Newline, Submit, GiveUp,
           ResubmitWrites
  <1> QED BY <1>2, <1>3, <1>4, <1>5, <1>6, <1>7 DEF ShellStep

LEMMA ServeKeepsLines ==
    ASSUME TypeInv, NEW k \in Clients, Serve(k), NEW c \in Clients
    PROVE  /\ Somewhere(c)' <=> Somewhere(c)
           /\ UNCHANGED <<sent, served>>
  <1> USE DEF clientVars, streamVars, writeVars, shellVars, commandVars
  <1>1. c # Usb /\ shell.at = "select" /\ shell.os = Usb
    BY Limits DEF Serve, WriteReady, ReadReady, ReadClose, Selecting, At
  <1>2. CASE WriteReady(k) \/ ReadClose(k)
    <2>1. /\ shell'.at = "select" /\ shell'.os = Usb
          /\ UNCHANGED <<arrived, buf, inbox, pc, current, sent, served>>
      BY <1>1, <1>2 DEF WriteReady, ReadClose, process_writes, WriteMessage, close_shell, Selecting,
                        At
    <2> QED BY <1>1, <2>1 DEF Somewhere, InSocket, InBuffer, Submitted, InShell, InQueue, InThread,
                              Running
  <1>3. CASE ReadReady(k)
    <2>1. /\ arrived \in [Clients -> Seq(Items)] /\ arrived' = [arrived EXCEPT ![k] = <<>>]
          /\ buf' = arrived[k] /\ shell'.at = "buffer" /\ shell'.os = k
          /\ UNCHANGED <<inbox, pc, current, sent, served>>
      BY <1>3 DEF TypeInv, ClientTypes, ReadReady, At
    <2>2. IF c = k THEN arrived'[c] = <<>> ELSE arrived'[c] = arrived[c]
      BY <2>1
    <2> QED BY <1>1, <2>1, <2>2, InEmpty DEF Somewhere, InSocket, InBuffer, Submitted, InShell,
                                             InQueue, InThread, Running
  <1> QED BY <1>2, <1>3 DEF Serve

LEMMA CommandKeepsLines ==
    ASSUME TypeInv, StreamInv, CommandStep, NEW c \in Clients
    PROVE  /\ Somewhere(c)' <=> Somewhere(c) /\ ~(SetDone /\ c = current)
           /\ sent' = sent
           /\ ~(SetDone /\ c = current) => served'[c] = served[c]
           /\ SetDone /\ c = current => Somewhere(c) /\ served'[c] = served[c] + 1
  <1> USE DEF clientVars, streamVars, writeVars, shellVars, commandVars
  <1>1. UNCHANGED <<arrived, shell, buf, sent>>
    BY DEF CommandStep, Receive, Dispatch, PrintPart, AnswerQuery, write_back, SetDone, Idle, EndIdle
  <1>2. /\ InSocket(c)' <=> InSocket(c)
        /\ InBuffer(c)' <=> InBuffer(c)
        /\ InShell(c)' <=> InShell(c)
    BY <1>1 DEF InSocket, InBuffer, InShell
  <1>3. CommandPlace /\ OneLine(c) /\ c # Usb
    BY Limits DEF StreamInv, Control
  <1>4. CASE Receive
    <2>1. Among(inbox, c) <=> c = Head(inbox) \/ Among(Tail(inbox), c)
      BY <1>4, InTail DEF Receive, TypeInv, QueueTypes
    <2> QED BY <1>1, <1>2, <1>4, <2>1 DEF Receive, SetDone, Somewhere, Submitted, InQueue, InThread,
                                         Running
  <1>5. CASE SetDone
    <2>1. CASE c = current
      <3>1. InThread(c) /\ ~InThread(c)' /\ (InQueue(c)' <=> InQueue(c)) /\ served'[c] = served[c] + 1
        BY <1>5, <2>1 DEF SetDone, InThread, InQueue, Running
      <3> QED BY <1>1, <1>2, <1>3, <1>5, <2>1, <3>1 DEF Somewhere, Submitted, OneLine
    <2>2. CASE c # current
      BY <1>1, <1>2, <1>5, <2>2 DEF SetDone, Somewhere, Submitted, InQueue, InThread, Running
    <2> QED BY <2>1, <2>2
  <1>6. CASE Dispatch \/ PrintPart \/ AnswerQuery \/ write_back \/ Idle \/ EndIdle
    <2>1. /\ UNCHANGED <<inbox, served>> /\ ~SetDone
          /\ (Running /\ current = c)' <=> Running /\ current = c
      BY <1>3, <1>6 DEF Dispatch, PrintPart, AnswerQuery, write_back, Idle, EndIdle, SetDone, Running,
                        CommandPlace
    <2> QED BY <1>1, <1>2, <2>1 DEF Somewhere, Submitted, InQueue, InThread
  <1> QED BY <1>4, <1>5, <1>6 DEF CommandStep

LEMMA LineNext == ASSUME Patient PROVE TypeInv /\ StreamInv /\ LineInv /\ [Next]_vars => LineInv'
  <1> SUFFICES ASSUME TypeInv, StreamInv, LineInv, [Next]_vars, NEW c \in Clients,
                      session'[c] # "closed"
               PROVE  sent'[c] = served'[c] + Count(Somewhere(c)')
    BY DEF LineInv, Count
  <1> USE DEF clientVars, streamVars, writeVars, shellVars, commandVars
  <1>1. sent[c] \in Nat /\ served[c] \in Nat /\ OneLine(c)
    BY DEF TypeInv, ClientTypes, StreamInv
  <1>2. ASSUME session[c] # "closed", Somewhere(c)' <=> Somewhere(c), sent'[c] = sent[c],
               served'[c] = served[c]
        PROVE  sent'[c] = served'[c] + Count(Somewhere(c)')
    BY <1>2 DEF LineInv, Count
  <1>3. CASE ShellStep
    <2>1. session[c] # "closed"
      BY <1>3 DEF ShellStep, RealtimeQuery, InstantQuery, Unlock, ShellPuts, Newline, Submit, GiveUp,
                  ResubmitWrites, process_writes, WriteMessage, close_shell, TypeInv, SessionTypes
    <2> QED BY <1>2, <1>3, <2>1, ShellKeepsLines
  <1>4. ASSUME NEW k \in Clients, Serve(k)
        PROVE  sent'[c] = served'[c] + Count(Somewhere(c)')
    <2>1. session[c] # "closed"
      BY <1>4 DEF Serve, WriteReady, ReadReady, ReadClose, process_writes, WriteMessage, close_shell,
                  TypeInv, SessionTypes
    <2> QED BY <1>2, <1>4, <2>1, ServeKeepsLines
  <1>5. CASE CommandStep
    <2>1. session[c] # "closed"
      BY <1>5 DEF CommandStep, Receive, Dispatch, PrintPart, AnswerQuery, write_back, SetDone, Idle,
                  EndIdle
    <2>2. CASE SetDone /\ c = current
      <3>1. Somewhere(c) /\ ~Somewhere(c)' /\ sent'[c] = sent[c] /\ served'[c] = served[c] + 1
        BY <1>5, <2>2, CommandKeepsLines
      <3>2. sent[c] = served[c] + 1
        BY <2>1, <3>1 DEF LineInv, Count
      <3> QED BY <1>1, <3>1, <3>2 DEF Count
    <2>3. CASE ~(SetDone /\ c = current)
      BY <1>2, <1>5, <2>1, <2>3, CommandKeepsLines
    <2> QED BY <2>2, <2>3
  <1>6. ASSUME NEW k \in Clients, NEW item \in Items, ClientSends(k, item)
        PROVE  sent'[c] = served'[c] + Count(Somewhere(c)')
    <2>1. /\ arrived \in [Clients -> Seq(Items)] /\ sent \in [Clients -> Nat]
          /\ session[c] # "closed" /\ served' = served
      BY <1>6 DEF TypeInv, ClientTypes, ClientSends
    <2>2. /\ InBuffer(c)' <=> InBuffer(c)
          /\ Submitted(c)' <=> Submitted(c)
      BY <1>6 DEF ClientSends, InBuffer, Submitted, InShell, InQueue, InThread, Running
    <2>3. CASE c = k
      <3>1. /\ InSocket(c)' <=> InSocket(c) \/ item = "line"
            /\ sent'[c] = (IF item = "line" THEN sent[c] + 1 ELSE sent[c])
        <4>1. /\ arrived[c] \in Seq(Items) /\ arrived'[c] = Append(arrived[c], item)
              /\ sent'[c] = (IF item = "line" THEN sent[c] + 1 ELSE sent[c])
          BY <1>6, <2>1, <2>3 DEF ClientSends
        <4> QED BY <4>1, InAppend DEF InSocket
      <3>2. CASE item = "line"
        <4>1. sent[c] = served[c] /\ Somewhere(c)'
          BY <1>6, <2>3, <3>1, <3>2 DEF ClientSends, MaySend, Somewhere
        <4> QED BY <1>1, <2>1, <3>1, <3>2, <4>1 DEF Count
      <3>3. CASE item # "line"
        BY <1>2, <2>1, <2>2, <3>1, <3>3 DEF Somewhere
      <3> QED BY <3>2, <3>3
    <2>4. CASE c # k
      <3>1. arrived'[c] = arrived[c] /\ sent'[c] = sent[c]
        BY <1>6, <2>1, <2>4 DEF ClientSends
      <3> QED BY <1>2, <2>1, <2>2, <3>1 DEF Somewhere, InSocket
    <2> QED BY <2>3, <2>4
  <1>7. ASSUME NEW k \in Clients, HangUp(k) \/ Accept(k)
        PROVE  sent'[c] = served'[c] + Count(Somewhere(c)')
    <2>1. session[c] # "closed"
      BY <1>7 DEF HangUp, Accept, TypeInv, SessionTypes
    <2> QED BY <1>2, <1>7, <2>1 DEF HangUp, Accept, Somewhere, InSocket, InBuffer, Submitted, InShell,
                                    InQueue, InThread, Running
  <1>8. CASE UsbSends
    <2>1. Among(inbox', c) <=> Among(inbox, c)
      BY <1>8, Limits, InAppend DEF UsbSends, TypeInv, QueueTypes, Streams
    <2> QED BY <1>2, <1>8, <2>1 DEF UsbSends, Somewhere, InSocket, InBuffer, Submitted, InShell,
                                    InQueue, InThread, Running
  <1>9. CASE os_garbage_collector \/ UNCHANGED vars
    BY <1>2, <1>9 DEF vars, os_garbage_collector, Somewhere, InSocket, InBuffer, Submitted, InShell,
                      InQueue, InThread, Running
  <1> QED BY <1>3, <1>4, <1>5, <1>6, <1>7, <1>8, <1>9 DEF Next

(* What is in a sequence once at most is counted by whether it is in it.   *)
LEMMA NumberOfUnique ==
    ASSUME NEW seq, NEW x, Unique(seq, x)
    PROVE  Number(seq, x) = Count(Among(seq, x))
  <1> DEFINE P == {i \in DOMAIN seq : seq[i] = x}
  <1>1. CASE Among(seq, x)
    <2>1. PICK i \in DOMAIN seq : seq[i] = x
      BY <1>1 DEF Among
    <2>2. P = {i}
      BY <2>1 DEF Unique
    <2> QED BY <1>1, <2>2, FS_Singleton DEF Number, Count
  <1>2. CASE ~Among(seq, x)
    <2>1. P = {}
      BY <1>2 DEF Among
    <2> QED BY <1>2, <2>1, FS_EmptySet DEF Number, Count
  <1> QED BY <1>1, <1>2

(* With clients that wait for their answers the line of an open session is  *)
(* in one place from when it is sent to when it has been executed, and in  *)
(* no second one, whatever is sent again because the message queue was     *)
(* full, for any clients, queues and answers.                              *)
THEOREM LinesAreAccounted ==
    ASSUME Patient
    PROVE  Spec => \A c \in Clients : []LineAccounted(c)
  <1> SUFFICES ASSUME NEW c \in Clients
               PROVE  Spec => []LineAccounted(c)
    OBVIOUS
  <1>1. TypeInv /\ StreamInv /\ LineInv => LineAccounted(c)
    <2> SUFFICES ASSUME TypeInv, StreamInv, LineInv, session[c] = "open"
                 PROVE  LineAccounted(c)
      BY DEF LineAccounted
    <2>1. OneLine(c) /\ sent[c] = served[c] + Count(Somewhere(c)) /\ served[c] \in Nat
      BY DEF StreamInv, LineInv, TypeInv, ClientTypes
    <2>2. /\ Number(arrived[c], "line") = Count(InSocket(c))
          /\ (IF shell.os = c THEN Number(buf, "line") ELSE 0) = Count(InBuffer(c))
          /\ Number(inbox, c) = Count(InQueue(c))
      BY <2>1, NumberOfUnique DEF OneLine, UniqueLines, InSocket, InBuffer, InQueue, Count
    <2>3. Count(Somewhere(c)) = Count(InSocket(c)) + Count(InBuffer(c)) + Count(InShell(c))
                                + Count(InQueue(c)) + Count(InThread(c))
      BY <2>1 DEF OneLine, Somewhere, Submitted, Count
    <2>4. /\ Count(InSocket(c)) \in Nat /\ Count(InBuffer(c)) \in Nat /\ Count(InShell(c)) \in Nat
          /\ Count(InQueue(c)) \in Nat /\ Count(InThread(c)) \in Nat
      BY DEF Count
    <2> HIDE DEF InShell, InThread
    <2>5. /\ Count(shell.os = c /\ shell.at \in {"submit", "resubmit"}) = Count(InShell(c))
          /\ Count(Running /\ current = c) = Count(InThread(c))
      BY DEF InShell, InThread
    <2> QED BY <2>1, <2>2, <2>3, <2>4, <2>5 DEF LineAccounted
  <1> QED BY TypeInit, TypeNext, StreamInit, StreamNext, LineInit, LineNext, <1>1, PTL DEF Spec
=============================================================================
