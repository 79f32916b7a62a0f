------------------------------- MODULE LineReader -------------------------------
(***************************************************************************)
(* LineReader of clicr_sim.py: the bytes of one channel, which arrive in   *)
(* packets cut anywhere, and the submitted lines read_line makes of them.  *)
(*                                                                         *)
(* A byte is one of its classes: "x" and "y" are printable, CR, LF,        *)
(* BS (or DEL), INT (Ctrl-C), EOT (Ctrl-D), and TAB for all the others     *)
(* (TAB, ESC, the bytes of a character that is not ASCII), which are kept  *)
(* but not echoed.  The line <<"x", "y">> stands for `stty echo` and       *)
(* <<"y", "x">> for `stty -echo`, on which handle_shell switches the mode  *)
(* of its reader.                                                          *)
(***************************************************************************)
EXTENDS Naturals, Sequences, FiniteSets, SequencesExt

CONSTANTS
    Inputs,     \* the byte streams the client may send
    MaxPacket,  \* the most bytes one recv returns
    EchoModes   \* echo_on at the start: TRUE for an interactive user

ASSUME InputsAssumption == \A s \in Inputs : s \in Seq({"x", "y", "TAB", "CR", "LF", "BS", "INT", "EOT"})
ASSUME MaxPacketAssumption == MaxPacket \in Nat \ {0}
ASSUME EchoAssumption == EchoModes \subseteq BOOLEAN

VARIABLES
    input,    \* history: the whole stream
    wire,     \* what of it has not been received yet; the channel ends after it
    echoOn,   \* self.echo_on
    buf,      \* self.buf: received and unread (batched mode)
    skipLf,   \* self._skip_lf
    data,     \* the packet _read_line_echo is going through
    line,     \* self._line: what has been typed (echo mode)
    screen,   \* what the user sees of it, after the prompt
    unseen,   \* history: a byte of this line was not echoed
    asUser,   \* history: echo_on at the start
    apart,    \* history: no packet so far held a line end before its last byte
    lines,    \* history: what read_line returned
    over      \* read_line returned None for the end of the channel, or on logout

vars == <<input, wire, echoOn, buf, skipLf, data, line, screen, unseen, asUser, apart, lines, over>>

Init ==
    /\ input \in Inputs /\ wire = input
    /\ asUser \in EchoModes /\ echoOn = asUser /\ apart = TRUE
    /\ skipLf = FALSE /\ unseen = FALSE /\ over = FALSE
    /\ buf = <<>> /\ data = <<>> /\ line = <<>> /\ screen = <<>> /\ lines = <<>>

Eol  == {"CR", "LF"}
Text == {"x", "y", "TAB"}   \* what is no key
EchoCommand   == <<"x", "y">>
NoEchoCommand == <<"y", "x">>

\* read_line returns l to handle_shell, which obeys the echo switches.
Submit(l) ==
    /\ lines' = Append(lines, l)
    /\ echoOn' = CASE l = EchoCommand -> TRUE [] l = NoEchoCommand -> FALSE [] OTHER -> echoOn

Packet(k) ==
    /\ k <= MaxPacket /\ k <= Len(wire) /\ wire' = SubSeq(wire, k + 1, Len(wire))
    /\ apart' = (apart /\ \A i \in 1..(k - 1) : wire[i] \notin Eol \cup {"INT"})

--------------------------------------------------------------------------------
\* Batched mode.  Each turn of the loop first drops an LF owed to the last line's CR,
\* and forgets about it.
Trimmed == IF skipLf /\ buf # <<>> /\ Head(buf) = "LF" THEN Tail(buf) ELSE buf
Eols    == {i \in DOMAIN Trimmed : Trimmed[i] \in Eol}

\* A terminated line is in the buffer: up to the first CR or LF, with a paired LF.
BatchLine(i) ==
    /\ i \in Eols /\ \A j \in Eols : i <= j
    /\ LET rest == SubSeq(Trimmed, i + 1, Len(Trimmed))
           paired == Trimmed[i] = "CR" /\ rest # <<>> /\ Head(rest) = "LF"
       IN  /\ buf' = IF paired THEN Tail(rest) ELSE rest
           /\ skipLf' = (Trimmed[i] = "CR" /\ ~paired)
    /\ Submit(SubSeq(Trimmed, 1, i - 1))
    /\ UNCHANGED <<wire, apart, data, line, screen, unseen, over>>

BatchReceive(k) ==
    /\ Eols = {} /\ Packet(k)
    /\ buf' = Trimmed \o SubSeq(wire, 1, k) /\ skipLf' = FALSE
    /\ UNCHANGED <<echoOn, data, line, screen, unseen, lines, over>>

\* Mutant: a trailing partial line is dropped.
BatchEndDrops ==
    /\ Eols = {} /\ wire = <<>>
    /\ buf' = <<>> /\ skipLf' = FALSE /\ over' = TRUE
    /\ UNCHANGED <<wire, apart, data, line, screen, unseen, lines, echoOn>>

\* End of the channel: a trailing partial line is submitted, then there is nothing left.
BatchEnd ==
    /\ Eols = {} /\ wire = <<>>
    /\ buf' = <<>> /\ skipLf' = FALSE
    /\ IF Trimmed = <<>> THEN over' = TRUE /\ UNCHANGED <<lines, echoOn>>
                         ELSE Submit(Trimmed) /\ UNCHANGED over
    /\ UNCHANGED <<wire, apart, data, line, screen, unseen>>

\* The idle timeout: read_line returns None and keeps what it has for the next call.
BatchTimeout ==
    /\ Eols = {} /\ wire # <<>>
    /\ buf' = Trimmed /\ skipLf' = FALSE
    /\ UNCHANGED <<wire, apart, echoOn, data, line, screen, unseen, lines, over>>

BatchStep ==
    /\ ~echoOn /\ ~over /\ UNCHANGED <<input, asUser>>
    /\ \/ \E i \in Eols : BatchLine(i)
       \/ \E k \in 1..MaxPacket : BatchReceive(k)
       \/ BatchEnd \/ BatchTimeout

--------------------------------------------------------------------------------
\* Echo mode: one byte of the current packet.  A return leaves the rest of it behind.
EchoReturns(l) ==
    /\ Submit(l) /\ data' = <<>> /\ line' = <<>> /\ screen' = <<>> /\ unseen' = FALSE
    /\ UNCHANGED over

\* Mutant: Ctrl-C submits the line instead of dropping it.
InterruptSubmits == EchoReturns(line)

Interrupt == EchoReturns(<<>>)

\* Mutant: the erased character stays on the screen.
EraseInvisibly ==
    /\ data' = Tail(data)
    /\ line' = (IF line = <<>> THEN line ELSE Front(line))
    /\ UNCHANGED <<echoOn, lines, over, screen, unseen>>

\* One character of the line, and one of the screen, whichever it is.
Erase ==
    /\ data' = Tail(data)
    /\ line'   = IF line = <<>> THEN <<>> ELSE Front(line)
    /\ screen' = IF line = <<>> \/ screen = <<>> THEN screen ELSE Front(screen)
    /\ UNCHANGED <<echoOn, lines, over, unseen>>

EchoByte(b) ==
    \/ b \in Eol /\ EchoReturns(line)
    \/ b = "INT" /\ Interrupt
    \/ b = "BS" /\ Erase
    \/ /\ b = "EOT"
       /\ IF line = <<>> THEN data' = <<>> /\ over' = TRUE ELSE data' = Tail(data) /\ UNCHANGED over
       /\ UNCHANGED <<echoOn, lines, line, screen, unseen>>
    \/ /\ b \in Text /\ data' = Tail(data) /\ line' = Append(line, b)
       /\ screen' = IF b = "TAB" THEN screen ELSE Append(screen, b)
       /\ unseen' = (unseen \/ b = "TAB")
       /\ UNCHANGED <<echoOn, lines, over>>

EchoReceive(k) ==
    /\ data = <<>> /\ Packet(k) /\ data' = SubSeq(wire, 1, k)
    /\ UNCHANGED <<echoOn, line, screen, unseen, lines, over>>

\* Mutant: the end of the channel is not told from a read that came back empty.
EchoEndMissed == data = <<>> /\ wire = <<>> /\ UNCHANGED <<wire, apart, data, lines, line, screen, unseen, echoOn, over>>

\* End of the channel.
EchoEnd ==
    /\ data = <<>> /\ wire = <<>> /\ UNCHANGED <<wire, apart, data>>
    /\ IF line = <<>> THEN over' = TRUE /\ UNCHANGED <<lines, line, echoOn>>
                      ELSE Submit(line) /\ line' = <<>> /\ UNCHANGED over
    /\ UNCHANGED <<screen, unseen>>

EchoStep ==
    /\ echoOn /\ ~over /\ UNCHANGED <<input, asUser, buf, skipLf>>
    /\ \/ data # <<>> /\ EchoByte(Head(data)) /\ UNCHANGED <<wire, apart>>
       \/ \E k \in 1..MaxPacket : EchoReceive(k)
       \/ EchoEnd

Next == BatchStep \/ EchoStep \/ (over /\ UNCHANGED vars)

\* handle_shell calls read_line for as long as the session lasts, and the bytes that were
\* sent do arrive, so that not every wait ends in a timeout.
Spec == Init /\ [][Next]_vars /\ WF_vars(EchoStep)
             /\ WF_vars(BatchStep /\ (wire' # wire \/ lines' # lines \/ over'))

================================================================================
