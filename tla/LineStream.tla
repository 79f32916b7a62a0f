------------------------------- MODULE LineStream -------------------------------
(***************************************************************************)
(* What LineReader is for: the lines a byte stream stands for, whatever    *)
(* packets it arrives in.                                                  *)
(***************************************************************************)
EXTENDS LineReader

\* Going through a stream: the lines so far, what there is of the next one, whether the last byte
\* was a CR, and whether the user has logged out.
Start == [done |-> <<>>, cur |-> <<>>, cr |-> FALSE, out |-> FALSE]

\* Batched mode: CR, LF and CR LF each end one line.
Split(s, b) ==
    IF b = "LF" /\ s.cr THEN [s EXCEPT !.cr = FALSE]
    ELSE IF b \in Eol THEN [s EXCEPT !.done = Append(@, s.cur), !.cur = <<>>, !.cr = (b = "CR")]
    ELSE [s EXCEPT !.cur = Append(@, b), !.cr = FALSE]

\* A user who types one key after the other.
Edit(s, b) ==
    CASE s.out                        -> s
      [] ~s.out /\ b \in Eol          -> [s EXCEPT !.done = Append(@, s.cur), !.cur = <<>>]
      [] ~s.out /\ b = "INT"          -> [s EXCEPT !.done = Append(@, <<>>), !.cur = <<>>]
      [] ~s.out /\ b = "BS"           -> IF s.cur = <<>> THEN s ELSE [s EXCEPT !.cur = Front(@)]
      [] ~s.out /\ b = "EOT"          -> [s EXCEPT !.out = (s.cur = <<>>)]
      [] ~s.out /\ b \in Text         -> [s EXCEPT !.cur = Append(@, b)]

\* After the first n bytes.
After(bytes, typing) ==
    LET S[n \in 0..Len(bytes)] ==
          IF n = 0 THEN Start
          ELSE IF typing THEN Edit(S[n - 1], bytes[n]) ELSE Split(S[n - 1], bytes[n])
    IN  S

\* The lines of a stream; a trailing partial line counts.
Whole(s) == IF s.cur = <<>> THEN s.done ELSE Append(s.done, s.cur)
BatchLines(bytes) == Whole(After(bytes, FALSE)[Len(bytes)])
TypedLines(bytes) == Whole(After(bytes, TRUE)[Len(bytes)])

\* The commands among the first n of some lines, and among all of them.
CommandsAmong(s) ==
    LET C[n \in 0..Len(s)] ==
          IF n = 0 THEN <<>> ELSE IF s[n] = <<>> THEN C[n - 1] ELSE Append(C[n - 1], s[n])
    IN  C
Commands(s) == CommandsAmong(s)[Len(s)]

NoSwitch == \A i \in DOMAIN lines : lines[i] \notin {EchoCommand, NoEchoCommand}
NoPairs  == \A i \in 1..(Len(input) - 1) : ~(input[i] = "CR" /\ input[i + 1] = "LF")
NoKeys   == \A i \in DOMAIN input : input[i] \in Text \cup Eol

\* In batched mode the lines handle_shell gets are a function of the bytes the client
\* sent and of nothing else: not of the packets they came in, nor of timeouts in the
\* middle of a line.  The commands among them are, whatever line ends the client uses
\* (what else read_line may return is an empty line), in either mode, and when the client
\* switches between them, as long as it sends one line at a time: no command is lost,
\* split, merged or reordered.
SameLines(got, sent) == IsPrefix(got, sent) /\ (over => got = sent)

LinesOfTheStream ==
    /\ ~asUser /\ NoSwitch /\ NoPairs => SameLines(lines, BatchLines(input))
    /\ (~asUser /\ NoSwitch) \/ (apart /\ NoKeys) =>
            SameLines(Commands(lines), Commands(BatchLines(input)))

\* What the class docstring says: LineReader "yields one submitted line at a time", for
\* an interactive user "byte-by-byte".
EveryLineAsTyped ==
    asUser /\ NoSwitch =>
        /\ IsPrefix(lines, TypedLines(input))
        /\ over => lines = TypedLines(input)

\* A user who types one line at a time, with the editing keys, gets just these lines.
LinesAsTyped == apart => EveryLineAsTyped

\* "The user sees what they type": the screen shows the line that Enter would submit, as long as
\* nothing that is not echoed was typed into it.  Once it was, Backspace may take from the screen
\* another character than from the line; still the screen shows nothing that Enter would not
\* submit, in the order it was typed.  The end of the channel takes the line away.
Part(s, t) ==
    \E at \in [DOMAIN s -> DOMAIN t] :
        \A i \in DOMAIN s : s[i] = t[at[i]] /\ \A j \in DOMAIN s : i < j => at[i] < at[j]
ScreenShowsLine ==
    \/ Part(screen, line) /\ (~unseen => screen = line)
    \/ wire = <<>> /\ data = <<>> /\ line = <<>>

\* The session comes to an end after the last byte of the client.
EndReached == <>over
================================================================================
