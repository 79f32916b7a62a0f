------------------------------- MODULE MCLineReader -------------------------------
(***************************************************************************)
(* LineReader for TLC: all short streams of line ends, of editing keys, and*)
(* of the two commands that switch the mode.                               *)
(***************************************************************************)
EXTENDS LineStream

Streams(bytes, n) == UNION {[1..m -> bytes] : m \in 0..n}

LineEnds == Streams({"x", "CR", "LF"}, 5)
Keys     == Streams({"x", "TAB", "CR", "BS", "INT", "EOT"}, 4)
Unseen   == Streams({"x", "y", "TAB", "BS"}, 5)
Switches == Streams({"x", "y", "LF"}, 6)

Mixed  == LineEnds \cup Keys \cup Unseen \cup Switches
================================================================================
