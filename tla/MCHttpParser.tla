---------------------------- MODULE MCHttpParser ----------------------------
(* What HttpParser is given to parse under TLC: every short text of line    *)
(* ends and others, alone and behind a request line; and in front of a line *)
(* end, every short line, and every longer one that starts with GET.        *)
EXTENDS HttpParser

CONSTANTS MaxText, MaxLine

UpTo(S, n) == UNION {[1 .. m -> S] : m \in 0 .. n}

Texts    == UpTo({"CR", "LF", "X"}, MaxText)
Requests == {<<"GET", "SP", "/", "SP", "HTTP/1.1", "CR", "LF">> \o t : t \in Texts}

Lines == UpTo(Symbol \ {"CR", "LF"}, 3)
           \cup {<<"GET">> \o s : s \in UpTo(Symbol \ {"CR", "LF", "X"}, MaxLine)}

MCInput == Texts \cup Requests \cup {s \o <<"CR", "LF">> : s \in Lines}
=============================================================================
