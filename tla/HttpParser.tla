------------------------------ MODULE HttpParser ------------------------------
(***************************************************************************)
(* parse_line and parse_requestline, driven as they are meant to be: what  *)
(* a client sends arrives in pieces, parse_line is called until it has no  *)
(* further line, and the first line goes to parse_requestline.             *)
(*                                                                         *)
(* A symbol is a character, or a word whose characters are not looked at   *)
(* one by one: GET, http:// and HTTP/1.1, in any case.  SP is a space or a *)
(* tab, X any other text without a slash.  Indices count from 0, as in C.  *)
(***************************************************************************)
EXTENDS Integers, Sequences

CONSTANT Input      \* what a client may send: a set of sequences of symbols

Symbol == {"CR", "LF", "SP", "GET", "http://", "HTTP/1.1", "/", "X"}

ASSUME HttpParserAssumption == Input \subseteq Seq(Symbol)

VARIABLES
  input,           \* what has not arrived yet
  text,            \* history: what has arrived
  buffer,          \* the same with line ends and separators overwritten by '\0'
  checked_index,   \* read_index is the length of buffer
  status,          \* LINE_STATUS of the last call
  checkstate,
  ret,             \* HTTP_CODE of parse_requestline, "" before
  caller,          \* what the caller does next
  ends             \* history: checked_index after each LINE_OK

vars == <<input, text, buffer, checked_index, status, checkstate, ret, caller, ends>>

TypeOK ==
  /\ input \in Seq(Symbol) /\ text \in Seq(Symbol)
  /\ buffer \in Seq(Symbol \cup {"NUL"}) /\ Len(buffer) = Len(text)
  /\ checked_index \in 0 .. Len(buffer)
  /\ status \in {"LINE_OK", "LINE_BAD", "LINE_OPEN"}
  /\ checkstate \in {"CHECK_STATE_REQUESTLINE", "CHECK_STATE_HEADER"}
  /\ ret \in {"", "NO_REQUEST", "BAD_REQUEST"}
  /\ caller \in {"read", "parse", "done"}
  /\ ends \subseteq Nat

Init ==
  /\ input \in Input
  /\ text = <<>> /\ buffer = <<>> /\ checked_index = 0
  /\ status = "LINE_OPEN" /\ checkstate = "CHECK_STATE_REQUESTLINE" /\ ret = ""
  /\ caller = "read" /\ ends = {}

At(b, i) == b[i + 1]
Least(S) == CHOOSE i \in S : \A j \in S : i <= j
\* b with '\0' at i and i + 1.
Terminate(b, i) == [b EXCEPT ![i + 1] = "NUL", ![i + 2] = "NUL"]

-----------------------------------------------------------------------------
Line(s, b, k) == [status |-> s, buffer |-> b, checked_index |-> k]

\* Defective variant: a CR at the end of what was read counts as looked at.
parse_line_skips_cr(b, k) ==
  LET n == Len(b)
      ends_at == {i \in k .. n - 1 : At(b, i) \in {"CR", "LF"}}
      i == Least(ends_at)
  IN
  CASE ends_at = {} -> Line("LINE_OPEN", b, n)
    [] ends_at # {} /\ At(b, i) = "CR" /\ i + 1 = n -> Line("LINE_OPEN", b, n)
    [] ends_at # {} /\ At(b, i) = "CR" /\ i + 1 < n /\ At(b, i + 1) = "LF" ->
         Line("LINE_OK", Terminate(b, i), i + 2)
    [] ends_at # {} /\ At(b, i) = "LF" /\ i > 1 /\ At(b, i - 1) = "CR" ->
         Line("LINE_OK", Terminate(b, i - 1), i + 1)
    [] OTHER -> Line("LINE_BAD", b, i)

(***************************************************************************)
(* parse_line(b, k, Len(b)): looks for the next CR or LF from k on.        *)
(***************************************************************************)
parse_line(b, k) ==
  LET n == Len(b)
      ends_at == {i \in k .. n - 1 : At(b, i) \in {"CR", "LF"}}
      i == Least(ends_at)
  IN
  CASE ends_at = {} -> Line("LINE_OPEN", b, n)
    [] ends_at # {} /\ At(b, i) = "CR" /\ i + 1 = n -> Line("LINE_OPEN", b, i)
    [] ends_at # {} /\ At(b, i) = "CR" /\ i + 1 < n /\ At(b, i + 1) = "LF" ->
         Line("LINE_OK", Terminate(b, i), i + 2)
    [] ends_at # {} /\ At(b, i) = "LF" /\ i > 1 /\ At(b, i - 1) = "CR" ->
         Line("LINE_OK", Terminate(b, i - 1), i + 1)
    [] OTHER -> Line("LINE_BAD", b, i)

\* strpbrk and strspn: the first i >= k in s that is, or is not, a space; the
\* index after s if there is none.
Find(s, k, space) ==
  Least({i \in k .. Len(s) - 1 : (At(s, i) = "SP") = space} \cup {Len(s)})

\* A '/' is found in u by strchr, or starts it.
HasPath(u) ==
  \/ Head(u) = "/"
  \/ Head(u) = "http://" /\ \E i \in 2 .. Len(u) : u[i] \in {"/", "http://", "HTTP/1.1"}

\* Defective variant: only one space is skipped before the version.
parse_requestline_one_space(s) ==
  LET method_end == Find(s, 0, TRUE)
      url        == Find(s, method_end, FALSE)
      url_end    == Find(s, url, TRUE)
      version    == url_end + 1
  IN
  IF /\ method_end < Len(s)
     /\ SubSeq(s, 1, method_end) = <<"GET">>
     /\ url_end < Len(s)
     /\ SubSeq(s, version + 1, Len(s)) = <<"HTTP/1.1">>
     /\ HasPath(SubSeq(s, url + 1, url_end))
  THEN "NO_REQUEST" ELSE "BAD_REQUEST"

(***************************************************************************)
(* parse_requestline of the string s.                                      *)
(***************************************************************************)
parse_requestline(s) ==
  LET method_end == Find(s, 0, TRUE)
      url        == Find(s, method_end, FALSE)
      url_end    == Find(s, url, TRUE)
      version    == Find(s, url_end, FALSE)
  IN
  IF /\ method_end < Len(s)
     /\ SubSeq(s, 1, method_end) = <<"GET">>
     /\ url_end < Len(s)
     /\ SubSeq(s, version + 1, Len(s)) = <<"HTTP/1.1">>
     /\ HasPath(SubSeq(s, url + 1, url_end))
  THEN "NO_REQUEST" ELSE "BAD_REQUEST"

\* Where parse_requestline ends the method by a '\0' and, if the method is GET,
\* the url.
Separators(s) ==
  LET method_end == Find(s, 0, TRUE)
      url_end    == Find(s, Find(s, method_end, FALSE), TRUE)
  IN {i \in {method_end} \cup (IF SubSeq(s, 1, method_end) = <<"GET">> THEN {url_end} ELSE {}) :
        i < Len(s)}

\* b, which starts with s, after parse_requestline(s).
Separated(b, s) == [i \in DOMAIN b |-> IF i - 1 \in Separators(s) THEN "NUL" ELSE b[i]]

\* The string that starts at index k of b: up to the next '\0'.
CString(b, k) == SubSeq(b, k + 1, Least({i \in k .. Len(b) : i = Len(b) \/ At(b, i) = "NUL"}))

-----------------------------------------------------------------------------
\* The caller: it reads when a line is incomplete, ...
Read(n) ==
  /\ caller = "read"
  /\ n \in 1 .. Len(input)
  /\ text' = text \o SubSeq(input, 1, n)
  /\ buffer' = buffer \o SubSeq(input, 1, n)
  /\ input' = SubSeq(input, n + 1, Len(input))
  /\ caller' = "parse"
  /\ UNCHANGED <<checked_index, status, checkstate, ret, ends>>

\* ... and takes line after line from what it has read, the first of which is
\* the request line.
Parse ==
  LET line == parse_line(buffer, checked_index)
      ok   == line.status = "LINE_OK"
      request == ok /\ checkstate = "CHECK_STATE_REQUESTLINE"
      code == IF request THEN parse_requestline(CString(line.buffer, 0)) ELSE ret
  IN
  /\ caller = "parse"
  /\ status' = line.status
  /\ buffer' = IF request THEN Separated(line.buffer, CString(line.buffer, 0)) ELSE line.buffer
  /\ checked_index' = line.checked_index
  /\ ends' = IF ok THEN ends \cup {line.checked_index} ELSE ends
  /\ ret' = code
  /\ checkstate' = IF code = "NO_REQUEST" THEN "CHECK_STATE_HEADER" ELSE checkstate
  /\ caller' = CASE line.status = "LINE_BAD" \/ code = "BAD_REQUEST" -> "done"
                 [] line.status = "LINE_OPEN" -> "read"
                 [] OTHER -> "parse"
  /\ UNCHANGED <<input, text>>

Next == Parse \/ \E n \in 1 .. Len(input) : Read(n)

Spec == Init /\ [][Next]_vars

-----------------------------------------------------------------------------
\* What the lines of t are, without regard to how t arrived: each ends at the
\* index after a CR LF, and a CR or an LF that is not part of one is a fault.
LineEnds(t) == {i + 2 : i \in {j \in 0 .. Len(t) - 2 : At(t, j) = "CR" /\ At(t, j + 1) = "LF"}}
Faults(t) ==
  {i \in 0 .. Len(t) - 1 :
     \/ At(t, i) = "CR" /\ i + 1 < Len(t) /\ At(t, i + 1) # "LF"
     \/ At(t, i) = "LF" /\ (i = 0 \/ At(t, i - 1) # "CR")}

(***************************************************************************)
(* parse_line finds the same lines and the same fault however the text was *)
(* split into reads, between CR and LF included: those before              *)
(* checked_index are the lines of the text, nothing faulty is behind it,   *)
(* and when it asks for more there is nothing it has missed.               *)
(***************************************************************************)
LinesOfText ==
  /\ ends = {e \in LineEnds(text) : e <= checked_index}
  /\ \A f \in Faults(text) : f >= checked_index
  /\ status = "LINE_BAD" => checked_index \in Faults(text)
  /\ caller = "read" => Faults(text) = {} /\ \A e \in LineEnds(text) : e <= checked_index

\* A request line by its grammar: GET, spaces, a path or http:// and a path,
\* spaces, HTTP/1.1, and nothing before, between or after.
IsRequestLine(s) ==
  \E i, j, k \in 2 .. Len(s) - 1 :
    /\ i < j /\ j < k /\ k + 1 = Len(s)
    /\ s[1] = "GET" /\ s[Len(s)] = "HTTP/1.1"
    /\ \A m \in 2 .. k : s[m] = "SP" <=> m \in (2 .. i) \cup (j + 1 .. k)
    /\ \/ s[i + 1] = "/"
       \/ /\ s[i + 1] = "http://"
          /\ \E m \in i + 2 .. j : s[m] \in {"/", "http://", "HTTP/1.1"}

\* A request is accepted exactly if the first line of what the client sent is a
\* request line; what the line is cut from and terminated with does not show.
AcceptsRequestLines ==
  ret # "" =>
    (ret = "NO_REQUEST") = IsRequestLine(SubSeq(text, 1, Least(LineEnds(text)) - 2))
=============================================================================
