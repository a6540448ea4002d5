-------------------------------- MODULE Lexer --------------------------------
(***************************************************************************)
(* From the characters of a source file to the parser, and back to a line  *)
(* of the file when an error is reported: TextReader (text_reader.cpp),    *)
(* Lexer (lexer.cpp), the loop over the declarations of a module           *)
(* (AST::parse, ast.cpp) and report_token (token.cpp).                     *)
(*                                                                         *)
(* The lexer holds a window of three tokens: the last one taken, the       *)
(* current one, and one that was looked ahead to. The parser is any        *)
(* sequence of calls of the lexer in which a declaration takes at least    *)
(* one token and none takes the end of the file. Each token is an interval *)
(* of offsets; keywords are words, and operators are told apart by their   *)
(* length alone.                                                           *)
(***************************************************************************)
EXTENDS Naturals, Sequences, FiniteSets

CONSTANTS
    Sources    \* the source files considered: sequences of characters

ASSUME LexerAssumption ==
    \A s \in Sources : Len(s) \in Nat /\ DOMAIN s = 1..Len(s)

VARIABLES
    source,    \* the contents of the file
    window,    \* the lexer: m_last_token, m_current_token, m_next_token, and
               \* the offset of its reader
    begun,     \* the last token when the declaration under way began
    status,    \* where the compilation of the file is
    culprit,   \* the token of the error being reported
    report     \* report_token: the offset of its reader and the line found

vars == <<source, window, begun, status, culprit, report>>

-----------------------------------------------------------------------------
(* Characters: TextReader *)

\* A character is a string of length one, or NUL. Each class has one or two members
\* here that stand for all.
Blank == {" ", "\n"}
Digit == {"1"}
Identifier == {"x", "n"} \cup Digit
Escapable == {"n", "\\", "\"", "'"}
Operator ==
    {<<"=">>, <<"=", "=">>, <<"/">>, <<"/", "=">>, <<".">>, <<".", ".">>,
     <<".", ".", "=">>, <<".", ".", ".">>, <<"{">>}

Size == Len(source)

\* peek and peek_next. The place behind the file is read as well: it holds 0.
At(o) == IF o < Size THEN source[o + 1] ELSE "NUL"

LeastOf(S) == CHOOSE o \in S : \A p \in S : o <= p

\* The first offset from o on that is behind the file or holds (does not hold) a
\* character of S.
To(o, S) == LeastOf({p \in o..Size : p = Size \/ At(p) \in S})
Past(o, S) == LeastOf({p \in o..Size : p = Size \/ At(p) \notin S})

\* The line the reader is in at offset o.
Line(o) == 1 + Cardinality({p \in 1..o : At(p - 1) = "\n"})

-----------------------------------------------------------------------------
(* Tokens: Lexer::advance_one *)

\* A fault: one slash begins a comment.
StartAtSlash[o \in 0..Size] ==
    LET p == Past(o, Blank)
    IN  IF At(p) = "/" THEN StartAtSlash[To(p, {"\n"})] ELSE p

\* Blanks and comments are skipped.
Start[o \in 0..Size] ==
    LET p == Past(o, Blank)
    IN  IF At(p) = "/" /\ At(p + 1) = "/" THEN Start[To(p, {"\n"})] ELSE p

\* The closing quote of a string: an escaped one does not close it.
Quote[o \in 0..Size] ==
    IF o = Size \/ At(o) = "\"" THEN o
    ELSE Quote[IF At(o) = "\\" /\ At(o + 1) \in Escapable THEN o + 2 ELSE o + 1]

\* An error token is handed to the parser as any other.
DigitFrom(p) ==
    LET q == Past(p, Digit)
    IN  IF ~(At(q) = "." /\ At(q + 1) # ".") THEN <<"integer", q>>
        ELSE IF At(q + 1) \in Digit THEN <<"decimal", Past(q + 1, Digit)>>
        ELSE <<"error", q + 1>>

StringFrom(p) ==
    LET q == Quote[p + 1]
    IN  IF q < Size THEN <<"string", q + 1>> ELSE <<"error", q>>

\* A fault: the character is taken without a test for the end of the file.
CharFromUnchecked(p) ==
    LET r == IF At(p + 1) = "\\" /\ At(p + 2) \in Escapable THEN p + 3 ELSE p + 2
    IN  IF At(r) = "'" THEN <<"char", r + 1>> ELSE <<"error", r>>

CharFrom(p) ==
    LET q == IF p + 1 < Size THEN p + 2 ELSE p + 1
        r == IF At(q - 1) = "\\" /\ At(q) \in Escapable THEN q + 1 ELSE q
    IN  IF At(r) = "'" THEN <<"char", r + 1>> ELSE <<"error", r>>

\* The longest operator at p.
OperatorFrom(p) ==
    LET S == {op \in Operator : \A k \in DOMAIN op : At(p + k - 1) = op[k]}
    IN  <<"operator", p + Len(CHOOSE op \in S : \A other \in S : Len(other) <= Len(op))>>

\* The type of the token at p, and the offset behind it. For an unexpected character
\* an exception with the token is thrown.
Scan(p) ==
    IF At(p) = "NUL" THEN <<"Eof", IF p < Size THEN p + 1 ELSE p>>
    ELSE IF At(p) \in Digit THEN DigitFrom(p)
    ELSE IF At(p) \in Identifier THEN <<"word", Past(p, Identifier)>>
    ELSE IF At(p) = "\"" THEN StringFrom(p)
    ELSE IF At(p) = "'" THEN CharFrom(p)
    ELSE IF <<At(p)>> \in Operator THEN OperatorFrom(p)
    ELSE <<"unexpected", p + 1>>

\* A fault: one slash begins a comment.
TokenAtSlash(o) ==
    LET p == StartAtSlash[o]
        scanned == Scan(p)
    IN  [type |-> scanned[1], first |-> p, end |-> scanned[2], line |-> Line(scanned[2])]

\* The token advance_one reads when the reader is at offset o. Its location is taken
\* behind it.
TokenAt(o) ==
    LET p == Start[o]
        scanned == Scan(p)
    IN  [type |-> scanned[1], first |-> p, end |-> scanned[2], line |-> Line(scanned[2])]

\* Token{}.
NoToken == [type |-> "none", first |-> 0, end |-> 0, line |-> 0]

-----------------------------------------------------------------------------
(* The window: the operations of Lexer, from a window to the next *)

Advanced(w) ==
    IF w.next # NoToken
    THEN [w EXCEPT !.last = w.current, !.current = w.next, !.next = NoToken]
    ELSE [w EXCEPT !.last = w.current, !.current = TokenAt(w.offset), !.offset = TokenAt(w.offset).end]

Peeked(w) == IF w.current = NoToken THEN Advanced(w) ELSE w

\* A fault: what is looked ahead to is read, but not kept.
PeekedNextUnkept(w) ==
    IF w.next # NoToken THEN w ELSE [w EXCEPT !.offset = TokenAt(w.offset).end]

PeekedNext(w) ==
    IF w.next # NoToken THEN w
    ELSE [w EXCEPT !.next = TokenAt(w.offset), !.offset = TokenAt(w.offset).end]

Matched(w, type) ==
    IF Peeked(w).current.type = type THEN Advanced(Peeked(w)) ELSE Peeked(w)

MatchedNext(w, type) ==
    IF PeekedNext(w).next.type = type THEN Advanced(PeekedNext(w)) ELSE PeekedNext(w)

MatchedBoth(w, a, b) ==
    IF Peeked(w).current.type # a THEN Peeked(w)
    ELSE LET n == PeekedNext(Peeked(w))
         IN  IF n.next.type = b THEN Advanced(Advanced(n)) ELSE n

\* The tokens of the window; one that an exception is thrown with takes the place
\* it would have had.
Held(w) == {w.last, w.current, w.next} \ {NoToken}
Thrown(w) == {t \in Held(w) : t.type = "unexpected"}

\* An error: FrontendError asks report_token for the line of token t.
Fail(t) ==
    /\ status' = "reporting"
    /\ culprit' = t
    /\ report' = [offset |-> 0, line |-> <<0, 0>>]

\* The parser gets window w, unless an exception is thrown.
Call(w, then) ==
    /\ window' = w
    /\ IF Thrown(w) = {} THEN status' = then /\ UNCHANGED <<culprit, report>>
       ELSE Fail(CHOOSE t \in Thrown(w) : TRUE)

-----------------------------------------------------------------------------
(* The parser *)

Init ==
    /\ source \in Sources
    /\ window = [last |-> NoToken, current |-> NoToken, next |-> NoToken, offset |-> 0]
    /\ begun = NoToken
    /\ status = "module"
    /\ culprit = NoToken
    /\ report = [offset |-> 0, line |-> <<0, 0>>]

\* A fault: at_end is off by one.
NextDeclarationEarly ==
    /\ status = "module"
    /\ IF window.offset + 1 >= Size
       THEN status' = "parsed" /\ UNCHANGED <<window, culprit, report>>
       ELSE LET w == MatchedNext(window, "Eof")
            IN  Call(w, IF w.next = NoToken THEN "parsed" ELSE "declaration")
    /\ begun' = window.last
    /\ UNCHANGED source

\* The loop over the declarations: it ends when the reader is at the end, or when the
\* token behind the current one is Eof.
NextDeclaration ==
    /\ status = "module"
    /\ IF window.offset >= Size
       THEN status' = "parsed" /\ UNCHANGED <<window, culprit, report>>
       ELSE LET w == MatchedNext(window, "Eof")
            IN  Call(w, IF w.next = NoToken THEN "parsed" ELSE "declaration")
    /\ begun' = window.last
    /\ UNCHANGED source

Parsing == status = "declaration" /\ UNCHANGED <<source, begun>>

\* Token types the parser asks for.
Asked == {"word", "operator", "integer", "string"}

Match(type) == Parsing /\ Call(Matched(window, type), "declaration")

\* Only an import looks ahead like this, and it takes what it found.
MatchNext(type) == Parsing /\ Call(MatchedNext(window, type), "declaration")

MatchBoth(a, b) == Parsing /\ Call(MatchedBoth(window, a, b), "declaration")

\* A token of another type is an error.
Expect(type) ==
    /\ Parsing
    /\ LET w == Peeked(window)
       IN  IF w.current.type = type \/ Thrown(w) # {} THEN Call(Matched(window, type), "declaration")
           ELSE window' = w /\ Fail(w.current)

\* advance, called for a token that has been looked at. (An attribute takes what is
\* there unseen; at the end of the file it refuses it then.)
Take ==
    /\ Parsing
    /\ window.current # NoToken /\ window.current.type # "Eof"
    /\ Call(Advanced(window), "declaration")

\* An error is thrown with the token in front or the last one taken.
Refuse ==
    /\ Parsing
    /\ \E t \in {window.last, Peeked(window).current} :
         t.type # "unexpected" /\ Fail(t)
    /\ UNCHANGED window

\* A declaration has been parsed.
EndDeclaration ==
    /\ Parsing
    /\ window.last # begun /\ window.last.type # "Eof"
    /\ status' = "module"
    /\ UNCHANGED <<window, culprit, report>>

\* The analysis of the module refuses the node of a token that has been taken.
Analyze ==
    /\ status = "parsed"
    /\ window.last # NoToken /\ window.last.type # "Eof"
    /\ Fail(window.last)
    /\ UNCHANGED <<source, window, begun>>

-----------------------------------------------------------------------------
(* Reporting: report_token *)

\* A fault: the line begins where the reader was synchronised first.
FindLineUnsynced ==
    /\ status = "reporting" /\ Line(report.offset) <= culprit.line
    /\ LET end == To(report.offset, {"\n"})
       IN  report' = [offset |-> Past(end, Blank), line |-> <<0, end - report.offset>>]
    /\ UNCHANGED <<source, window, begun, status, culprit>>

\* A fault: only blanks are skipped, no line feeds.
FindLineBlanksOnly ==
    /\ status = "reporting" /\ Line(report.offset) <= culprit.line
    /\ LET end == To(report.offset, {"\n"})
       IN  report' = [offset |-> Past(end, {" "}), line |-> <<report.offset, end>>]
    /\ UNCHANGED <<source, window, begun, status, culprit>>

\* One round of the loop: a line is kept, and blanks and blank lines are skipped.
FindLine ==
    /\ status = "reporting" /\ Line(report.offset) <= culprit.line
    /\ LET end == To(report.offset, {"\n"})
       IN  report' = [offset |-> Past(end, Blank), line |-> <<report.offset, end>>]
    /\ UNCHANGED <<source, window, begun, status, culprit>>

Reported ==
    /\ status = "reporting" /\ Line(report.offset) > culprit.line
    /\ status' = "reported"
    /\ UNCHANGED <<source, window, begun, culprit, report>>

\* The program has ended, or goes on to other modules.
Stopped == status \in {"parsed", "reported"} /\ UNCHANGED vars

Next ==
    \/ NextDeclaration
    \/ \E type \in Asked : Match(type) \/ MatchNext(type) \/ Expect(type)
    \/ \E a, b \in Asked : MatchBoth(a, b)
    \/ Take
    \/ Refuse
    \/ EndDeclaration
    \/ Analyze
    \/ FindLine
    \/ Reported
    \/ Stopped

Spec == Init /\ [][Next]_vars

\* The compiler is one thread: a report that has begun goes on.
FairSpec == Spec /\ WF_vars(FindLine \/ Reported)
-----------------------------------------------------------------------------
(* Correctness *)

Token ==
    [type : {"none", "Eof", "word", "integer", "decimal", "string", "char", "operator",
             "error", "unexpected"},
     first : 0..Size, end : 0..Size, line : Nat]

\* Every variable has its type; neither reader gets behind the end of the file.
TypeOK ==
    /\ window \in [last : Token, current : Token, next : Token, offset : 0..Size]
    /\ begun \in Token /\ culprit \in Token
    /\ status \in {"module", "declaration", "parsed", "reporting", "reported"}
    /\ report \in [offset : 0..Size, line : (0..Size) \X (0..Size)]

\* The tokens of window w follow each other in the file.
Consecutive(w) ==
    /\ w.current = NoToken => w.last = NoToken
    /\ w.current # NoToken =>
          w.current = TokenAt(IF w.last = NoToken THEN 0 ELSE w.last.end)
    /\ w.next # NoToken =>
          w.next = TokenAt(IF w.current = NoToken THEN 0 ELSE w.current.end)
    /\ w.offset = IF w.next # NoToken THEN w.next.end
                  ELSE IF w.current # NoToken THEN w.current.end ELSE 0

\* Whatever the parser calls, looking ahead and taking what was looked ahead to lose
\* no token and repeat none (Lexer::advance, peek_next and match_next, lexer.cpp).
WindowIsConsecutive == Consecutive(window)

\* What lies between two tokens is blank or in a comment, from two slashes to the
\* end of their line.
OnlyCommentsAreSkipped ==
    \A t \in {window.current, window.next} \ {NoToken} :
        LET before == IF t = window.next THEN window.current.end ELSE window.last.end
        IN  \A o \in before..(t.first - 1) :
              \/ At(o) \in Blank
              \/ \E c \in before..o : /\ At(c) = "/" /\ At(c + 1) = "/"
                                      /\ \A p \in c..o : At(p) # "\n"

\* The loop over the declarations does not leave a part of the file unread: when it
\* ends there is no token behind the window. Yet what is still in the window is
\* dropped without an error: the current token, and, in a file that ends with a
\* token, also the one behind it that an import has looked ahead to.
WindowIsTheRest ==
    status = "parsed" =>
        /\ \/ window.current.type = "Eof"
           \/ TokenAt(window.offset).type = "Eof"
        /\ window.next # NoToken => window.offset = Size

\* The line shown with an error is one that its token ends in, although blank lines
\* and the blanks a line begins with are skipped in one go: unless it is the end of
\* the file or ends with a line feed.
ReportShowsToken ==
    (status = "reported" /\ culprit # NoToken /\ culprit.type # "Eof" /\ At(culprit.end - 1) # "\n") =>
        /\ report.line[1] < culprit.end /\ culprit.end <= report.line[2]
        /\ \A o \in report.line[1]..(report.line[2] - 1) : At(o) # "\n"

\* A report ends when its token is not in the last line: the loop of report_token
\* waits for the line behind it.
EarlierLinesAreReported ==
    (status = "reporting" /\ \E o \in culprit.end..(Size - 1) : At(o) = "\n") ~> (status = "reported")
=============================================================================
