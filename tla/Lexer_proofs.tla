---------------------------- MODULE Lexer_proofs ----------------------------
(***************************************************************************)
(* The lexer and the report of an error, for every file and every parser.  *)
(*                                                                         *)
(* The first part uses nothing of how a token is read: advance_one returns *)
(* one, from the place where the reader is, and the window holds tokens    *)
(* that follow each other. The second part says where the reader gets to:  *)
(* the recursions of Start and Quote end, because each step of theirs goes *)
(* up in the file, and every token is an interval of it that ends in a     *)
(* blank only at the end of the file or behind two characters. The third   *)
(* part is about the loop of report_token.                                 *)
(***************************************************************************)
EXTENDS Lexer, Lemmas

-----------------------------------------------------------------------------
(* The window *)

\* A window has the four members of a Lexer.
Formed(w) ==
    w = [last |-> w.last, current |-> w.current, next |-> w.next, offset |-> w.offset]

Sound(w) == Formed(w) /\ Consecutive(w)

IInv == Sound(window)

\* What is read is a token.
LEMMA TokenIsRead == ASSUME NEW o PROVE TokenAt(o) # NoToken
<1>1. \A p : Scan(p)[1] # "none"
  <2>1. \A p : DigitFrom(p)[1] # "none"
    BY DEF DigitFrom
  <2>2. \A p : StringFrom(p)[1] # "none"
    BY DEF StringFrom
  <2>3. \A p : CharFrom(p)[1] # "none"
    BY DEF CharFrom
  <2>4. \A p : OperatorFrom(p)[1] # "none"
    BY DEF OperatorFrom
  <2> QED
    BY <2>1, <2>2, <2>3, <2>4 DEF Scan
<1>2. TokenAt(o).type # "none"
  BY <1>1 DEF TokenAt
<1> QED
  BY <1>2 DEF NoToken

\* The same file has the same size, characters and lines.
LEMMA SameFile ==
    ASSUME source' = source
    PROVE  /\ Size' = Size
           /\ \A o : At(o)' = At(o) /\ Line(o)' = Line(o)
           /\ \A o, S : Past(o, S)' = Past(o, S) /\ To(o, S)' = To(o, S)
<1>1. Size' = Size
  BY DEF Size
<1>2. \A p : At(p)' = At(p)
  BY <1>1 DEF At
<1>3. \A p, S : Past(p, S)' = Past(p, S) /\ To(p, S)' = To(p, S)
  BY <1>1, <1>2 DEF Past, To
<1>4. \A p : Line(p)' = Line(p)
  BY <1>2 DEF Line
<1> QED
  BY <1>1, <1>2, <1>3, <1>4

\* The same file has the same tokens.
LEMMA SameTokens == ASSUME NEW o, source' = source PROVE TokenAt(o)' = TokenAt(o)
<1>1. Size' = Size /\ \A p : At(p)' = At(p) /\ Line(p)' = Line(p)
  BY SameFile
<1>2. \A p, S : Past(p, S)' = Past(p, S) /\ To(p, S)' = To(p, S)
  BY SameFile
<1>3. Start' = Start
  BY <1>1, <1>2 DEF Start
<1>4. Quote' = Quote
  BY <1>1 DEF Quote
<1>5. \A p : /\ DigitFrom(p)' = DigitFrom(p) /\ StringFrom(p)' = StringFrom(p)
             /\ CharFrom(p)' = CharFrom(p) /\ OperatorFrom(p)' = OperatorFrom(p)
  BY <1>1, <1>2, <1>4 DEF DigitFrom, StringFrom, CharFrom, OperatorFrom
<1>6. \A p : Scan(p)' = Scan(p)
  BY <1>1, <1>2, <1>5 DEF Scan
<1> QED
  BY <1>1, <1>3, <1>6 DEF TokenAt

LEMMA AdvancedIsSound == ASSUME NEW w, Sound(w) PROVE Sound(Advanced(w))
<1>1. CASE w.next # NoToken
  <2>1. Advanced(w) = [last |-> w.current, current |-> w.next, next |-> NoToken, offset |-> w.offset]
    BY <1>1 DEF Advanced, Sound, Formed
  <2> QED
    BY <1>1, <2>1 DEF Sound, Formed, Consecutive
<1>2. CASE w.next = NoToken
  <2> DEFINE t == TokenAt(w.offset)
  <2>1. t # NoToken
    BY TokenIsRead
  <2>2. t = TokenAt(IF w.current = NoToken THEN 0 ELSE w.current.end)
    BY <1>2 DEF Sound, Consecutive
  <2> HIDE DEF t
  <2>3. Advanced(w) = [last |-> w.current, current |-> t, next |-> NoToken, offset |-> t.end]
    BY <1>2 DEF Advanced, Sound, Formed, t
  <2> QED
    BY <1>2, <2>1, <2>2, <2>3 DEF Sound, Formed, Consecutive
<1> QED
  BY <1>1, <1>2

LEMMA PeekedIsSound == ASSUME NEW w, Sound(w) PROVE Sound(Peeked(w))
  BY AdvancedIsSound DEF Peeked

LEMMA PeekedNextIsSound == ASSUME NEW w, Sound(w) PROVE Sound(PeekedNext(w))
<1>1. CASE w.next # NoToken
  BY <1>1 DEF PeekedNext
<1>2. CASE w.next = NoToken
  <2> DEFINE t == TokenAt(w.offset)
  <2>1. t # NoToken
    BY TokenIsRead
  <2>2. t = TokenAt(IF w.current = NoToken THEN 0 ELSE w.current.end)
    BY <1>2 DEF Sound, Consecutive
  <2> HIDE DEF t
  <2>3. PeekedNext(w) = [last |-> w.last, current |-> w.current, next |-> t, offset |-> t.end]
    BY <1>2 DEF PeekedNext, Sound, Formed, t
  <2> QED
    BY <1>2, <2>1, <2>2, <2>3 DEF Sound, Formed, Consecutive
<1> QED
  BY <1>1, <1>2

LEMMA MatchedIsSound ==
    ASSUME NEW w, Sound(w), NEW a, NEW b
    PROVE  Sound(Matched(w, a)) /\ Sound(MatchedNext(w, a)) /\ Sound(MatchedBoth(w, a, b))
<1>1. Sound(Peeked(w)) /\ Sound(Advanced(Peeked(w)))
  BY PeekedIsSound, AdvancedIsSound
<1>2. Sound(PeekedNext(w)) /\ Sound(Advanced(PeekedNext(w)))
  BY PeekedNextIsSound, AdvancedIsSound
<1>3. Sound(PeekedNext(Peeked(w))) /\ Sound(Advanced(Advanced(PeekedNext(Peeked(w)))))
  BY <1>1, PeekedNextIsSound, AdvancedIsSound
<1> QED
  BY <1>1, <1>2, <1>3 DEF Matched, MatchedNext, MatchedBoth

LEMMA InitSound == Init => IInv
  BY DEF Init, IInv, Sound, Formed, Consecutive, NoToken

\* Each call leaves a window that is sound in the file as it was.
LEMMA NextWindow == IInv /\ [Next]_vars => Sound(window') /\ source' = source
<1> SUFFICES ASSUME IInv, [Next]_vars PROVE Sound(window') /\ source' = source
  OBVIOUS
<1>1. CASE NextDeclaration
  <2>1. window' = window \/ window' = MatchedNext(window, "Eof")
    BY <1>1 DEF NextDeclaration, Call
  <2> QED
    BY <1>1, <2>1, MatchedIsSound DEF IInv, NextDeclaration
<1>2. ASSUME NEW type \in Asked, Match(type) \/ MatchNext(type) \/ Expect(type)
      PROVE  Sound(window') /\ source' = source
  <2>1. \/ window' = Matched(window, type) \/ window' = MatchedNext(window, type)
        \/ window' = Peeked(window)
    BY <1>2 DEF Match, MatchNext, Expect, Call
  <2>2. source' = source
    BY <1>2 DEF Match, MatchNext, Expect, Parsing
  <2> QED
    BY <2>1, <2>2, MatchedIsSound, PeekedIsSound DEF IInv
<1>3. ASSUME NEW a \in Asked, NEW b \in Asked, MatchBoth(a, b)
      PROVE  Sound(window') /\ source' = source
  BY <1>3, MatchedIsSound DEF MatchBoth, Call, Parsing, IInv
<1>4. CASE Take
  BY <1>4, AdvancedIsSound DEF Take, Call, Parsing, IInv
<1>5. CASE Refuse \/ EndDeclaration \/ Analyze \/ FindLine \/ Reported \/ UNCHANGED vars
  BY <1>5 DEF Refuse, EndDeclaration, Analyze, FindLine, Reported, Parsing, vars, IInv
<1> QED
  BY <1>1, <1>2, <1>3, <1>4, <1>5 DEF Next, Stopped

LEMMA NextSound == IInv /\ [Next]_vars => IInv'
<1> SUFFICES ASSUME IInv, [Next]_vars PROVE IInv'
  OBVIOUS
<1>1. Sound(window') /\ source' = source
  BY NextWindow
<1>2. \A o : TokenAt(o)' = TokenAt(o)
  BY <1>1, SameTokens
<1> QED
  BY <1>1, <1>2 DEF IInv, Sound, Formed, Consecutive, NoToken

\* Whatever the file and the parser, the tokens of the window follow each other in the
\* file: no token is lost or repeated by looking ahead (lexer.cpp).
THEOREM NoTokenIsLost == Spec => []WindowIsConsecutive
<1>1. IInv => WindowIsConsecutive
  BY DEF IInv, Sound, WindowIsConsecutive
<1> QED
  BY <1>1, InitSound, NextSound, PTL DEF Spec

-----------------------------------------------------------------------------
(* Where the reader gets to *)

\* A file has a size.
LEMMA SizeIsNat ==
    ASSUME source \in Sources
    PROVE  Size \in Nat /\ DOMAIN source = 1..Size
BY LexerAssumption DEF Size

\* Behind the file there is NUL.
LEMMA NulAtEnd ==
    ASSUME source \in Sources, NEW o \in Nat, o >= Size
    PROVE  At(o) = "NUL"
BY SizeIsNat DEF At

LEMMA LeastIsLeast ==
    ASSUME NEW S \in SUBSET Nat, S # {}
    PROVE  LeastOf(S) \in S /\ \A o \in S : LeastOf(S) <= o
<1>1. \E m \in S : \A k \in S : m <= k
  BY LeastNatural
<1> QED
  BY <1>1 DEF LeastOf

LEMMA ToSpec ==
    ASSUME source \in Sources, NEW o \in 0..Size, NEW S
    PROVE  /\ To(o, S) \in o..Size
           /\ To(o, S) = Size \/ At(To(o, S)) \in S
           /\ \A p \in o..(To(o, S) - 1) : At(p) \notin S
<1> DEFINE T == {p \in o..Size : p = Size \/ At(p) \in S}
<1>1. Size \in Nat /\ T \in SUBSET Nat /\ Size \in T
  BY SizeIsNat
<1>2. To(o, S) = LeastOf(T)
  BY DEF To
<1>3. To(o, S) \in T /\ \A p \in T : To(o, S) <= p
  BY <1>1, <1>2, LeastIsLeast
<1>4. ASSUME NEW p \in o..(To(o, S) - 1) PROVE At(p) \notin S
  <2>1. To(o, S) \in Nat /\ To(o, S) <= Size
    BY <1>1, <1>3
  <2>2. p \in o..Size /\ ~(To(o, S) <= p)
    BY <1>1, <2>1
  <2> QED
    BY <1>3, <2>2
<1> QED
  BY <1>3, <1>4

LEMMA PastSpec ==
    ASSUME source \in Sources, NEW o \in 0..Size, NEW S
    PROVE  /\ Past(o, S) \in o..Size
           /\ Past(o, S) = Size \/ At(Past(o, S)) \notin S
           /\ \A p \in o..(Past(o, S) - 1) : At(p) \in S
<1> DEFINE T == {p \in o..Size : p = Size \/ At(p) \notin S}
<1>1. Size \in Nat /\ T \in SUBSET Nat /\ Size \in T
  BY SizeIsNat
<1>2. Past(o, S) = LeastOf(T)
  BY DEF Past
<1>3. Past(o, S) \in T /\ \A p \in T : Past(o, S) <= p
  BY <1>1, <1>2, LeastIsLeast
<1>4. ASSUME NEW p \in o..(Past(o, S) - 1) PROVE At(p) \in S
  <2>1. Past(o, S) \in Nat /\ Past(o, S) <= Size
    BY <1>1, <1>3
  <2>2. p \in o..Size /\ ~(Past(o, S) <= p)
    BY <1>1, <2>1
  <2> QED
    BY <1>3, <2>2
<1> QED
  BY <1>3, <1>4

\* A comment begins at p.
Opens(p) == At(p) = "/" /\ At(p + 1) = "/"

\* A comment is not empty, and its end is in the file.
LEMMA CommentSpec ==
    ASSUME source \in Sources, NEW p \in 0..Size, Opens(p)
    PROVE  /\ To(p, {"\n"}) \in 0..Size /\ To(p, {"\n"}) > p /\ p < Size
           /\ \A q \in p..(To(p, {"\n"}) - 1) : At(q) # "\n"
<1>1. Size \in Nat /\ p \in Nat
  BY SizeIsNat
<1>2. p # Size
  BY <1>1, NulAtEnd DEF Opens
<1>3. /\ To(p, {"\n"}) \in p..Size
      /\ To(p, {"\n"}) = Size \/ At(To(p, {"\n"})) \in {"\n"}
      /\ \A q \in p..(To(p, {"\n"}) - 1) : At(q) \notin {"\n"}
  BY ToSpec
<1>4. To(p, {"\n"}) # p
  BY <1>2, <1>3 DEF Opens
<1> QED
  BY <1>1, <1>2, <1>3, <1>4

\* The recursion of Start ends, so that Start has the values it is defined by.
LEMMA StartEquation ==
    ASSUME source \in Sources, NEW o \in 0..Size
    PROVE  Start[o] = LET p == Past(o, Blank) IN IF Opens(p) THEN Start[To(p, {"\n"})] ELSE p
<1> DEFINE stop == {x \in 0..Size : ~Opens(Past(x, Blank))}
           val == [x \in 0..Size |-> Past(x, Blank)]
           step == [x \in 0..Size |-> To(Past(x, Blank), {"\n"})]
           Body(fun) == [x \in 0..Size |->
                           LET p == Past(x, Blank)
                           IN  IF At(p) = "/" /\ At(p + 1) = "/" THEN fun[To(p, {"\n"})] ELSE p]
<1>1. Size \in Nat
  BY SizeIsNat
<1>2. ASSUME NEW x \in 0..Size, x \notin stop PROVE step[x] \in 0..Size /\ step[x] > x
  <2> DEFINE p == Past(x, Blank)
  <2>1. p \in x..Size /\ Opens(p)
    BY <1>2, PastSpec
  <2> HIDE DEF p
  <2>2. p \in 0..Size
    BY <1>1, <2>1
  <2>3. To(p, {"\n"}) \in 0..Size /\ To(p, {"\n"}) > p
    BY <2>1, <2>2, CommentSpec
  <2>4. step[x] = To(p, {"\n"})
    BY DEF p
  <2> HIDE DEF step
  <2> QED
    BY <1>1, <2>1, <2>3, <2>4
<1>3. \E fun : Solves(Size, stop, val, step, fun)
  <2> HIDE DEF stop, val, step
  <2> QED
    BY <1>1, <1>2, UpwardRecursion
<1>4. ASSUME NEW fun
      PROVE  [x \in 0..Size |-> IF x \in stop THEN val[x] ELSE fun[step[x]]] = Body(fun)
  <2> SUFFICES ASSUME NEW x \in 0..Size
               PROVE  (IF x \in stop THEN val[x] ELSE fun[step[x]])
                        = IF Opens(Past(x, Blank)) THEN fun[To(Past(x, Blank), {"\n"})] ELSE Past(x, Blank)
    BY DEF Opens
  <2>1. /\ x \in stop <=> ~Opens(Past(x, Blank))
        /\ val[x] = Past(x, Blank) /\ step[x] = To(Past(x, Blank), {"\n"})
    OBVIOUS
  <2> HIDE DEF stop, val, step, Body
  <2>2. CASE x \in stop
    <3>1. ~Opens(Past(x, Blank))
      BY <2>1, <2>2
    <3> QED
      BY <2>1, <2>2, <3>1, Zenon
  <2>3. CASE x \notin stop
    <3>1. Opens(Past(x, Blank))
      BY <2>1, <2>3
    <3> QED
      BY <2>1, <2>3, <3>1, Zenon
  <2> QED
    BY <2>2, <2>3
<1>5. \E fun : fun = Body(fun)
  <2>1. PICK fun : Solves(Size, stop, val, step, fun)
    BY <1>3
  <2>2. [x \in 0..Size |-> IF x \in stop THEN val[x] ELSE fun[step[x]]] = Body(fun)
    BY <1>4
  <2> HIDE DEF stop, val, step, Body
  <2> QED
    BY <2>1, <2>2 DEF Solves
<1>6. Start = CHOOSE fun : fun = Body(fun)
  BY DEF Start
<1> HIDE DEF Body
<1>7. Start = Body(Start)
  BY <1>5, <1>6
<1> QED
  BY <1>7 DEF Body, Opens

\* What the reader skips in front of a token: blanks and comments.
Skippable(o, q) ==
    \/ At(q) \in Blank
    \/ \E c \in o..q : Opens(c) /\ \A p \in c..q : At(p) # "\n"

LEMMA StartSpec ==
    ASSUME source \in Sources, NEW o \in 0..Size
    PROVE  /\ Start[o] \in o..Size
           /\ Start[o] = Size \/ At(Start[o]) \notin Blank
           /\ \A q \in o..(Start[o] - 1) : Skippable(o, q)
<1> DEFINE Good(x) == /\ Start[x] \in x..Size
                      /\ Start[x] = Size \/ At(Start[x]) \notin Blank
                      /\ \A q \in x..(Start[x] - 1) : Skippable(x, q)
           S == {x \in 0..Size : Good(x)}
<1>1. Size \in Nat
  BY SizeIsNat
<1>2. ASSUME NEW x \in 0..Size, \A q \in (x + 1)..Size : q \in S PROVE Good(x)
  <2> DEFINE p == Past(x, Blank)
             e == To(p, {"\n"})
  <2>1. /\ p \in x..Size /\ (p = Size \/ At(p) \notin Blank)
        /\ \A q \in x..(p - 1) : At(q) \in Blank
    BY PastSpec
  <2>2. Start[x] = IF Opens(p) THEN Start[e] ELSE p
    BY StartEquation
  <2> HIDE DEF p
  <2>3. CASE ~Opens(p)
    <3>1. Start[x] = p
      BY <2>2, <2>3
    <3>2. \A q \in x..(p - 1) : Skippable(x, q)
      BY <2>1 DEF Skippable
    <3> QED
      BY <2>1, <3>1, <3>2
  <2>4. CASE Opens(p)
    <3>1. e \in 0..Size /\ e > p /\ \A q \in p..(e - 1) : At(q) # "\n"
      <4>1. p \in 0..Size
        BY <1>1, <2>1
      <4> QED
        BY <2>4, <4>1, CommentSpec
    <3> HIDE DEF e
    <3>2. Start[x] = Start[e]
      BY <2>2, <2>4
    <3>3. e \in (x + 1)..Size
      BY <1>1, <2>1, <3>1
    <3>4. Good(e)
      BY <1>2, <3>3
    <3>5. ASSUME NEW q \in x..(Start[x] - 1) PROVE Skippable(x, q)
      <4>0. x \in Nat /\ p \in Nat /\ x <= p /\ e \in Nat /\ q \in Nat /\ x <= q /\ p < e
        BY <1>1, <2>1, <3>1
      <4>1. CASE q < p
        <5>1. q \in x..(p - 1)
          BY <4>0, <4>1
        <5> QED
          BY <2>1, <5>1 DEF Skippable
      <4>2. CASE p <= q /\ q < e
        <5>1. p \in x..q /\ \A r \in p..q : r \in p..(e - 1)
          BY <4>0, <4>2
        <5> QED
          BY <2>4, <3>1, <5>1 DEF Skippable
      <4>3. CASE e <= q
        <5>1. q \in e..(Start[e] - 1)
          BY <3>2, <4>0, <4>3
        <5>2. Skippable(e, q)
          BY <3>4, <5>1
        <5>3. \A c \in e..q : c \in x..q
          BY <4>0
        <5> QED
          BY <5>2, <5>3 DEF Skippable
      <4> QED
        BY <4>0, <4>1, <4>2, <4>3
    <3>6. Start[x] \in x..Size
      BY <1>1, <3>2, <3>3, <3>4
    <3> QED
      BY <3>2, <3>4, <3>5, <3>6
  <2> QED
    BY <2>3, <2>4
<1>3. \A x \in 0..Size : (\A q \in (x + 1)..Size : q \in S) => x \in S
  BY <1>2
<1>4. 0..Size \subseteq S
  <2> HIDE DEF S
  <2> QED
    BY <1>1, <1>3, DownwardInduction
<1> QED
  BY <1>4

\* A string ends at o; an escape sequence begins at o.
Closes(o) == o = Size \/ At(o) = "\""
Escapes(o) == At(o) = "\\" /\ At(o + 1) \in Escapable
Behind(o) == IF Escapes(o) THEN o + 2 ELSE o + 1

\* An escape sequence does not reach behind the end of the file.
LEMMA BehindSpec ==
    ASSUME source \in Sources, NEW o \in 0..Size, o # Size
    PROVE  Behind(o) \in (o + 1)..Size
<1>1. Size \in Nat /\ o \in Nat /\ o < Size
  BY SizeIsNat
<1>2. Escapes(o) => At(o + 1) # "NUL"
  BY Zenon DEF Escapes, Escapable
<1>3. o + 1 = Size => At(o + 1) = "NUL"
  BY <1>1, NulAtEnd
<1>4. Escapes(o) => o + 1 # Size
  BY <1>2, <1>3
<1> QED
  BY <1>1, <1>4 DEF Behind

\* The recursion of Quote ends as well.
LEMMA QuoteEquation ==
    ASSUME source \in Sources, NEW o \in 0..Size
    PROVE  Quote[o] = IF Closes(o) THEN o ELSE Quote[Behind(o)]
<1> DEFINE stop == {x \in 0..Size : Closes(x)}
           val == [x \in 0..Size |-> x]
           step == [x \in 0..Size |-> Behind(x)]
           Body(fun) == [x \in 0..Size |-> IF Closes(x) THEN x ELSE fun[Behind(x)]]
<1>1. Size \in Nat
  BY SizeIsNat
<1>2. ASSUME NEW x \in 0..Size, x \notin stop PROVE step[x] \in 0..Size /\ step[x] > x
  <2>0. ~Closes(x)
    BY <1>2
  <2>1. x # Size /\ step[x] = Behind(x)
    BY <2>0, Zenon DEF Closes
  <2> HIDE DEF step
  <2> QED
    BY <1>1, <2>1, BehindSpec
<1>3. PICK fun : Solves(Size, stop, val, step, fun)
  <2> HIDE DEF stop, val, step
  <2> QED
    BY <1>1, <1>2, UpwardRecursion
<1>4. [x \in 0..Size |-> IF x \in stop THEN val[x] ELSE fun[step[x]]] = Body(fun)
  <2> SUFFICES ASSUME NEW x \in 0..Size
               PROVE  (IF x \in stop THEN val[x] ELSE fun[step[x]]) = IF Closes(x) THEN x ELSE fun[Behind(x)]
    OBVIOUS
  <2>1. (x \in stop <=> Closes(x)) /\ val[x] = x /\ step[x] = Behind(x)
    OBVIOUS
  <2> HIDE DEF stop, val, step, Body
  <2>2. CASE Closes(x)
    BY <2>1, <2>2, Zenon
  <2>3. CASE ~Closes(x)
    BY <2>1, <2>3, Zenon
  <2> QED
    BY <2>2, <2>3
<1>5. fun = Body(fun)
  <2> HIDE DEF stop, val, step, Body
  <2> QED
    BY <1>3, <1>4 DEF Solves
<1>6. Quote = CHOOSE f : f = Body(f)
  BY Zenon DEF Quote, Closes, Behind, Escapes
<1> HIDE DEF Body
<1>7. Quote = Body(Quote)
  BY <1>5, <1>6
<1> QED
  BY <1>7 DEF Body

\* The end of a string is a quote or the end of the file.
LEMMA QuoteSpec ==
    ASSUME source \in Sources, NEW o \in 0..Size
    PROVE  Quote[o] \in o..Size /\ Closes(Quote[o])
<1> DEFINE Good(x) == Quote[x] \in x..Size /\ Closes(Quote[x])
           S == {x \in 0..Size : Good(x)}
<1>1. Size \in Nat
  BY SizeIsNat
<1>2. ASSUME NEW x \in 0..Size, \A q \in (x + 1)..Size : q \in S PROVE Good(x)
  <2>1. CASE Closes(x)
    <3>1. Quote[x] = x
      BY <2>1, QuoteEquation
    <3> QED
      BY <1>1, <2>1, <3>1
  <2>2. CASE ~Closes(x)
    <3>1. x # Size
      BY <2>2, Zenon DEF Closes
    <3>2. Behind(x) \in (x + 1)..Size
      BY <3>1, BehindSpec
    <3>3. Good(Behind(x))
      BY <1>2, <3>2
    <3>4. Quote[x] = Quote[Behind(x)]
      BY <2>2, QuoteEquation
    <3>5. Quote[x] \in x..Size
      BY <1>1, <3>2, <3>3, <3>4
    <3> QED
      BY <3>3, <3>4, <3>5
  <2> QED
    BY <2>1, <2>2
<1>3. \A x \in 0..Size : (\A q \in (x + 1)..Size : q \in S) => x \in S
  BY <1>2
<1>4. 0..Size \subseteq S
  <2> HIDE DEF S
  <2> QED
    BY <1>1, <1>3, DownwardInduction
<1> QED
  BY <1>4

-----------------------------------------------------------------------------
(* What the lexer makes of the characters at an offset *)

LEMMA InFile ==
    ASSUME source \in Sources, NEW o \in Nat, At(o) # "NUL"
    PROVE  o < Size
BY SizeIsNat, NulAtEnd

TokenTypes ==
    {"Eof", "word", "integer", "decimal", "string", "char", "operator", "error", "unexpected"}

\* A token from p to e does not end in a blank, but at the end of the file or behind two
\* characters.
EndsWell(p, e) == At(e - 1) \notin Blank \/ e = Size \/ e = p + 2

\* A token of a type is read from p to e.
Reads(p, type, e) == type \in TokenTypes /\ e \in (p + 1)..Size /\ EndsWell(p, e)

\* Characters of a class without blanks.
LEMMA RunSpec ==
    ASSUME source \in Sources, NEW p \in 0..Size, NEW S, S \cap Blank = {}, p < Size, At(p) \in S
    PROVE  Past(p, S) \in (p + 1)..Size /\ At(Past(p, S) - 1) \notin Blank
<1> DEFINE e == Past(p, S)
<1>1. Size \in Nat
  BY SizeIsNat
<1>2. /\ e \in p..Size /\ (e = Size \/ At(e) \notin S)
      /\ \A q \in p..(e - 1) : At(q) \in S
  BY PastSpec
<1> HIDE DEF e
<1>3. e # p
  BY <1>1, <1>2
<1>4. e \in (p + 1)..Size /\ e - 1 \in p..(e - 1)
  BY <1>1, <1>2, <1>3
<1> QED
  BY <1>2, <1>4 DEF e

\* No character of a token is a blank.
LEMMA NoBlanks ==
    /\ Digit \cap Blank = {} /\ Identifier \cap Blank = {} /\ Escapable \cap Blank = {}
    /\ "." \notin Blank /\ "'" \notin Blank /\ "\"" \notin Blank
    /\ "NUL" \notin Digit /\ "NUL" \notin Identifier /\ "NUL" \notin Escapable
<1>1. Digit \cap Blank = {} /\ Identifier \cap Blank = {}
  BY DEF Digit, Blank, Identifier
<1>2. Escapable \cap Blank = {}
  BY Zenon DEF Escapable, Blank
<1>3. "." \notin Blank /\ "'" \notin Blank
  BY DEF Blank
<1>4. "\"" \notin Blank
  BY Zenon DEF Blank
<1>5. "NUL" \notin Digit /\ "NUL" \notin Identifier
  BY DEF Digit, Identifier
<1>6. "NUL" \notin Escapable
  BY Zenon DEF Escapable
<1> QED
  BY <1>1, <1>2, <1>3, <1>4, <1>5, <1>6, Zenon

LEMMA DigitSpec ==
    ASSUME source \in Sources, NEW p \in 0..Size, At(p) \in Digit
    PROVE  Reads(p, DigitFrom(p)[1], DigitFrom(p)[2])
<1> DEFINE q == Past(p, Digit)
           r == Past(q + 1, Digit)
<1>1. Size \in Nat /\ p \in Nat
  BY SizeIsNat
<1>2. p < Size
  BY <1>1, InFile, NoBlanks
<1>3. q \in (p + 1)..Size /\ At(q - 1) \notin Blank
  BY <1>2, RunSpec, NoBlanks
<1> HIDE DEF q
<1>4. q \in Nat /\ q + 1 \in Nat
  BY <1>1, <1>3
<1>5. CASE ~(At(q) = "." /\ At(q + 1) # ".")
  <2>1. DigitFrom(p) = <<"integer", q>>
    BY <1>5 DEF DigitFrom, q
  <2> QED
    BY <1>3, <2>1 DEF Reads, TokenTypes, EndsWell
<1>6. CASE At(q) = "." /\ At(q + 1) # "." /\ At(q + 1) \in Digit
  <2>1. DigitFrom(p) = <<"decimal", r>>
    BY <1>6 DEF DigitFrom, q
  <2>2. q + 1 < Size
    BY <1>4, <1>6, InFile, NoBlanks
  <2>3. q + 1 \in 0..Size
    BY <1>1, <1>4, <2>2
  <2>4. r \in (q + 2)..Size /\ At(r - 1) \notin Blank
    <3> DEFINE s == q + 1
    <3>1. s \in 0..Size /\ s < Size /\ At(s) \in Digit
      BY <1>6, <2>2, <2>3
    <3> HIDE DEF s
    <3>2. Past(s, Digit) \in (s + 1)..Size /\ At(Past(s, Digit) - 1) \notin Blank
      BY <3>1, RunSpec, NoBlanks
    <3>3. s + 1 = q + 2
      BY <1>4 DEF s
    <3>4. r = Past(s, Digit)
      BY DEF s
    <3> QED
      BY <3>2, <3>3, <3>4
  <2> HIDE DEF r
  <2>5. r \in (p + 1)..Size
    BY <1>1, <1>3, <2>4
  <2> QED
    BY <2>1, <2>4, <2>5 DEF Reads, TokenTypes, EndsWell
<1>7. CASE At(q) = "." /\ At(q + 1) # "." /\ At(q + 1) \notin Digit
  <2> DEFINE e == q + 1
  <2>1. DigitFrom(p) = <<"error", e>>
    BY <1>7 DEF DigitFrom, q
  <2>2. At(q) # "NUL"
    BY <1>7
  <2>3. q < Size
    BY <1>4, <2>2, InFile
  <2>4. e \in (p + 1)..Size /\ e - 1 = q
    BY <1>1, <1>3, <2>3
  <2> HIDE DEF e
  <2>5. At(e - 1) \notin Blank
    BY <1>7, <2>4, NoBlanks
  <2> QED
    BY <2>1, <2>4, <2>5 DEF Reads, TokenTypes, EndsWell
<1> QED
  BY <1>5, <1>6, <1>7

LEMMA StringSpec ==
    ASSUME source \in Sources, NEW p \in 0..Size, p < Size
    PROVE  Reads(p, StringFrom(p)[1], StringFrom(p)[2])
<1> DEFINE q == Quote[p + 1]
<1>1. Size \in Nat /\ p \in Nat /\ p + 1 \in 0..Size
  BY SizeIsNat
<1>2. q \in (p + 1)..Size /\ Closes(q)
  BY <1>1, QuoteSpec
<1>3. CASE q < Size
  <2> DEFINE e == q + 1
  <2>1. StringFrom(p) = <<"string", e>>
    BY <1>3 DEF StringFrom
  <2> HIDE DEF q
  <2>2. q # Size /\ e \in (p + 1)..Size /\ e - 1 = q
    BY <1>1, <1>2, <1>3
  <2> HIDE DEF e
  <2>3. At(e - 1) \notin Blank
    BY <1>2, <2>2, NoBlanks, Zenon DEF Closes
  <2> QED
    BY <2>1, <2>2, <2>3 DEF Reads, TokenTypes, EndsWell
<1>4. CASE ~(q < Size)
  <2>1. StringFrom(p) = <<"error", q>>
    BY <1>4 DEF StringFrom
  <2> HIDE DEF q
  <2>2. q = Size
    BY <1>1, <1>2, <1>4
  <2> QED
    BY <1>2, <2>1, <2>2 DEF Reads, TokenTypes, EndsWell
<1> QED
  BY <1>3, <1>4

LEMMA CharSpec ==
    ASSUME source \in Sources, NEW p \in 0..Size, p < Size
    PROVE  Reads(p, CharFrom(p)[1], CharFrom(p)[2])
<1> DEFINE q == IF p + 1 < Size THEN p + 2 ELSE p + 1
           escaped == At(q - 1) = "\\" /\ At(q) \in Escapable
           r == IF escaped THEN q + 1 ELSE q
           e == r + 1
<1>1. Size \in Nat /\ p \in Nat
  BY SizeIsNat
<1>2. q \in (p + 1)..Size /\ (q = p + 2 \/ q = Size)
  BY <1>1
<1>3. CharFrom(p) = IF At(r) = "'" THEN <<"char", e>> ELSE <<"error", r>>
  BY Zenon DEF CharFrom
<1> HIDE DEF q
<1>4. escaped => q < Size /\ At(q) \notin Blank
  <2>1. escaped => At(q) # "NUL" /\ At(q) \notin Blank
    BY NoBlanks, Zenon
  <2>2. q \in Nat
    BY <1>1, <1>2
  <2> HIDE DEF escaped
  <2> QED
    BY <2>1, <2>2, InFile
<1> HIDE DEF escaped
<1>5. r \in (p + 1)..Size /\ r \in Nat
  BY <1>1, <1>2, <1>4
<1>6. EndsWell(p, r)
  <2>1. CASE escaped
    <3>1. r - 1 = q
      BY <1>1, <1>2, <2>1
    <3> HIDE DEF r
    <3> QED
      BY <1>4, <2>1, <3>1 DEF EndsWell
  <2>2. CASE ~escaped
    <3>1. r = q
      BY <2>2
    <3> HIDE DEF r
    <3> QED
      BY <1>2, <3>1 DEF EndsWell
  <2> QED
    BY <2>1, <2>2
<1> HIDE DEF r
<1>7. CASE At(r) = "'"
  <2>1. CharFrom(p) = <<"char", e>>
    BY <1>3, <1>7
  <2>2. At(r) # "NUL"
    BY <1>7
  <2>3. r < Size
    BY <1>5, <2>2, InFile
  <2>4. e \in (p + 1)..Size /\ e - 1 = r
    BY <1>1, <1>5, <2>3
  <2> HIDE DEF e
  <2>5. At(e - 1) \notin Blank
    BY <1>7, <2>4, NoBlanks
  <2> QED
    BY <2>1, <2>4, <2>5 DEF Reads, TokenTypes, EndsWell
<1>8. CASE At(r) # "'"
  <2>1. CharFrom(p) = <<"error", r>>
    BY <1>3, <1>8
  <2> QED
    BY <1>5, <1>6, <2>1 DEF Reads, TokenTypes
<1> QED
  BY <1>7, <1>8

\* An operator has one to three characters, none of them a blank.
LEMMA OperatorSize ==
    ASSUME NEW op \in Operator
    PROVE  /\ Len(op) \in 1..3 /\ Len(op) \in DOMAIN op
           /\ op[Len(op)] \notin Blank /\ op[Len(op)] # "NUL"
<1> DEFINE C == {"=", "/", ".", "{"}
<1>1. \/ \E a \in C : op = <<a>>
      \/ \E a, b \in C : op = <<a, b>>
      \/ \E a, b, c \in C : op = <<a, b, c>>
  BY Zenon DEF Operator
<1>2. \A a \in C : a \notin Blank /\ a # "NUL"
  BY DEF Blank
<1> HIDE DEF C
<1>3. CASE \E a \in C : op = <<a>>
  BY <1>2, <1>3
<1>4. CASE \E a, b \in C : op = <<a, b>>
  BY <1>2, <1>4
<1>5. CASE \E a, b, c \in C : op = <<a, b, c>>
  BY <1>2, <1>5
<1> QED
  BY <1>1, <1>3, <1>4, <1>5

\* One of the greatest elements, when there are three sizes.
LEMMA GreatestOfThree ==
    ASSUME NEW S, S # {}, NEW size, \A x \in S : size[x] \in 1..3
    PROVE  \E x \in S : \A y \in S : size[y] <= size[x]
<1>1. CASE \E x \in S : size[x] = 3
  BY <1>1
<1>2. CASE (\A x \in S : size[x] # 3) /\ \E x \in S : size[x] = 2
  BY <1>2
<1>3. CASE \A x \in S : size[x] # 3 /\ size[x] # 2
  BY <1>3
<1> QED
  BY <1>1, <1>2, <1>3

LEMMA OperatorSpec ==
    ASSUME source \in Sources, NEW p \in 0..Size, <<At(p)>> \in Operator
    PROVE  Reads(p, OperatorFrom(p)[1], OperatorFrom(p)[2])
<1> DEFINE S == {op \in Operator : \A k \in DOMAIN op : At(p + k - 1) = op[k]}
           best == CHOOSE op \in S : \A other \in S : Len(other) <= Len(op)
           e == p + Len(best)
<1>1. Size \in Nat /\ p \in Nat
  BY SizeIsNat
<1>2. <<At(p)>> \in S
  <2> DEFINE op == <<At(p)>>
  <2>1. DOMAIN op = {1} /\ op[1] = At(p)
    OBVIOUS
  <2>2. p + 1 - 1 = p
    BY <1>1
  <2> HIDE DEF op
  <2>3. \A k \in DOMAIN op : At(p + k - 1) = op[k]
    BY <2>1, <2>2
  <2>4. op \in Operator
    BY DEF op
  <2>5. op \in S
    BY <2>3, <2>4
  <2> QED
    BY <2>5 DEF op
<1>3. \A op \in S : op \in Operator /\ Len(op) \in 1..3
  BY OperatorSize
<1>4. \E op \in S : \A other \in S : Len(other) <= Len(op)
  <2> HIDE DEF S
  <2>1. PICK size : size = [op \in S |-> Len(op)]
    OBVIOUS
  <2>2. \A op \in S : size[op] = Len(op)
    BY <2>1, Zenon
  <2>3. \A op \in S : size[op] \in 1..3
    BY <1>3, <2>2, Zenon
  <2>4. \E op \in S : \A other \in S : size[other] <= size[op]
    BY <1>2, <2>3, GreatestOfThree
  <2> QED
    BY <2>2, <2>4, Zenon
<1>5. best \in S
  <2> HIDE DEF S
  <2> QED
    BY <1>4
<1>6. OperatorFrom(p) = <<"operator", e>>
  BY DEF OperatorFrom
<1> HIDE DEF best
<1>7. best \in Operator /\ \A k \in DOMAIN best : At(p + k - 1) = best[k]
  BY <1>5
<1>8. Len(best) \in 1..3 /\ At(p + Len(best) - 1) \notin Blank /\ At(p + Len(best) - 1) # "NUL"
  <2>1. Len(best) \in 1..3 /\ Len(best) \in DOMAIN best
    BY <1>7, OperatorSize
  <2>2. best[Len(best)] \notin Blank /\ best[Len(best)] # "NUL"
    BY <1>7, OperatorSize
  <2>3. At(p + Len(best) - 1) = best[Len(best)]
    BY <1>7, <2>1
  <2> QED
    BY <2>1, <2>2, <2>3, Zenon
<1>9. e \in Nat /\ e - 1 \in Nat /\ e - 1 = p + Len(best) - 1 /\ e >= p + 1
  <2> DEFINE n == Len(best)
  <2>1. n \in 1..3
    BY <1>8, Zenon
  <2> HIDE DEF n
  <2>2. p + n \in Nat /\ p + n - 1 \in Nat /\ p + n >= p + 1
    BY <1>1, <2>1
  <2> QED
    BY <2>2 DEF n
<1> HIDE DEF e
<1>10. At(e - 1) \notin Blank /\ At(e - 1) # "NUL"
  BY <1>8, <1>9
<1>11. e - 1 < Size
  BY <1>9, <1>10, InFile
<1>12. e \in (p + 1)..Size
  BY <1>1, <1>9, <1>11
<1> QED
  BY <1>6, <1>10, <1>12 DEF Reads, TokenTypes, EndsWell

\* The end of the file is a token as well: it is where the reader is.
LEMMA ScanSpec ==
    ASSUME source \in Sources, NEW p \in 0..Size, At(p) \notin Blank
    PROVE  \/ Reads(p, Scan(p)[1], Scan(p)[2])
           \/ p = Size /\ Scan(p) = <<"Eof", Size>>
<1>1. Size \in Nat /\ p \in Nat
  BY SizeIsNat
<1>2. CASE At(p) = "NUL"
  <2>1. CASE p < Size
    <3> DEFINE e == p + 1
    <3>1. Scan(p) = <<"Eof", e>>
      BY <1>2, <2>1 DEF Scan
    <3>2. e \in (p + 1)..Size /\ e - 1 = p
      BY <1>1, <2>1
    <3> HIDE DEF e
    <3> QED
      BY <3>1, <3>2 DEF Reads, TokenTypes, EndsWell
  <2>2. CASE ~(p < Size)
    <3>1. p = Size
      BY <1>1, <2>2
    <3>2. Scan(p) = <<"Eof", p>>
      BY <1>2, <2>2 DEF Scan
    <3> QED
      BY <3>1, <3>2
  <2> QED
    BY <2>1, <2>2
<1>3. CASE At(p) # "NUL"
  <2>1. p < Size
    BY <1>1, <1>3, InFile
  <2>2. CASE At(p) \in Digit
    BY <1>3, <2>2, DigitSpec DEF Scan
  <2>3. CASE At(p) \notin Digit /\ At(p) \in Identifier
    <3> DEFINE e == Past(p, Identifier)
    <3>1. e \in (p + 1)..Size /\ At(e - 1) \notin Blank
      BY <2>1, <2>3, RunSpec, NoBlanks
    <3>2. Scan(p) = <<"word", e>>
      BY <1>3, <2>3 DEF Scan
    <3> HIDE DEF e
    <3> QED
      BY <3>1, <3>2 DEF Reads, TokenTypes, EndsWell
  <2>4. CASE At(p) \notin Digit /\ At(p) \notin Identifier /\ At(p) = "\""
    <3>1. Scan(p) = StringFrom(p)
      BY <1>3, <2>4, Zenon DEF Scan
    <3>2. Reads(p, StringFrom(p)[1], StringFrom(p)[2])
      BY <2>1, StringSpec
    <3> QED
      BY <3>1, <3>2, Zenon
  <2>5. CASE At(p) \notin Digit /\ At(p) \notin Identifier /\ At(p) # "\"" /\ At(p) = "'"
    <3>1. Scan(p) = CharFrom(p)
      BY <1>3, <2>5, Zenon DEF Scan
    <3>2. Reads(p, CharFrom(p)[1], CharFrom(p)[2])
      BY <2>1, CharSpec
    <3> QED
      BY <3>1, <3>2, Zenon
  <2>6. CASE At(p) \notin Digit /\ At(p) \notin Identifier /\ At(p) # "\"" /\ At(p) # "'"
    <3>1. CASE <<At(p)>> \in Operator
      <4>1. Scan(p) = OperatorFrom(p)
        BY <1>3, <2>6, <3>1, Zenon DEF Scan
      <4>2. Reads(p, OperatorFrom(p)[1], OperatorFrom(p)[2])
        BY <3>1, OperatorSpec
      <4> QED
        BY <4>1, <4>2, Zenon
    <3>2. CASE <<At(p)>> \notin Operator
      <4> DEFINE e == p + 1
      <4>1. Scan(p) = <<"unexpected", e>>
        BY <1>3, <2>6, <3>2, Zenon DEF Scan
      <4>2. e \in (p + 1)..Size /\ e - 1 = p
        BY <1>1, <2>1
      <4> HIDE DEF e
      <4> QED
        BY <4>1, <4>2 DEF Reads, TokenTypes, EndsWell
    <3> QED
      BY <3>1, <3>2
  <2> QED
    BY <2>2, <2>3, <2>4, <2>5, <2>6, Zenon
<1> QED
  BY <1>2, <1>3

\* What advance_one returns when the reader is at o. Only the end of the file is a token
\* without characters.
LEMMA TokenSpec ==
    ASSUME source \in Sources, NEW o \in 0..Size
    PROVE  /\ TokenAt(o) \in [type : TokenTypes, first : 0..Size, end : 0..Size, line : Nat]
           /\ TokenAt(o).first = Start[o]
           /\ TokenAt(o).line = Line(TokenAt(o).end)
           /\ TokenAt(o).type # "Eof" =>
                 /\ TokenAt(o).first < TokenAt(o).end
                 /\ At(TokenAt(o).first) \notin Blank
                 /\ EndsWell(TokenAt(o).first, TokenAt(o).end)
<1> DEFINE p == Start[o]
           type == Scan(p)[1]
           e == Scan(p)[2]
<1>1. Size \in Nat
  BY SizeIsNat
<1>2. p \in o..Size /\ (p = Size \/ At(p) \notin Blank)
  BY StartSpec
<1>3. TokenAt(o) = [type |-> type, first |-> p, end |-> e, line |-> Line(e)]
  BY DEF TokenAt
<1> HIDE DEF p
<1>4. p \in 0..Size /\ At(p) \notin Blank
  <2>1. p \in 0..Size /\ Size \in Nat /\ Size >= Size
    BY <1>1, <1>2
  <2>2. p = Size => At(p) = "NUL"
    BY <2>1, NulAtEnd
  <2>3. "NUL" \notin Blank
    BY DEF Blank
  <2> QED
    BY <1>2, <2>1, <2>2, <2>3
<1>5. \/ Reads(p, type, e)
      \/ p = Size /\ type = "Eof" /\ e = Size
  <2>1. \/ Reads(p, Scan(p)[1], Scan(p)[2])
        \/ p = Size /\ Scan(p) = <<"Eof", Size>>
    BY <1>4, ScanSpec
  <2>2. Scan(p) = <<"Eof", Size>> => Scan(p)[1] = "Eof" /\ Scan(p)[2] = Size
    OBVIOUS
  <2> QED
    BY <2>1, <2>2, Zenon
<1> HIDE DEF type, e
<1>6. type \in TokenTypes
  BY <1>5 DEF Reads, TokenTypes
<1>7. e \in 0..Size
  BY <1>1, <1>4, <1>5 DEF Reads
<1>8. Line(e) \in Nat
  <2> DEFINE feeds == {q \in 1..e : At(q - 1) = "\n"}
  <2>1. IsFiniteSet(1..e)
    BY <1>1, <1>7, FS_Interval
  <2>2. feeds \in SUBSET (1..e)
    OBVIOUS
  <2> HIDE DEF feeds
  <2>3. Cardinality(feeds) \in Nat
    BY <2>1, <2>2, FS_Subset, FS_CardinalityType
  <2> QED
    BY <2>3 DEF Line, feeds
<1>9. type # "Eof" => p < e /\ EndsWell(p, e)
  <2>1. e \in (p + 1)..Size => p < e
    BY <1>1, <1>4
  <2> QED
    BY <1>5, <2>1 DEF Reads
<1>10. TokenAt(o).first = p
  BY <1>3
<1> QED
  BY <1>3, <1>4, <1>6, <1>7, <1>8, <1>9 DEF p

\* A place in the file that is behind another one is not in a line before.
LEMMA LinesInOrder ==
    ASSUME source \in Sources, NEW a \in Nat, NEW b \in Nat, a <= b
    PROVE  /\ Line(a) \in Nat /\ Line(b) \in Nat
           /\ Line(a) <= Line(b)
           /\ Line(a) = Line(b) <=> \A p \in a..(b - 1) : At(p) # "\n"
<1> DEFINE A == {p \in 1..a : At(p - 1) = "\n"}
           B == {p \in 1..b : At(p - 1) = "\n"}
<1>1. IsFiniteSet(1..b)
  BY FS_Interval
<1>2. B \in SUBSET (1..b) /\ A \in SUBSET B
  OBVIOUS
<1>3. Line(a) = 1 + Cardinality(A) /\ Line(b) = 1 + Cardinality(B)
  BY DEF Line
<1>4. A = B <=> \A p \in a..(b - 1) : At(p) # "\n"
  <2>1. ASSUME A = B, NEW p \in a..(b - 1) PROVE At(p) # "\n"
    <3> DEFINE q == p + 1
    <3>1. q \in 1..b /\ q \notin 1..a /\ q - 1 = p
      OBVIOUS
    <3> HIDE DEF q
    <3>2. q \notin B
      BY <2>1, <3>1
    <3>3. At(q - 1) # "\n"
      BY <3>1, <3>2
    <3> QED
      BY <3>1, <3>3
  <2>2. ASSUME \A p \in a..(b - 1) : At(p) # "\n", NEW q \in B PROVE q \in A
    <3>1. q \in 1..b /\ At(q - 1) = "\n"
      OBVIOUS
    <3>2. q - 1 \notin a..(b - 1)
      BY <2>2, <3>1
    <3>3. q \in 1..a
      BY <3>1, <3>2
    <3> QED
      BY <3>1, <3>3
  <2> QED
    BY <1>2, <2>1, <2>2
<1> HIDE DEF A, B
<1>5. IsFiniteSet(B) /\ IsFiniteSet(A) /\ Cardinality(A) <= Cardinality(B)
      /\ (Cardinality(B) = Cardinality(A) => B = A)
  BY <1>1, <1>2, FS_Subset
<1>6. Cardinality(A) \in Nat /\ Cardinality(B) \in Nat
  BY <1>5, FS_CardinalityType
<1>7. Line(a) = Line(b) <=> A = B
  BY <1>3, <1>5, <1>6
<1> QED
  BY <1>3, <1>4, <1>5, <1>6, <1>7

-----------------------------------------------------------------------------
(* Every token is one of the file *)

Statuses == {"module", "declaration", "parsed", "reporting", "reported"}

\* t is no token, or one that advance_one returns somewhere in the file.
Spot(t) == t = NoToken \/ \E o \in 0..Size : t = TokenAt(o)

Spotted(w) ==
    /\ Formed(w)
    /\ Spot(w.last) /\ Spot(w.current) /\ Spot(w.next) /\ w.offset \in 0..Size

TInv ==
    /\ source \in Sources
    /\ Spotted(window) /\ Spot(begun) /\ Spot(culprit)
    /\ status \in Statuses

LEMMA SpotSpec ==
    ASSUME source \in Sources, NEW t, Spot(t)
    PROVE  /\ t \in Token /\ t.end \in 0..Size
           /\ t = NoToken \/ t.line = Line(t.end)
           /\ (t # NoToken /\ t.type # "Eof") =>
                 /\ t.first < t.end /\ At(t.first) \notin Blank /\ EndsWell(t.first, t.end)
<1>1. CASE t = NoToken
  <2>1. Size \in Nat
    BY SizeIsNat
  <2> QED
    BY <1>1, <2>1 DEF NoToken, Token
<1>2. CASE t # NoToken
  <2>1. PICK o \in 0..Size : t = TokenAt(o)
    BY <1>2 DEF Spot
  <2>2. /\ t \in [type : TokenTypes, first : 0..Size, end : 0..Size, line : Nat]
        /\ t.line = Line(t.end)
        /\ t.type # "Eof" =>
              /\ t.first < t.end /\ At(t.first) \notin Blank /\ EndsWell(t.first, t.end)
    BY <2>1, TokenSpec
  <2>3. t \in Token
    BY <2>2 DEF Token, TokenTypes
  <2> QED
    BY <2>2, <2>3
<1> QED
  BY <1>1, <1>2

\* Each operation of the lexer reads a token of the file, if any.
LEMMA AdvancedIsSpotted ==
    ASSUME source \in Sources, NEW w, Spotted(w)
    PROVE  Spotted(Advanced(w)) /\ Spotted(PeekedNext(w))
<1>1. CASE w.next # NoToken
  <2>1. Advanced(w) = [last |-> w.current, current |-> w.next, next |-> NoToken, offset |-> w.offset]
    BY <1>1 DEF Advanced, Spotted, Formed
  <2>2. PeekedNext(w) = w
    BY <1>1 DEF PeekedNext
  <2>3. Spot(NoToken)
    BY DEF Spot
  <2> QED
    BY <2>1, <2>2, <2>3 DEF Spotted, Formed
<1>2. CASE w.next = NoToken
  <2> DEFINE t == TokenAt(w.offset)
  <2>1. Spot(t)
    BY DEF Spotted, Spot
  <2>2. t.end \in 0..Size
    BY <2>1, SpotSpec
  <2> HIDE DEF t
  <2>3. Advanced(w) = [last |-> w.current, current |-> t, next |-> NoToken, offset |-> t.end]
    BY <1>2 DEF Advanced, Spotted, Formed, t
  <2>4. PeekedNext(w) = [last |-> w.last, current |-> w.current, next |-> t, offset |-> t.end]
    BY <1>2 DEF PeekedNext, Spotted, Formed, t
  <2>5. Spot(NoToken)
    BY DEF Spot
  <2> QED
    BY <2>1, <2>2, <2>3, <2>4, <2>5 DEF Spotted, Formed
<1> QED
  BY <1>1, <1>2

LEMMA MatchedIsSpotted ==
    ASSUME source \in Sources, NEW w, Spotted(w), NEW a, NEW b
    PROVE  /\ Spotted(Peeked(w)) /\ Spotted(Matched(w, a))
           /\ Spotted(MatchedNext(w, a)) /\ Spotted(MatchedBoth(w, a, b))
<1>1. Spotted(Peeked(w))
  BY AdvancedIsSpotted DEF Peeked
<1>2. Spotted(Advanced(Peeked(w))) /\ Spotted(PeekedNext(Peeked(w)))
  BY <1>1, AdvancedIsSpotted
<1>3. Spotted(PeekedNext(w)) /\ Spotted(Advanced(PeekedNext(w)))
  BY AdvancedIsSpotted
<1>4. Spotted(Advanced(PeekedNext(Peeked(w))))
  BY <1>2, AdvancedIsSpotted
<1>5. Spotted(Advanced(Advanced(PeekedNext(Peeked(w)))))
  BY <1>4, AdvancedIsSpotted
<1> QED
  BY <1>1, <1>2, <1>3, <1>5 DEF Matched, MatchedNext, MatchedBoth

\* An exception is thrown with a token of the window.
LEMMA CallIsSpotted ==
    ASSUME NEW w, Spotted(w), Spot(culprit), NEW then, Call(w, then)
    PROVE  /\ window' = w /\ Spot(culprit')
           /\ status' = then \/ status' = "reporting"
<1>1. \A t \in Thrown(w) : Spot(t)
  BY DEF Thrown, Held, Spotted
<1>2. CASE Thrown(w) = {}
  BY <1>2 DEF Call
<1>3. CASE Thrown(w) # {}
  <2> DEFINE t == CHOOSE t \in Thrown(w) : TRUE
  <2>1. t \in Thrown(w)
    BY <1>3
  <2> HIDE DEF t
  <2>2. window' = w /\ culprit' = t /\ status' = "reporting"
    BY <1>3 DEF Call, Fail, t
  <2> QED
    BY <1>1, <2>1, <2>2
<1> QED
  BY <1>2, <1>3

LEMMA InitSpotted == Init => TInv
<1> SUFFICES ASSUME Init PROVE TInv
  OBVIOUS
<1>1. source \in Sources /\ Size \in Nat
  BY SizeIsNat DEF Init
<1> QED
  BY <1>1 DEF Init, TInv, Spotted, Formed, Spot, Statuses, NoToken

\* Each step leaves tokens of the file as it was.
LEMMA NextTokens ==
    TInv /\ [Next]_vars =>
        /\ source' = source
        /\ Spotted(window') /\ Spot(begun') /\ Spot(culprit') /\ status' \in Statuses
<1> DEFINE Goal == /\ source' = source
                   /\ Spotted(window') /\ Spot(begun') /\ Spot(culprit') /\ status' \in Statuses
<1> SUFFICES ASSUME TInv, [Next]_vars PROVE Goal
  OBVIOUS
<1> USE DEF TInv
<1>0. Spot(window.last) /\ Spot(Peeked(window).current)
  BY MatchedIsSpotted DEF Spotted
<1>1. CASE NextDeclaration
  <2>1. Spotted(MatchedNext(window, "Eof"))
    BY MatchedIsSpotted
  <2>2. source' = source /\ begun' = window.last
    BY <1>1 DEF NextDeclaration
  <2>3. CASE window.offset >= Size
    BY <1>0, <1>1, <2>2, <2>3 DEF NextDeclaration, Statuses
  <2>4. CASE ~(window.offset >= Size)
    <3>1. PICK then \in {"parsed", "declaration"} : Call(MatchedNext(window, "Eof"), then)
      BY <1>1, <2>4 DEF NextDeclaration
    <3> QED
      BY <1>0, <2>1, <2>2, <3>1, CallIsSpotted DEF Statuses
  <2> QED
    BY <2>3, <2>4
<1>2. ASSUME Parsing, NEW w, Spotted(w), Call(w, "declaration") PROVE Goal
  BY <1>2, CallIsSpotted DEF Parsing, Statuses
<1>3. ASSUME NEW type \in Asked, Match(type) \/ MatchNext(type) PROVE Goal
  BY <1>2, <1>3, MatchedIsSpotted DEF Match, MatchNext
<1>4. ASSUME NEW type \in Asked, Expect(type) PROVE Goal
  <2>1. Parsing
    BY <1>4 DEF Expect
  <2>2. CASE Call(Matched(window, type), "declaration")
    BY <1>2, <2>1, <2>2, MatchedIsSpotted
  <2>3. CASE window' = Peeked(window) /\ Fail(Peeked(window).current)
    BY <1>0, <2>1, <2>3, MatchedIsSpotted DEF Parsing, Fail, Statuses
  <2> QED
    BY <1>4, <2>2, <2>3 DEF Expect
<1>5. ASSUME NEW a \in Asked, NEW b \in Asked, MatchBoth(a, b) PROVE Goal
  BY <1>2, <1>5, MatchedIsSpotted DEF MatchBoth
<1>6. CASE Take
  BY <1>2, <1>6, AdvancedIsSpotted DEF Take
<1>7. CASE Refuse
  BY <1>0, <1>7 DEF Refuse, Parsing, Fail, Statuses
<1>8. CASE Analyze
  BY <1>0, <1>8 DEF Analyze, Fail, Statuses
<1>9. CASE EndDeclaration \/ FindLine \/ Reported \/ UNCHANGED vars
  BY <1>9 DEF EndDeclaration, FindLine, Reported, Parsing, vars, Statuses
<1> QED
  BY <1>1, <1>3, <1>4, <1>5, <1>6, <1>7, <1>8, <1>9 DEF Next, Stopped

LEMMA NextSpotted == TInv /\ [Next]_vars => TInv'
<1> SUFFICES ASSUME TInv, [Next]_vars PROVE TInv'
  OBVIOUS
<1>1. /\ source' = source
      /\ Spotted(window') /\ Spot(begun') /\ Spot(culprit') /\ status' \in Statuses
  BY NextTokens
<1>2. \A o : TokenAt(o)' = TokenAt(o)
  BY <1>1, SameTokens
<1>3. Size' = Size
  BY <1>1, SameFile
<1>4. source' \in Sources
  BY <1>1 DEF TInv
<1> QED
  BY <1>1, <1>2, <1>3, <1>4 DEF TInv, Spotted, Formed, Spot, NoToken, Statuses

-----------------------------------------------------------------------------
(* The report *)

\* report_token before the first round of its loop.
Unread == [offset |-> 0, line |-> <<0, 0>>]

\* A round of the loop that starts at l.
RoundFrom(l) == [offset |-> Past(To(l, {"\n"}), Blank), line |-> <<l, To(l, {"\n"})>>]

\* A round starts at the beginning of the file, at its end, or where blanks that begin
\* with a line feed end.
LineStart(o) ==
    \/ o = 0 \/ o = Size
    \/ \E n \in 0..(o - 1) : At(n) = "\n" /\ \A p \in n..(o - 1) : At(p) \in Blank

\* The reader of r is where a round leaves it that began in line k or before.
Shows(r, k) ==
    \/ r = Unread
    \/ \E l \in 0..Size : LineStart(l) /\ Line(l) <= k /\ r = RoundFrom(l)

RInv ==
    /\ TInv
    /\ Shows(report, culprit.line)
    /\ status = "reported" => Line(report.offset) > culprit.line

LEMMA RoundSpec ==
    ASSUME source \in Sources, NEW l \in 0..Size
    PROVE  /\ RoundFrom(l).line[1] = l
           /\ RoundFrom(l).line[2] \in l..Size
           /\ RoundFrom(l).line[2] = Size \/ At(RoundFrom(l).line[2]) = "\n"
           /\ \A o \in l..(RoundFrom(l).line[2] - 1) : At(o) # "\n"
           /\ RoundFrom(l).offset \in RoundFrom(l).line[2]..Size
           /\ \A o \in RoundFrom(l).line[2]..(RoundFrom(l).offset - 1) : At(o) \in Blank
           /\ RoundFrom(l) \in [offset : 0..Size, line : (0..Size) \X (0..Size)]
           /\ LineStart(RoundFrom(l).offset)
<1> DEFINE e == To(l, {"\n"})
           n == Past(e, Blank)
<1>1. Size \in Nat /\ l \in Nat
  BY SizeIsNat
<1>2. /\ e \in l..Size /\ (e = Size \/ At(e) = "\n")
      /\ \A o \in l..(e - 1) : At(o) # "\n"
  BY ToSpec
<1>3. RoundFrom(l) = [offset |-> n, line |-> <<l, e>>]
  BY DEF RoundFrom
<1> HIDE DEF e
<1>4. e \in 0..Size /\ e \in Nat
  BY <1>1, <1>2
<1>5. /\ n \in e..Size /\ (n = Size \/ At(n) \notin Blank)
      /\ \A o \in e..(n - 1) : At(o) \in Blank
  BY <1>4, PastSpec
<1> HIDE DEF n
<1>6. n \in 0..Size /\ n \in Nat
  BY <1>1, <1>4, <1>5
<1>7. LineStart(n)
  <2>1. CASE n = Size
    BY <2>1 DEF LineStart
  <2>2. CASE n # Size
    <3>1. e # Size
      BY <1>1, <1>4, <1>5, <1>6, <2>2
    <3>2. At(e) = "\n" /\ At(e) \in Blank
      BY <1>2, <3>1 DEF Blank
    <3>3. e # n
      BY <1>5, <2>2, <3>2
    <3>4. e \in 0..(n - 1)
      BY <1>4, <1>5, <1>6, <3>3
    <3> QED
      BY <1>5, <3>2, <3>4 DEF LineStart
  <2> QED
    BY <2>1, <2>2
<1>8. /\ RoundFrom(l).line[1] = l /\ RoundFrom(l).line[2] = e /\ RoundFrom(l).offset = n
      /\ RoundFrom(l) \in [offset : 0..Size, line : (0..Size) \X (0..Size)]
  BY <1>3, <1>4, <1>6
<1> QED
  BY <1>2, <1>5, <1>7, <1>8

LEMMA CallReports ==
    ASSUME NEW w, NEW then, Call(w, then)
    PROVE  \/ report' = Unread /\ status' = "reporting"
           \/ UNCHANGED <<culprit, report>> /\ status' = then
BY DEF Call, Fail, Unread

\* What a step does with the report.
LEMMA NextReport ==
    [Next]_vars =>
        \/ FindLine
        \/ report' = Unread /\ status' = "reporting"
        \/ /\ UNCHANGED <<culprit, report>>
           /\ status' = "reported" => status = "reported" \/ Reported
<1> DEFINE Goal == \/ FindLine
                   \/ report' = Unread /\ status' = "reporting"
                   \/ /\ UNCHANGED <<culprit, report>>
                      /\ status' = "reported" => status = "reported" \/ Reported
<1> SUFFICES ASSUME [Next]_vars PROVE Goal
  OBVIOUS
<1>1. ASSUME NEW w, NEW then \in {"parsed", "declaration"}, Call(w, then) PROVE Goal
  BY <1>1, CallReports
<1>2. CASE NextDeclaration
  <2>1. CASE window.offset >= Size
    BY <1>2, <2>1 DEF NextDeclaration
  <2>2. CASE ~(window.offset >= Size)
    <3>1. PICK then \in {"parsed", "declaration"} : Call(MatchedNext(window, "Eof"), then)
      BY <1>2, <2>2 DEF NextDeclaration
    <3> QED
      BY <1>1, <3>1
  <2> QED
    BY <2>1, <2>2
<1>3. ASSUME NEW type \in Asked, Match(type) \/ MatchNext(type) \/ Expect(type) PROVE Goal
  BY <1>1, <1>3 DEF Match, MatchNext, Expect, Fail, Unread
<1>4. ASSUME NEW a \in Asked, NEW b \in Asked, MatchBoth(a, b) PROVE Goal
  BY <1>1, <1>4 DEF MatchBoth
<1>5. CASE Take
  BY <1>1, <1>5 DEF Take
<1>6. CASE Refuse \/ Analyze
  BY <1>6 DEF Refuse, Analyze, Fail, Unread
<1>7. CASE EndDeclaration \/ FindLine \/ Reported \/ UNCHANGED vars
  BY <1>7 DEF EndDeclaration, Reported, Parsing, vars
<1> QED
  BY <1>2, <1>3, <1>4, <1>5, <1>6, <1>7 DEF Next, Stopped

LEMMA InitReport == Init => RInv
<1>1. Init => Shows(report, culprit.line) /\ status # "reported"
  BY DEF Init, Shows, Unread
<1> QED
  BY <1>1, InitSpotted DEF RInv

\* Where the reader of a report is, is in the file.
LEMMA ReportInFile ==
    ASSUME RInv
    PROVE  report \in [offset : 0..Size, line : (0..Size) \X (0..Size)] /\ LineStart(report.offset)
<1>1. source \in Sources /\ Size \in Nat
  BY SizeIsNat DEF RInv, TInv
<1>2. CASE report = Unread
  BY <1>1, <1>2 DEF Unread, LineStart
<1>3. CASE report # Unread
  <2>1. PICK l \in 0..Size : report = RoundFrom(l)
    BY <1>3 DEF RInv, Shows
  <2> QED
    BY <1>1, <2>1, RoundSpec
<1> QED
  BY <1>2, <1>3

LEMMA NextShows == RInv /\ [Next]_vars => RInv'
<1> SUFFICES ASSUME RInv, [Next]_vars PROVE RInv'
  OBVIOUS
<1>1. source' = source /\ TInv'
  BY NextTokens, NextSpotted DEF RInv
<1>2. /\ Shows(report', culprit'.line)
      /\ status' = "reported" => Line(report'.offset) > culprit'.line
  <2>1. CASE FindLine
    <3> DEFINE l == report.offset
    <3>1. l \in 0..Size /\ LineStart(l)
      BY ReportInFile
    <3>2. /\ status' = "reporting" /\ Line(l) <= culprit.line
          /\ report' = RoundFrom(l) /\ culprit' = culprit
      BY <2>1 DEF FindLine, RoundFrom
    <3> HIDE DEF l
    <3> QED
      BY <3>1, <3>2 DEF Shows
  <2>2. CASE report' = Unread /\ status' = "reporting"
    BY <2>2 DEF Shows
  <2>3. CASE /\ UNCHANGED <<culprit, report>>
             /\ status' = "reported" => status = "reported" \/ Reported
    BY <2>3 DEF RInv, Reported
  <2> QED
    BY <2>1, <2>2, <2>3, NextReport
<1>3. /\ Size' = Size
      /\ \A o : At(o)' = At(o) /\ Line(o)' = Line(o)
      /\ \A o, S : Past(o, S)' = Past(o, S) /\ To(o, S)' = To(o, S)
  BY <1>1, SameFile
<1>4. Shows(report, culprit.line)'
  BY <1>2, <1>3 DEF Shows, Unread, RoundFrom, LineStart, Blank
<1>5. (status = "reported" => Line(report.offset) > culprit.line)'
  <2>1. Line(report.offset)' = Line(report'.offset)
    BY <1>3 DEF Line
  <2> QED
    BY <1>2, <2>1
<1> QED
  BY <1>1, <1>4, <1>5 DEF RInv

\* Whatever the file and the parser, every variable has its type: neither the reader of
\* the lexer nor the one of report_token gets behind the end of the file
\* (text_reader.cpp, lexer.cpp, token.cpp).
THEOREM ReadersStayInFile == Spec => []TypeOK
<1>1. RInv => TypeOK
  <2> SUFFICES ASSUME RInv PROVE TypeOK
    OBVIOUS
  <2>1. source \in Sources /\ Spotted(window) /\ Spot(begun) /\ Spot(culprit) /\ status \in Statuses
    BY DEF RInv, TInv
  <2>2. /\ window.last \in Token /\ window.current \in Token /\ window.next \in Token
        /\ begun \in Token /\ culprit \in Token
    BY <2>1, SpotSpec DEF Spotted
  <2>3. window \in [last : Token, current : Token, next : Token, offset : 0..Size]
    BY <2>1, <2>2 DEF Spotted, Formed
  <2> QED
    BY <2>1, <2>2, <2>3, ReportInFile DEF TypeOK, Statuses
<1> QED
  BY <1>1, InitReport, NextShows, PTL DEF Spec

-----------------------------------------------------------------------------
(* What lies between tokens, and what a report shows *)

\* Whatever the file and the parser, what lies between two tokens of the window is blank
\* or in a comment (Lexer::skip_whitespace, lexer.cpp).
THEOREM NothingElseIsSkipped == Spec => []OnlyCommentsAreSkipped
<1>1. IInv /\ TInv => OnlyCommentsAreSkipped
  <2> SUFFICES ASSUME IInv, TInv, NEW t \in {window.current, window.next} \ {NoToken}
               PROVE  LET before == IF t = window.next THEN window.current.end ELSE window.last.end
                      IN  \A o \in before..(t.first - 1) : Skippable(before, o)
    BY DEF OnlyCommentsAreSkipped, Skippable, Opens
  <2> DEFINE before == IF t = window.next THEN window.current.end ELSE window.last.end
  <2>1. t = TokenAt(before)
    <3>1. NoToken.end = 0
      BY DEF NoToken
    <3>2. CASE t = window.next
      BY <3>1, <3>2 DEF IInv, Sound, Consecutive
    <3>3. CASE t # window.next
      BY <3>1, <3>3 DEF IInv, Sound, Consecutive
    <3> QED
      BY <3>2, <3>3
  <2>2. source \in Sources /\ before \in 0..Size
    BY SpotSpec DEF TInv, Spotted
  <2> HIDE DEF before
  <2>3. t.first = Start[before]
    BY <2>1, <2>2, TokenSpec
  <2>4. \A o \in before..(t.first - 1) : Skippable(before, o)
    BY <2>2, <2>3, StartSpec
  <2> QED
    BY <2>4 DEF before
<1> QED
  BY <1>1, InitSound, NextSound, InitSpotted, NextSpotted, PTL DEF Spec

\* Behind the last character there is only the end of the file.
LEMMA LastTokenIsEof == ASSUME source \in Sources PROVE TokenAt(Size).type = "Eof"
<1>1. Size \in Nat /\ Size \in 0..Size
  BY SizeIsNat
<1>2. Start[Size] \in Size..Size
  BY <1>1, StartSpec
<1>3. Start[Size] = Size /\ At(Size) = "NUL"
  BY <1>1, <1>2, NulAtEnd
<1>4. Scan(Size)[1] = "Eof"
  BY <1>3 DEF Scan
<1> QED
  BY <1>3, <1>4 DEF TokenAt

\* There is no token behind window w.
Rest(w) ==
    /\ w.current.type = "Eof" \/ TokenAt(w.offset).type = "Eof"
    /\ w.next # NoToken => w.offset = Size

\* The loop over the declarations ends at the end of the file, or when Eof is taken.
LEMMA NextRest == TInv /\ WindowIsTheRest /\ [Next]_vars => WindowIsTheRest'
<1> SUFFICES ASSUME TInv, WindowIsTheRest, [Next]_vars, status' = "parsed"
             PROVE  Rest(window')
  <2>1. ASSUME TInv, [Next]_vars, Rest(window')
        PROVE  /\ window'.current.type = "Eof" \/ TokenAt(window.offset)'.type = "Eof"
               /\ window'.next # NoToken => window'.offset = Size'
    <3>1. source' = source
      BY <2>1, NextTokens
    <3>2. \A o : TokenAt(o)' = TokenAt(o)
      BY <3>1, SameTokens
    <3>3. Size' = Size
      BY <3>1, SameFile
    <3> QED
      BY <2>1, <3>2, <3>3 DEF Rest
  <2> QED
    BY <2>1 DEF WindowIsTheRest, NoToken
<1>3. CASE NextDeclaration
  <2>1. CASE window.offset >= Size
    <3>1. window' = window
      BY <1>3, <2>1 DEF NextDeclaration
    <3>2. window.offset = Size
      BY <2>1, SizeIsNat DEF TInv, Spotted
    <3> QED
      BY <3>1, <3>2, LastTokenIsEof DEF TInv, Rest
  <2>2. CASE ~(window.offset >= Size)
    <3> DEFINE n == PeekedNext(window)
               w == MatchedNext(window, "Eof")
    <3>1. Call(w, IF w.next = NoToken THEN "parsed" ELSE "declaration")
      BY <1>3, <2>2 DEF NextDeclaration
    <3> HIDE DEF w
    <3>2. window' = w /\ w.next = NoToken
      BY <3>1, CallReports DEF Call
    <3>3. n.next # NoToken
      BY TokenIsRead, AdvancedIsSpotted DEF PeekedNext, TInv, Spotted, Formed
    <3>4. Formed(n)
      BY AdvancedIsSpotted DEF TInv, Spotted
    <3>5. w = IF n.next.type = "Eof" THEN Advanced(n) ELSE n
      BY DEF w, MatchedNext
    <3> HIDE DEF n
    <3>6. n.next.type = "Eof" /\ w = Advanced(n)
      BY <3>2, <3>3, <3>5
    <3>7. w.current = n.next
      BY <3>3, <3>4, <3>6 DEF Advanced, Formed
    <3> QED
      BY <3>2, <3>6, <3>7 DEF Rest
  <2> QED
    BY <2>1, <2>2
<1>4. ~\E w : Call(w, "declaration")
  BY CallReports
<1>5. CASE \/ \E type \in Asked : Match(type) \/ MatchNext(type) \/ Expect(type)
           \/ \E a, b \in Asked : MatchBoth(a, b)
           \/ Take
  BY <1>4, <1>5 DEF Match, MatchNext, Expect, MatchBoth, Take, Fail
<1>6. CASE Refuse \/ EndDeclaration \/ Analyze \/ FindLine \/ Reported
  BY <1>6 DEF Refuse, EndDeclaration, Analyze, FindLine, Reported, Fail
<1>7. CASE UNCHANGED vars
  BY <1>7 DEF vars, WindowIsTheRest, Rest
<1> QED
  BY <1>3, <1>5, <1>6, <1>7 DEF Next, Stopped

\* Whatever the file and the parser, no part of the file is left unread when the loop
\* over the declarations ends (AST::parse, ast.cpp).
THEOREM FileIsRead == Spec => []WindowIsTheRest
<1>1. Init => WindowIsTheRest
  BY DEF Init, WindowIsTheRest
<1> QED
  BY <1>1, NextRest, InitSpotted, NextSpotted, PTL DEF Spec

\* The round that got behind the line in which a token ends began before that end, and
\* the line it kept ends behind it: the blanks that are skipped in one go are not the
\* end of a token.
LEMMA LineHoldsEnd ==
    ASSUME source \in Sources, NEW l \in 0..Size, LineStart(l),
           NEW f \in 0..Size, NEW e \in 0..Size, f < e,
           At(f) \notin Blank, EndsWell(f, e), At(e - 1) # "\n",
           Line(l) <= Line(e), Line(RoundFrom(l).offset) > Line(e)
    PROVE  l < e /\ e <= RoundFrom(l).line[2]
<1> DEFINE l2 == RoundFrom(l).line[2]
           n == RoundFrom(l).offset
<1>1. Size \in Nat /\ l \in Nat /\ e \in Nat /\ f \in Nat /\ f < e /\ e <= Size
  BY SizeIsNat
<1>2. /\ l2 \in l..Size /\ (l2 = Size \/ At(l2) = "\n")
      /\ n \in l2..Size /\ \A o \in l2..(n - 1) : At(o) \in Blank
  BY RoundSpec
<1> HIDE DEF l2, n
<1>3. l2 \in Nat /\ n \in Nat
  BY <1>1, <1>2
<1>4. Line(l) \in Nat /\ Line(e) \in Nat /\ Line(n) \in Nat /\ ~(Line(n) <= Line(e))
  BY <1>1, <1>3, LinesInOrder DEF n
<1>5. e < n
  <2>1. ~(n <= e)
    BY <1>1, <1>3, <1>4, LinesInOrder
  <2> QED
    BY <1>1, <1>3, <2>1
\* A blank before the end of the token is its last character, and the one before that
\* is none.
<1>6. ASSUME NEW a \in Nat, NEW b \in Nat, a < e, e <= b, b <= n,
             \A o \in a..(b - 1) : At(o) \in Blank
      PROVE  a = e - 1
  <2>1. e - 1 \in a..(b - 1)
    BY <1>1, <1>6
  <2>2. At(e - 1) \in Blank /\ e # Size
    BY <1>1, <1>2, <1>3, <1>5, <1>6, <2>1
  <2>3. e = f + 2
    BY <2>2 DEF EndsWell
  <2>4. f \notin a..(b - 1)
    BY <1>6
  <2> QED
    BY <1>1, <1>6, <2>3, <2>4
<1>7. e <= l2
  <2> SUFFICES ASSUME l2 < e PROVE FALSE
    BY <1>1, <1>3
  <2>1. l2 = e - 1
    <3>1. e <= n /\ n <= n
      BY <1>1, <1>3, <1>5
    <3> QED
      BY <1>2, <1>3, <1>6, <3>1
  <2>2. l2 # Size
    BY <1>1, <1>3
  <2> QED
    BY <1>2, <2>1, <2>2
<1>8. l < e
  <2> SUFFICES ASSUME e <= l PROVE FALSE
    BY <1>1
  <2>1. l # 0
    BY <1>1
  <2>2. l # Size
    <3>1. l = Size => n = l
      BY <1>1, <1>2, <1>3
    <3>2. Line(l) = Line(n) => Line(n) <= Line(e)
      BY <1>4
    <3> QED
      BY <1>4, <3>1
  <2>3. PICK m \in 0..(l - 1) : At(m) = "\n" /\ \A p \in m..(l - 1) : At(p) \in Blank
    BY <2>1, <2>2 DEF LineStart
  <2>4. Line(e) = Line(l)
    <3>1. Line(e) <= Line(l)
      BY <1>1, LinesInOrder
    <3> QED
      BY <1>4, <3>1
  <2>5. \A p \in e..(l - 1) : At(p) # "\n"
    BY <1>1, <2>4, LinesInOrder
  <2>6. m \in Nat /\ m < e
    BY <1>1, <2>3, <2>5
  <2>7. l <= n
    BY <1>1, <1>2, <1>3
  <2>8. m = e - 1
    BY <1>1, <1>6, <2>3, <2>6, <2>7
  <2> QED
    BY <2>3, <2>8
<1> QED
  BY <1>7, <1>8 DEF l2

\* Whatever the file and the parser, the line shown with an error is one that its token
\* ends in (report_token, token.cpp).
THEOREM ReportsShowTheToken == Spec => []ReportShowsToken
<1>1. RInv => ReportShowsToken
  <2> SUFFICES ASSUME RInv, status = "reported", culprit # NoToken, culprit.type # "Eof",
                      At(culprit.end - 1) # "\n"
               PROVE  /\ report.line[1] < culprit.end /\ culprit.end <= report.line[2]
                      /\ \A o \in report.line[1]..(report.line[2] - 1) : At(o) # "\n"
    BY DEF ReportShowsToken
  <2>1. source \in Sources /\ Spot(culprit) /\ Size \in Nat
    BY SizeIsNat DEF RInv, TInv
  <2> DEFINE f == culprit.first
             e == culprit.end
  <2>2. /\ e \in 0..Size /\ f \in 0..Size /\ culprit.line = Line(e)
        /\ f < e /\ At(f) \notin Blank /\ EndsWell(f, e)
    BY <2>1, SpotSpec DEF Token
  <2>3. Line(report.offset) > Line(e)
    BY <2>2 DEF RInv
  <2> HIDE DEF e, f
  <2>4. report # Unread
    <3>1. Line(0) <= Line(e) /\ Line(0) \in Nat /\ Line(e) \in Nat
      BY <2>1, <2>2, LinesInOrder
    <3>2. Line(report.offset) # Line(0)
      BY <2>3, <3>1
    <3> QED
      BY <3>2 DEF Unread
  <2>5. PICK l \in 0..Size : LineStart(l) /\ Line(l) <= Line(e) /\ report = RoundFrom(l)
    BY <2>2, <2>4 DEF RInv, Shows
  <2>6. l < e /\ e <= RoundFrom(l).line[2]
    BY <2>1, <2>2, <2>3, <2>5, LineHoldsEnd DEF e
  <2> QED
    BY <2>1, <2>5, <2>6, RoundSpec DEF e
<1> QED
  BY <1>1, InitReport, NextShows, PTL DEF Spec

\* Until the line of its token is behind it, each round of a report moves its reader
\* towards the end of the file, if a line begins behind the token: under fairness such a
\* report ends.
RoundsAdvance ==
    (FindLine /\ \E o \in culprit.end..(Size - 1) : At(o) = "\n") =>
        report.offset < report'.offset /\ report'.offset <= Size

\* Whatever the file and the parser, the loop of report_token neither stands still nor
\* turns back (token.cpp).
THEOREM ReportsAdvance == Spec => [][RoundsAdvance]_vars
<1>1. RInv /\ [Next]_vars => [RoundsAdvance]_vars
  <2> SUFFICES ASSUME RInv, FindLine, NEW o \in culprit.end..(Size - 1), At(o) = "\n"
               PROVE  report.offset < report'.offset /\ report'.offset <= Size
    BY DEF RoundsAdvance
  <2> DEFINE l == report.offset
             e == culprit.end
             n == RoundFrom(l).offset
  <2>1. source \in Sources /\ Spot(culprit) /\ Size \in Nat
    BY SizeIsNat DEF RInv, TInv
  <2>2. l \in 0..Size /\ e \in 0..Size /\ (culprit.line = Line(e) \/ culprit = NoToken)
    BY <2>1, ReportInFile, SpotSpec
  <2>3. report'.offset = n /\ Line(l) <= culprit.line
    BY DEF FindLine, RoundFrom
  <2>4. l \in Nat /\ e \in Nat /\ e <= Size /\ o \in e..(Size - 1)
    BY <2>1, <2>2
  <2> HIDE DEF l, e, n
  <2>5. l # Size
    <3> SUFFICES ASSUME l = Size PROVE FALSE
      OBVIOUS
    <3>1. /\ Line(e) \in Nat /\ Line(Size) \in Nat
          /\ Line(e) <= Line(Size) /\ Line(e) # Line(Size)
      BY <2>1, <2>4, LinesInOrder
    <3>2. CASE culprit.line = Line(e)
      BY <2>3, <3>1, <3>2
    <3>3. CASE culprit = NoToken
      <4>1. culprit.line = 0
        BY <3>3 DEF NoToken
      <4> QED
        BY <2>3, <3>1, <4>1
    <3> QED
      BY <2>2, <3>2, <3>3
  <2>6. n \in l..Size /\ (n = l => At(l) \notin Blank)
    <3> DEFINE f == To(l, {"\n"})
    <3>1. f \in l..Size
      BY <2>1, <2>2, ToSpec
    <3>2. n = Past(f, Blank)
      BY DEF n, RoundFrom
    <3> HIDE DEF f
    <3>3. f \in 0..Size
      BY <2>1, <2>2, <3>1
    <3>4. n \in f..Size /\ (n = Size \/ At(n) \notin Blank)
      BY <2>1, <3>2, <3>3, PastSpec
    <3> QED
      BY <2>1, <2>4, <2>5, <3>1, <3>4
  <2>7. n # l
    <3> SUFFICES ASSUME n = l PROVE FALSE
      OBVIOUS
    <3> DEFINE f == RoundFrom(l).line[2]
    <3>1. f \in l..Size /\ (f = Size \/ At(f) = "\n") /\ n \in f..Size
      BY <2>1, <2>2, RoundSpec DEF n
    <3> HIDE DEF f
    <3>2. f = l
      BY <2>1, <2>4, <3>1
    <3>3. At(l) = "\n"
      BY <2>5, <3>1, <3>2
    <3> QED
      BY <2>6, <3>3 DEF Blank
  <2> QED
    BY <2>1, <2>3, <2>4, <2>6, <2>7 DEF l
<1> QED
  BY <1>1, InitReport, NextShows, PTL DEF Spec
=============================================================================
