--------------------------- MODULE CommandRunProofs ---------------------------
(***************************************************************************)
(* Proofs about CommandRun: for every path, every size of size_t, of the   *)
(* chunk, of the pipe and of the limit, and any number of failing calls.   *)
(*                                                                         *)
(* The first half is about the command line alone.  The loop that quotes   *)
(* the path and the shell that reads the line are recursive functions;     *)
(* what they compute is proved by induction over the bytes, taken from the *)
(* well-foundedness of <.  The second half is the inductive invariant of   *)
(* the call: while the output is read, the buffer, the chunk and the pipe  *)
(* together are all that the child has written.                            *)
(***************************************************************************)
EXTENDS CommandRun, SequenceTheorems, WellFoundedInduction, TLAPS

------------------------------------------------------------------------------
(* Induction, and loops.                                                   *)

(* A set of natural numbers that is not empty has a least one.             *)
LEMMA LeastNumber ==
  ASSUME NEW T, T \subseteq Nat, T /= {}
  PROVE  \E m \in T : \A n \in T : m <= n
<1> DEFINE R == OpToRel(<, Nat)
<1>1. IsWellFoundedOn(R, Nat)
  BY NatLessThanWellFounded, Zenon
<1>2. \A a, b \in Nat : a < b => <<a, b>> \in R
  BY DEF OpToRel
<1> HIDE DEF R
<1>3. PICK m \in T : \A n \in T : ~(<<n, m>> \in R)
  BY <1>1, WFMin, Zenon
<1>4. \A n \in T : ~(n < m)
  BY <1>2, <1>3, Zenon
<1>5. ASSUME NEW n \in T PROVE m <= n
  <2>1. n \in Nat /\ m \in Nat /\ ~(n < m)
    BY <1>4
  <2> QED
    BY <2>1
<1> QED
  BY <1>5

(* Induction over the natural numbers, for a set of them.                  *)
LEMMA SetInduction ==
  ASSUME NEW T, 0 \in T, \A n \in Nat : n \in T => n + 1 \in T
  PROVE  \A n \in Nat : n \in T
<1> SUFFICES ASSUME {n \in Nat : n \notin T} /= {} PROVE FALSE
  OBVIOUS
<1>1. PICK m \in {n \in Nat : n \notin T} : \A n \in {n \in Nat : n \notin T} : m <= n
  BY LeastNumber, Zenon
<1>2. m - 1 \in Nat /\ m - 1 \in T
  BY <1>1
<1> QED
  BY <1>1, <1>2

(* N turns of a loop over the states S, the k-th of which takes s to       *)
(* g[s, k], and what the state is after each of them.                      *)
Loops(S, N) == [S \X (1..N) -> S]
IsRun(f, S, N, base, g) ==
  f \in [0..N -> S] /\ f[0] = base /\ \A k \in 1..N : f[k] = g[<<f[k - 1], k>>]

(* Such a run exists, for every loop.                                      *)
LEMMA Turns ==
  ASSUME NEW S, NEW N \in Nat, NEW base \in S, NEW g \in Loops(S, N)
  PROVE  \E f : IsRun(f, S, N, base, g)
<1>0. g \in [S \X (1..N) -> S]
  BY DEF Loops
<1> DEFINE Good(f, n) == /\ f \in [0..n -> S] /\ f[0] = base
                         /\ \A k \in 1..n : f[k] = g[<<f[k - 1], k>>]
           T == {n \in Nat : n <= N => \E f : Good(f, n)}
<1>1. 0 \in T
  <2>1. Good([k \in 0..0 |-> base], 0)
    OBVIOUS
  <2> HIDE DEF Good
  <2> QED
    BY <2>1
<1>2. ASSUME NEW n \in Nat, n \in T PROVE n + 1 \in T
  <2> SUFFICES ASSUME n + 1 <= N PROVE \E f : Good(f, n + 1)
    OBVIOUS
  <2>1. PICK f : Good(f, n)
    BY <1>2
  <2> DEFINE last == g[<<f[n], n + 1>>]
             h == [k \in 0..(n + 1) |-> IF k = n + 1 THEN last ELSE f[k]]
  <2>2. last \in S
    BY <1>0, <2>1
  <2> HIDE DEF last
  <2>3. h \in [0..(n + 1) -> S]
    BY <2>1, <2>2
  <2>4. h[0] = base
    BY <2>1
  <2>5. ASSUME NEW k \in 1..(n + 1) PROVE h[k] = g[<<h[k - 1], k>>]
    <3>1. k - 1 \in 0..n /\ h[k - 1] = f[k - 1]
      BY <2>1
    <3>2. CASE k = n + 1
      <4>1. h[k] = last /\ k - 1 = n
        BY <3>2
      <4> QED
        BY <3>1, <3>2, <4>1 DEF last
    <3>3. CASE k /= n + 1
      <4>1. h[k] = f[k] /\ k \in 1..n
        BY <3>3
      <4> QED
        BY <3>1, <4>1, <2>1
    <3> QED
      BY <3>2, <3>3
  <2>6. Good(h, n + 1)
    BY <2>3, <2>4, <2>5, Zenon
  <2> HIDE DEF Good, h
  <2> QED
    BY <2>6
<1> HIDE DEF T
<1>3. N \in T
  BY <1>1, <1>2, SetInduction
<1> QED
  BY <1>3 DEF T, IsRun

(* What is written for a byte is bytes.                                    *)
LEMMA EscapedType == \A c \in Char : Escaped(c) \in Seq(Char)
<1> SUFFICES ASSUME NEW c \in Char PROVE Escaped(c) \in Seq(Char)
  OBVIOUS
<1>1. <<c>> \in Seq(Char)
  OBVIOUS
<1>2. "quote" \in Char /\ "backslash" \in Char
  BY DEF Char
<1>3. <<"quote", "backslash", "quote", "quote">> \in Seq(Char)
  BY <1>2
<1> QED
  BY <1>1, <1>3 DEF Escaped

(* What each turn of a loop preserves holds after all of them.             *)
LEMMA TurnsStay ==
  ASSUME NEW S, NEW N \in Nat, NEW f, f[0] \in S,
         \A k \in 1..N : f[k - 1] \in S => f[k] \in S
  PROVE  \A k \in 0..N : f[k] \in S
<1> DEFINE T == {n \in Nat : n <= N => f[n] \in S}
<1>1. 0 \in T
  OBVIOUS
<1>2. ASSUME NEW n \in Nat, n \in T PROVE n + 1 \in T
  <2> SUFFICES ASSUME n + 1 <= N PROVE f[n + 1] \in S
    OBVIOUS
  <2>1. n + 1 \in 1..N /\ (n + 1) - 1 = n /\ f[n] \in S
    BY <1>2
  <2> QED
    BY <2>1
<1> HIDE DEF T
<1>3. \A n \in Nat : n \in T
  BY <1>1, <1>2, SetInduction
<1> QED
  BY <1>3 DEF T

(* The loop of wc_command_quote_argument, turn by turn: u[i] is what it    *)
(* has written for the first i bytes, the opening quote included.          *)
LEMMA QuotedTurns ==
  ASSUME NEW a \in Seq(Char)
  PROVE  \E u \in [0..Len(a) -> Seq(Char)] :
           /\ u[0] = <<"quote">>
           /\ \A i \in 1..Len(a) : u[i] = u[i - 1] \o Escaped(a[i])
           /\ Quoted(a) = u[Len(a)] \o <<"quote">>
<1> DEFINE N == Len(a)
           S == Seq(Char)
           quote == <<"quote">>
           Step(s, i) == s \o Escaped(a[i])
           g == [x \in S \X (1..N) |-> Step(x[1], x[2])]
           Loop(u) == [i \in 0..N |-> IF i = 0 THEN quote ELSE Step(u[i - 1], i)]
           upto == CHOOSE u : u = Loop(u)
<1>1. N \in Nat /\ \A s \in S, i \in 1..N : Step(s, i) \in S
  BY EscapedType
<1>2. Quoted(a) = upto[N] \o quote
  BY DEF Quoted
<1>3. quote \in S
  BY DEF Char
<1> SUFFICES \E u \in [0..N -> S] :
               /\ u[0] = quote /\ \A i \in 1..N : u[i] = Step(u[i - 1], i)
               /\ Quoted(a) = u[N] \o quote
  BY Zenon
<1> HIDE DEF N, S, quote, Step
<1>4. g \in Loops(S, N)
  BY <1>1 DEF Loops
<1>5. \A s \in S, i \in 1..N : g[<<s, i>>] = Step(s, i)
  BY Zenon
<1> HIDE DEF g
<1>6. PICK f : IsRun(f, S, N, quote, g)
  BY <1>1, <1>3, <1>4, Turns, Zenon
<1>7. ASSUME NEW i \in 1..N PROVE f[i] = Step(f[i - 1], i)
  <2>1. f[i - 1] \in S
    BY <1>1, <1>6 DEF IsRun
  <2> QED
    BY <1>5, <1>6, <2>1, Zenon DEF IsRun
<1>8. f = Loop(f)
  <2>1. ASSUME NEW i \in 0..N PROVE f[i] = Loop(f)[i]
    BY <1>1, <1>6, <1>7 DEF IsRun
  <2> QED
    BY <1>6, <2>1 DEF IsRun
<1>9. upto = Loop(upto)
  BY <1>8, Zenon
<1> HIDE DEF upto
<1>10. upto[0] = quote /\ \A i \in 1..N : upto[i] = Step(upto[i - 1], i)
  BY <1>1, <1>9
<1>11. \A i \in 1..N : upto[i - 1] \in S => upto[i] \in S
  BY <1>1, <1>10
<1>12. \A i \in 0..N : upto[i] \in S
  BY <1>1, <1>3, <1>10, <1>11, TurnsStay, Zenon
<1>13. upto \in [0..N -> S]
  BY <1>9, <1>12
<1> HIDE DEF Loop
<1> QED
  BY <1>2, <1>10, <1>13, Zenon

(* The states of the shell. *)
ShellState ==
  [words : Seq(Seq(Char)), word : Seq(Char), open : BOOLEAN,
   mode : {"none", "quote", "backslash"}, redirects : Nat, active : BOOLEAN]

(* A byte read leaves the shell in one of its states.                      *)
LEMMA ShellReadsType ==
  ASSUME NEW sh \in ShellState, NEW c \in Char
  PROVE  ShellReads(sh, c) \in ShellState
<1>0. /\ sh.words \in Seq(Seq(Char)) /\ sh.word \in Seq(Char) /\ sh.redirects \in Nat
      /\ sh.mode \in {"none", "quote", "backslash"}
  BY DEF ShellState
<1>1. InWord(sh, c) \in ShellState
  <2>1. Append(sh.word, c) \in Seq(Char)
    BY <1>0, AppendProperties
  <2> QED
    BY <1>0, <2>1, Zenon DEF InWord, ShellState
<1>2. EndOfWord(sh) \in ShellState
  <2>1. Append(sh.words, sh.word) \in Seq(Seq(Char)) /\ <<>> \in Seq(Char)
    BY <1>0, AppendProperties, EmptySeq
  <2> QED
    BY <1>0, <2>1, Zenon DEF EndOfWord, ShellState
<1>3. [EndOfWord(sh) EXCEPT !.redirects = @ + 1] \in ShellState
  <2>1. EndOfWord(sh).redirects + 1 \in Nat
    BY <1>2 DEF ShellState
  <2> QED
    BY <1>2, <2>1, Zenon DEF ShellState
<1>4. [sh EXCEPT !.mode = "none"] \in ShellState /\ [sh EXCEPT !.active = TRUE] \in ShellState
  BY Zenon DEF ShellState
<1>5. c \in {"quote", "backslash"} => [sh EXCEPT !.mode = c, !.open = TRUE] \in ShellState
  BY Zenon DEF ShellState
<1> QED
  BY <1>1, <1>2, <1>3, <1>4, <1>5, Zenon DEF ShellReads

(* The shell, byte by byte: t[i] is its state after the first i bytes of   *)
(* the line.                                                               *)
LEMMA ShellTurns ==
  ASSUME NEW line \in Seq(Char)
  PROVE  \E t \in [0..Len(line) -> ShellState] :
           /\ t[0] = Shell0
           /\ \A i \in 1..Len(line) : t[i] = ShellReads(t[i - 1], line[i])
           /\ ShellReadsLine(line) = EndOfWord(t[Len(line)])
<1> DEFINE N == Len(line)
           S == ShellState
           Step(s, i) == ShellReads(s, line[i])
           g == [x \in S \X (1..N) |-> Step(x[1], x[2])]
           Loop(u) == [i \in 0..N |-> IF i = 0 THEN Shell0 ELSE Step(u[i - 1], i)]
           after == CHOOSE u : u = Loop(u)
<1>1. N \in Nat /\ \A s \in S, i \in 1..N : Step(s, i) \in S
  BY ShellReadsType
<1>2. ShellReadsLine(line) = EndOfWord(after[N])
  BY DEF ShellReadsLine
<1>3. Shell0 \in S
  BY DEF ShellState, Shell0
<1> SUFFICES \E t \in [0..N -> S] :
               /\ t[0] = Shell0 /\ \A i \in 1..N : t[i] = Step(t[i - 1], i)
               /\ ShellReadsLine(line) = EndOfWord(t[N])
  BY Zenon
<1> HIDE DEF N, S, Step
<1>4. g \in Loops(S, N)
  BY <1>1 DEF Loops
<1>5. \A s \in S, i \in 1..N : g[<<s, i>>] = Step(s, i)
  BY Zenon
<1> HIDE DEF g
<1>6. PICK f : IsRun(f, S, N, Shell0, g)
  BY <1>1, <1>3, <1>4, Turns, Zenon
<1>7. ASSUME NEW i \in 1..N PROVE f[i] = Step(f[i - 1], i)
  <2>1. f[i - 1] \in S
    BY <1>1, <1>6 DEF IsRun
  <2> QED
    BY <1>5, <1>6, <2>1, Zenon DEF IsRun
<1>8. f = Loop(f)
  <2>1. ASSUME NEW i \in 0..N PROVE f[i] = Loop(f)[i]
    BY <1>1, <1>6, <1>7 DEF IsRun
  <2> QED
    BY <1>6, <2>1 DEF IsRun
<1>9. after = Loop(after)
  BY <1>8, Zenon
<1> HIDE DEF after
<1>10. after[0] = Shell0 /\ \A i \in 1..N : after[i] = Step(after[i - 1], i)
  BY <1>1, <1>9
<1>11. \A i \in 1..N : after[i - 1] \in S => after[i] \in S
  BY <1>1, <1>10
<1>12. \A i \in 0..N : after[i] \in S
  BY <1>1, <1>3, <1>10, <1>11, TurnsStay, Zenon
<1>13. after \in [0..N -> S]
  BY <1>9, <1>12
<1> HIDE DEF Loop
<1> QED
  BY <1>2, <1>10, <1>13, Zenon

(* Shell sh has met nothing with a meaning to it, and is in this state. *)
IsSh(sh, words, word, open, mode, redirects) ==
  /\ sh.words = words /\ sh.word = word /\ sh.open = open /\ sh.mode = mode
  /\ sh.redirects = redirects /\ sh.active = FALSE

(* A byte of a word goes to its end.                                       *)
LEMMA ShellInWord ==
  ASSUME NEW sh \in ShellState, NEW w, NEW x, NEW o, NEW m, NEW r, NEW c \in Char,
         IsSh(sh, w, x, o, m, r)
  PROVE  IsSh(InWord(sh, c), w, Append(x, c), TRUE, IF m = "backslash" THEN "none" ELSE m, r)
  BY DEF IsSh, InWord, ShellState

(* A word that ends goes to the words, if one had begun.                   *)
LEMMA ShellEndOfWord ==
  ASSUME NEW sh \in ShellState, NEW w, NEW x, NEW o \in BOOLEAN, NEW m, NEW r,
         IsSh(sh, w, x, o, m, r)
  PROVE  IsSh(EndOfWord(sh), IF o THEN Append(w, x) ELSE w, <<>>, FALSE, m, r)
  BY DEF IsSh, EndOfWord, ShellState

(* Between quotes every byte stands for itself, but for the quote that     *)
(* closes them.                                                            *)
LEMMA ShellInQuotes ==
  ASSUME NEW sh \in ShellState, NEW w, NEW x, NEW r, NEW c \in Char,
         IsSh(sh, w, x, TRUE, "quote", r)
  PROVE  /\ c /= "quote" => IsSh(ShellReads(sh, c), w, Append(x, c), TRUE, "quote", r)
         /\ c = "quote" => IsSh(ShellReads(sh, c), w, x, TRUE, "none", r)
<1>1. CASE c /= "quote"
  <2>1. ShellReads(sh, c) = InWord(sh, c)
    BY <1>1 DEF ShellReads, IsSh
  <2> QED
    BY <1>1, <2>1, ShellInWord, Zenon
<1>2. CASE c = "quote"
  <2>1. ShellReads(sh, c) = [sh EXCEPT !.mode = "none"]
    BY <1>2 DEF ShellReads, IsSh
  <2> QED
    BY <1>2, <2>1, Zenon DEF IsSh, ShellState
<1> QED
  BY <1>1, <1>2, Zenon

(* After a backslash the next byte stands for itself.                      *)
LEMMA ShellEscapes ==
  ASSUME NEW sh \in ShellState, NEW w, NEW x, NEW r, NEW c \in Char,
         IsSh(sh, w, x, TRUE, "backslash", r)
  PROVE  IsSh(ShellReads(sh, c), w, Append(x, c), TRUE, "none", r)
<1>1. ShellReads(sh, c) = InWord(sh, c)
  BY DEF ShellReads, IsSh
<1> QED
  BY <1>1, ShellInWord, Zenon

(* What the unquoted bytes of the line mean.                               *)
LEMMA ShellUnquoted ==
  ASSUME NEW sh \in ShellState, NEW w, NEW x, NEW o \in BOOLEAN, NEW r,
         IsSh(sh, w, x, o, "none", r)
  PROVE  /\ IsSh(ShellReads(sh, "quote"), w, x, TRUE, "quote", r)
         /\ IsSh(ShellReads(sh, "backslash"), w, x, TRUE, "backslash", r)
         /\ IsSh(ShellReads(sh, "letter"), w, Append(x, "letter"), TRUE, "none", r)
         /\ IsSh(ShellReads(sh, "blank"), IF o THEN Append(w, x) ELSE w, <<>>, FALSE, "none", r)
         /\ IsSh(ShellReads(sh, "redirect"), IF o THEN Append(w, x) ELSE w, <<>>, FALSE, "none", r + 1)
<1>1. /\ ShellReads(sh, "quote") = [sh EXCEPT !.mode = "quote", !.open = TRUE]
      /\ ShellReads(sh, "backslash") = [sh EXCEPT !.mode = "backslash", !.open = TRUE]
      /\ ShellReads(sh, "letter") = InWord(sh, "letter")
      /\ ShellReads(sh, "blank") = EndOfWord(sh)
      /\ ShellReads(sh, "redirect") = [EndOfWord(sh) EXCEPT !.redirects = @ + 1]
  BY DEF ShellReads, IsSh
<1>2. /\ IsSh([sh EXCEPT !.mode = "quote", !.open = TRUE], w, x, TRUE, "quote", r)
      /\ IsSh([sh EXCEPT !.mode = "backslash", !.open = TRUE], w, x, TRUE, "backslash", r)
  BY DEF IsSh, ShellState
<1>3. IsSh(InWord(sh, "letter"), w, Append(x, "letter"), TRUE, "none", r)
  BY ShellInWord, Zenon DEF Char
<1>4. IsSh(EndOfWord(sh), IF o THEN Append(w, x) ELSE w, <<>>, FALSE, "none", r)
  BY ShellEndOfWord, Zenon
<1>5. EndOfWord(sh) \in ShellState
  BY ShellReadsType, <1>1 DEF Char
<1>6. ASSUME NEW v PROVE IsSh(EndOfWord(sh), v, <<>>, FALSE, "none", r)
                         => IsSh([EndOfWord(sh) EXCEPT !.redirects = @ + 1], v, <<>>, FALSE, "none", r + 1)
  BY <1>5 DEF IsSh, ShellState
<1> QED
  BY <1>1, <1>2, <1>3, <1>4, <1>6, Zenon

(* A byte of the argument, however it was written, is one byte of the word. *)
LEMMA ShellReadsEscaped ==
  ASSUME NEW w, NEW x, NEW r, NEW c \in Char, NEW t, NEW line, NEW p \in Nat,
         IsSh(t[p], w, x, TRUE, "quote", r),
         \A j \in 0..Len(Escaped(c)) : t[p + j] \in ShellState,
         \A j \in 1..Len(Escaped(c)) :
           line[p + j] = Escaped(c)[j] /\ t[p + j] = ShellReads(t[p + j - 1], line[p + j])
  PROVE  IsSh(t[p + Len(Escaped(c))], w, Append(x, c), TRUE, "quote", r)
<1>1. CASE c /= "quote"
  <2>1. Escaped(c) = <<c>> /\ Len(Escaped(c)) = 1
    BY <1>1 DEF Escaped
  <2>2. t[p + 1] = ShellReads(t[p], c) /\ t[p] \in ShellState
    BY <2>1
  <2> QED
    BY <1>1, <2>1, <2>2, ShellInQuotes, Zenon
<1>2. CASE c = "quote"
  <2>1. Escaped(c) = <<"quote", "backslash", "quote", "quote">> /\ Len(Escaped(c)) = 4
    BY <1>2 DEF Escaped
  <2>2. /\ t[p + 1] = ShellReads(t[p], "quote") /\ t[p + 2] = ShellReads(t[p + 1], "backslash")
        /\ t[p + 3] = ShellReads(t[p + 2], "quote") /\ t[p + 4] = ShellReads(t[p + 3], "quote")
    BY <2>1
  <2>3. /\ t[p] \in ShellState /\ t[p + 1] \in ShellState /\ t[p + 2] \in ShellState
        /\ t[p + 3] \in ShellState
    BY <2>1
  <2>4. IsSh(t[p + 1], w, x, TRUE, "none", r)
    BY <1>2, <2>2, <2>3, ShellInQuotes, Zenon
  <2>5. IsSh(t[p + 2], w, x, TRUE, "backslash", r)
    BY <2>2, <2>3, <2>4, ShellUnquoted, Zenon
  <2>6. IsSh(t[p + 3], w, Append(x, "quote"), TRUE, "none", r)
    BY <1>2, <2>2, <2>3, <2>5, ShellEscapes, Zenon
  <2>7. IsSh(t[p + 4], w, Append(x, "quote"), TRUE, "quote", r)
    BY <2>2, <2>3, <2>6, ShellUnquoted, Zenon
  <2>8. p + Len(Escaped(c)) = p + 4
    BY <2>1
  <2> QED
    BY <1>2, <2>7, <2>8, Zenon
<1> QED
  BY <1>1, <1>2, Zenon

(* Sequence s is how sequence q begins. *)
Leads(s, q) == Len(s) <= Len(q) /\ \A j \in 1..Len(s) : q[j] = s[j]

(* If s and then e begin a sequence, s begins it, and e stands behind s.   *)
LEMMA LeadsConcat ==
  ASSUME NEW S, NEW s \in Seq(S), NEW e \in Seq(S), NEW q \in Seq(S), Leads(s \o e, q)
  PROVE  /\ Leads(s, q) /\ Len(s) + Len(e) <= Len(q)
         /\ \A j \in 1..Len(e) : q[Len(s) + j] = e[j]
<1>1. Len(s \o e) = Len(s) + Len(e) /\ Len(s) \in Nat /\ Len(e) \in Nat
  OBVIOUS
<1>2. \A j \in 1..Len(s) : (s \o e)[j] = s[j]
  OBVIOUS
<1>3. \A j \in 1..Len(e) : (s \o e)[Len(s) + j] = e[j]
  OBVIOUS
<1>4. Leads(s, q)
  BY <1>1, <1>2 DEF Leads
<1>5. ASSUME NEW j \in 1..Len(e) PROVE q[Len(s) + j] = e[j]
  <2>1. Len(s) + j \in 1..Len(s \o e)
    BY <1>1
  <2> QED
    BY <1>3, <2>1, Zenon DEF Leads
<1>6. Len(s) + Len(e) <= Len(q)
  BY <1>1 DEF Leads
<1> QED
  BY <1>4, <1>5, <1>6

(* Every turn of the quoting loop begins the string it returns. *)
LEMMA TurnsLead ==
  ASSUME NEW a \in Seq(Char), NEW u \in [0..Len(a) -> Seq(Char)],
         \A i \in 1..Len(a) : u[i] = u[i - 1] \o Escaped(a[i])
  PROVE  \A i \in 0..Len(a) : Leads(u[i], u[Len(a)])
<1> DEFINE N == Len(a)
           T == {d \in Nat : d <= N => Leads(u[N - d], u[N])}
<1>1. /\ N \in Nat /\ \A i \in 0..N : u[i] \in Seq(Char)
      /\ \A i \in 1..N : a[i] \in Char
  OBVIOUS
<1>2. \A i \in 1..N : u[i] = u[i - 1] \o Escaped(a[i])
  OBVIOUS
<1> HIDE DEF N
<1>3. 0 \in T
  <2>1. u[N] \in Seq(Char) /\ N - 0 = N
    BY <1>1
  <2>2. Leads(u[N], u[N])
    BY <2>1 DEF Leads
  <2> QED
    BY <2>1, <2>2
<1>4. ASSUME NEW d \in Nat, d \in T PROVE d + 1 \in T
  <2> SUFFICES ASSUME d + 1 <= N PROVE Leads(u[N - (d + 1)], u[N])
    OBVIOUS
  <2> DEFINE k == N - d
  <2>1. k \in 1..N /\ k - 1 \in 0..N /\ N \in 0..N /\ N - (d + 1) = k - 1 /\ Leads(u[k], u[N])
    BY <1>1, <1>4
  <2> HIDE DEF k
  <2>2. u[k] = u[k - 1] \o Escaped(a[k]) /\ a[k] \in Char
    BY <1>1, <1>2, <2>1, Zenon
  <2>3. u[k - 1] \in Seq(Char) /\ u[N] \in Seq(Char)
    BY <1>1, <2>1, Zenon
  <2>4. Leads(u[k - 1] \o Escaped(a[k]), u[N]) /\ Escaped(a[k]) \in Seq(Char)
    BY <2>1, <2>2, EscapedType, Zenon
  <2>5. Leads(u[k - 1], u[N])
    BY <2>3, <2>4, LeadsConcat, Zenon
  <2> QED
    BY <2>1, <2>5, Zenon
<1> HIDE DEF T
<1>5. \A d \in Nat : d \in T
  BY <1>3, <1>4, SetInduction
<1>6. ASSUME NEW i \in 0..N PROVE Leads(u[i], u[N])
  <2>1. N - i \in Nat /\ N - i <= N /\ N - (N - i) = i
    BY <1>1
  <2>2. N - i \in T
    BY <1>5, <2>1
  <2> QED
    BY <2>1, <2>2 DEF T
<1> QED
  BY <1>6, Zenon DEF N

(* Sequence r is s, of length m, and then e, of length n. *)
Parts(r, s, e, m, n) ==
  /\ Len(r) = m + n
  /\ \A j \in 1..m : r[j] = s[j]
  /\ \A j \in 1..n : r[m + j] = e[j]

(* A concatenation has these two parts.                                    *)
LEMMA Joined ==
  ASSUME NEW S, NEW s \in Seq(S), NEW e \in Seq(S)
  PROVE  s \o e \in Seq(S) /\ Parts(s \o e, s, e, Len(s), Len(e))
<1>1. s \o e \in Seq(S) /\ Len(s \o e) = Len(s) + Len(e)
  OBVIOUS
<1>2. \A j \in 1..Len(s) : (s \o e)[j] = s[j]
  OBVIOUS
<1>3. \A j \in 1..Len(e) : (s \o e)[Len(s) + j] = e[j]
  OBVIOUS
<1> QED
  BY <1>1, <1>2, <1>3, Zenon DEF Parts

(* Every byte becomes at most four, and there are the two quotes. *)
LEMMA QuotedLength ==
  ASSUME NEW a \in Seq(Char)
  PROVE  Len(Quoted(a)) \in Nat /\ Len(Quoted(a)) <= 4 * Len(a) + 2
<1>1. PICK u \in [0..Len(a) -> Seq(Char)] :
        /\ u[0] = <<"quote">>
        /\ \A i \in 1..Len(a) : u[i] = u[i - 1] \o Escaped(a[i])
        /\ Quoted(a) = u[Len(a)] \o <<"quote">>
  BY QuotedTurns, Zenon
<1> DEFINE N == Len(a)
           T == {i \in Nat : i <= N => Len(u[i]) <= 4 * i + 1}
<1>2. N \in Nat /\ \A i \in 0..N : u[i] \in Seq(Char)
  BY <1>1
<1>3. ASSUME NEW i \in 1..N PROVE Len(u[i]) <= Len(u[i - 1]) + 4
  <2>1. i - 1 \in 0..N /\ a[i] \in Char
    BY <1>2
  <2>2. Escaped(a[i]) \in Seq(Char) /\ Len(Escaped(a[i])) <= 4
    BY <2>1, EscapedType DEF Escaped
  <2>3. u[i - 1] \in Seq(Char)
    BY <1>2, <2>1
  <2>4. Len(u[i - 1] \o Escaped(a[i])) = Len(u[i - 1]) + Len(Escaped(a[i]))
    BY <2>2, <2>3
  <2>5. u[i] = u[i - 1] \o Escaped(a[i])
    BY <1>1, Zenon
  <2>6. Len(u[i - 1]) \in Nat /\ Len(Escaped(a[i])) \in Nat
    BY <2>2, <2>3
  <2>7. Len(u[i]) = Len(u[i - 1]) + Len(Escaped(a[i]))
    BY <2>4, <2>5, Zenon
  <2> QED
    BY <2>2, <2>6, <2>7
<1>4. \A i \in 0..N : Len(u[i]) \in Nat
  BY <1>2
<1>5. Len(u[0]) = 1
  BY <1>1
<1> HIDE DEF N
<1>6. 0 \in T
  <2>1. Len(u[0]) <= 4 * 0 + 1
    BY <1>5
  <2> QED
    BY <2>1
<1>7. ASSUME NEW i \in Nat, i \in T PROVE i + 1 \in T
  <2> SUFFICES ASSUME i + 1 <= N PROVE Len(u[i + 1]) <= 4 * (i + 1) + 1
    OBVIOUS
  <2>1. i + 1 \in 1..N /\ i \in 0..N /\ i + 1 \in 0..N /\ (i + 1) - 1 = i
    BY <1>2
  <2>2. Len(u[i + 1]) <= Len(u[i]) + 4
    BY <1>3, <2>1
  <2>3. Len(u[i]) <= 4 * i + 1
    BY <1>7, <2>1
  <2> QED
    BY <1>4, <2>1, <2>2, <2>3
<1> HIDE DEF T
<1>8. N \in T
  BY <1>2, <1>6, <1>7, SetInduction, Zenon
<1>9. Len(u[N]) <= 4 * N + 1 /\ Len(u[N]) \in Nat /\ u[N] \in Seq(Char)
  BY <1>2, <1>4, <1>8 DEF T
<1>10. Len(u[N] \o <<"quote">>) = Len(u[N]) + 1
  BY <1>9
<1> QED
  BY <1>1, <1>2, <1>9, <1>10 DEF N

(* The bytes wc_command_quote_argument writes, and the NUL after them, fit *)
(* in what it has allocated, for every length its check lets pass and      *)
(* every size_t: the product does not wrap around.                         *)
LEMMA FitsInMemory ==
  ASSUME NEW a \in Seq(Char), ~TooLong(a)
  PROVE  Len(Quoted(a)) + 1 <= Allocated(a)
<1>1. Len(a) \in Nat /\ Len(a) <= (SIZE_MAX - 3) \div 4
  BY SizeAssumption DEF TooLong
<1>2. 4 * Len(a) + 3 <= SIZE_MAX
  BY <1>1, SizeAssumption
<1>3. Allocated(a) = Len(a) * 4 + 3
  BY <1>1, <1>2, SizeAssumption DEF Allocated
<1> QED
  BY <1>1, <1>3, QuotedLength

(* The length of the command line of a path of a request does not wrap     *)
(* around.                                                                 *)
LEMMA LengthOfLine ==
  ASSUME NEW a \in Seq(Char), Len(a) <= MaxPath
  PROVE  CommandLength(a) = Len(Quoted(a)) + 5
<1>1. Len(Program) = 1 /\ Len(Suffix) = 2
  BY DEF Program, Suffix
<1>2. Len(a) \in Nat /\ Len(Quoted(a)) \in Nat /\ Len(Quoted(a)) <= 4 * Len(a) + 2
  BY QuotedLength
<1>3. Len(Quoted(a)) + 5 <= SIZE_MAX /\ SIZE_MAX \in Nat
  BY <1>2, SizeAssumption
<1>4. CommandLength(a) = (Len(Quoted(a)) + 5) % (SIZE_MAX + 1)
  BY <1>1, <1>2 DEF CommandLength
<1> QED
  BY <1>2, <1>3, <1>4

(* What is at each place of the command line, around the quoted bytes q. *)
LEMMA LineBytes ==
  ASSUME NEW a \in Seq(Char), Len(a) <= MaxPath,
         NEW q \in Seq(Char), Quoted(a) = q \o <<"quote">>
  PROVE  /\ CommandLine(a) \in Seq(Char) /\ Len(CommandLine(a)) = Len(q) + 5
         /\ CommandLine(a)[1] = "letter" /\ CommandLine(a)[2] = "blank"
         /\ \A j \in 1..Len(q) : CommandLine(a)[2 + j] = q[j]
         /\ CommandLine(a)[Len(q) + 3] = "quote" /\ CommandLine(a)[Len(q) + 4] = "blank"
         /\ CommandLine(a)[Len(q) + 5] = "redirect"
<1> DEFINE n == Len(q)
           front == Program \o <<"blank">>
           quoted == q \o <<"quote">>
           text == (front \o quoted) \o Suffix
<1>1. n \in Nat
  OBVIOUS
<1>2. {"quote", "blank", "letter", "redirect"} \subseteq Char
  BY DEF Char
<1>3. /\ <<"letter">> \in Seq(Char) /\ <<"blank">> \in Seq(Char) /\ <<"quote">> \in Seq(Char)
      /\ Len(<<"letter">>) = 1 /\ Len(<<"blank">>) = 1 /\ Len(<<"quote">>) = 1
      /\ <<"letter">>[1] = "letter" /\ <<"blank">>[1] = "blank" /\ <<"quote">>[1] = "quote"
  BY <1>2
<1>4. /\ Suffix \in Seq(Char) /\ Len(Suffix) = 2
      /\ Suffix[1] = "blank" /\ Suffix[2] = "redirect"
  BY <1>2 DEF Suffix
<1>5. front \in Seq(Char) /\ Len(front) = 2 /\ front[1] = "letter" /\ front[2] = "blank"
  <2>1. front \in Seq(Char) /\ Parts(front, Program, <<"blank">>, 1, 1)
    BY <1>3, Joined, Zenon DEF Program
  <2>2. Program[1] = "letter"
    BY DEF Program
  <2> HIDE DEF front
  <2> QED
    BY <2>1, <2>2 DEF Parts
<1>6. /\ quoted \in Seq(Char) /\ Len(quoted) = n + 1 /\ quoted[n + 1] = "quote"
      /\ \A j \in 1..n : quoted[j] = q[j]
  <2>1. quoted \in Seq(Char) /\ Parts(quoted, q, <<"quote">>, n, 1)
    BY <1>3, Joined, Zenon
  <2>2. 1 \in 1..1
    OBVIOUS
  <2> QED
    BY <1>3, <2>1, <2>2, Zenon DEF Parts
<1> HIDE DEF front, quoted, n
<1> DEFINE body == front \o quoted
<1>7. /\ body \in Seq(Char) /\ Len(body) = n + 3
      /\ \A j \in 1..2 : body[j] = front[j]
      /\ \A j \in 1..(n + 1) : body[2 + j] = quoted[j]
  <2>1. body \in Seq(Char) /\ Parts(body, front, quoted, 2, n + 1)
    BY <1>5, <1>6, Joined, Zenon
  <2>2. 2 + (n + 1) = n + 3
    BY <1>1
  <2> QED
    BY <2>1, <2>2, Zenon DEF Parts
<1> HIDE DEF body
<1>8. /\ text \in Seq(Char) /\ Len(text) = n + 5
      /\ \A j \in 1..(n + 3) : text[j] = body[j]
      /\ \A j \in 1..2 : text[n + 3 + j] = Suffix[j]
  <2>1. text \in Seq(Char) /\ Parts(text, body, Suffix, n + 3, 2)
    BY <1>4, <1>7, Joined, ZenonT(30) DEF body
  <2>2. (n + 3) + 2 = n + 5
    BY <1>1
  <2> QED
    BY <2>1, <2>2, Zenon DEF Parts
<1>9. CommandLine(a) = text
  <2>1. CommandLength(a) - 1 = n + 5
    <3>1. Len(Quoted(a)) = n + 1
      BY <1>6 DEF quoted
    <3>2. CommandLength(a) = Len(Quoted(a)) + 5
      BY LengthOfLine, Zenon
    <3> QED
      BY <1>1, <3>1, <3>2
  <2>2. CommandLine(a) = SubSeq(text, 1, CommandLength(a) - 1)
    BY Zenon DEF CommandLine, front, quoted
  <2> QED
    BY <2>1, <2>2, <1>8, SubSeqFull, Zenon
<1> HIDE DEF text
<1>10. text[1] = "letter" /\ text[2] = "blank"
  BY <1>1, <1>5, <1>7, <1>8
<1>11. ASSUME NEW j \in 1..n PROVE text[2 + j] = q[j]
  <2>1. 2 + j \in 1..(n + 3) /\ j \in 1..(n + 1)
    BY <1>1
  <2> QED
    BY <1>6, <1>7, <1>8, <2>1, Zenon
<1>12. text[n + 3] = "quote"
  <2>1. n + 3 \in 1..(n + 3) /\ n + 1 \in 1..(n + 1) /\ 2 + (n + 1) = n + 3
    BY <1>1
  <2> QED
    BY <1>6, <1>7, <1>8, <2>1
<1>13. text[n + 4] = "blank" /\ text[n + 5] = "redirect"
  <2>1. text[n + 3 + 1] = Suffix[1] /\ text[n + 3 + 2] = Suffix[2]
    BY <1>8
  <2>2. n + 3 + 1 = n + 4 /\ n + 3 + 2 = n + 5
    BY <1>1
  <2> QED
    BY <1>4, <2>1, <2>2
<1> QED
  BY <1>8, <1>9, <1>10, <1>11, <1>12, <1>13, Zenon DEF n

(* What a sequence is after Append.                                        *)
LEMMA AppendedItems ==
  ASSUME NEW S, NEW s \in Seq(S), NEW y \in S
  PROVE  /\ Append(s, y) \in Seq(S) /\ Len(Append(s, y)) = Len(s) + 1
         /\ Len(s) = 1 => Append(s, y)[1] = s[1]
         /\ Append(s, y)[Len(s) + 1] = y
  BY AppendProperties

(* A pair is made of its first item and its second.                        *)
LEMMA AppendToOne ==
  ASSUME NEW S, NEW x \in S, NEW y \in S
  PROVE  Append(<<x>>, y) = <<x, y>>
<1>1. <<x>> \in Seq(S) /\ Len(<<x>>) = 1 /\ <<x>>[1] = x
  OBVIOUS
<1>2. <<x, y>> \in Seq(S) /\ Len(<<x, y>>) = 2 /\ <<x, y>>[1] = x /\ <<x, y>>[2] = y
  OBVIOUS
<1> DEFINE s == <<x>>
           z == <<x, y>>
           w == Append(s, y)
<1>3. s \in Seq(S) /\ Len(s) = 1 /\ s[1] = x /\ z \in Seq(S) /\ Len(z) = 2 /\ z[1] = x /\ z[2] = y
  BY <1>1, <1>2, Zenon
<1> HIDE DEF s, z
<1>4. w \in Seq(S) /\ Len(w) = Len(s) + 1 /\ w[Len(s) + 1] = y
  BY <1>3, AppendedItems, Zenon
<1>5. w[1] = s[1]
  BY <1>3, AppendedItems, Zenon
<1> HIDE DEF w
<1>6. Len(w) = 2 /\ w[1] = x /\ w[2] = y
  BY <1>3, <1>4, <1>5
<1>7. Len(w) = Len(z) /\ \A i \in 1..Len(w) : w[i] = z[i]
  BY <1>3, <1>6
<1>8. w = z
  BY <1>3, <1>4, <1>7, SeqEqual, Zenon
<1> QED
  BY <1>8, Zenon DEF w, s, z

(* Of the line the shell reads two words, the program and the argument,    *)
(* and one redirection.                                                    *)
LEMMA LineReads ==
  ASSUME NEW a \in Seq(Char), Len(a) <= MaxPath
  PROVE  IsSh(ShellReadsLine(CommandLine(a)), <<Program, a>>, <<>>, FALSE, "none", 1)
<1>1. PICK u \in [0..Len(a) -> Seq(Char)] :
        /\ u[0] = <<"quote">>
        /\ \A i \in 1..Len(a) : u[i] = u[i - 1] \o Escaped(a[i])
        /\ Quoted(a) = u[Len(a)] \o <<"quote">>
  BY QuotedTurns, Zenon
<1> DEFINE N == Len(a)
           q == u[N]
           n == Len(q)
           line == CommandLine(a)
<1>2. /\ N \in Nat /\ \A i \in 0..N : u[i] \in Seq(Char)
      /\ \A i \in 1..N : a[i] \in Char
  BY <1>1
<1>3. q \in Seq(Char) /\ n \in Nat /\ Quoted(a) = q \o <<"quote">>
  BY <1>1, <1>2
<1>4. \A i \in 0..N : Leads(u[i], q)
  BY <1>1, TurnsLead, Zenon
<1>5. \A i \in 1..N : u[i] = u[i - 1] \o Escaped(a[i])
  BY <1>1, Zenon
<1> HIDE DEF q
<1>6. /\ line \in Seq(Char) /\ Len(line) = n + 5
      /\ line[1] = "letter" /\ line[2] = "blank"
      /\ \A j \in 1..n : line[2 + j] = q[j]
      /\ line[n + 3] = "quote" /\ line[n + 4] = "blank" /\ line[n + 5] = "redirect"
  BY <1>3, LineBytes, Zenon
<1> HIDE DEF N, n, line
<1>7. PICK t \in [0..Len(line) -> ShellState] :
        /\ t[0] = Shell0
        /\ \A i \in 1..Len(line) : t[i] = ShellReads(t[i - 1], line[i])
        /\ ShellReadsLine(line) = EndOfWord(t[Len(line)])
  BY <1>6, ShellTurns, Zenon
<1>8. /\ \A i \in 0..(n + 5) : t[i] \in ShellState
      /\ \A i \in 1..(n + 5) : t[i] = ShellReads(t[i - 1], line[i])
      /\ ShellReadsLine(line) = EndOfWord(t[n + 5])
  BY <1>6, <1>7, Zenon
(* The program. *)
<1>9. IsSh(t[2], <<Program>>, <<>>, FALSE, "none", 0)
  <2>1. IsSh(t[0], <<>>, <<>>, FALSE, "none", 0)
    BY <1>7 DEF IsSh, Shell0
  <2>2. /\ t[0] \in ShellState /\ t[1] \in ShellState
        /\ t[1] = ShellReads(t[0], "letter") /\ t[2] = ShellReads(t[1], "blank")
    BY <1>3, <1>6, <1>8
  <2>3. IsSh(t[1], <<>>, Append(<<>>, "letter"), TRUE, "none", 0)
    BY <2>1, <2>2, ShellUnquoted, Zenon
  <2>4. IsSh(t[2], Append(<<>>, Append(<<>>, "letter")), <<>>, FALSE, "none", 0)
    BY <2>2, <2>3, ShellUnquoted, Zenon
  <2>5. Append(<<>>, Append(<<>>, "letter")) = <<Program>>
    BY DEF Program
  <2> QED
    BY <2>4, <2>5, Zenon
(* The argument, byte after byte. *)
<1> DEFINE Read(i) == IsSh(t[2 + Len(u[i])], <<Program>>, SubSeq(a, 1, i), TRUE, "quote", 0)
           T == {i \in Nat : i <= N => Read(i)}
<1>10. 0 \in T
  <2>1. u[0] = <<"quote">> /\ Len(u[0]) = 1 /\ u[0][1] = "quote"
    BY <1>1
  <2>2. Leads(u[0], q)
    BY <1>2, <1>4
  <2>3. 1 <= n /\ q[1] = "quote"
    BY <2>1, <2>2 DEF Leads, n
  <2>4. 3 \in 1..(n + 5) /\ line[3] = "quote"
    BY <1>3, <1>6, <2>3
  <2>5. t[3] = ShellReads(t[2], "quote") /\ t[2] \in ShellState
    BY <1>3, <1>8, <2>4
  <2>6. IsSh(t[3], <<Program>>, <<>>, TRUE, "quote", 0)
    BY <1>9, <2>5, ShellUnquoted, Zenon
  <2>7. SubSeq(a, 1, 0) = <<>> /\ 2 + Len(u[0]) = 3
    BY <2>1, SubSeqEmpty
  <2> QED
    BY <2>6, <2>7
<1>11. ASSUME NEW i \in Nat, i \in T PROVE i + 1 \in T
  <2> SUFFICES ASSUME i + 1 <= N PROVE Read(i + 1)
    <3> HIDE DEF Read
    <3> QED
      OBVIOUS
  <2> DEFINE k == i + 1
             c == a[k]
             e == Escaped(c)
             l == Len(u[i])
             p == 2 + l
  <2>1. k \in 1..N /\ k \in 0..N /\ i \in 0..N /\ k - 1 = i
    BY <1>2
  <2>2. c \in Char /\ e \in Seq(Char) /\ u[i] \in Seq(Char) /\ u[k] = u[i] \o e
    <3> HIDE DEF k
    <3> QED
      BY <1>2, <1>5, <2>1, EscapedType, Zenon
  <2>3. Leads(u[i] \o e, q)
    <3> HIDE DEF k, e
    <3> QED
      BY <1>4, <2>1, <2>2, Zenon
  <2>4. l \in Nat /\ Len(e) \in Nat /\ Len(u[k]) = l + Len(e)
    BY <2>2, ConcatProperties
  <2>5. l + Len(e) <= n /\ \A j \in 1..Len(e) : q[l + j] = e[j]
    BY <1>3, <2>2, <2>3, LeadsConcat, Zenon DEF n
  <2>6. IsSh(t[p], <<Program>>, SubSeq(a, 1, i), TRUE, "quote", 0)
    BY <1>11, <2>1
  <2> HIDE DEF e, k, l
  <2>7. ASSUME NEW j \in 1..Len(e)
        PROVE  line[p + j] = e[j] /\ t[p + j] = ShellReads(t[p + j - 1], line[p + j])
    <3>1. l + j \in 1..n /\ p + j = 2 + (l + j) /\ p + j \in 1..(n + 5)
      <4>1. n \in Nat /\ l \in Nat /\ Len(e) \in Nat /\ l + Len(e) <= n
        BY <1>3, <2>4, <2>5
      <4> QED
        BY <4>1
    <3>2. line[p + j] = q[l + j]
      BY <1>6, <3>1, Zenon
    <3>3. line[p + j] = e[j]
      BY <2>5, <3>2, Zenon
    <3>4. \A m \in 1..(n + 5) : t[m] = ShellReads(t[m - 1], line[m])
      BY <1>8, Zenon
    <3>5. p + j \in 1..(n + 5)
      BY <3>1, Zenon
    <3> HIDE DEF p, line, n
    <3> DEFINE m == p + j
    <3>6. m \in 1..(n + 5)
      BY <3>5
    <3>7. t[m] = ShellReads(t[m - 1], line[m])
      <4> HIDE DEF m
      <4> QED
        BY <3>4, <3>6, Zenon
    <3>8. (p + j) - 1 = p + j - 1
      BY <2>4 DEF p
    <3> QED
      BY <3>3, <3>7, <3>8, Zenon
  <2>8. ASSUME NEW j \in 0..Len(e) PROVE t[p + j] \in ShellState
    <3>1. p + j \in 0..(n + 5)
      BY <1>3, <2>4, <2>5
    <3> QED
      BY <1>8, <3>1, Zenon
  <2>9. p \in Nat /\ p + Len(e) = 2 + Len(u[k])
    BY <2>4
  <2> HIDE DEF p, c
  <2>10. IsSh(t[p + Len(e)], <<Program>>, Append(SubSeq(a, 1, i), c), TRUE, "quote", 0)
    BY <2>2, <2>6, <2>7, <2>8, <2>9, ShellReadsEscaped, Zenon DEF e
  <2>11. Append(SubSeq(a, 1, i), c) = SubSeq(a, 1, k)
    BY <2>1 DEF c, N, k
  <2> QED
    BY <2>9, <2>10, <2>11, Zenon DEF k
<1>12. N \in T => Read(N)
  <2> HIDE DEF Read
  <2>1. N <= N
    BY <1>2
  <2> QED
    BY <2>1, Zenon
<1> HIDE DEF T
<1>13. IsSh(t[n + 2], <<Program>>, a, TRUE, "quote", 0)
  <2>1. SubSeq(a, 1, N) = a
    BY SubSeqFull DEF N
  <2>2. 2 + Len(u[N]) = n + 2
    BY <1>3 DEF n, q
  <2>3. N \in T
    BY <1>2, <1>10, <1>11, SetInduction, Zenon
  <2> QED
    BY <1>12, <2>1, <2>2, <2>3, Zenon
(* The suffix. *)
<1>14. /\ n + 3 \in 1..(n + 5) /\ n + 4 \in 1..(n + 5) /\ n + 5 \in 1..(n + 5)
       /\ (n + 3) - 1 = n + 2 /\ (n + 4) - 1 = n + 3 /\ (n + 5) - 1 = n + 4
       /\ n + 2 \in 0..(n + 5) /\ n + 3 \in 0..(n + 5) /\ n + 4 \in 0..(n + 5)
       /\ n + 5 \in 0..(n + 5)
  BY <1>3
<1>15. /\ t[n + 3] = ShellReads(t[n + 2], "quote") /\ t[n + 4] = ShellReads(t[n + 3], "blank")
       /\ t[n + 5] = ShellReads(t[n + 4], "redirect")
       /\ t[n + 2] \in ShellState /\ t[n + 3] \in ShellState /\ t[n + 4] \in ShellState
       /\ t[n + 5] \in ShellState
  BY <1>6, <1>8, <1>14, Zenon
<1>16. IsSh(t[n + 3], <<Program>>, a, TRUE, "none", 0)
  BY <1>13, <1>15, ShellInQuotes, Zenon DEF Char
<1>17. IsSh(t[n + 4], Append(<<Program>>, a), <<>>, FALSE, "none", 0)
  BY <1>15, <1>16, ShellUnquoted, Zenon
<1>18. IsSh(t[n + 5], Append(<<Program>>, a), <<>>, FALSE, "none", 0 + 1)
  BY <1>15, <1>17, ShellUnquoted, Zenon
<1>19. IsSh(EndOfWord(t[n + 5]), Append(<<Program>>, a), <<>>, FALSE, "none", 0 + 1)
  BY <1>15, <1>18, ShellEndOfWord, Zenon
<1>20. Append(<<Program>>, a) = <<Program, a>>
  <2>1. Program \in Seq(Char)
    BY DEF Program, Char
  <2> QED
    BY <2>1, AppendToOne, Zenon
<1>21. 0 + 1 = 1
  OBVIOUS
<1> QED
  BY <1>8, <1>19, <1>20, <1>21, Zenon DEF line

------------------------------------------------------------------------------
(* The inductive invariant of a call.                                      *)

(* The types of the variables. *)
TypeOK ==
  /\ pc \in {"start", "quote", "build", "popen", "read", "pclose", "wait", "returned"}
  /\ command \in {"ls", "pwd", "cat"} /\ argument \in Seq(Char)
  /\ heap \subseteq {"quoted", "command", "output"} /\ readEnd \in BOOLEAN
  /\ chunk \in Seq(Output) /\ output \in Seq(Output)
  /\ pipe \in Seq(Output) /\ wrote \in Seq(Output)
  /\ faults \in Nat
  /\ child \in {"none", "running", "exited", "failed", "reaped"}

(* Before popen() there is no child, and nothing was read. *)
Before ==
  pc \in {"start", "quote", "build", "popen"} =>
    /\ ~readEnd /\ child = "none" /\ errno = "none"
    /\ chunk = <<>> /\ output = <<>> /\ pipe = <<>> /\ wrote = <<>>
    /\ pc /= "start" => result = "NULL"

(* What is allocated is what the code has still to free. *)
Allocations ==
  /\ pc \in {"start", "quote"} => heap = {}
  /\ pc = "build" => heap = {"quoted"} /\ ~TooLong(argument)
  /\ pc = "popen" => heap \subseteq {"command"}
  /\ pc \in {"read", "pclose", "wait"} =>
       /\ heap \subseteq {"command", "output"}
       /\ "output" \in heap <=> output /= <<>>
       /\ child \in {"running", "exited", "failed"} /\ result = "NULL"

(* While the output is read, every byte the child wrote is in the buffer,  *)
(* in the chunk or in the pipe, in this order.                             *)
Reading ==
  pc = "read" =>
    /\ readEnd /\ errno = "none" /\ Len(output) <= max_result_size
    /\ Len(chunk) <= ReadSize
    /\ wrote = output \o (chunk \o pipe)

(* After the loop, what errno says is true of the output. *)
Closing ==
  pc \in {"pclose", "wait"} =>
    /\ readEnd <=> pc = "pclose"
    /\ errno = "none" => /\ wrote = output /\ Len(wrote) <= max_result_size
                         /\ child \in {"exited", "failed"}
    /\ errno = "EMSGSIZE" => Len(wrote) > max_result_size
    /\ faults = 0 => errno \in {"none", "EMSGSIZE"}

(* The invariant. *)
RunInv ==
  TypeOK /\ Before /\ Allocations /\ Reading /\ Closing /\ OutputWhole /\ NothingLeaks

(* No call has been made yet.                                              *)
LEMMA RunInit == Init => RunInv
<1> SUFFICES ASSUME Init PROVE RunInv
  OBVIOUS
<1>1. argument \in Seq(Char)
  <2>1. argument = <<>> \/ \E m \in 0..MaxArgument : argument \in [1..m -> Char]
    BY Zenon DEF Init, BoundedSeq, SeqOf
  <2>2. \A m \in 0..MaxArgument : [1..m -> Char] \subseteq Seq(Char)
    BY RunAssumption
  <2>3. <<>> \in Seq(Char)
    BY EmptySeq
  <2> QED
    BY <2>1, <2>2, <2>3, Zenon
<1>2. TypeOK
  BY <1>1, EmptySeq, Zenon DEF Init, TypeOK
<1> QED
  BY <1>2 DEF Init, RunInv, Before, Allocations, Reading, Closing, OutputWhole, ResultIsWhole,
              OversizeTold, NothingLeaks

(* The checks of the path, in wc_command_cat alone.                        *)
LEMMA StartStep == RunInv /\ Start => RunInv'
<1> SUFFICES ASSUME RunInv, Start PROVE RunInv'
  OBVIOUS
<1> USE DEF RunInv, Start, call, process
<1>1. TypeOK'
  BY DEF TypeOK
<1>2. Before' /\ Allocations' /\ Reading' /\ Closing'
  BY DEF Before, Allocations, Reading, Closing
<1>3. OutputWhole' /\ NothingLeaks'
  BY RunAssumption DEF Before, Allocations, OutputWhole, ResultIsWhole, OversizeTold, NothingLeaks
<1> QED
  BY <1>1, <1>2, <1>3

(* wc_command_quote_argument returns with an error, or with the first      *)
(* allocation.                                                             *)
LEMMA QuoteStep == RunInv /\ Quote => RunInv'
<1> SUFFICES ASSUME RunInv, Quote PROVE RunInv'
  OBVIOUS
<1> USE DEF RunInv, Quote, Return, Fault, NoFault, process
<1>1. TypeOK'
  <2>1. heap' \subseteq {"quoted", "command", "output"}
    BY Zenon DEF TypeOK
  <2>2. faults' \in Nat
    BY RunAssumption DEF TypeOK
  <2> QED
    BY <2>1, <2>2 DEF TypeOK
<1>2. Before' /\ Allocations' /\ Reading' /\ Closing'
  BY DEF Before, Allocations, Reading, Closing
<1>3. OutputWhole'
  BY RunAssumption DEF Before, OutputWhole, ResultIsWhole, OversizeTold
<1>4. NothingLeaks'
  BY DEF Before, Allocations, NothingLeaks
<1> QED
  BY <1>1, <1>2, <1>3, <1>4

(* wc_command_build frees the quoted argument, whether it succeeds or not. *)
LEMMA BuildStep == RunInv /\ Build => RunInv'
<1> SUFFICES ASSUME RunInv, Build PROVE RunInv'
  OBVIOUS
<1> USE DEF RunInv, Build, Return, Fault, NoFault, process, HeapWithoutLine
<1>1. TypeOK'
  <2>1. heap' \subseteq {"quoted", "command", "output"}
    BY Zenon DEF TypeOK
  <2>2. faults' \in Nat
    BY RunAssumption DEF TypeOK
  <2> QED
    BY <2>1, <2>2 DEF TypeOK
<1>2. Before' /\ Allocations' /\ Reading' /\ Closing'
  BY DEF Before, Allocations, Reading, Closing
<1>3. OutputWhole'
  BY RunAssumption DEF Before, OutputWhole, ResultIsWhole, OversizeTold
<1>4. NothingLeaks'
  BY DEF Before, Allocations, NothingLeaks
<1> QED
  BY <1>1, <1>2, <1>3, <1>4

(* Without a child the command line is freed; with one the loop begins.    *)
LEMMA PopenStep == RunInv /\ Popen => RunInv'
<1> SUFFICES ASSUME RunInv, Popen PROVE RunInv'
  OBVIOUS
<1> USE DEF RunInv, Popen, Return, Fault, NoFault
<1>1. TypeOK'
  <2>1. heap' \subseteq {"quoted", "command", "output"}
    BY Zenon DEF TypeOK
  <2>2. faults' \in Nat
    BY RunAssumption DEF TypeOK
  <2>3. argument' \in Seq(Char)
    BY EmptySeq
  <2> QED
    BY <2>1, <2>2, <2>3, Zenon DEF TypeOK
<1>2. Before' /\ Allocations' /\ Closing'
  BY DEF Before, Allocations, Closing
<1>3. Reading'
  BY RunAssumption DEF Before, Reading
<1>4. OutputWhole'
  BY RunAssumption DEF Before, OutputWhole, ResultIsWhole, OversizeTold
<1>5. NothingLeaks'
  BY DEF Before, Allocations, NothingLeaks
<1> QED
  BY <1>1, <1>2, <1>3, <1>4, <1>5

(* A byte moves from the pipe to the chunk.                                *)
LEMMA GatherStep == RunInv /\ Gather => RunInv'
<1> SUFFICES ASSUME RunInv, Gather PROVE RunInv'
  OBVIOUS
<1> USE DEF RunInv, Gather
<1>1. TypeOK'
  BY DEF TypeOK
<1>2. Before' /\ Allocations' /\ Closing'
  BY DEF Before, Allocations, Closing
<1>3. Reading'
  <2>1. chunk' \o pipe' = chunk \o pipe
    BY DEF TypeOK
  <2>2. Len(chunk') <= ReadSize
    BY RunAssumption DEF TypeOK
  <2> QED
    BY <2>1, <2>2, Zenon DEF Reading
<1>4. OutputWhole' /\ NothingLeaks'
  BY DEF OutputWhole, ResultIsWhole, OversizeTold, NothingLeaks
<1> QED
  BY <1>1, <1>2, <1>3, <1>4

(* A chunk that has been kept leaves the order of the bytes as it was. *)
LEMMA Regroup ==
  ASSUME NEW S, NEW o \in Seq(S), NEW c \in Seq(S), NEW p \in Seq(S)
  PROVE  o \o (c \o p) = (o \o c) \o (<<>> \o p)
  BY ConcatAssociative, ConcatEmptySeq, SMTT(30)

(* A chunk is kept or refused.  At the end of the stream nothing is left   *)
(* in the pipe, so that what was kept is all that was written.             *)
LEMMA TakeStep == RunInv /\ Take => RunInv'
<1> SUFFICES ASSUME RunInv, Take PROVE RunInv'
  OBVIOUS
<1> USE DEF RunInv, Take
<1>1. TypeOK'
  <2>1. heap' \subseteq {"quoted", "command", "output"}
    BY Zenon DEF TypeOK
  <2>2. faults' \in Nat
    BY RunAssumption DEF TypeOK, Fault, NoFault
  <2>3. chunk' \in Seq(Output) /\ output \o chunk \in Seq(Output)
    BY EmptySeq, ConcatProperties DEF TypeOK
  <2>4. output' = output \/ output' = output \o chunk
    BY DEF Kept
  <2> QED
    BY <2>1, <2>2, <2>3, <2>4, Zenon DEF TypeOK, process
<1>2. Before'
  BY DEF Before
<1>3. Allocations'
  <2>1. heap' \subseteq {"command", "output"}
    BY DEF Allocations
  <2>2. "output" \in heap' <=> output' /= <<>>
    <3>1. \/ output' = output /\ heap' = heap
          \/ /\ output' = output \o chunk
             /\ heap' = IF output' = <<>> THEN heap ELSE heap \cup {"output"}
      BY Zenon DEF Kept
    <3>2. output /= <<>> => output \o chunk /= <<>>
      BY ConcatSimplifications DEF TypeOK
    <3> QED
      BY <3>1, <3>2 DEF Allocations
  <2> QED
    BY <2>1, <2>2 DEF Allocations, process
<1>4. Len(output \o chunk) = Len(output) + Len(chunk) /\ Len(output) \in Nat /\ Len(chunk) \in Nat
  BY DEF TypeOK
<1>5. Len(wrote) = Len(output) + Len(chunk) + Len(pipe) /\ Len(pipe) \in Nat
  BY DEF TypeOK, Reading
<1>6. Reading'
  <2> SUFFICES ASSUME pc' = "read" PROVE Reading'
    BY DEF Reading
  <2>1. output' = output \o chunk /\ ~Oversize /\ errno' = errno
    BY DEF Kept
  <2>2. output \o (chunk \o pipe) = output' \o (chunk' \o pipe')
    <3>1. output \o (chunk \o pipe) = (output \o chunk) \o (<<>> \o pipe)
      BY Regroup DEF TypeOK
    <3>2. pipe' = pipe
      BY DEF process
    <3> QED
      BY <2>1, <3>1, <3>2
  <2>3. Len(output') <= max_result_size
    BY <2>1, <1>4, RunAssumption DEF Oversize
  <2>4. Len(chunk') <= ReadSize
    BY RunAssumption
  <2> QED
    BY <2>1, <2>2, <2>3, <2>4 DEF Reading, process
<1>7. Closing'
  <2> SUFFICES ASSUME pc' = "pclose" PROVE Closing'
    BY DEF Closing
  <2>1. errno' = "EMSGSIZE" => Len(wrote') > max_result_size
    BY <1>4, <1>5, RunAssumption DEF Oversize, Reading, process
  <2>2. errno' = "none" => EndOfFile /\ output' = output \o chunk /\ ~Oversize
    BY DEF Kept, Reading, TypeOK
  <2>3. errno' = "none" => wrote' = output' /\ Len(wrote') <= max_result_size
    <3> SUFFICES ASSUME errno' = "none" PROVE wrote' = output' /\ Len(wrote') <= max_result_size
      OBVIOUS
    <3>1. wrote = output \o (chunk \o <<>>) /\ wrote' = wrote
      BY <2>2 DEF EndOfFile, Reading, process
    <3>2. chunk \o <<>> = chunk
      BY ConcatEmptySeq DEF TypeOK
    <3>3. wrote' = output'
      BY <2>2, <3>1, <3>2
    <3> QED
      BY <2>2, <3>3, <1>4, RunAssumption DEF Oversize
  <2>4. faults' = 0 => errno' \in {"none", "EMSGSIZE"}
    BY DEF Fault, NoFault, Reading, TypeOK
  <2> QED
    BY <2>1, <2>2, <2>3, <2>4 DEF Closing, EndOfFile, Reading, process
<1>8. OutputWhole' /\ NothingLeaks'
  BY DEF OutputWhole, ResultIsWhole, OversizeTold, NothingLeaks
<1> QED
  BY <1>1, <1>2, <1>3, <1>6, <1>7, <1>8

(* From here on the child has no one to write to.                          *)
LEMMA CloseStreamStep == RunInv /\ CloseStream => RunInv'
<1> SUFFICES ASSUME RunInv, CloseStream PROVE RunInv'
  OBVIOUS
<1> USE DEF RunInv, CloseStream, process, StreamWhileWaiting
<1>1. TypeOK'
  BY Zenon DEF TypeOK
<1>2. Before' /\ Allocations' /\ Reading' /\ Closing'
  BY DEF Before, Allocations, Reading, Closing
<1>3. OutputWhole' /\ NothingLeaks'
  BY DEF OutputWhole, ResultIsWhole, OversizeTold, NothingLeaks
<1> QED
  BY <1>1, <1>2, <1>3

(* The status of the child decides, unless there was an error before it.   *)
LEMMA WaitStep == RunInv /\ Wait => RunInv'
<1> SUFFICES ASSUME RunInv, NEW status \in {-1, 0, 1}, Finish(status), Fault \/ NoFault,
                    ~NoFault => Fault, status = 0 \/ Fault \/ (NoFault /\ child = "failed")
             PROVE  RunInv'
  BY DEF Wait, Finish
<1> USE DEF RunInv, Finish, HeapAfterFailure
<1>1. TypeOK'
  BY DEF TypeOK, Fault, NoFault
<1>2. Before' /\ Allocations' /\ Reading' /\ Closing'
  BY DEF Before, Allocations, Reading, Closing
<1>3. NothingLeaks'
  <2>1. CASE errno' = "none"
    <3>1. errno = "none" /\ result' = Trimmed /\ heap' = heap \ {"command"}
      BY <2>1 DEF Failure
    <3>2. output = <<>> => Trimmed = <<>>
      BY DEF Trimmed
    <3> QED
      BY <2>1, <3>1, <3>2 DEF NothingLeaks, Allocations, Closing
  <2>2. CASE errno' /= "none"
    BY <2>2 DEF NothingLeaks, Allocations, Closing
  <2> QED
    BY <2>1, <2>2
<1>4. ResultIsWhole'
  <2> SUFFICES ASSUME errno' = "none" PROVE ResultIsWhole'
    BY DEF ResultIsWhole
  <2>1. errno = "none" /\ result' = Trimmed /\ wrote = output /\ wrote' = wrote /\ command' = command
    BY DEF Failure, Closing
  <2>2. CASE command = "pwd" /\ output /= <<>> /\ Last(output) = "newline"
    <3>1. Append(Front(output), "newline") = output
      BY <2>2 DEF TypeOK, Front, Last
    <3> QED
      BY <2>1, <2>2, <3>1 DEF Trimmed, ResultIsWhole
  <2>3. CASE ~(command = "pwd" /\ output /= <<>> /\ Last(output) = "newline")
    BY <2>1, <2>3 DEF Trimmed, ResultIsWhole
  <2> QED
    BY <2>2, <2>3
<1>5. OversizeTold'
  <2> SUFFICES ASSUME faults' = 0 PROVE (errno' = "EMSGSIZE" <=> Len(wrote') > max_result_size)
    BY DEF OversizeTold
  <2>1. faults = 0
    BY DEF Fault, NoFault, TypeOK
  <2>2. Len(wrote) \in Nat
    BY DEF TypeOK
  <2> QED
    BY <2>1, <2>2, RunAssumption DEF Failure, Closing
<1> QED
  BY <1>1, <1>2, <1>3, <1>4, <1>5 DEF OutputWhole

(* The child writes at the end of the pipe, and ends.                      *)
LEMMA ChildStep ==
  RunInv /\ ((\E b \in Output : ChildWrites(b)) \/ ChildEnds \/ ChildBreaksPipe) => RunInv'
<1> SUFFICES ASSUME RunInv PROVE
      ((\E b \in Output : ChildWrites(b)) \/ ChildEnds \/ ChildBreaksPipe) => RunInv'
  OBVIOUS
<1> USE DEF RunInv
<1>1. ASSUME NEW b \in Output, ChildWrites(b) PROVE RunInv'
  <2> USE <1>1 DEF ChildWrites, call
  <2>1. TypeOK'
    BY DEF TypeOK
  <2>2. Before' /\ Allocations'
    BY DEF Before, Allocations
  <2>3. Reading'
    <3>1. chunk \o pipe' = Append(chunk \o pipe, b)
      BY DEF TypeOK
    <3>2. output \o Append(chunk \o pipe, b) = Append(output \o (chunk \o pipe), b)
      BY SMTT(30) DEF TypeOK
    <3> QED
      BY <3>1, <3>2, Zenon DEF Reading
  <2>4. Closing'
    <3>1. Len(wrote') = Len(wrote) + 1 /\ Len(wrote) \in Nat
      BY DEF TypeOK
    <3> QED
      BY <3>1, RunAssumption DEF Closing
  <2>5. OutputWhole' /\ NothingLeaks'
    BY DEF OutputWhole, ResultIsWhole, OversizeTold, NothingLeaks
  <2> QED
    BY <2>1, <2>2, <2>3, <2>4, <2>5, SMTT(30)
<1>2. ASSUME ChildEnds \/ ChildBreaksPipe PROVE RunInv'
  <2> USE <1>2 DEF ChildEnds, ChildBreaksPipe, call
  <2>1. TypeOK'
    BY Zenon DEF TypeOK
  <2>2. Before' /\ Allocations' /\ Reading'
    BY Zenon DEF Before, Allocations, Reading
  <2>3. Closing'
    BY DEF Closing
  <2>4. OutputWhole' /\ NothingLeaks'
    BY DEF OutputWhole, ResultIsWhole, OversizeTold, NothingLeaks
  <2> QED
    BY <2>1, <2>2, <2>3, <2>4, SMTT(30)
<1> QED
  BY <1>1, <1>2

(* Every step preserves the invariant.                                     *)
LEMMA RunStep == RunInv /\ [Next]_vars => RunInv'
<1> SUFFICES ASSUME RunInv, [Next]_vars PROVE RunInv'
  OBVIOUS
<1>1. CASE UNCHANGED vars
  <2> USE <1>1 DEF vars, call, process, RunInv
  <2>1. TypeOK'
    BY DEF TypeOK
  <2>2. Before' /\ Allocations' /\ Reading' /\ Closing'
    BY DEF Before, Allocations, Reading, Closing
  <2>3. OutputWhole' /\ NothingLeaks'
    BY DEF OutputWhole, ResultIsWhole, OversizeTold, NothingLeaks
  <2> QED
    BY <2>1, <2>2, <2>3, SMTT(30)
<1>2. CASE Next
  BY <1>2, StartStep, QuoteStep, BuildStep, PopenStep, GatherStep, TakeStep, CloseStreamStep,
     WaitStep, ChildStep, SMTT(30) DEF Next, Call
<1> QED
  BY <1>1, <1>2

(* The invariant holds in every state of every call.                       *)
THEOREM RunInvariant == Spec => []RunInv
  BY RunInit, RunStep, PTL DEF Spec

------------------------------------------------------------------------------
(* The theorems.                                                           *)

(* Whatever bytes a path is made of, as long as a request can carry it,    *)
(* the shell that popen() starts reads it from the command line as one     *)
(* word, byte for byte; and for a path of any length there was room for    *)
(* its quoted form in what wc_command_quote_argument allocated.            *)
THEOREM QuotingIsSound == Spec => []ArgumentQuoted
<1>1. RunInv => ArgumentQuoted
  <2> SUFFICES ASSUME RunInv PROVE ArgumentQuoted
    OBVIOUS
  <2>1. argument \in Seq(Char)
    BY DEF RunInv, TypeOK
  <2>2. ArgumentIsOneWord
    BY <2>1, LineReads, Zenon DEF ArgumentIsOneWord, IsSh
  <2>3. "quoted" \in heap => pc = "build"
    BY DEF RunInv, TypeOK, Allocations, NothingLeaks
  <2>4. pc = "build" => ~TooLong(argument)
    BY DEF RunInv, Allocations
  <2>5. QuotedFits
    BY <2>1, <2>3, <2>4, FitsInMemory, Zenon DEF QuotedFits
  <2> QED
    BY <2>2, <2>5 DEF ArgumentQuoted
<1> QED
  BY <1>1, RunInvariant, PTL

(* A call that succeeds returns all that the child wrote, and without      *)
(* failing system calls one that wrote too much is reported as EMSGSIZE,   *)
(* and only that.                                                          *)
THEOREM OutputIsWhole == Spec => []OutputWhole
<1>1. RunInv => OutputWhole
  BY DEF RunInv
<1> QED
  BY <1>1, RunInvariant, PTL

(* Every return of the call, on whichever of its error paths, has freed    *)
(* what it allocated but the result, closed the stream and waited for the  *)
(* child.                                                                  *)
THEOREM CallLeaksNothing == Spec => []NothingLeaks
<1>1. RunInv => NothingLeaks
  BY DEF RunInv
<1> QED
  BY <1>1, RunInvariant, PTL
==============================================================================
