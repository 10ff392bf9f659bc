---------------------------- MODULE SessionProofs ----------------------------
(***************************************************************************)
(* The session file, for any number of processes that resume it, any       *)
(* headers and any lengths:                                                *)
(*   - a save that returned has saved exactly what it was given;           *)
(*   - the file can always be loaded, and                                  *)
(*   - a kill loses nothing that was on disk,                              *)
(* where no append loses just its last newline and nobody writes between   *)
(* the stat and the write of a process that may tear it.                   *)
(*                                                                         *)
(* What a save tracked is a whole file: a torn line is only ever the last  *)
(* one, and who finds one tracks nothing and rewrites.  So an append goes  *)
(* to a whole file, and what it leaves is whole but for a last line.  That *)
(* it leaves the very transcript rests on how a transcript changes between *)
(* two saves: it grows, or it becomes shorter than what was tracked.       *)
(***************************************************************************)
EXTENDS SessionStore, Rewind, SequenceTheorems, TLAPS

Good(line) == line.msg # Garbage /\ line.nl
WholeLines(lines) == \A i \in 1..Len(lines) : Good(lines[i])
SoundLines(lines) ==
    \A i \in 1..Len(lines) :
        Good(lines[i]) \/ (i = Len(lines) /\ lines[i].msg = Garbage)

----------------------------------------------------------------------------
(* Lemmas about lines and files.                                           *)

LEMMA FunctionIsSeq ==
    ASSUME NEW S, NEW n \in Nat, NEW f \in [1..n -> S]
    PROVE  f \in Seq(S) /\ Len(f) = n
<1>1. f \in Seq(S)
  BY IsASeq
<1>2. DOMAIN f = 1..n /\ DOMAIN f = 1..Len(f) /\ Len(f) \in Nat
  BY <1>1, LenProperties
<1> QED BY <1>1, <1>2

LEMMA TailOfSeq ==
    ASSUME NEW S, NEW s \in Seq(S), NEW c \in Nat, c <= Len(s)
    PROVE  /\ SubSeq(s, c + 1, Len(s)) \in Seq(S)
           /\ Len(SubSeq(s, c + 1, Len(s))) = Len(s) - c
           /\ \A i \in 1..(Len(s) - c) : SubSeq(s, c + 1, Len(s))[i] = s[c + i]
<1>1. Len(s) \in Nat /\ \A i \in (c + 1)..Len(s) : s[i] \in S
  OBVIOUS
<1> DEFINE n == Len(s)
<1> HIDE DEF n
<1>2. /\ SubSeq(s, c + 1, n) \in Seq(S)
      /\ Len(SubSeq(s, c + 1, n)) = IF c + 1 <= n THEN n - (c + 1) + 1 ELSE 0
      /\ \A i \in 1..(n - (c + 1) + 1) : SubSeq(s, c + 1, n)[i] = s[(c + 1) + i - 1]
  BY <1>1, SubSeqProperties DEF n
<1>3. ASSUME NEW i \in 1..(n - c) PROVE SubSeq(s, c + 1, n)[i] = s[c + i]
  <2>1. i \in 1..(n - (c + 1) + 1) /\ (c + 1) + i - 1 = c + i
    BY <1>1 DEF n
  <2> QED BY <1>2, <2>1
<1>4. Len(SubSeq(s, c + 1, n)) = n - c
  BY <1>1, <1>2 DEF n
<1> QED BY <1>2, <1>3, <1>4 DEF n

LEMMA LineFields == \A m : Line(m).msg = m /\ Line(m).nl
BY DEF Line

LEMMA LinesOfTranscript ==
    ASSUME NEW ms \in Seq(Messages)
    PROVE  /\ LinesOf(ms) \in Seq(Lines) /\ Len(LinesOf(ms)) = Len(ms)
           /\ \A i \in 1..Len(ms) : LinesOf(ms)[i] = Line(ms[i])
           /\ WholeLines(LinesOf(ms))
<1>1. \A i \in 1..Len(ms) : Line(ms[i]) \in Lines /\ Good(Line(ms[i]))
  BY Bounds DEF Line, Lines, Good, Messages, Garbage
<1>2. LinesOf(ms) \in [1..Len(ms) -> Lines]
  BY <1>1 DEF LinesOf
<1>3. LinesOf(ms) \in Seq(Lines) /\ Len(LinesOf(ms)) = Len(ms)
  BY <1>2, FunctionIsSeq
<1> QED BY <1>1, <1>3 DEF LinesOf, WholeLines

\* What is written whole is read back as it was.
LEMMA FileOfState ==
    ASSUME NEW s \in States
    PROVE  /\ FileOf(s) \in Files /\ WholeLines(FileOf(s).lines)
           /\ FileOf(s).header = s.header
           /\ FileOf(s).lines = LinesOf(s.messages)
           /\ Len(FileOf(s).lines) = Len(s.messages)
           /\ \A i \in 1..Len(s.messages) : FileOf(s).lines[i] = Line(s.messages[i])
           /\ Readable(FileOf(s)) /\ Loaded(FileOf(s)) = s
<1>1. s.messages \in Seq(Messages) /\ s.header \in Headers
      /\ s = [header |-> s.header, messages |-> s.messages]
  BY DEF States
<1> DEFINE ms == s.messages
           ls == LinesOf(ms)
<1>2. /\ ls \in Seq(Lines) /\ Len(ls) = Len(ms)
      /\ \A i \in 1..Len(ms) : ls[i] = Line(ms[i])
      /\ WholeLines(ls)
  BY <1>1, LinesOfTranscript
<1>3. FileOf(s) = [header |-> s.header, lines |-> ls]
  BY DEF FileOf
<1> HIDE DEF ls, ms
<1>4. FileOf(s) \in Files
  BY <1>1, <1>2, <1>3 DEF Files
<1>5. Readable(FileOf(s)) /\ ~LastTorn(FileOf(s))
  <2>1. ls # <<>> => Len(ls) \in 1..Len(ls)
    BY <1>2
  <2> QED BY <1>2, <1>3, <2>1 DEF Readable, LastTorn, Last, WholeLines, Good
<1>6. [i \in 1..Len(ls) |-> ls[i].msg] = ms
  <2>1. \A i \in 1..Len(ms) : ls[i].msg = ms[i]
    BY <1>2, LineFields
  <2>2. ms \in [1..Len(ms) -> Messages]
    BY <1>1, LenProperties DEF ms
  <2>3. [i \in 1..Len(ls) |-> ls[i].msg] = [i \in 1..Len(ms) |-> ms[i]]
    BY <1>2, <2>1
  <2> QED BY <2>2, <2>3
<1>7. Loaded(FileOf(s)) = s
  <2>1. Loaded(FileOf(s)) =
           [header |-> s.header, messages |-> [i \in 1..Len(ls) |-> ls[i].msg]]
    BY <1>3, <1>5 DEF Loaded
  <2> QED BY <1>1, <1>6, <2>1 DEF ms
<1> QED BY <1>2, <1>3, <1>4, <1>5, <1>7 DEF ms, ls

LEMMA AppendedTyped ==
    ASSUME NEW f \in Files, NEW lines \in Seq(Lines)
    PROVE  Appended(f, lines) \in Files
<1>1. f.lines \in Seq(Lines)
  BY DEF Files
<1>2. CASE lines = <<>> \/ f.lines = <<>> \/ Last(f.lines).nl
  <2>1. f.lines \o lines \in Seq(Lines)
    BY <1>1
  <2> QED BY <1>2, <2>1 DEF Appended, Files
<1>3. CASE ~(lines = <<>> \/ f.lines = <<>> \/ Last(f.lines).nl)
  <2>1. Front(f.lines) \in Seq(Lines)
    BY <1>1, <1>3 DEF Front
  <2>2. Head(lines) \in Lines /\ Tail(lines) \in Seq(Lines)
    BY <1>3
  <2>3. [Head(lines) EXCEPT !.msg = Garbage] \in Lines
    BY <2>2 DEF Lines
  <2>4. Front(f.lines) \o <<[Head(lines) EXCEPT !.msg = Garbage]>> \o Tail(lines)
           \in Seq(Lines)
    BY <2>1, <2>2, <2>3
  <2> QED BY <1>3, <2>4 DEF Appended, Files
<1> QED BY <1>2, <1>3

\* An append to a whole file adds lines.
LEMMA AppendedToWhole ==
    ASSUME NEW f \in Files, WholeLines(f.lines), NEW lines \in Seq(Lines)
    PROVE  /\ Appended(f, lines) \in Files
           /\ Appended(f, lines).header = f.header
           /\ Appended(f, lines).lines = f.lines \o lines
           /\ Len(Appended(f, lines).lines) = Len(f.lines) + Len(lines)
           /\ \A i \in 1..Len(f.lines) : Appended(f, lines).lines[i] = f.lines[i]
           /\ \A i \in 1..Len(lines) :
                 Appended(f, lines).lines[Len(f.lines) + i] = lines[i]
<1>1. f.lines \in Seq(Lines)
  BY DEF Files
<1>2. f.lines = <<>> \/ Last(f.lines).nl
  BY <1>1 DEF WholeLines, Good, Last
<1>3. Appended(f, lines) = [f EXCEPT !.lines = f.lines \o lines]
  BY <1>2 DEF Appended
<1>4. Appended(f, lines).header = f.header
      /\ Appended(f, lines).lines = f.lines \o lines
  BY <1>3 DEF Files
<1>5. /\ Len(f.lines \o lines) = Len(f.lines) + Len(lines)
      /\ \A i \in 1..Len(f.lines) : (f.lines \o lines)[i] = f.lines[i]
      /\ \A i \in 1..Len(lines) : (f.lines \o lines)[Len(f.lines) + i] = lines[i]
  BY <1>1
<1> QED BY <1>4, <1>5, AppendedTyped

LEMMA TornLines ==
    ASSUME NEW lines \in Seq(Lines), NEW torn \in Torn(lines)
    PROVE  /\ torn \in Seq(Lines)
           /\ WholeLines(lines) /\ "newline" \notin faults => SoundLines(torn)
<1>1. Len(lines) \in Nat
  OBVIOUS
<1> DEFINE Piece(k) == SubSeq(lines, 1, k)
           rest == [msg |-> Garbage, nl |-> FALSE]
<1>2. \A k \in 0..(Len(lines) - 1) :
         /\ Piece(k) \in Seq(Lines) /\ Len(Piece(k)) = k
         /\ \A i \in 1..k : Piece(k)[i] = lines[i]
  <2> TAKE k \in 0..(Len(lines) - 1)
  <2> QED BY <1>1
<1>3. rest \in Lines /\ rest.msg = Garbage
  BY DEF Lines
<1> HIDE DEF Piece, rest
<1>4. CASE \E k \in 0..(Len(lines) - 1) : torn = Piece(k)
  BY <1>2, <1>4 DEF SoundLines, WholeLines
<1>5. CASE \E k \in 0..(Len(lines) - 1) : torn = Piece(k) \o <<rest>>
  <2>1. PICK k \in 0..(Len(lines) - 1) : torn = Piece(k) \o <<rest>>
    BY <1>5
  <2>2. /\ torn \in Seq(Lines) /\ Len(torn) = k + 1 /\ torn[k + 1] = rest
        /\ \A i \in 1..k : torn[i] = Piece(k)[i]
    BY <1>2, <1>3, <2>1
  <2>3. \A i \in 1..k : torn[i] = lines[i] /\ i \in 1..Len(lines)
    BY <1>1, <1>2, <2>2
  <2>4. \A i \in 1..Len(torn) : i \in 1..k \/ i = k + 1
    BY <2>2
  <2> QED BY <1>3, <2>2, <2>3, <2>4 DEF SoundLines, WholeLines
<1>6. CASE \E k \in 0..(Len(lines) - 1) :
              /\ "newline" \in faults
              /\ torn = Piece(k) \o <<[lines[k + 1] EXCEPT !.nl = FALSE]>>
  <2>1. PICK k \in 0..(Len(lines) - 1) :
           torn = Piece(k) \o <<[lines[k + 1] EXCEPT !.nl = FALSE]>>
    BY <1>6
  <2>2. lines[k + 1] \in Lines
    BY <1>1
  <2>3. [lines[k + 1] EXCEPT !.nl = FALSE] \in Lines
    BY <2>2 DEF Lines
  <2>4. torn \in Seq(Lines)
    BY <1>2, <2>1, <2>3
  <2> QED BY <1>6, <2>4
<1> QED BY <1>4, <1>5, <1>6 DEF Torn, Piece, rest

LEMMA WholeThenSound ==
    ASSUME NEW f \in Files, WholeLines(f.lines),
           NEW lines \in Seq(Lines), SoundLines(lines)
    PROVE  SoundLines(Appended(f, lines).lines)
<1> DEFINE a == Len(f.lines)
           b == Len(lines)
           new == Appended(f, lines).lines
<1>1. /\ Len(new) = a + b /\ a \in Nat /\ b \in Nat
      /\ \A i \in 1..a : new[i] = f.lines[i]
      /\ \A i \in 1..b : new[a + i] = lines[i]
  BY AppendedToWhole DEF Files
<1> HIDE DEF new
<1>2. ASSUME NEW i \in 1..Len(new)
      PROVE  Good(new[i]) \/ (i = Len(new) /\ new[i].msg = Garbage)
  <2>1. CASE i <= a
    <3>1. i \in 1..a
      BY <1>1, <2>1
    <3>2. new[i] = f.lines[i] /\ Good(f.lines[i])
      BY <1>1, <3>1 DEF WholeLines
    <3> QED BY <3>2
  <2>2. CASE i > a
    <3>1. i - a \in 1..b /\ a + (i - a) = i
      BY <1>1, <2>2
    <3>2. new[i] = lines[i - a] /\ (i = Len(new) <=> i - a = Len(lines))
      BY <1>1, <3>1
    <3>3. Good(lines[i - a]) \/ (i - a = Len(lines) /\ lines[i - a].msg = Garbage)
      BY <3>1 DEF SoundLines
    <3> QED BY <3>2, <3>3
  <2> QED BY <1>1, <2>1, <2>2
<1> QED BY <1>2 DEF SoundLines, new

LEMMA WholeThenWhole ==
    ASSUME NEW f \in Files, WholeLines(f.lines),
           NEW lines \in Seq(Lines), WholeLines(lines)
    PROVE  WholeLines(Appended(f, lines).lines)
<1> DEFINE a == Len(f.lines)
           b == Len(lines)
           new == Appended(f, lines).lines
<1>1. /\ Len(new) = a + b /\ a \in Nat /\ b \in Nat
      /\ \A i \in 1..a : new[i] = f.lines[i]
      /\ \A i \in 1..b : new[a + i] = lines[i]
  BY AppendedToWhole DEF Files
<1> HIDE DEF new
<1>2. ASSUME NEW i \in 1..Len(new) PROVE Good(new[i])
  <2>1. CASE i <= a
    <3>1. i \in 1..a
      BY <1>1, <2>1
    <3>2. new[i] = f.lines[i] /\ Good(f.lines[i])
      BY <1>1, <3>1 DEF WholeLines
    <3> QED BY <3>2
  <2>2. CASE i > a
    <3>1. i - a \in 1..b /\ a + (i - a) = i
      BY <1>1, <2>2
    <3> QED BY <1>1, <3>1 DEF WholeLines
  <2> QED BY <1>1, <2>1, <2>2
<1> QED BY <1>2 DEF WholeLines, new

LEMMA SoundIsReadable ==
    ASSUME NEW f \in Files, SoundLines(f.lines)
    PROVE  Readable(f) /\ (~LastTorn(f) => WholeLines(f.lines))
<1>1. f.lines \in Seq(Lines) /\ Len(f.lines) \in Nat
  BY DEF Files
<1>2. Readable(f)
  BY <1>1 DEF Readable, SoundLines, Good
<1>3. ASSUME ~LastTorn(f), NEW i \in 1..Len(f.lines) PROVE Good(f.lines[i])
  <2>1. f.lines # <<>>
    BY <1>1, <1>3
  <2>2. f.lines[Len(f.lines)].msg # Garbage
    BY <1>3, <2>1 DEF LastTorn, Last
  <2> QED BY <2>2 DEF SoundLines
<1> QED BY <1>2, <1>3 DEF WholeLines

\* A load gives a session, and tracks nothing or a file.
LEMMA LoadedIsState ==
    ASSUME NEW f \in Files, Readable(f)
    PROVE  /\ Loaded(f) \in States
           /\ Seed(f) \in Known \cup {None}
<1>1. f.lines \in Seq(Lines) /\ Len(f.lines) \in Nat /\ f.header \in Headers
  BY DEF Files
<1> DEFINE whole == IF LastTorn(f) THEN Front(f.lines) ELSE f.lines
           ms == [i \in 1..Len(whole) |-> whole[i].msg]
<1>2. /\ whole \in Seq(Lines)
      /\ \A i \in 1..Len(whole) : whole[i].msg # Garbage
  <2>1. CASE LastTorn(f)
    <3>1. Len(f.lines) > 0
      BY <1>1, <2>1 DEF LastTorn
    <3>2. /\ whole \in Seq(Lines) /\ Len(whole) = Len(f.lines) - 1
          /\ \A i \in 1..Len(whole) : whole[i] = f.lines[i]
      BY <1>1, <2>1, <3>1 DEF Front
    <3> QED BY <3>2 DEF Readable
  <2>2. CASE ~LastTorn(f)
    <3>1. ASSUME NEW i \in 1..Len(f.lines) PROVE f.lines[i].msg # Garbage
      <4>1. CASE i = Len(f.lines)
        <5>1. f.lines # <<>>
          BY <1>1
        <5> QED BY <2>2, <4>1, <5>1 DEF LastTorn, Last
      <4>2. CASE i # Len(f.lines)
        <5>1. i \in 1..(Len(f.lines) - 1)
          BY <1>1, <4>2
        <5> QED BY <5>1 DEF Readable
      <4> QED BY <4>1, <4>2
    <3> QED BY <1>1, <2>2, <3>1
  <2> QED BY <2>1, <2>2
<1>3. Loaded(f) = [header |-> f.header, messages |-> ms]
  BY DEF Loaded
<1>4. ms \in Seq(Messages) /\ Len(ms) = Len(whole) /\ Len(whole) \in Nat
  <2>1. \A i \in 1..Len(whole) : whole[i].msg \in Messages
    <3> TAKE i \in 1..Len(whole)
    <3>1. whole[i] \in Lines /\ whole[i].msg # Garbage
      BY <1>2
    <3> HIDE DEF whole
    <3> QED BY <3>1 DEF Lines
  <2>2. ms \in [1..Len(whole) -> Messages]
    BY <2>1
  <2>3. Len(whole) \in Nat
    BY <1>2
  <2> QED BY <2>2, <2>3, FunctionIsSeq
<1>5. Loaded(f) \in States
  BY <1>1, <1>3, <1>4 DEF States
<1>6. Len(Loaded(f).messages) \in Nat
  BY <1>3, <1>4
<1> HIDE DEF ms, whole
<1> QED BY <1>1, <1>5, <1>6 DEF Seed, Known

\* What is read whole is what would be written.
LEMMA WholeIsFileOfLoaded ==
    ASSUME NEW f \in Files, WholeLines(f.lines)
    PROVE  /\ Readable(f) /\ ~LastTorn(f)
           /\ Loaded(f) \in States /\ FileOf(Loaded(f)) = f
           /\ Len(Loaded(f).messages) = Len(f.lines)
           /\ Loaded(f).header = f.header
           /\ \A i \in 1..Len(f.lines) : Loaded(f).messages[i] = f.lines[i].msg
<1>1. /\ f.lines \in Seq(Lines) /\ Len(f.lines) \in Nat
      /\ f = [header |-> f.header, lines |-> f.lines]
  BY DEF Files
<1>2. Readable(f) /\ ~LastTorn(f)
  <2>1. f.lines # <<>> => Len(f.lines) \in 1..Len(f.lines)
    BY <1>1
  <2> QED BY <1>1, <2>1 DEF Readable, LastTorn, Last, WholeLines, Good
<1>3. Loaded(f) \in States
  BY <1>2, LoadedIsState
<1> DEFINE ms == [i \in 1..Len(f.lines) |-> f.lines[i].msg]
<1>4. Loaded(f) = [header |-> f.header, messages |-> ms]
  BY <1>2 DEF Loaded
<1>5. ms = Loaded(f).messages /\ ms \in Seq(Messages)
  BY <1>3, <1>4 DEF States
<1>6. DOMAIN ms = 1..Len(ms) /\ DOMAIN ms = 1..Len(f.lines) /\ Len(ms) \in Nat
  BY <1>5, LenProperties
<1>7. Len(ms) = Len(f.lines)
  BY <1>1, <1>6
<1>8. \A i \in 1..Len(f.lines) : Line(ms[i]) = f.lines[i]
  <2> TAKE i \in 1..Len(f.lines)
  <2>1. f.lines[i] \in Lines /\ f.lines[i].nl
    BY <1>1 DEF WholeLines, Good
  <2> QED BY <2>1 DEF Line, Lines
<1>9. LinesOf(ms) = f.lines
  <2>1. f.lines = [i \in 1..Len(f.lines) |-> f.lines[i]]
    BY <1>1, LenProperties
  <2> QED BY <1>7, <1>8, <2>1 DEF LinesOf
<1>10. FileOf(Loaded(f)) = f
  BY <1>1, <1>4, <1>9 DEF FileOf
<1> QED BY <1>2, <1>3, <1>4, <1>7, <1>10

LEMMA PrefixPointwise ==
    ASSUME NEW S, NEW s \in Seq(S), NEW t \in Seq(S), Len(s) <= Len(t),
           \A i \in 1..Len(s) : s[i] = t[i]
    PROVE  IsPrefix(s, t)
<1>1. Len(s) \in Nat /\ Len(t) \in Nat
  OBVIOUS
<1>2. /\ SubSeq(s, 1, Len(s)) = [i \in 1..Len(s) |-> s[i]]
      /\ SubSeq(t, 1, Len(s)) = [i \in 1..Len(s) |-> t[i]]
  BY <1>1
<1> QED BY <1>1, <1>2 DEF IsPrefix

\* What a load gives after an append, torn or not, begins with what one gave
\* before it.
LEMMA AppendKeepsWhatIsThere ==
    ASSUME NEW f \in Files, WholeLines(f.lines),
           NEW lines \in Seq(Lines), SoundLines(lines)
    PROVE  IsPrefix(Loaded(f).messages, Loaded(Appended(f, lines)).messages)
<1> DEFINE new == Appended(f, lines)
           a == Len(f.lines)
<1>1. /\ new \in Files /\ Len(new.lines) = a + Len(lines)
      /\ \A i \in 1..a : new.lines[i] = f.lines[i]
      /\ \A i \in 1..Len(lines) : new.lines[a + i] = lines[i]
  BY AppendedToWhole
<1>2. a \in Nat /\ Len(lines) \in Nat
  BY DEF Files
<1>3. SoundLines(new.lines) /\ Readable(new) /\ Loaded(new) \in States
  BY <1>1, WholeThenSound, SoundIsReadable, LoadedIsState
<1>4. /\ Loaded(f) \in States /\ Len(Loaded(f).messages) = a
      /\ \A i \in 1..a : Loaded(f).messages[i] = f.lines[i].msg
  BY WholeIsFileOfLoaded
<1> HIDE DEF new
<1>5. new.lines \in Seq(Lines) /\ Len(new.lines) \in Nat
  BY <1>1 DEF Files
<1> DEFINE whole == IF LastTorn(new) THEN Front(new.lines) ELSE new.lines
<1>6. /\ whole \in Seq(Lines) /\ Len(whole) \in Nat /\ Len(whole) >= a
      /\ \A i \in 1..a : whole[i] = new.lines[i]
  <2>1. CASE LastTorn(new)
    <3>1. Len(new.lines) > 0 /\ new.lines[Len(new.lines)].msg = Garbage
      BY <1>5, <2>1 DEF LastTorn, Last
    <3>2. Len(new.lines) # a
      <4> SUFFICES ASSUME Len(new.lines) = a PROVE FALSE
        OBVIOUS
      <4>1. a \in 1..a
        BY <1>2, <3>1
      <4> QED BY <1>1, <3>1, <4>1 DEF WholeLines, Good
    <3>3. /\ whole \in Seq(Lines) /\ Len(whole) = Len(new.lines) - 1
          /\ \A i \in 1..Len(whole) : whole[i] = new.lines[i]
      BY <1>5, <2>1, <3>1 DEF Front
    <3> QED BY <1>1, <1>2, <3>2, <3>3
  <2>2. CASE ~LastTorn(new)
    BY <1>1, <1>2, <1>5, <2>2
  <2> QED BY <2>1, <2>2
<1> DEFINE ms == [i \in 1..Len(whole) |-> whole[i].msg]
<1>7. Loaded(new) = [header |-> new.header, messages |-> ms]
  BY DEF Loaded
<1> HIDE DEF whole
<1>8. Loaded(new).messages = ms /\ ms \in Seq(Messages)
  BY <1>3, <1>7 DEF States
<1>9. DOMAIN ms = 1..Len(ms) /\ DOMAIN ms = 1..Len(whole) /\ Len(ms) \in Nat
  BY <1>8, LenProperties
<1>10. Len(ms) = Len(whole) /\ \A i \in 1..a : ms[i] = new.lines[i].msg
  <2>1. Len(ms) = Len(whole)
    BY <1>6, <1>9
  <2>2. \A i \in 1..a : i \in 1..Len(whole)
    BY <1>2, <1>6
  <2> QED BY <1>6, <2>1, <2>2
<1> HIDE DEF ms
<1>11. Loaded(f).messages \in Seq(Messages)
  BY <1>4 DEF States
<1>12. \A i \in 1..a : Loaded(f).messages[i] = ms[i]
  BY <1>1, <1>4, <1>10
<1>13. IsPrefix(Loaded(f).messages, ms)
  BY <1>4, <1>6, <1>8, <1>10, <1>11, <1>12, PrefixPointwise
<1> QED BY <1>8, <1>13 DEF new

----------------------------------------------------------------------------
(* What a process tracks, against its state.                               *)

\* The size tracked is that of a file that holds this very state.
Synced(k, s) ==
    /\ k.size = FileOf(s)
    /\ k.header = s.header /\ k.count = Len(s.messages)

\* As long as the state is no shorter than what was tracked, it begins with it.
Tracks(k, s) ==
    /\ k.header = k.size.header /\ k.count = Len(k.size.lines)
    /\ Len(s.messages) >= k.count =>
          \A i \in 1..k.count : k.size.lines[i] = Line(s.messages[i])

\* How a state changes between two saves: it grows, or gets shorter.
Changes(s, t) ==
    \/ Len(t.messages) < Len(s.messages)
    \/ /\ Len(t.messages) >= Len(s.messages)
       /\ \A i \in 1..Len(s.messages) : t.messages[i] = s.messages[i]

LEMMA SyncedTracks ==
    ASSUME NEW k \in Known, NEW s \in States, Synced(k, s)
    PROVE  Tracks(k, s)
BY FileOfState DEF Synced, Tracks

LEMMA ChangedTracks ==
    ASSUME NEW k \in Known, NEW s \in States, NEW t \in States,
           Synced(k, s), Changes(s, t)
    PROVE  Tracks(k, t)
<1>1. /\ k.size.lines = FileOf(s).lines /\ k.size.header = s.header
      /\ k.header = s.header /\ k.count = Len(s.messages)
      /\ Len(FileOf(s).lines) = Len(s.messages)
      /\ \A i \in 1..Len(s.messages) : FileOf(s).lines[i] = Line(s.messages[i])
  BY FileOfState DEF Synced
<1>2. Len(s.messages) \in Nat /\ Len(t.messages) \in Nat
  BY DEF States
<1>3. Len(t.messages) >= Len(s.messages) =>
         \A i \in 1..Len(s.messages) : t.messages[i] = s.messages[i]
  BY <1>2 DEF Changes
<1> QED BY <1>1, <1>2, <1>3 DEF Tracks

\* An append of what is new leaves the file of the state.
LEMMA AppendMakesTheFile ==
    ASSUME NEW k \in Known, NEW s \in States, Tracks(k, s),
           WholeLines(k.size.lines), k.header = s.header,
           Len(s.messages) > k.count
    PROVE  Appended(k.size, LinesOf(SubSeq(s.messages, k.count + 1, Len(s.messages))))
              = FileOf(s)
<1> DEFINE ms == s.messages
           tail == SubSeq(ms, k.count + 1, Len(ms))
           ls == LinesOf(tail)
           new == Appended(k.size, ls)
<1>1. /\ ms \in Seq(Messages) /\ Len(ms) \in Nat /\ k.count \in Nat
      /\ k.size \in Files /\ k.size.lines \in Seq(Lines)
      /\ k.count = Len(k.size.lines) /\ k.size.header = s.header
  BY DEF States, Known, Files, Tracks
<1>2. /\ tail \in Seq(Messages) /\ Len(tail) = Len(ms) - k.count
      /\ \A i \in 1..(Len(ms) - k.count) : tail[i] = ms[k.count + i]
  <2>1. k.count <= Len(ms)
    BY <1>1
  <2> HIDE DEF ms
  <2> QED BY <1>1, <2>1, TailOfSeq
<1> HIDE DEF tail
<1>3. /\ ls \in Seq(Lines) /\ Len(ls) = Len(ms) - k.count
      /\ \A i \in 1..(Len(ms) - k.count) : ls[i] = Line(ms[k.count + i])
  BY <1>2, LinesOfTranscript
<1> HIDE DEF ls
<1>4. /\ new \in Files /\ new.header = s.header /\ Len(new.lines) = Len(ms)
      /\ \A i \in 1..k.count : new.lines[i] = k.size.lines[i]
      /\ \A i \in 1..(Len(ms) - k.count) : new.lines[k.count + i] = ls[i]
  <2>1. /\ new \in Files /\ new.header = k.size.header
        /\ Len(new.lines) = Len(k.size.lines) + Len(ls)
        /\ \A i \in 1..Len(k.size.lines) : new.lines[i] = k.size.lines[i]
        /\ \A i \in 1..Len(ls) : new.lines[Len(k.size.lines) + i] = ls[i]
    BY <1>1, <1>3, AppendedToWhole
  <2>2. Len(k.size.lines) = k.count /\ k.size.header = s.header
        /\ k.count \in Nat /\ Len(ms) \in Nat
    BY <1>1
  <2>3. Len(ls) = Len(ms) - k.count
    BY <1>3
  <2> HIDE DEF new, ms
  <2>4. Len(new.lines) = Len(ms)
    BY <2>1, <2>2, <2>3, SMTT(30)
  <2> QED BY <2>1, <2>2, <2>3, <2>4, SMTT(30)
<1> HIDE DEF new
<1>5. \A i \in 1..Len(ms) : new.lines[i] = Line(ms[i])
  <2> TAKE i \in 1..Len(ms)
  <2>1. CASE i <= k.count
    <3>1. i \in 1..k.count
      BY <1>1, <2>1
    <3>2. k.size.lines[i] = Line(ms[i])
      BY <1>1, <3>1 DEF Tracks
    <3> QED BY <1>4, <3>1, <3>2
  <2>2. CASE i > k.count
    <3> DEFINE n == Len(ms)
    <3>0. k.count \in Nat /\ n \in Nat /\ i \in 1..n
      BY <1>1
    <3> HIDE DEF n
    <3>1. i - k.count \in 1..(n - k.count) /\ k.count + (i - k.count) = i
      BY <2>2, <3>0
    <3> USE DEF n
    <3>2. ls[i - k.count] = Line(ms[i])
      BY <1>3, <3>1
    <3>3. new.lines[i] = ls[i - k.count]
      BY <1>4, <3>1
    <3> QED BY <3>2, <3>3
  <2> QED BY <1>1, <2>1, <2>2
<1>6. new = [header |-> s.header, lines |-> new.lines] /\ new.lines \in Seq(Lines)
  BY <1>4 DEF Files
<1>7. new.lines = [i \in 1..Len(ms) |-> Line(ms[i])]
  <2>1. new.lines = [i \in 1..Len(new.lines) |-> new.lines[i]]
    BY <1>6, LenProperties
  <2> QED BY <1>4, <1>5, <2>1
<1> QED BY <1>6, <1>7 DEF new, ls, tail, FileOf, LinesOf

\* Nothing is written where the file is the state's already.
LEMMA NothingIsMissing ==
    ASSUME NEW k \in Known, NEW s \in States, Tracks(k, s),
           k.header = s.header, Len(s.messages) = k.count
    PROVE  k.size = FileOf(s)
<1>1. /\ s.messages \in Seq(Messages) /\ Len(s.messages) \in Nat
      /\ k.size = [header |-> s.header, lines |-> k.size.lines]
      /\ k.size.lines \in Seq(Lines) /\ Len(k.size.lines) = Len(s.messages)
  BY DEF States, Known, Files, Tracks
<1>2. \A i \in 1..Len(s.messages) : k.size.lines[i] = Line(s.messages[i])
  BY <1>1 DEF Tracks
<1>3. k.size.lines = [i \in 1..Len(k.size.lines) |-> k.size.lines[i]]
  BY <1>1, LenProperties
<1>4. k.size.lines = LinesOf(s.messages)
  BY <1>1, <1>2, <1>3 DEF LinesOf
<1> QED BY <1>1, <1>4 DEF FileOf

----------------------------------------------------------------------------
(* The inductive invariant.                                                *)

\* A process that is down holds nothing; a plan belongs to a save that is not
\* over; and only a rewrite needs neither a file nor a tracked size.
Idle ==
    \A p \in Procs :
        /\ ~Alive(p) => known[p] = None /\ plan[p] = None /\ ~dirty[p]
        /\ plan[p] # None => dirty[p]
        /\ plan[p] # None /\ plan[p].op # "rewrite" =>
              file # None /\ known[p] # None

\* No append loses just its newline, and where others write between a save's
\* stat and its write no write is torn.
Calm(fs) == "newline" \notin fs /\ ("window" \in fs => fs = {"window"})

\* A torn line is the last one of the file, and in nothing that is tracked or
\* about to be written; without a window a plan is the only one, and the file
\* is still what it was at the stat.
Sound ==
    /\ file # None => /\ SoundLines(file.lines)
                      /\ "window" \in faults => WholeLines(file.lines)
    /\ \A p \in Procs :
          /\ known[p] # None => WholeLines(known[p].size.lines)
          /\ plan[p] # None => WholeLines(plan[p].lines)
    /\ "window" \notin faults => \A p \in Procs : plan[p] # None =>
          /\ \A q \in Procs : plan[q] # None => q = p
          /\ plan[p].op # "rewrite" => file = known[p].size

\* Where no write throws, what is tracked is what the state begins with, all
\* of it once the state is saved, and a plan is the one that fits.
Exact ==
    /\ \A p \in Procs : known[p] # None =>
          /\ Tracks(known[p], state[p])
          /\ ~dirty[p] => Synced(known[p], state[p])
    /\ \A p \in Procs : plan[p] # None /\ plan[p].op # "rewrite" =>
          /\ known[p].header = state[p].header
          /\ plan[p].op = "append" =>
                /\ plan[p].lines = NewLines(p)
                /\ Len(state[p].messages) > known[p].count
          /\ plan[p].op = "nothing" => Len(state[p].messages) = known[p].count
    /\ report # None => Alive(report) /\ file = FileOf(state[report])

IInv == /\ TypeOK /\ Idle
        /\ Calm(faults) => Sound
        /\ faults \subseteq {"kill"} => Exact

LEMMA Apart ==
    /\ \A s \in States : s # None
    /\ \A f \in Files : f # None
    /\ \A k \in Known : k # None
    /\ \A a \in Plans : a # None
    /\ \A p \in Procs : p # None
BY NoneIsNone

\* Where a save ends: the file is new, and so is what is tracked.
LEMMA SaveReturns ==
    ASSUME IInv, NEW p \in Procs, plan[p] # None, Free(p),
           NEW size \in Files, file' \in Files,
           Track(p, size), Returns(p), report' = p,
           UNCHANGED <<faults, state, newest>>,
           Calm(faults) => /\ SoundLines(file'.lines) /\ WholeLines(size.lines)
                           /\ "window" \in faults => WholeLines(file'.lines),
           faults \subseteq {"kill"} => size = FileOf(state[p]) /\ file' = size
    PROVE  IInv'
<1>1. TypeOK /\ Idle /\ Alive(p)
  BY DEF IInv, Idle
<1>2. state[p] \in States /\ Len(state[p].messages) \in Nat
      /\ state[p].header \in Headers
  BY <1>1 DEF TypeOK, Alive, States
<1> DEFINE k == [header |-> state[p].header, count |-> Len(state[p].messages),
                 size |-> size]
<1>3. k \in Known /\ k # None
  BY <1>2, Apart DEF Known
<1>4. /\ known' = [known EXCEPT ![p] = k]
      /\ plan' = [plan EXCEPT ![p] = None] /\ dirty' = [dirty EXCEPT ![p] = FALSE]
  BY DEF Track, Returns
<1> HIDE DEF k
<1>5. TypeOK'
  BY <1>1, <1>3, <1>4 DEF TypeOK
<1>6. /\ known'[p] = k /\ plan'[p] = None /\ dirty'[p] = FALSE
      /\ \A q \in Procs \ {p} :
            known'[q] = known[q] /\ plan'[q] = plan[q] /\ dirty'[q] = dirty[q]
  BY <1>1, <1>4 DEF TypeOK
<1>7. file' # None
  BY Apart
<1>8. Idle'
  BY <1>1, <1>3, <1>6, <1>7 DEF Idle, Alive
<1>9. ASSUME Calm(faults) PROVE Sound'
  <2>1. Sound
    BY <1>9 DEF IInv
  <2>2. k.size = size
    BY DEF k
  <2>3. "window" \notin faults => \A q \in Procs : plan'[q] = None
    BY <1>6 DEF Free
  <2> QED BY <1>6, <1>9, <2>1, <2>2, <2>3 DEF Sound
<1>10. ASSUME faults \subseteq {"kill"} PROVE Exact'
  <2>1. Exact
    BY <1>10 DEF IInv
  <2>2. Synced(k, state[p])
    BY <1>10 DEF Synced, k
  <2>3. Tracks(k, state[p])
    BY <1>2, <1>3, <2>2, SyncedTracks
  <2>4. \A q \in Procs : known'[q] # None =>
           /\ Tracks(known'[q], state'[q])
           /\ ~dirty'[q] => Synced(known'[q], state'[q])
    BY <1>6, <2>1, <2>2, <2>3 DEF Exact
  <2>5. \A q \in Procs : plan'[q] = None
    BY <1>6, <1>10 DEF Free
  <2>6. Alive(p)' /\ file' = FileOf(state'[p])
    BY <1>1, <1>10 DEF Alive
  <2> QED BY <2>4, <2>5, <2>6 DEF Exact
<1> QED BY <1>5, <1>8, <1>9, <1>10 DEF IInv, Calm

\* What a plan holds, and what may become of the file.
LEMMA Planned ==
    ASSUME IInv, NEW p \in Procs, plan[p] # None
    PROVE  /\ plan[p] \in Plans /\ plan[p].lines \in Seq(Lines)
           /\ state[p] \in States /\ Alive(p) /\ dirty[p]
           /\ plan[p].op # "rewrite" =>
                 /\ file \in Files /\ file # None
                 /\ known[p] \in Known /\ known[p] # None
                 /\ known[p].size \in Files
BY DEF IInv, TypeOK, Idle, Plans, Known, Alive

LEMMA SaveAppendsStep ==
    ASSUME IInv, NEW p \in Procs, SaveAppends(p)
    PROVE  IInv'
<1>1. /\ plan[p] # None /\ plan[p].op = "append" /\ Free(p)
      /\ file' = Appended(file, plan[p].lines)
      /\ Track(p, AfterAppend(p)) /\ Returns(p) /\ report' = p
      /\ UNCHANGED <<faults, state, newest>>
  BY DEF SaveAppends
<1>2. /\ plan[p].lines \in Seq(Lines) /\ state[p] \in States
      /\ file \in Files /\ file # None /\ known[p] \in Known /\ known[p] # None
      /\ known[p].size \in Files
  BY <1>1, Planned
<1>3. file' \in Files /\ AfterAppend(p) \in Files
  BY <1>1, <1>2, AppendedTyped DEF AfterAppend
<1>4. ASSUME Calm(faults)
      PROVE  /\ SoundLines(file'.lines) /\ WholeLines(AfterAppend(p).lines)
             /\ "window" \in faults => WholeLines(file'.lines)
  <2>1. Sound
    BY <1>4 DEF IInv
  <2>2. /\ WholeLines(known[p].size.lines) /\ WholeLines(plan[p].lines)
        /\ "window" \in faults => WholeLines(file.lines)
        /\ "window" \notin faults => file = known[p].size
    BY <1>1, <1>2, <2>1 DEF Sound
  <2>3. WholeLines(AfterAppend(p).lines)
    BY <1>2, <2>2, WholeThenWhole DEF AfterAppend
  <2>4. WholeLines(file.lines)
    BY <2>2
  <2>5. WholeLines(file'.lines)
    BY <1>1, <1>2, <2>2, <2>4, WholeThenWhole
  <2> QED BY <2>3, <2>5 DEF SoundLines, WholeLines
<1>5. ASSUME faults \subseteq {"kill"}
      PROVE  AfterAppend(p) = FileOf(state[p]) /\ file' = AfterAppend(p)
  <2>1. Sound /\ Exact /\ "window" \notin faults
    BY <1>5 DEF IInv, Calm
  <2>2. /\ file = known[p].size /\ WholeLines(known[p].size.lines)
        /\ Tracks(known[p], state[p]) /\ known[p].header = state[p].header
        /\ plan[p].lines = NewLines(p) /\ Len(state[p].messages) > known[p].count
    BY <1>1, <1>2, <2>1 DEF Sound, Exact
  <2>3. Appended(known[p].size, NewLines(p)) = FileOf(state[p])
    BY <1>2, <2>2, AppendMakesTheFile DEF NewLines
  <2> QED BY <1>1, <2>2, <2>3 DEF AfterAppend
<1> QED BY <1>1, <1>3, <1>4, <1>5, SaveReturns

LEMMA SaveRewritesStep ==
    ASSUME IInv, NEW p \in Procs, SaveRewrites(p)
    PROVE  IInv'
<1>1. /\ plan[p] # None /\ Free(p) /\ file' = FileOf(state[p])
      /\ Track(p, FileOf(state[p])) /\ Returns(p) /\ report' = p
      /\ UNCHANGED <<faults, state, newest>>
  BY DEF SaveRewrites
<1>2. /\ FileOf(state[p]) \in Files /\ WholeLines(FileOf(state[p]).lines)
      /\ SoundLines(FileOf(state[p]).lines)
  BY <1>1, Planned, FileOfState DEF SoundLines, WholeLines
<1> QED BY <1>1, <1>2, SaveReturns

LEMMA SaveWritesNothingStep ==
    ASSUME IInv, NEW p \in Procs, SaveWritesNothing(p)
    PROVE  IInv'
<1>1. /\ plan[p] # None /\ plan[p].op = "nothing" /\ Free(p)
      /\ Track(p, known[p].size) /\ Returns(p) /\ report' = p
      /\ UNCHANGED <<faults, file, state, newest>>
  BY DEF SaveWritesNothing
<1>2. /\ state[p] \in States /\ file \in Files /\ file # None
      /\ known[p] \in Known /\ known[p] # None /\ known[p].size \in Files
  BY <1>1, Planned
<1>3. ASSUME Calm(faults)
      PROVE  /\ SoundLines(file'.lines) /\ WholeLines(known[p].size.lines)
             /\ "window" \in faults => WholeLines(file'.lines)
  BY <1>1, <1>2, <1>3 DEF IInv, Sound
<1>4. ASSUME faults \subseteq {"kill"}
      PROVE  known[p].size = FileOf(state[p]) /\ file' = known[p].size
  <2>1. Sound /\ Exact /\ "window" \notin faults
    BY <1>4 DEF IInv, Calm
  <2>2. /\ file = known[p].size /\ Tracks(known[p], state[p])
        /\ known[p].header = state[p].header
        /\ Len(state[p].messages) = known[p].count
    BY <1>1, <1>2, <2>1 DEF Sound, Exact
  <2> QED BY <1>1, <1>2, <2>2, NothingIsMissing
<1> QED BY <1>1, <1>2, <1>3, <1>4, SaveReturns

\* What a torn append leaves: a whole file, and perhaps a torn last line.
LEMMA TornAppend ==
    ASSUME IInv, NEW p \in Procs, plan[p] # None, plan[p].op = "append",
           NEW part \in Torn(plan[p].lines) \cup {plan[p].lines}
    PROVE  /\ Appended(file, part) \in Files
           /\ Calm(faults) /\ "window" \notin faults =>
                 /\ WholeLines(file.lines) /\ part \in Seq(Lines) /\ SoundLines(part)
                 /\ SoundLines(Appended(file, part).lines)
<1>1. plan[p].lines \in Seq(Lines) /\ file \in Files /\ file # None
      /\ known[p] \in Known /\ known[p] # None
  BY Planned
<1>2. part \in Seq(Lines)
  BY <1>1, TornLines
<1>3. Appended(file, part) \in Files
  BY <1>1, <1>2, AppendedTyped
<1>4. ASSUME Calm(faults), "window" \notin faults
      PROVE  /\ WholeLines(file.lines) /\ SoundLines(part)
             /\ SoundLines(Appended(file, part).lines)
  <2>1. WholeLines(file.lines) /\ WholeLines(plan[p].lines)
    BY <1>1, <1>4 DEF IInv, Sound
  <2>2. SoundLines(plan[p].lines)
    BY <2>1 DEF WholeLines, SoundLines
  <2>3. SoundLines(part)
    BY <1>1, <1>4, <2>1, <2>2, TornLines DEF Calm
  <2> QED BY <1>1, <1>2, <2>1, <2>3, WholeThenSound
<1> QED BY <1>2, <1>3, <1>4

LEMMA SaveThrowsStep ==
    ASSUME IInv, NEW p \in Procs, SaveThrows(p)
    PROVE  IInv'
<1>1. /\ "throw" \in faults /\ plan[p] # None /\ Free(p)
      /\ plan' = [plan EXCEPT ![p] = None] /\ dirty' = [dirty EXCEPT ![p] = FALSE]
      /\ report' = None /\ UNCHANGED <<faults, state, known, newest>>
      /\ \/ /\ plan[p].op = "append"
            /\ \E part \in Torn(plan[p].lines) : file' = Appended(file, part)
         \/ file' = file
  BY DEF SaveThrows, Returns
<1>2. TypeOK /\ Idle
  BY DEF IInv
<1>3. /\ file' \in Files \cup {None}
      /\ file # None => file' # None
      /\ Calm(faults) /\ file' # None => SoundLines(file'.lines)
  <2>1. CASE file' = file
    BY <1>2, <2>1 DEF TypeOK, IInv, Sound
  <2>2. CASE plan[p].op = "append"
             /\ \E part \in Torn(plan[p].lines) : file' = Appended(file, part)
    <3>1. Calm(faults) => "window" \notin faults
      BY <1>1 DEF Calm
    <3> QED BY <1>1, <2>2, <3>1, TornAppend, Apart
  <2> QED BY <1>1, <2>1, <2>2
<1>4. /\ plan'[p] = None /\ dirty'[p] = FALSE
      /\ \A q \in Procs \ {p} : plan'[q] = plan[q] /\ dirty'[q] = dirty[q]
  BY <1>1, <1>2 DEF TypeOK
<1>5. TypeOK'
  BY <1>1, <1>2, <1>3 DEF TypeOK
<1>6. Idle'
  BY <1>1, <1>2, <1>3, <1>4 DEF Idle, Alive
<1>7. ASSUME Calm(faults) PROVE Sound'
  <2>1. Sound /\ "window" \notin faults
    BY <1>1, <1>7 DEF IInv, Calm
  <2>2. \A q \in Procs : plan'[q] = None
    BY <1>1, <1>4, <2>1 DEF Free
  <2> QED BY <1>1, <1>3, <1>7, <2>1, <2>2 DEF Sound
<1>8. ~(faults' \subseteq {"kill"})
  BY <1>1
<1> QED BY <1>1, <1>5, <1>6, <1>7, <1>8 DEF IInv, Calm

\* What a kill may make of the file.
LEMMA KilledFile ==
    ASSUME IInv, NEW p \in Procs, Killed(p)
    PROVE  \/ file' = file
           \/ plan[p] # None /\ file' = FileOf(state[p])
           \/ /\ plan[p] # None /\ plan[p].op = "append"
              /\ \E part \in Torn(plan[p].lines) \cup {plan[p].lines} :
                    file' = Appended(file, part)
<1>1. CASE plan[p] = None
  BY <1>1 DEF Killed
<1>2. CASE plan[p] # None
  <2>1. plan[p].op \in {"append", "rewrite", "nothing"}
    BY <1>2, Planned DEF Plans
  <2>2. CASE plan[p].op = "append"
    BY <1>2, <2>2 DEF Killed
  <2>3. CASE plan[p].op = "rewrite"
    BY <1>2, <2>3 DEF Killed, CutRewrite
  <2>4. CASE plan[p].op = "nothing"
    BY <1>2, <2>4 DEF Killed
  <2> QED BY <2>1, <2>2, <2>3, <2>4
<1> QED BY <1>1, <1>2

LEMMA KilledStep ==
    ASSUME IInv, NEW p \in Procs, Killed(p)
    PROVE  IInv'
<1>1. /\ "kill" \in faults /\ Free(p)
      /\ state' = [state EXCEPT ![p] = None] /\ known' = [known EXCEPT ![p] = None]
      /\ plan' = [plan EXCEPT ![p] = None] /\ dirty' = [dirty EXCEPT ![p] = FALSE]
      /\ report' = None /\ UNCHANGED <<faults, newest>>
  BY DEF Killed
<1>2. TypeOK /\ Idle
  BY DEF IInv
<1>3. /\ file' \in Files \cup {None}
      /\ file # None => file' # None
      /\ Calm(faults) /\ file' # None => SoundLines(file'.lines)
  <2>1. CASE file' = file
    BY <1>2, <2>1 DEF TypeOK, IInv, Sound
  <2>2. CASE plan[p] # None /\ file' = FileOf(state[p])
    BY <2>2, Planned, FileOfState, Apart DEF SoundLines, WholeLines
  <2>3. CASE /\ plan[p] # None /\ plan[p].op = "append"
             /\ \E part \in Torn(plan[p].lines) \cup {plan[p].lines} :
                   file' = Appended(file, part)
    <3>1. Calm(faults) => "window" \notin faults
      BY <1>1 DEF Calm
    <3> QED BY <2>3, <3>1, TornAppend, Apart
  <2> QED BY <2>1, <2>2, <2>3, KilledFile
<1>4. /\ state'[p] = None /\ known'[p] = None /\ plan'[p] = None /\ dirty'[p] = FALSE
      /\ \A q \in Procs \ {p} :
            /\ state'[q] = state[q] /\ known'[q] = known[q]
            /\ plan'[q] = plan[q] /\ dirty'[q] = dirty[q]
  BY <1>1, <1>2 DEF TypeOK
<1>5. TypeOK'
  BY <1>1, <1>2, <1>3 DEF TypeOK
<1>6. Idle'
  BY <1>1, <1>2, <1>3, <1>4 DEF Idle, Alive
<1>7. ASSUME "window" \notin faults PROVE \A q \in Procs : plan'[q] = None
  BY <1>1, <1>4, <1>7 DEF Free
<1>8. ASSUME Calm(faults) PROVE Sound'
  <2>1. Sound /\ "window" \notin faults
    BY <1>1, <1>8 DEF IInv, Calm
  <2> QED BY <1>1, <1>3, <1>4, <1>7, <1>8, <2>1 DEF Sound
<1>9. ASSUME faults \subseteq {"kill"} PROVE Exact'
  <2>1. Exact /\ "window" \notin faults
    BY <1>9 DEF IInv
  <2> QED BY <1>1, <1>4, <1>7, <2>1 DEF Exact
<1> QED BY <1>1, <1>5, <1>6, <1>8, <1>9 DEF IInv, Calm

\* A save appends, or writes nothing, only to the file it tracks.
LEMMA DecisionFits ==
    ASSUME TypeOK, NEW p \in Procs, Alive(p)
    PROVE  /\ Decision(p) \in Plans /\ WholeLines(Decision(p).lines)
           /\ Decision(p).op # "rewrite" =>
                 /\ known[p] # None /\ file # None /\ file = known[p].size
                 /\ known[p].header = state[p].header
           /\ Decision(p).op = "append" =>
                 /\ Decision(p).lines = NewLines(p)
                 /\ Len(state[p].messages) > known[p].count
           /\ Decision(p).op = "nothing" =>
                 Len(state[p].messages) = known[p].count
<1> DEFINE none == <<>>
           append == [op |-> "append", lines |-> NewLines(p)]
           rewrite == [op |-> "rewrite", lines |-> none]
           nothing == [op |-> "nothing", lines |-> none]
           len == Len(state[p].messages)
<1>1. state[p] \in States /\ state[p].messages \in Seq(Messages) /\ len \in Nat
  BY DEF TypeOK, Alive, States
<1>2. none \in Seq(Lines) /\ WholeLines(none)
  BY DEF WholeLines
<1> HIDE DEF none
<1>3. rewrite \in Plans /\ nothing \in Plans
  BY <1>2 DEF Plans
<1>4. CASE SameHeader(p) /\ SizeMatches(p)
  <2>1. /\ known[p] # None /\ file # None /\ file = known[p].size
        /\ known[p].header = state[p].header
    BY <1>4 DEF SameHeader, SizeMatches
  <2>2. known[p].count \in Nat
    BY <2>1 DEF TypeOK, Known
  <2>3. CASE len > known[p].count
    <3>1. NewLines(p) \in Seq(Lines) /\ WholeLines(NewLines(p))
      <4>1. known[p].count <= len
        BY <1>1, <2>2, <2>3
      <4>2. SubSeq(state[p].messages, known[p].count + 1, len) \in Seq(Messages)
        BY <1>1, <2>2, <4>1, TailOfSeq
      <4> QED BY <4>2, LinesOfTranscript DEF NewLines
    <3>2. append \in Plans
      BY <3>1 DEF Plans
    <3>3. Decision(p) = append
      BY <1>1, <1>4, <2>2, <2>3 DEF Decision
    <3> QED BY <2>1, <2>3, <3>1, <3>2, <3>3
  <2>4. CASE len < known[p].count
    <3>1. Decision(p) = rewrite
      BY <1>1, <1>4, <2>2, <2>4 DEF Decision, none
    <3> QED BY <1>2, <1>3, <3>1
  <2>5. CASE len = known[p].count
    <3>1. Decision(p) = nothing
      BY <1>1, <1>4, <2>2, <2>5 DEF Decision, none
    <3> QED BY <1>2, <1>3, <2>1, <2>5, <3>1
  <2> QED BY <1>1, <2>2, <2>3, <2>4, <2>5
<1>5. CASE ~(SameHeader(p) /\ SizeMatches(p))
  <2>1. Decision(p) = rewrite
    BY <1>5 DEF Decision, none
  <2> QED BY <1>2, <1>3, <2>1
<1> QED BY <1>4, <1>5

LEMMA SaveStatStep ==
    ASSUME IInv, NEW p \in Procs, SaveStat(p)
    PROVE  IInv'
<1> DEFINE d == Decision(p)
<1>1. /\ Alive(p) /\ dirty[p] /\ plan[p] = None /\ Free(p)
      /\ plan' = [plan EXCEPT ![p] = d] /\ report' = None
      /\ UNCHANGED <<faults, file, state, known, dirty, newest>>
  BY DEF SaveStat
<1>2. TypeOK /\ Idle
  BY DEF IInv
<1>3. /\ d \in Plans /\ WholeLines(d.lines) /\ d # None
      /\ d.op # "rewrite" =>
            /\ known[p] # None /\ file # None /\ file = known[p].size
            /\ known[p].header = state[p].header
      /\ d.op = "append" => /\ d.lines = NewLines(p)
                            /\ Len(state[p].messages) > known[p].count
      /\ d.op = "nothing" => Len(state[p].messages) = known[p].count
  BY <1>1, <1>2, DecisionFits, Apart
<1> HIDE DEF d
<1>4. plan'[p] = d /\ \A q \in Procs \ {p} : plan'[q] = plan[q]
  BY <1>1, <1>2 DEF TypeOK
<1>5. TypeOK'
  BY <1>1, <1>2, <1>3 DEF TypeOK
<1>6. Idle'
  BY <1>1, <1>2, <1>3, <1>4 DEF Idle, Alive
<1>7. ASSUME "window" \notin faults, NEW q \in Procs, plan'[q] # None PROVE q = p
  BY <1>1, <1>4, <1>7 DEF Free
<1>8. ASSUME Calm(faults) PROVE Sound'
  <2>1. Sound
    BY <1>8 DEF IInv
  <2>2. "window" \notin faults => \A q \in Procs : plan'[q] # None =>
           /\ \A r \in Procs : plan'[r] # None => r = q
           /\ plan'[q].op # "rewrite" => file' = known'[q].size
    BY <1>1, <1>3, <1>4, <1>7
  <2>3. \A q \in Procs : plan'[q] # None => WholeLines(plan'[q].lines)
    BY <1>3, <1>4, <2>1 DEF Sound
  <2> QED BY <1>1, <2>1, <2>2, <2>3 DEF Sound
<1>9. ASSUME faults \subseteq {"kill"} PROVE Exact'
  <2>1. Exact /\ "window" \notin faults
    BY <1>9 DEF IInv
  <2>2. NewLines(p)' = NewLines(p)
    BY <1>1 DEF NewLines
  <2>3. \A q \in Procs : plan'[q] # None => q = p
    BY <1>7, <2>1
  <2>4. \A q \in Procs : plan'[q] # None /\ plan'[q].op # "rewrite" =>
           /\ known'[q].header = state'[q].header
           /\ plan'[q].op = "append" =>
                 /\ plan'[q].lines = NewLines(q)'
                 /\ Len(state'[q].messages) > known'[q].count
           /\ plan'[q].op = "nothing" => Len(state'[q].messages) = known'[q].count
    BY <1>1, <1>3, <1>4, <2>2, <2>3
  <2> QED BY <1>1, <2>1, <2>4 DEF Exact
<1> QED BY <1>1, <1>5, <1>6, <1>8, <1>9 DEF IInv, Calm

LEMMA ChangeStep ==
    ASSUME IInv, NEW p \in Procs, NEW t \in States, Change(p, t),
           Changes(state[p], t), newest' \in 0..MaxMessage
    PROVE  IInv'
<1>1. /\ Alive(p) /\ ~dirty[p] /\ plan[p] = None /\ Free(p)
      /\ state' = [state EXCEPT ![p] = t] /\ dirty' = [dirty EXCEPT ![p] = TRUE]
      /\ report' = None /\ UNCHANGED <<faults, file, known, plan>>
  BY DEF Change
<1>2. TypeOK /\ Idle
  BY DEF IInv
<1>3. /\ state'[p] = t /\ dirty'[p] = TRUE /\ t # None
      /\ \A q \in Procs \ {p} : state'[q] = state[q] /\ dirty'[q] = dirty[q]
  BY <1>1, <1>2, Apart DEF TypeOK
<1>4. TypeOK'
  BY <1>1, <1>2 DEF TypeOK
<1>5. Idle'
  BY <1>1, <1>2, <1>3 DEF Idle, Alive
<1>6. ASSUME Calm(faults) PROVE Sound'
  BY <1>1, <1>6 DEF IInv, Sound
<1>7. ASSUME faults \subseteq {"kill"} PROVE Exact'
  <2>1. Exact /\ "window" \notin faults
    BY <1>7 DEF IInv
  <2>2. known[p] # None => Tracks(known[p], t)
    <3>1. state[p] \in States /\ known[p] \in Known \cup {None}
      BY <1>1, <1>2 DEF TypeOK, Alive
    <3>2. known[p] # None => Synced(known[p], state[p])
      BY <1>1, <2>1 DEF Exact
    <3> QED BY <3>1, <3>2, ChangedTracks
  <2>3. \A q \in Procs : known'[q] # None =>
           /\ Tracks(known'[q], state'[q])
           /\ ~dirty'[q] => Synced(known'[q], state'[q])
    BY <1>1, <1>3, <2>1, <2>2 DEF Exact
  <2>4. \A q \in Procs : plan'[q] = None
    BY <1>1, <2>1 DEF Free
  <2> QED BY <1>1, <2>3, <2>4 DEF Exact
<1> QED BY <1>1, <1>4, <1>5, <1>6, <1>7 DEF IInv, Calm

\* What changes a state makes it longer or shorter than it was.
LEMMA ExtendChanges ==
    ASSUME IInv, NEW p \in Procs, Extend(p)
    PROVE  \E t \in States : /\ Change(p, t) /\ Changes(state[p], t)
                            /\ newest' \in 0..MaxMessage
<1>1. PICK n \in 1..2 :
         /\ newest + n <= MaxMessage /\ newest' = newest + n /\ Alive(p)
         /\ Change(p, [state[p] EXCEPT !.messages = @ \o [i \in 1..n |-> newest + i]])
  BY DEF Extend
<1> DEFINE ms == state[p].messages
           new == [i \in 1..n |-> newest + i]
           t == [state[p] EXCEPT !.messages = ms \o new]
<1>2. newest \in Nat /\ newest' \in 0..MaxMessage
  BY <1>1, Bounds DEF IInv, TypeOK
<1>3. state[p] \in States /\ ms \in Seq(Messages)
  BY <1>1 DEF IInv, TypeOK, Alive, States
<1>4. new \in Seq(Messages) /\ Len(new) = n
  <2>1. \A i \in 1..n : newest + i \in Messages
    BY <1>1, <1>2, Bounds DEF Messages
  <2>2. new \in [1..n -> Messages] /\ n \in Nat
    BY <2>1
  <2> QED BY <2>2, FunctionIsSeq
<1> HIDE DEF new
<1>5. /\ ms \o new \in Seq(Messages) /\ Len(ms \o new) = Len(ms) + n
      /\ \A i \in 1..Len(ms) : (ms \o new)[i] = ms[i]
  BY <1>3, <1>4
<1>6. t \in States /\ t.messages = ms \o new
  BY <1>3, <1>5 DEF States
<1>7. Changes(state[p], t)
  BY <1>3, <1>5, <1>6 DEF Changes
<1>8. Change(p, t)
  BY <1>1 DEF new
<1> HIDE DEF t
<1> QED BY <1>2, <1>6, <1>7, <1>8

LEMMA CompactChanges ==
    ASSUME IInv, NEW p \in Procs, Compact(p)
    PROVE  \E t \in States : /\ Change(p, t) /\ Changes(state[p], t)
                            /\ newest' \in 0..MaxMessage
<1>1. PICK b \in 2..Len(state[p].messages) :
         /\ Alive(p) /\ newest < MaxMessage /\ newest' = newest + 1
         /\ Change(p, [state[p] EXCEPT !.messages =
                          <<newest + 1>> \o SubSeq(state[p].messages, b + 1,
                                                   Len(state[p].messages))])
  BY DEF Compact
<1> DEFINE ms == state[p].messages
           rest == SubSeq(ms, b + 1, Len(ms))
           t == [state[p] EXCEPT !.messages = <<newest + 1>> \o rest]
<1>2. newest' \in 0..MaxMessage /\ newest + 1 \in Messages
  BY <1>1, Bounds, SMTT(30) DEF IInv, TypeOK, Messages
<1>3. state[p] \in States /\ ms \in Seq(Messages) /\ Len(ms) \in Nat
  BY <1>1 DEF IInv, TypeOK, Alive, States
<1>4. rest \in Seq(Messages) /\ Len(rest) = Len(ms) - b /\ b >= 2
  <2>1. b \in Nat /\ b <= Len(ms) /\ b >= 2
    BY <1>3
  <2> HIDE DEF ms
  <2> QED BY <1>3, <2>1, TailOfSeq
<1> HIDE DEF rest
<1>5. <<newest + 1>> \o rest \in Seq(Messages)
      /\ Len(<<newest + 1>> \o rest) = 1 + Len(ms) - b
  BY <1>2, <1>3, <1>4, SMTT(30)
<1>6. t \in States /\ t.messages = <<newest + 1>> \o rest
  BY <1>3, <1>5 DEF States
<1>7. Changes(state[p], t)
  BY <1>3, <1>4, <1>5, <1>6 DEF Changes
<1>8. Change(p, t)
  BY <1>1 DEF rest
<1> HIDE DEF t
<1> QED BY <1>2, <1>6, <1>7, <1>8

LEMMA RewindChanges ==
    ASSUME IInv, NEW p \in Procs, Rewind(p)
    PROVE  \E t \in States : /\ Change(p, t) /\ Changes(state[p], t)
                            /\ newest' \in 0..MaxMessage
<1>1. PICK k \in 0..(Len(state[p].messages) - 1) :
         /\ Alive(p)
         /\ Change(p, [state[p] EXCEPT !.messages = SubSeq(@, 1, k)])
         /\ newest' = newest
  BY DEF Rewind
<1> DEFINE ms == state[p].messages
           t == [state[p] EXCEPT !.messages = SubSeq(ms, 1, k)]
<1>2. newest' \in 0..MaxMessage
  BY <1>1 DEF IInv, TypeOK
<1>3. state[p] \in States /\ ms \in Seq(Messages) /\ Len(ms) \in Nat
  BY <1>1 DEF IInv, TypeOK, Alive, States
<1>4. SubSeq(ms, 1, k) \in Seq(Messages) /\ Len(SubSeq(ms, 1, k)) = k /\ k < Len(ms)
  BY <1>3
<1>5. t \in States /\ t.messages = SubSeq(ms, 1, k)
  BY <1>3, <1>4 DEF States
<1>6. Changes(state[p], t)
  BY <1>4, <1>5 DEF Changes
<1>7. Change(p, t)
  BY <1>1
<1> HIDE DEF t
<1> QED BY <1>2, <1>5, <1>6, <1>7

LEMMA SetHeaderChanges ==
    ASSUME IInv, NEW p \in Procs, SetHeader(p)
    PROVE  \E t \in States : /\ Change(p, t) /\ Changes(state[p], t)
                            /\ newest' \in 0..MaxMessage
<1>1. PICK h \in Headers :
         Alive(p) /\ Change(p, [state[p] EXCEPT !.header = h]) /\ newest' = newest
  BY DEF SetHeader
<1> DEFINE t == [state[p] EXCEPT !.header = h]
<1>2. newest' \in 0..MaxMessage
  BY <1>1 DEF IInv, TypeOK
<1>3. state[p] \in States
  BY <1>1 DEF IInv, TypeOK, Alive
<1>4. t \in States /\ t.messages = state[p].messages /\ Len(t.messages) \in Nat
  BY <1>3 DEF States
<1>5. Changes(state[p], t)
  BY <1>4 DEF Changes
<1>6. Change(p, t)
  BY <1>1
<1> HIDE DEF t
<1> QED BY <1>2, <1>4, <1>5, <1>6

LEMMA LoadStep ==
    ASSUME IInv, NEW p \in Procs, Load(p)
    PROVE  IInv'
<1> DEFINE s == Loaded(file)
           k == Seed(file)
<1>1. /\ ~Alive(p) /\ Free(p) /\ file # None /\ Readable(file)
      /\ state' = [state EXCEPT ![p] = s] /\ known' = [known EXCEPT ![p] = k]
      /\ report' = None /\ UNCHANGED <<faults, file, plan, dirty, newest>>
  BY DEF Load
<1>2. TypeOK /\ Idle /\ file \in Files
  BY <1>1 DEF IInv, TypeOK
<1>3. s \in States /\ s # None /\ k \in Known \cup {None}
  BY <1>1, <1>2, LoadedIsState, Apart
<1>4. ASSUME Calm(faults), k # None
      PROVE  WholeLines(k.size.lines) /\ Synced(k, s) /\ k \in Known
  <2>1. SoundLines(file.lines)
    BY <1>1, <1>4 DEF IInv, Sound
  <2>2. ~LastTorn(file) /\ k = [header |-> file.header,
                                count |-> Len(s.messages), size |-> file]
    BY <1>4 DEF Seed
  <2>3. WholeLines(file.lines)
    BY <1>2, <2>1, <2>2, SoundIsReadable
  <2> QED BY <1>2, <1>3, <1>4, <2>2, <2>3, WholeIsFileOfLoaded DEF Synced
<1> HIDE DEF s, k
<1>5. /\ state'[p] = s /\ known'[p] = k /\ plan[p] = None /\ ~dirty[p]
      /\ \A q \in Procs \ {p} : state'[q] = state[q] /\ known'[q] = known[q]
  BY <1>1, <1>2 DEF TypeOK, Idle
<1>6. TypeOK'
  BY <1>1, <1>2, <1>3 DEF TypeOK
<1>7. Idle'
  BY <1>1, <1>2, <1>3, <1>5 DEF Idle, Alive
<1>8. ASSUME Calm(faults) PROVE Sound'
  <2>1. Sound
    BY <1>8 DEF IInv
  <2>2. \A q \in Procs : known'[q] # None => WholeLines(known'[q].size.lines)
    BY <1>4, <1>5, <1>8, <2>1 DEF Sound
  <2>3. "window" \notin faults => \A q \in Procs : plan'[q] = None
    BY <1>1, <1>5 DEF Free
  <2> QED BY <1>1, <2>1, <2>2, <2>3 DEF Sound
<1>9. ASSUME faults \subseteq {"kill"} PROVE Exact'
  <2>1. Exact /\ "window" \notin faults /\ Calm(faults)
    BY <1>9 DEF IInv, Calm
  <2>2. k # None => Synced(k, s) /\ Tracks(k, s)
    BY <1>3, <1>4, <2>1, SyncedTracks
  <2>3. \A q \in Procs : known'[q] # None =>
           /\ Tracks(known'[q], state'[q])
           /\ ~dirty'[q] => Synced(known'[q], state'[q])
    BY <1>1, <1>5, <2>1, <2>2 DEF Exact
  <2>4. \A q \in Procs : plan'[q] = None
    BY <1>1, <1>5, <2>1 DEF Free
  <2> QED BY <1>1, <2>3, <2>4 DEF Exact
<1> QED BY <1>1, <1>6, <1>7, <1>8, <1>9 DEF IInv, Calm

LEMMA CreateStep ==
    ASSUME IInv, NEW p \in Procs, Create(p)
    PROVE  IInv'
<1>1. PICK h \in Headers :
         state' = [state EXCEPT ![p] = [header |-> h, messages |-> <<>>]]
  BY DEF Create
<1>2. /\ ~Alive(p) /\ Free(p) /\ file = None
      /\ known' = [known EXCEPT ![p] = None] /\ dirty' = [dirty EXCEPT ![p] = TRUE]
      /\ report' = None /\ UNCHANGED <<faults, file, plan, newest>>
  BY DEF Create
<1> DEFINE s == [header |-> h, messages |-> <<>>]
<1>3. s \in States /\ s # None
  <2>1. <<>> \in Seq(Messages)
    OBVIOUS
  <2> QED BY <2>1, Apart DEF States
<1> HIDE DEF s
<1>4. TypeOK /\ Idle
  BY DEF IInv
<1>5. /\ state'[p] = s /\ known'[p] = None /\ plan[p] = None /\ dirty'[p] = TRUE
      /\ \A q \in Procs \ {p} :
            state'[q] = state[q] /\ known'[q] = known[q] /\ dirty'[q] = dirty[q]
  BY <1>1, <1>2, <1>4 DEF TypeOK, Idle, s
<1>6. TypeOK'
  BY <1>1, <1>2, <1>3, <1>4 DEF TypeOK, s
<1>7. Idle'
  BY <1>2, <1>3, <1>4, <1>5 DEF Idle, Alive
<1>8. ASSUME Calm(faults) PROVE Sound'
  <2>1. Sound
    BY <1>8 DEF IInv
  <2>2. "window" \notin faults => \A q \in Procs : plan'[q] = None
    BY <1>2, <1>5 DEF Free
  <2> QED BY <1>2, <1>5, <2>1, <2>2 DEF Sound
<1>9. ASSUME faults \subseteq {"kill"} PROVE Exact'
  <2>1. Exact /\ "window" \notin faults
    BY <1>9 DEF IInv
  <2>2. \A q \in Procs : plan'[q] = None
    BY <1>2, <1>5, <2>1 DEF Free
  <2> QED BY <1>2, <1>5, <2>1, <2>2 DEF Exact
<1> QED BY <1>2, <1>6, <1>7, <1>8, <1>9 DEF IInv, Calm

----------------------------------------------------------------------------
(* The theorems.                                                           *)

LEMMA Initially == Init => IInv
<1> SUFFICES ASSUME Init PROVE IInv
  OBVIOUS
<1>1. \A p \in Procs : state[p] = None /\ known[p] = None /\ plan[p] = None
                        /\ dirty[p] = FALSE
  BY DEF Init
<1>2. TypeOK
  BY Bounds DEF Init, TypeOK
<1>3. Idle /\ Sound /\ Exact
  BY <1>1 DEF Init, Idle, Sound, Exact
<1> QED BY <1>2, <1>3 DEF IInv

LEMMA AnyChange ==
    ASSUME IInv, NEW p \in Procs,
           Extend(p) \/ Compact(p) \/ Rewind(p) \/ SetHeader(p)
    PROVE  \E t \in States : /\ Change(p, t) /\ Changes(state[p], t)
                            /\ newest' \in 0..MaxMessage
BY ExtendChanges, CompactChanges, RewindChanges, SetHeaderChanges

LEMMA Inductive == IInv /\ [Next]_vars => IInv'
<1> SUFFICES ASSUME IInv, [Next]_vars PROVE IInv'
  OBVIOUS
<1>1. CASE UNCHANGED vars
  BY <1>1 DEF IInv, vars, TypeOK, Idle, Alive, Calm, Sound, Exact, NewLines
<1>2. CASE Next
  <2>1. PICK p \in Procs :
           \/ Load(p) \/ Create(p)
           \/ Extend(p) \/ Compact(p) \/ Rewind(p) \/ SetHeader(p)
           \/ SaveStat(p)
           \/ SaveAppends(p) \/ SaveRewrites(p) \/ SaveWritesNothing(p)
           \/ SaveThrows(p)
           \/ Killed(p)
    BY <1>2 DEF Next
  <2> QED BY <2>1, LoadStep, CreateStep, AnyChange, ChangeStep, SaveStatStep, SaveAppendsStep, SaveRewritesStep,
             SaveWritesNothingStep, SaveThrowsStep, KilledStep
<1> QED BY <1>1, <1>2

\* The inductive invariant holds of every behaviour: what is tracked, planned
\* and on disk fit together as saveSession takes for granted.
THEOREM Invariance == Spec => []IInv
<1>1. Init => IInv
  BY Initially
<1>2. IInv /\ [Next]_vars => IInv'
  BY Inductive
<1> QED BY <1>1, <1>2, PTL DEF Spec

\* A save that returned has saved exactly what it was given, for any number of
\* processes one after the other, killed anywhere (saveSession, loadSession).
THEOREM SavesAreExact == Spec => []SaveIsExact
<1>1. IInv => SaveIsExact
  <2> SUFFICES ASSUME IInv, report # None, faults \subseteq {"kill"}
               PROVE  Readable(file) /\ Loaded(file) = state[report]
    BY DEF SaveIsExact
  <2>1. report \in Procs /\ Alive(report) /\ file = FileOf(state[report])
    BY DEF IInv, TypeOK, Exact
  <2>2. state[report] \in States
    BY <2>1 DEF IInv, TypeOK, Alive
  <2> QED BY <2>1, <2>2, FileOfState
<1> QED BY <1>1, Invariance, PTL

\* A session that was ever saved can be loaded, whatever was torn, where no
\* write loses only its newline and none is torn that others may write into.
THEOREM AlwaysLoads ==
    ASSUME \A fs \in FaultSets : Calm(fs)
    PROVE  Spec => []NeverUnreadable
<1>1. IInv => NeverUnreadable
  <2> SUFFICES ASSUME IInv, file # None PROVE Readable(file)
    BY DEF NeverUnreadable
  <2>1. Calm(faults) /\ file \in Files
    BY DEF IInv, TypeOK
  <2>2. SoundLines(file.lines)
    BY <2>1 DEF IInv, Sound
  <2> QED BY <2>1, <2>2, SoundIsReadable
<1> QED BY <1>1, Invariance, PTL

\* Under the same hypothesis a kill takes nothing from what is on disk: what a
\* load gives goes on, or is the state that was being saved.
THEOREM KillsLoseNothing ==
    ASSUME \A fs \in FaultSets : Calm(fs)
    PROVE  Spec => KillLosesNothingSaved
<1> DEFINE Kept == \A p \in Procs : Alive(p) /\ ~Alive(p)' /\ file # None =>
                      \/ IsPrefix(Loaded(file).messages, Loaded(file').messages)
                      \/ Loaded(file') = state[p]
<1>1. IInv /\ [Next]_vars => [Kept]_vars
  <2> SUFFICES ASSUME IInv, Next, NEW p \in Procs, Alive(p), ~Alive(p)', file # None
               PROVE  \/ IsPrefix(Loaded(file).messages, Loaded(file').messages)
                      \/ Loaded(file') = state[p]
    OBVIOUS
  <2>1. Killed(p)
    <3>1. PICK q \in Procs :
             \/ Load(q) \/ Create(q)
             \/ Extend(q) \/ Compact(q) \/ Rewind(q) \/ SetHeader(q)
             \/ SaveStat(q)
             \/ SaveAppends(q) \/ SaveRewrites(q) \/ SaveWritesNothing(q)
             \/ SaveThrows(q)
             \/ Killed(q)
      BY DEF Next
    <3>2. CASE Load(q) \/ Create(q)
      <4>1. ~Alive(q) /\ \E s : state' = [state EXCEPT ![q] = s]
        BY <3>2 DEF Load, Create
      <4>2. state'[p] = state[p]
        BY <4>1 DEF IInv, TypeOK, Alive
      <4> QED BY <4>2 DEF Alive
    <3>3. CASE Extend(q) \/ Compact(q) \/ Rewind(q) \/ SetHeader(q)
      <4>1. PICK t \in States : state' = [state EXCEPT ![q] = t]
        BY <3>3, AnyChange DEF Change
      <4>2. t # None
        BY Apart
      <4>3. state'[p] # None
        BY <4>1, <4>2 DEF IInv, TypeOK, Alive
      <4> QED BY <4>3 DEF Alive
    <3>4. CASE SaveStat(q) \/ SaveAppends(q) \/ SaveRewrites(q)
               \/ SaveWritesNothing(q) \/ SaveThrows(q)
      BY <3>4 DEF SaveStat, SaveAppends, SaveRewrites, SaveWritesNothing,
                  SaveThrows, Alive
    <3>5. CASE Killed(q)
      <4>1. q # p => state'[p] = state[p]
        BY <3>5 DEF Killed, IInv, TypeOK
      <4> QED BY <3>5, <4>1 DEF Alive
    <3> QED BY <3>1, <3>2, <3>3, <3>4, <3>5
  <2>2. /\ Calm(faults) /\ "window" \notin faults /\ Readable(file)
        /\ file \in Files /\ Loaded(file).messages \in Seq(Messages)
    <3>1. Calm(faults) /\ "kill" \in faults /\ file \in Files
      BY <2>1 DEF IInv, TypeOK, Killed
    <3>2. Readable(file)
      BY <3>1, SoundIsReadable DEF IInv, Sound
    <3> QED BY <3>1, <3>2, LoadedIsState DEF Calm, States
  <2>3. CASE file' = file
    <3>1. Len(Loaded(file).messages) \in Nat
      BY <2>2
    <3>2. IsPrefix(Loaded(file).messages, Loaded(file).messages)
      BY <2>2, <3>1, PrefixPointwise
    <3> QED BY <2>3, <3>2
  <2>4. CASE plan[p] # None /\ file' = FileOf(state[p])
    BY <2>4, Planned, FileOfState
  <2>5. CASE /\ plan[p] # None /\ plan[p].op = "append"
             /\ \E part \in Torn(plan[p].lines) \cup {plan[p].lines} :
                   file' = Appended(file, part)
    BY <2>2, <2>5, TornAppend, AppendKeepsWhatIsThere
  <2> QED BY <2>1, <2>3, <2>4, <2>5, KilledFile
<1> QED BY <1>1, Invariance, PTL DEF Spec, KillLosesNothingSaved

----------------------------------------------------------------------------
(***************************************************************************)
(* Module Rewind: positions in a transcript that others cut and replace.   *)
(*                                                                         *)
(* Only an anchor after the last barrier is usable.  Its place is in the   *)
(* transcript of the interface, in those still to be saved and in the      *)
(* session file, but for two instants: between a call's record and the     *)
(* effect that saves the call (Opening), and from a rewind to its barrier  *)
(* (Cut), when no message is added and no other rewind begins.  In these   *)
(* too, a transcript either has the place or ends before it (Fitting), so  *)
(* a kill orphans every anchor the file does not have.                     *)
(***************************************************************************)

Anchored ==
    \A i \in Usable : records[i].to = Len(records[i].was) /\ Paired(records[i].was)

Cut == dropped /\ phase \in {"rewinding", "truncated"}
Opening == phase = "tools" /\ ~Settled

InPlace ==
    ~warned => \A i \in Usable \ orphans :
        /\ phase # "down" /\ ~Cut => IsPrefix(records[i].was, messages)
        /\ ~Cut => \A k \in DOMAIN unsaved : IsPrefix(records[i].was, unsaved[k])
        /\ ~Opening /\ ~(dropped /\ phase = "truncated") =>
              IsPrefix(records[i].was, saved)

\* A transcript that is long enough for an anchor's place has it.
Fits(was, s) == Len(was) <= Len(s) => IsPrefix(was, s)

Fitting ==
    ~warned => \A i \in Usable \ orphans :
        /\ Fits(records[i].was, saved)
        /\ \A k \in DOMAIN unsaved : Fits(records[i].was, unsaved[k])

\* What the file has, or is next to get, is at most behind the interface.
Latest == IF unsaved = <<>> THEN saved ELSE unsaved[Len(unsaved)]

Behind ==
    ~warned /\ phase \notin {"down", "compacted"} => IsPrefix(Latest, messages)

\* The cursor is within the transcript whenever a message is added to it.
WithinBounds ==
    ~warned /\ phase \notin {"rewinding", "truncated"} =>
        archivist.cursor <= Len(messages)

RewindInv == /\ RewindTypeOK /\ Anchored /\ InPlace /\ Fitting /\ Behind
             /\ WithinBounds /\ NothingSkipped

----------------------------------------------------------------------------
(* Lemmas about transcripts and the log.                                   *)

Entries == [id : 1..MaxMessages, kind : Kinds]

LEMMA PrefixIff ==
    ASSUME NEW S, NEW s \in Seq(S), NEW t \in Seq(S)
    PROVE  IsPrefix(s, t) <=>
              Len(s) <= Len(t) /\ \A i \in 1..Len(s) : s[i] = t[i]
<1>1. Len(s) \in Nat /\ Len(t) \in Nat
  OBVIOUS
<1>2. CASE Len(s) <= Len(t)
  <2>1. /\ SubSeq(s, 1, Len(s)) = [i \in 1..Len(s) |-> s[i]]
        /\ SubSeq(t, 1, Len(s)) = [i \in 1..Len(s) |-> t[i]]
    BY <1>1
  <2>2. ASSUME IsPrefix(s, t), NEW i \in 1..Len(s) PROVE s[i] = t[i]
    <3>1. [k \in 1..Len(s) |-> s[k]] = [k \in 1..Len(s) |-> t[k]]
      BY <2>1, <2>2 DEF IsPrefix
    <3>2. [k \in 1..Len(s) |-> s[k]][i] = [k \in 1..Len(s) |-> t[k]][i]
      BY <3>1
    <3> QED BY <3>2
  <2> QED BY <1>2, <2>2, PrefixPointwise
<1>3. CASE ~(Len(s) <= Len(t))
  BY <1>3 DEF IsPrefix
<1> QED BY <1>2, <1>3

LEMMA PrefixOfItself ==
    ASSUME NEW S, NEW s \in Seq(S)
    PROVE  IsPrefix(s, s)
BY PrefixIff

LEMMA PrefixOfMore ==
    ASSUME NEW S, NEW s \in Seq(S), NEW t \in Seq(S), IsPrefix(s, t), NEW e \in S
    PROVE  IsPrefix(s, Append(t, e))
<1>1. Append(t, e) \in Seq(S) /\ Len(Append(t, e)) = Len(t) + 1
      /\ \A i \in 1..Len(t) : Append(t, e)[i] = t[i]
  OBVIOUS
<1>2. Len(s) <= Len(t) /\ \A i \in 1..Len(s) : s[i] = t[i]
  BY PrefixIff
<1>3. Len(s) <= Len(Append(t, e)) /\ \A i \in 1..Len(s) : s[i] = Append(t, e)[i]
  BY <1>1, <1>2
<1> QED BY <1>1, <1>3, PrefixIff

\* A barrier leaves no anchor usable, a new anchor leaves those there were.
LEMMA LogGrows ==
    ASSUME records \in Seq(Records), NEW r \in Records,
           records' = Append(records, r)
    PROVE  /\ DOMAIN records \subseteq DOMAIN records'
           /\ r.kind # "tool" => Usable' = {}
           /\ \A i \in Usable' : \/ i \in Usable /\ records'[i] = records[i]
                                 \/ i = Len(records) + 1 /\ records'[i] = r
<1> DEFINE n == Len(records)
<1>1. /\ n \in Nat /\ DOMAIN records = 1..n /\ DOMAIN records' = 1..(n + 1)
      /\ Len(records') = n + 1 /\ records'[n + 1] = r
      /\ \A i \in 1..n : records'[i] = records[i]
  <2>1. n \in Nat /\ records' \in Seq(Records) /\ Len(records') = n + 1
    OBVIOUS
  <2> QED BY <2>1, LenProperties
<1>2. DOMAIN records \subseteq DOMAIN records'
  BY <1>1
<1>3. ASSUME NEW i \in Usable' PROVE r.kind = "tool"
  <2>1. n + 1 \in i..(n + 1)
    BY <1>1 DEF Usable
  <2> QED BY <1>1, <2>1 DEF Usable
<1>4. ASSUME NEW i \in Usable' PROVE \/ i \in Usable /\ records'[i] = records[i]
                                     \/ i = n + 1 /\ records'[i] = r
  <2>1. i \in 1..(n + 1) /\ \A j \in i..(n + 1) : records'[j].kind = "tool"
    BY <1>1 DEF Usable
  <2>2. CASE i = n + 1
    BY <1>1, <2>2
  <2>3. CASE i # n + 1
    <3>1. i \in 1..n
      BY <1>1, <2>1, <2>3
    <3>2. \A j \in i..n : j \in i..(n + 1) /\ j \in 1..n
      BY <1>1, <3>1
    <3>3. i \in Usable
      BY <1>1, <2>1, <3>1, <3>2 DEF Usable
    <3>4. records'[i] = records[i]
      BY <1>1, <3>1
    <3> QED BY <3>3, <3>4
  <2> QED BY <2>2, <2>3
<1> QED BY <1>2, <1>3, <1>4

----------------------------------------------------------------------------
(* The steps of module Rewind.                                             *)

\* A message is made.
LEMMA MessageSpent ==
    ASSUME RewindTypeOK, Spend("messages")
    PROVE  /\ made.messages \in Nat /\ made.messages + 1 \in 1..MaxMessages
           /\ made' = [made EXCEPT !.messages = @ + 1]
           /\ \A kind \in Kinds : Message(kind) \in Entries
<1>1. made.messages < MaxMessages /\ made' = [made EXCEPT !.messages = @ + 1]
  BY DEF Spend, Limit
<1>2. made.messages \in 0..MaxMessages
  BY DEF RewindTypeOK
<1> QED BY <1>1, <1>2, RewindBounds DEF Message, Entries

LEMMA MadeType ==
    ASSUME RewindTypeOK,
           \/ made' = [made EXCEPT !.messages = @ + 1] /\ made.messages < MaxMessages
           \/ made' = [made EXCEPT !.rewinds = @ + 1] /\ made.rewinds < MaxRewinds
           \/ made' = [made EXCEPT !.starts = @ + 1] /\ made.starts < MaxProcesses
           \/ /\ made' = [made EXCEPT !.starts = @ + 1, !.messages = @ + 1]
              /\ made.starts < MaxProcesses /\ made.messages < MaxMessages
           \/ /\ made' = [made EXCEPT !.messages = @ + 1, !.compactions = @ + 1]
              /\ made.messages < MaxMessages /\ made.compactions < MaxCompactions
           \/ made' = made
    PROVE  made' \in [messages : 0..MaxMessages, rewinds : 0..MaxRewinds,
                      compactions : 0..MaxCompactions, starts : 0..MaxProcesses]
<1>1. /\ made \in [messages : 0..MaxMessages, rewinds : 0..MaxRewinds,
                  compactions : 0..MaxCompactions, starts : 0..MaxProcesses]
      /\ made.messages \in 0..MaxMessages /\ made.rewinds \in 0..MaxRewinds
      /\ made.compactions \in 0..MaxCompactions /\ made.starts \in 0..MaxProcesses
  BY DEF RewindTypeOK
<1>2. /\ made.messages < MaxMessages => made.messages + 1 \in 0..MaxMessages
      /\ made.rewinds < MaxRewinds => made.rewinds + 1 \in 0..MaxRewinds
      /\ made.compactions < MaxCompactions => made.compactions + 1 \in 0..MaxCompactions
      /\ made.starts < MaxProcesses => made.starts + 1 \in 0..MaxProcesses
  BY <1>1, RewindBounds
<1> QED BY <1>1, <1>2

\* A message is added at the end of the transcript.
LEMMA AppendedOne ==
    ASSUME RewindTypeOK, NEW e \in Entries
    PROVE  /\ Append(messages, e) \in Transcripts
           /\ Len(Append(messages, e)) = Len(messages) + 1
           /\ Len(messages) \in Nat /\ DOMAIN messages = 1..Len(messages)
           /\ DOMAIN Append(messages, e) = 1..(Len(messages) + 1)
           /\ \A i \in 1..Len(messages) : Append(messages, e)[i] = messages[i]
<1>1. messages \in Seq(Entries)
  BY DEF RewindTypeOK, Transcripts, Entries
<1>2. Append(messages, e) \in Seq(Entries)
      /\ Len(Append(messages, e)) = Len(messages) + 1 /\ Len(messages) \in Nat
      /\ \A i \in 1..Len(messages) : Append(messages, e)[i] = messages[i]
  BY <1>1
<1>3. /\ DOMAIN messages = 1..Len(messages)
      /\ DOMAIN Append(messages, e) = 1..Len(Append(messages, e))
  BY <1>1, <1>2, LenProperties
<1> QED BY <1>2, <1>3 DEF Transcripts, Entries

LEMMA IdsType ==
    ASSUME NEW s \in Transcripts
    PROVE  Ids(s) \subseteq 1..MaxMessages
<1>1. ASSUME NEW i \in DOMAIN s PROVE s[i].id \in 1..MaxMessages
  <2>1. s[i] \in [id : 1..MaxMessages, kind : Kinds]
    BY <1>1, LenProperties DEF Transcripts
  <2> QED BY <2>1
<1> QED BY <1>1 DEF Ids

LEMMA PersistTypes ==
    ASSUME RewindTypeOK, NEW i \in DOMAIN unsaved
    PROVE  /\ unsaved[i] \in Transcripts
           /\ SubSeq(unsaved, i + 1, Len(unsaved)) \in Seq(Transcripts)
           /\ \A k \in DOMAIN SubSeq(unsaved, i + 1, Len(unsaved)) :
                 \E m \in DOMAIN unsaved :
                    SubSeq(unsaved, i + 1, Len(unsaved))[k] = unsaved[m]
<1>1. unsaved \in Seq(Transcripts) /\ Len(unsaved) \in Nat
      /\ DOMAIN unsaved = 1..Len(unsaved)
  BY LenProperties DEF RewindTypeOK
<1>2. i \in Nat /\ i <= Len(unsaved) /\ unsaved[i] \in Transcripts
  BY <1>1
<1> DEFINE rest == SubSeq(unsaved, i + 1, Len(unsaved))
<1>3. /\ rest \in Seq(Transcripts) /\ Len(rest) = Len(unsaved) - i
      /\ \A k \in 1..(Len(unsaved) - i) : rest[k] = unsaved[i + k]
  BY <1>1, <1>2, TailOfSeq
<1> HIDE DEF rest
<1>4. DOMAIN rest = 1..(Len(unsaved) - i)
  BY <1>3, LenProperties
<1>5. \A k \in 1..(Len(unsaved) - i) : i + k \in DOMAIN unsaved
  BY <1>1, <1>2
<1> QED BY <1>2, <1>3, <1>4, <1>5 DEF rest

LEMMA BarrierIsRecord ==
    ASSUME NEW cause \in {"compaction", "rewind"}
    PROVE  Barrier(cause) \in Records /\ Barrier(cause).kind # "tool"
<1>1. <<>> \in Transcripts
  BY DEF Transcripts
<1> QED BY <1>1 DEF Barrier, Records

\* An anchor is the transcript the call was made in.
LEMMA AnchorOfCall ==
    ASSUME RewindTypeOK, NEW e \in Entries
    PROVE  /\ Anchor(Append(messages, e)) \in Records
           /\ Anchor(Append(messages, e)).kind = "tool"
           /\ Anchor(Append(messages, e)).was = messages
           /\ Anchor(Append(messages, e)).to = Len(messages)
<1> DEFINE new == Append(messages, e)
<1>1. messages \in Seq(Entries)
  BY DEF RewindTypeOK, Transcripts, Entries
<1>2. new \in Seq(Entries) /\ Len(messages) \in Nat /\ Len(new) - 1 = Len(messages)
      /\ SubSeq(new, 1, Len(messages)) = messages
  BY <1>1
<1>3. Anchor(new) = [kind |-> "tool", to |-> Len(messages), was |-> messages]
  BY <1>2 DEF Anchor, RewindTo
<1> QED BY <1>1, <1>2, <1>3 DEF Records, Transcripts, Entries

\* What is archived is in the transcript.
LEMMA ShownAfter ==
    ASSUME RewindTypeOK
    PROVE  /\ Ids(SubSeq(messages, archivist.cursor + 1, Len(messages)))
                 \subseteq 1..MaxMessages
           /\ \A i \in DOMAIN messages : i > archivist.cursor =>
                 messages[i].id
                    \in Ids(SubSeq(messages, archivist.cursor + 1, Len(messages)))
<1> DEFINE c == archivist.cursor
           n == Len(messages)
           new == SubSeq(messages, c + 1, n)
<1>1. c \in Nat /\ n \in Nat /\ messages \in Seq(Entries) /\ DOMAIN messages = 1..n
  <2>1. messages \in Seq(Entries) /\ c \in Nat
    BY DEF RewindTypeOK, Transcripts, Entries
  <2> QED BY <2>1, LenProperties
<1> HIDE DEF c, n
<1>2. CASE c <= n
  <2>1. /\ new \in Seq(Entries) /\ Len(new) = n - c
        /\ \A i \in 1..(n - c) : new[i] = messages[c + i]
    BY <1>1, <1>2, TailOfSeq DEF n
  <2>2. DOMAIN new = 1..(n - c)
    BY <2>1, LenProperties
  <2>3. Ids(new) \subseteq 1..MaxMessages
    BY <2>1, IdsType DEF Transcripts, Entries
  <2>4. ASSUME NEW i \in 1..n, i > c PROVE messages[i].id \in Ids(new)
    <3>1. i - c \in 1..(n - c) /\ c + (i - c) = i
      BY <1>1, <2>4
    <3>2. new[i - c] = messages[i]
      BY <2>1, <3>1
    <3> QED BY <2>2, <3>1, <3>2 DEF Ids
  <2> QED BY <1>1, <2>3, <2>4 DEF c, n
<1>3. CASE c > n
  <2>1. new = <<>>
    BY <1>1, <1>3, SubSeqEmpty
  <2>2. Ids(<<>>) = {}
    BY DEF Ids
  <2>3. \A i \in DOMAIN messages : ~(i > c)
    BY <1>1, <1>3
  <2> QED BY <2>1, <2>2, <2>3 DEF c, n
<1> QED BY <1>1, <1>2, <1>3

Archivists == [cursor : Nat, calls : 0..Interval, near : BOOLEAN]

LEMMA ArchivistType ==
    ASSUME NEW a \in Archivists, NEW c \in Nat, NEW b \in BOOLEAN
    PROVE  /\ [a EXCEPT !.cursor = c] \in Archivists
           /\ [a EXCEPT !.cursor = c, !.calls = 0] \in Archivists
           /\ [a EXCEPT !.calls = 0, !.cursor = c] \in Archivists
           /\ [a EXCEPT !.calls = IF @ < Interval THEN @ + 1 ELSE @, !.near = b]
                 \in Archivists
           /\ [a EXCEPT !.near = b] \in Archivists
<1>1. a.calls \in 0..Interval /\ Interval \in Nat /\ 0 \in 0..Interval
  BY IntervalIsPositive DEF Archivists
<1>2. (IF a.calls < Interval THEN a.calls + 1 ELSE a.calls) \in 0..Interval
  BY <1>1
<1> QED BY <1>1, <1>2 DEF Archivists

LEMMA AppendedRecord ==
    ASSUME records \in Seq(Records), NEW r \in Records
    PROVE  Append(records, r) \in Seq(Records)
OBVIOUS

\* The transcript a rewind dispatches.
LEMMA Rewound ==
    ASSUME RewindTypeOK, NEW to \in Anchors, DecideRewind(to)
    PROVE  \E kept \in 0..Len(messages) :
              /\ kept = (IF to < Len(messages) THEN to ELSE Len(messages))
              /\ messages' = SubSeq(messages, 1, kept) /\ messages' \in Transcripts
              /\ unsaved' = Append(unsaved, messages')
              /\ dropped' = (kept < Len(messages))
              /\ Len(messages') = kept
              /\ \A i \in 1..kept : messages'[i] = messages[i]
<1> DEFINE kept == IF to < Len(messages) THEN to ELSE Len(messages)
<1>1. messages \in Seq(Entries) /\ Len(messages) \in Nat /\ records \in Seq(Records)
  BY DEF RewindTypeOK, Transcripts, Entries
<1>2. to \in Nat
  <2>1. PICK i \in Usable : to = records[i].to
    BY DEF Anchors
  <2>2. records[i] \in Records
    BY <1>1 DEF Usable
  <2> QED BY <2>1, <2>2 DEF Records
<1>3. kept \in 0..Len(messages)
  BY <1>1, <1>2
<1>4. /\ messages' = SubSeq(messages, 1, kept) /\ unsaved' = Append(unsaved, messages')
      /\ dropped' = (kept < Len(messages))
  BY DEF DecideRewind, Dispatch
<1> HIDE DEF kept
<1>5. /\ SubSeq(messages, 1, kept) \in Seq(Entries)
      /\ Len(SubSeq(messages, 1, kept)) = kept
      /\ \A i \in 1..kept : SubSeq(messages, 1, kept)[i] = messages[i]
  <2>1. kept \in Nat /\ kept <= Len(messages)
    BY <1>1, <1>3
  <2> QED BY <1>1, <2>1
<1> QED BY <1>3, <1>4, <1>5 DEF kept, Transcripts, Entries

\* The log stands still, gets a call's anchor, or gets a barrier.
LEMMA LogMoves ==
    ASSUME RewindTypeOK, RewindNext
    PROVE  \/ UNCHANGED records
           \/ CallTool /\ records' = Append(records, Anchor(messages'))
           \/ \E cause \in {"compaction", "rewind"} :
                 records' = Append(records, Barrier(cause))
<1>1. CASE CallTool
  BY <1>1 DEF CallTool
<1>2. CASE LoopCompacts
  BY <1>2 DEF LoopCompacts
<1>3. CASE EndRewind
  BY <1>3 DEF EndRewind, RewindBarrier
<1>4. CASE \E to \in Anchors : DecideRewind(to)
  BY <1>4 DEF DecideRewind
<1> QED BY <1>1, <1>2, <1>3, <1>4 DEF RewindNext, Start, Submit, ToolsReturn,
           FinalAnswer, StreamFails, AnnounceCompacted, EndTurn, Archived,
           NotArchived, BarrierFails, Persist, PersistFails, Kill

\* The anchor of the call that is made.
LEMMA AnchorOfThisCall ==
    ASSUME RewindTypeOK, CallTool
    PROVE  /\ Anchor(messages') \in Records /\ Anchor(messages').kind = "tool"
           /\ Anchor(messages').was = messages
           /\ Anchor(messages').to = Len(messages)
<1>1. Spend("messages") /\ messages' = Append(messages, Message("call"))
  BY DEF CallTool, Dispatch
<1>2. Message("call") \in Entries
  BY <1>1, MessageSpent DEF Kinds
<1> QED BY <1>1, <1>2, AnchorOfCall

\* The log only grows, and a kill orphans records it has.
LEMMA OrphansType ==
    ASSUME RewindTypeOK, RewindNext
    PROVE  orphans' \subseteq DOMAIN records'
<1>1. orphans' = orphans \/ orphans' = orphans \cup PastTheFile
  <2>1. ASSUME NEW to \in Anchors, DecideRewind(to) PROVE orphans' = orphans
    BY <2>1 DEF DecideRewind
  <2> QED BY <2>1 DEF RewindNext, Start, Submit, CallTool, ToolsReturn, FinalAnswer,
           StreamFails, LoopCompacts, AnnounceCompacted, EndTurn, Archived,
           NotArchived, EndRewind, BarrierFails, Persist, PersistFails, Kill
<1>2. records \in Seq(Records) /\ orphans \subseteq DOMAIN records
  BY DEF RewindTypeOK
<1>3. DOMAIN records \subseteq DOMAIN records'
  BY <1>2, LogMoves, AnchorOfThisCall, BarrierIsRecord, LogGrows
<1>4. PastTheFile \subseteq DOMAIN records
  BY DEF PastTheFile
<1> QED BY <1>1, <1>2, <1>3, <1>4

LEMMA RewindTypeStep ==
    ASSUME RewindTypeOK, RewindNext
    PROVE  RewindTypeOK'
<1> USE DEF Phases, Kinds
<1>0. /\ phase \in Phases /\ messages \in Transcripts /\ saved \in Transcripts
      /\ unsaved \in Seq(Transcripts) /\ records \in Seq(Records)
      /\ dropped \in BOOLEAN /\ warned \in BOOLEAN
      /\ archivist \in Archivists /\ archivist.cursor \in Nat
      /\ task \in 0..MaxMessages /\ shown \subseteq 1..MaxMessages
      /\ MaxMessages \in Nat /\ Interval \in Nat
  BY RewindBounds, IntervalIsPositive DEF RewindTypeOK, Archivists
<1>a. archivist' \in Archivists =>
         archivist' \in [cursor : Nat, calls : 0..Interval, near : BOOLEAN]
  BY DEF Archivists
<1>o. orphans' \subseteq DOMAIN records'
  BY OrphansType
<1>1. CASE Start
  <2>1. made' \in [messages : 0..MaxMessages, rewinds : 0..MaxRewinds,
                   compactions : 0..MaxCompactions, starts : 0..MaxProcesses]
    BY <1>1, MadeType DEF Start
  <2>2. messages' \in Transcripts /\ task' \in 0..MaxMessages
    <3>1. CASE messages' = saved /\ task' = 0
      BY <1>0, <3>1
    <3>2. CASE /\ made.messages < MaxMessages
               /\ messages' = Append(saved, Message("user"))
               /\ task' = made.messages + 1
      <4>1. made.messages \in 0..MaxMessages
        BY DEF RewindTypeOK
      <4>2. made.messages + 1 \in 1..MaxMessages /\ Message("user") \in Entries
        BY <1>0, <3>2, <4>1 DEF Message, Entries
      <4>3. messages' \in Transcripts
        BY <1>0, <3>2, <4>2 DEF Transcripts, Entries
      <4> QED BY <3>2, <4>2, <4>3
    <3> QED BY <1>1, <3>1, <3>2 DEF Start
  <2>3. /\ phase' \in Phases /\ saved' = messages' /\ unsaved' = <<>>
        /\ archivist' = NewArchivist(messages') /\ shown' = shown \cup Ids(saved)
        /\ UNCHANGED <<records, dropped, warned>>
    BY <1>1 DEF Start
  <2>4. NewArchivist(messages') \in Archivists
    <3>1. Len(messages') \in Nat
      BY <2>2 DEF Transcripts
    <3> QED BY <1>0, <3>1 DEF NewArchivist, Archivists
  <2>5. shown' \subseteq 1..MaxMessages
    BY <1>0, <2>3, IdsType
  <2> QED BY <1>o, <1>0, <1>a, <2>1, <2>2, <2>3, <2>4, <2>5, SMTT(30) DEF RewindTypeOK
<1>2. CASE Submit
  <2>1. /\ Spend("messages") /\ messages' = Append(messages, Message("user"))
        /\ phase' = "model"
        /\ UNCHANGED <<unsaved, saved, records, dropped, archivist, task, shown, warned>>
    BY <1>2 DEF Submit
  <2>2. messages' \in Transcripts
    BY <2>1, MessageSpent, AppendedOne
  <2>3. made' \in [messages : 0..MaxMessages, rewinds : 0..MaxRewinds,
                   compactions : 0..MaxCompactions, starts : 0..MaxProcesses]
    BY <2>1, MessageSpent, MadeType DEF Spend, Limit
  <2> QED BY <1>o, <1>0, <2>1, <2>2, <2>3 DEF RewindTypeOK
<1>3. CASE CallTool
  <2>1. /\ Spend("messages") /\ messages' = Append(messages, Message("call"))
        /\ unsaved' = Append(unsaved, messages') /\ phase' = "tools"
        /\ records' = Append(records, Anchor(messages')) \/ records' = records
        /\ UNCHANGED <<saved, dropped, task, shown, warned>>
    BY <1>3 DEF CallTool, Dispatch
  <2>2. messages' \in Transcripts
    BY <2>1, MessageSpent, AppendedOne
  <2>3. made' \in [messages : 0..MaxMessages, rewinds : 0..MaxRewinds,
                   compactions : 0..MaxCompactions, starts : 0..MaxProcesses]
    BY <2>1, MessageSpent, MadeType DEF Spend, Limit
  <2>4. unsaved' \in Seq(Transcripts)
    BY <1>0, <2>1, <2>2
  <2>5. Anchor(messages') \in Records
    BY <2>1, MessageSpent, AnchorOfCall
  <2>6. records' \in Seq(Records)
    BY <1>0, <2>1, <2>5, AppendedRecord
  <2>7. archivist' \in Archivists
    <3>1. PICK near \in BOOLEAN :
             archivist' = [archivist EXCEPT !.calls = IF @ < Interval THEN @ + 1 ELSE @,
                                            !.near = near]
      BY <1>3 DEF CallTool
    <3> QED BY <1>0, <3>1, ArchivistType
  <2> QED BY <1>o, <1>0, <1>a, <2>1, <2>2, <2>3, <2>4, <2>6, <2>7 DEF RewindTypeOK
<1>4. CASE ToolsReturn
  <2>1. /\ Spend("messages") /\ messages' = Append(messages, Message("rows"))
        /\ unsaved' = Append(unsaved, messages') /\ phase' \in {"model", "ended"}
        /\ UNCHANGED <<saved, records, dropped, archivist, task, shown, warned>>
    BY <1>4 DEF ToolsReturn, Dispatch
  <2>2. messages' \in Transcripts
    BY <2>1, MessageSpent, AppendedOne
  <2>3. made' \in [messages : 0..MaxMessages, rewinds : 0..MaxRewinds,
                   compactions : 0..MaxCompactions, starts : 0..MaxProcesses]
    BY <2>1, MessageSpent, MadeType DEF Spend, Limit
  <2>4. unsaved' \in Seq(Transcripts)
    BY <1>0, <2>1, <2>2
  <2> QED BY <1>o, <1>0, <2>1, <2>2, <2>3, <2>4 DEF RewindTypeOK
<1>5. CASE FinalAnswer
  <2>1. /\ Spend("messages") /\ messages' = Append(messages, Message("text"))
        /\ unsaved' = Append(unsaved, messages') /\ phase' = "ended"
        /\ UNCHANGED <<saved, records, dropped, task, shown, warned>>
    BY <1>5 DEF FinalAnswer, Dispatch
  <2>2. messages' \in Transcripts
    BY <2>1, MessageSpent, AppendedOne
  <2>3. made' \in [messages : 0..MaxMessages, rewinds : 0..MaxRewinds,
                   compactions : 0..MaxCompactions, starts : 0..MaxProcesses]
    BY <2>1, MessageSpent, MadeType DEF Spend, Limit
  <2>4. unsaved' \in Seq(Transcripts)
    BY <1>0, <2>1, <2>2
  <2>5. archivist' \in Archivists
    BY <1>0, <1>5, ArchivistType DEF FinalAnswer
  <2> QED BY <1>o, <1>0, <1>a, <2>1, <2>2, <2>3, <2>4, <2>5 DEF RewindTypeOK
<1>6. CASE StreamFails
  BY <1>o, <1>6 DEF RewindTypeOK, StreamFails
<1>7. CASE LoopCompacts
  <2>1. PICK b \in Boundaries :
           messages' = <<Message("summary")>> \o SubSeq(messages, b + 1, Len(messages))
    BY <1>7 DEF LoopCompacts
  <2>2. /\ phase' = "compacted" /\ made.messages < MaxMessages
        /\ archivist' = [archivist EXCEPT !.cursor = 0]
        /\ \/ /\ records' = IF records = <<>> THEN records
                            ELSE Append(records, Barrier("compaction"))
              /\ warned' = warned
           \/ warned' = TRUE /\ records' = records
        /\ UNCHANGED <<unsaved, saved, dropped, task, shown>>
    BY <1>7 DEF LoopCompacts, CursorAfterCompaction
  <2>3. made' \in [messages : 0..MaxMessages, rewinds : 0..MaxRewinds,
                   compactions : 0..MaxCompactions, starts : 0..MaxProcesses]
    BY <1>7, MadeType DEF LoopCompacts
  <2>4. messages' \in Transcripts
    <3>1. made.messages \in 0..MaxMessages
      BY DEF RewindTypeOK
    <3>2. Message("summary") \in Entries
      BY <1>0, <2>2, <3>1 DEF Message, Entries
    <3>3. messages \in Seq(Entries) /\ Len(messages) \in Nat
      BY <1>0 DEF Transcripts, Entries
    <3>4. b \in Nat /\ b <= Len(messages)
      BY <3>3, RewindBounds DEF Boundaries
    <3>5. SubSeq(messages, b + 1, Len(messages)) \in Seq(Entries)
      BY <3>3, <3>4, TailOfSeq
    <3> QED BY <2>1, <3>2, <3>5 DEF Transcripts, Entries
  <2>5. records' \in Seq(Records)
    BY <1>0, <2>2, BarrierIsRecord, AppendedRecord
  <2>6. archivist' \in Archivists
    BY <1>0, <2>2, ArchivistType
  <2> QED BY <1>o, <1>0, <1>a, <2>2, <2>3, <2>4, <2>5, <2>6 DEF RewindTypeOK
<1>8. CASE AnnounceCompacted
  BY <1>o, <1>0, <1>8 DEF RewindTypeOK, AnnounceCompacted, Dispatch
<1>9. CASE EndTurn
  <2>1. archivist' \in Archivists
    <3>1. InBounds(archivist) \in Nat
      BY <1>0 DEF InBounds
    <3> QED BY <1>0, <1>9, <3>1, ArchivistType DEF EndTurn
  <2>2. phase' \in {"idle", "archiving"}
        /\ UNCHANGED <<messages, unsaved, saved, records, dropped, task, shown,
                       warned, made>>
    BY <1>9 DEF EndTurn
  <2> QED BY <1>o, <1>a, <2>1, <2>2 DEF RewindTypeOK
<1>10. CASE Archived
  <2>1. /\ shown' = shown \cup
                       Ids(SubSeq(messages, archivist.cursor + 1, Len(messages)))
        /\ archivist' = [archivist EXCEPT !.cursor = Len(messages), !.calls = 0]
        /\ phase' = "idle"
        /\ UNCHANGED <<messages, unsaved, saved, records, dropped, task, warned, made>>
    BY <1>10 DEF Archived
  <2>2. archivist' \in Archivists
    <3>1. Len(messages) \in Nat
      BY <1>0 DEF Transcripts
    <3> QED BY <1>0, <2>1, <3>1, ArchivistType
  <2>3. shown' \subseteq 1..MaxMessages
    BY <1>0, <2>1, ShownAfter
  <2> QED BY <1>o, <1>a, <2>1, <2>2, <2>3 DEF RewindTypeOK
<1>11. CASE NotArchived
  <2>1. archivist' \in Archivists
    BY <1>0, <1>11, ArchivistType DEF NotArchived, CursorAfterFailure
  <2> QED BY <1>o, <1>a, <1>11, <2>1 DEF RewindTypeOK, NotArchived
<1>12. CASE \E to \in Anchors : DecideRewind(to)
  <2>1. PICK to \in Anchors : DecideRewind(to)
    BY <1>12
  <2>2. /\ messages' \in Transcripts /\ unsaved' = Append(unsaved, messages')
        /\ dropped' \in BOOLEAN
    <3>1. PICK kept \in 0..Len(messages) :
             /\ messages' \in Transcripts /\ unsaved' = Append(unsaved, messages')
             /\ dropped' = (kept < Len(messages))
      BY <2>1, Rewound
    <3>2. (kept < Len(messages)) \in BOOLEAN
      OBVIOUS
    <3> QED BY <3>1, <3>2
  <2>3. unsaved' \in Seq(Transcripts)
    BY <1>0, <2>2
  <2>4. /\ phase' = "rewinding" /\ Spend("rewinds")
        /\ UNCHANGED <<saved, records, archivist, task, shown, warned>>
    BY <2>1 DEF DecideRewind
  <2>5. made' \in [messages : 0..MaxMessages, rewinds : 0..MaxRewinds,
                   compactions : 0..MaxCompactions, starts : 0..MaxProcesses]
    BY <2>4, MadeType DEF Spend, Limit
  <2> QED BY <1>o, <1>0, <2>2, <2>3, <2>4, <2>5 DEF RewindTypeOK
<1>13. CASE EndRewind
  <2>1. records' \in Seq(Records)
    BY <1>0, <1>13, BarrierIsRecord, AppendedRecord DEF EndRewind, RewindBarrier
  <2>2. archivist' \in Archivists
    BY <1>0, <1>13, ArchivistType DEF EndRewind, CursorAfterRewind
  <2> QED BY <1>o, <1>a, <1>13, <2>1, <2>2, SMTT(30) DEF RewindTypeOK, EndRewind
<1>14. CASE BarrierFails
  BY <1>o, <1>14 DEF RewindTypeOK, BarrierFails
<1>15. CASE Persist
  BY <1>o, <1>0, <1>15, PersistTypes, SMTT(30) DEF RewindTypeOK, Persist
<1>16. CASE PersistFails
  BY <1>o, <1>0, <1>16, PersistTypes, SMTT(30) DEF RewindTypeOK, PersistFails
<1>17. CASE Kill
  <2>1. NewArchivist(<<>>) \in Archivists
    BY <1>0 DEF NewArchivist, Archivists
  <2>2. <<>> \in Transcripts /\ <<>> \in Seq(Transcripts)
    BY DEF Transcripts
  <2> QED BY <1>o, <1>0, <1>a, <1>17, <2>1, <2>2 DEF RewindTypeOK, Kill
<1> QED BY <1>1, <1>2, <1>3, <1>4, <1>5, <1>6, <1>7, <1>8, <1>9, <1>10, <1>11,
           <1>12, <1>13, <1>14, <1>15, <1>16, <1>17 DEF RewindNext

\* What is usable after a step was so before it, or is this call's anchor.
LEMMA UsableStep ==
    ASSUME RewindTypeOK, RewindNext
    PROVE  /\ \A i \in Usable' : \/ i \in Usable /\ records'[i] = records[i]
                                 \/ CallTool /\ records'[i] = Anchor(messages')
           /\ (\E cause \in {"compaction", "rewind"} :
                  records' = Append(records, Barrier(cause))) => Usable' = {}
<1>1. records \in Seq(Records)
  BY DEF RewindTypeOK
<1>2. CASE UNCHANGED records
  <2>1. Usable' = Usable
    BY <1>2 DEF Usable
  <2>2. \A cause \in {"compaction", "rewind"} : records # Append(records, Barrier(cause))
    <3>1. ASSUME NEW cause \in {"compaction", "rewind"} PROVE records # Append(records, Barrier(cause))
      <4>1. Len(Append(records, Barrier(cause))) = Len(records) + 1 /\ Len(records) \in Nat
        BY <1>1, BarrierIsRecord
      <4> QED BY <4>1
    <3> QED BY <3>1
  <2> QED BY <1>2, <2>1, <2>2
<1>3. CASE CallTool /\ records' = Append(records, Anchor(messages'))
  <2>1. Anchor(messages') \in Records /\ Anchor(messages').kind = "tool"
    BY <1>3, AnchorOfThisCall
  <2>2. \A cause \in {"compaction", "rewind"} :
           records' # Append(records, Barrier(cause))
    <3>1. ASSUME NEW cause \in {"compaction", "rewind"} PROVE records' # Append(records, Barrier(cause))
      <4>1. /\ Append(records, Barrier(cause))[Len(records) + 1] = Barrier(cause)
            /\ Append(records, Anchor(messages'))[Len(records) + 1] = Anchor(messages')
        BY <1>1, <2>1, BarrierIsRecord
      <4> QED BY <1>3, <2>1, <4>1, BarrierIsRecord
    <3> QED BY <3>1
  <2> QED BY <1>1, <1>3, <2>1, <2>2, LogGrows
<1>4. CASE \E cause \in {"compaction", "rewind"} :
              records' = Append(records, Barrier(cause))
  BY <1>1, <1>4, BarrierIsRecord, LogGrows
<1> QED BY <1>2, <1>3, <1>4, LogMoves

LEMMA AnchoredStep ==
    ASSUME RewindTypeOK, Anchored, RewindNext
    PROVE  Anchored'
<1> SUFFICES ASSUME NEW i \in Usable'
             PROVE  /\ records'[i].to = Len(records'[i].was)
                    /\ Paired(records'[i].was)
  BY DEF Anchored
<1>1. CASE i \in Usable /\ records'[i] = records[i]
  BY <1>1 DEF Anchored
<1>2. CASE CallTool /\ records'[i] = Anchor(messages')
  <2>1. Paired(messages)
    BY <1>2 DEF CallTool
  <2> QED BY <1>2, <2>1, AnchorOfThisCall
<1> QED BY <1>1, <1>2, UsableStep

\* A dispatched transcript is the last to be saved.
LEMMA Dispatched ==
    ASSUME RewindTypeOK, NEW s \in Transcripts, unsaved' = Append(unsaved, s)
    PROVE  /\ ~Settled'
           /\ \A k \in DOMAIN unsaved' : \/ k \in DOMAIN unsaved
                                            /\ unsaved'[k] = unsaved[k]
                                         \/ unsaved'[k] = s
<1> DEFINE n == Len(unsaved)
<1>1. unsaved \in Seq(Transcripts) /\ n \in Nat
  BY DEF RewindTypeOK
<1>2. /\ unsaved' \in Seq(Transcripts) /\ Len(unsaved') = n + 1
      /\ unsaved'[n + 1] = s /\ \A k \in 1..n : unsaved'[k] = unsaved[k]
  BY <1>1
<1>3. DOMAIN unsaved = 1..n /\ DOMAIN unsaved' = 1..(n + 1)
  BY <1>1, <1>2, LenProperties
<1>4. unsaved' # <<>>
  BY <1>1, <1>2
<1>5. \A k \in 1..(n + 1) : k \in 1..n \/ k = n + 1
  BY <1>1
<1> QED BY <1>2, <1>3, <1>4, <1>5 DEF Settled

\* The step that adds a message to the transcript.
LEMMA Adds ==
    ASSUME RewindTypeOK,
           Submit \/ CallTool \/ ToolsReturn \/ FinalAnswer
    PROVE  \E e \in Entries : messages' = Append(messages, e)
<1>1. CASE Submit
  BY <1>1, MessageSpent DEF Submit, Kinds
<1>2. CASE CallTool
  BY <1>2, MessageSpent DEF CallTool, Dispatch, Kinds
<1>3. CASE ToolsReturn
  BY <1>3, MessageSpent DEF ToolsReturn, Dispatch, Kinds
<1>4. CASE FinalAnswer
  BY <1>4, MessageSpent DEF FinalAnswer, Dispatch, Kinds
<1> QED BY <1>1, <1>2, <1>3, <1>4

LEMMA InPlaceStep ==
    ASSUME RewindTypeOK, RewindTypeOK', Anchored, InPlace, Fitting, RewindNext
    PROVE  InPlace'
<1> SUFFICES ASSUME ~warned', NEW i \in Usable' \ orphans'
             PROVE  /\ phase' # "down" /\ ~Cut' =>
                          IsPrefix(records'[i].was, messages')
                    /\ ~Cut' => \A k \in DOMAIN unsaved' :
                                   IsPrefix(records'[i].was, unsaved'[k])
                    /\ ~Opening' /\ ~(dropped' /\ phase' = "truncated") =>
                          IsPrefix(records'[i].was, saved')
  BY DEF InPlace
<1> DEFINE was == records'[i].was
<1>0. /\ messages \in Seq(Entries) /\ messages' \in Seq(Entries)
      /\ saved \in Seq(Entries) /\ saved' \in Seq(Entries)
      /\ messages \in Transcripts /\ messages' \in Transcripts
  BY DEF RewindTypeOK, Transcripts, Entries
<1>w. ~warned
  BY DEF RewindNext, Start, Submit, CallTool, ToolsReturn, FinalAnswer,
         StreamFails, LoopCompacts, AnnounceCompacted, EndTurn, Archived,
         NotArchived, DecideRewind, EndRewind, BarrierFails, Persist,
         PersistFails, Kill
<1>o. i \notin orphans
  BY DEF RewindNext, Start, Submit, CallTool, ToolsReturn, FinalAnswer,
         StreamFails, LoopCompacts, AnnounceCompacted, EndTurn, Archived,
         NotArchived, DecideRewind, EndRewind, BarrierFails, Persist,
         PersistFails, Kill
<1>1. was \in Seq(Entries)
  <2>1. CASE i \in Usable /\ records'[i] = records[i]
    <3>1. records[i] \in Records
      <4>1. records \in Seq(Records) /\ i \in DOMAIN records
        BY <2>1 DEF Usable, RewindTypeOK
      <4> QED BY <4>1
    <3>2. was = records[i].was
      BY <2>1
    <3>3. records[i].was \in Transcripts
      BY <3>1 DEF Records
    <3> QED BY <3>2, <3>3 DEF Transcripts, Entries
  <2>2. CASE CallTool /\ records'[i] = Anchor(messages')
    BY <1>0, <2>2, AnchorOfThisCall, SMTT(30)
  <2> QED BY <2>1, <2>2, UsableStep
<1> HIDE DEF was
<1>2. i \in Usable /\ records'[i] = records[i] =>
         /\ phase # "down" /\ ~Cut => IsPrefix(was, messages)
         /\ ~Cut => \A k \in DOMAIN unsaved : IsPrefix(was, unsaved[k])
         /\ ~Opening /\ ~(dropped /\ phase = "truncated") => IsPrefix(was, saved)
  BY <1>w, <1>o DEF InPlace, was
<1>3. \/ i \in Usable /\ records'[i] = records[i]
      \/ CallTool /\ was = messages
  <2>1. CASE CallTool /\ records'[i] = Anchor(messages')
    BY <2>1, AnchorOfThisCall DEF was
  <2>2. \/ i \in Usable /\ records'[i] = records[i]
        \/ CallTool /\ records'[i] = Anchor(messages')
    BY UsableStep
  <2> QED BY <2>1, <2>2
<1>4. \A cause \in {"compaction", "rewind"} :
         records' # Append(records, Barrier(cause))
  BY UsableStep
<1> SUFFICES /\ phase' # "down" /\ ~Cut' => IsPrefix(was, messages')
             /\ ~Cut' => \A k \in DOMAIN unsaved' : IsPrefix(was, unsaved'[k])
             /\ ~Opening' /\ ~(dropped' /\ phase' = "truncated") =>
                   IsPrefix(was, saved')
  BY DEF was
<1>a. CASE Start
  <2>1. IsPrefix(was, saved)
    BY <1>a, <1>2, <1>3 DEF Start, Opening, CallTool
  <2>2. IsPrefix(was, messages')
    <3>1. CASE messages' = saved
      BY <2>1, <3>1
    <3>2. CASE made.messages < MaxMessages /\ messages' = Append(saved, Message("user"))
      <4>1. Message("user") \in Entries
        <5>1. made.messages \in 0..MaxMessages
          BY DEF RewindTypeOK
        <5> QED BY <3>2, <5>1, RewindBounds DEF Message, Entries, Kinds
      <4> QED BY <1>0, <1>1, <2>1, <3>2, <4>1, PrefixOfMore
    <3> QED BY <1>a, <3>1, <3>2 DEF Start
  <2> QED BY <1>a, <2>2 DEF Start
<1>b. CASE Submit
  <2>1. /\ phase = "idle" /\ phase' = "model" /\ UNCHANGED <<unsaved, saved>>
    BY <1>b DEF Submit
  <2>2. /\ IsPrefix(was, messages) /\ IsPrefix(was, saved)
        /\ \A k \in DOMAIN unsaved : IsPrefix(was, unsaved[k])
    BY <2>1, <1>2, <1>3 DEF Cut, Opening, CallTool
  <2>3. IsPrefix(was, messages')
    BY <1>0, <1>1, <1>b, <2>2, Adds, PrefixOfMore
  <2> QED BY <2>1, <2>2, <2>3
<1>c. CASE CallTool
  <2>1. /\ phase = "model" /\ phase' = "tools" /\ unsaved = <<>>
        /\ unsaved' = Append(unsaved, messages')
    BY <1>c DEF CallTool, Dispatch, Settled
  <2>2. IsPrefix(was, messages)
    BY <1>0, <1>2, <1>3, <2>1, PrefixOfItself DEF Cut
  <2>3. IsPrefix(was, messages')
    BY <1>0, <1>1, <1>c, <2>2, Adds, PrefixOfMore
  <2>4. ~Settled' /\ \A k \in DOMAIN unsaved' : k \in DOMAIN unsaved \/ unsaved'[k] = messages'
    BY <1>0, <2>1, Dispatched
  <2>5. DOMAIN unsaved = {}
    BY <2>1
  <2> QED BY <2>1, <2>3, <2>4, <2>5 DEF Opening
<1>d. CASE ToolsReturn \/ FinalAnswer
  <2>1. /\ phase \in {"tools", "model"} /\ phase' \in {"model", "ended"} /\ Settled
        /\ saved' = saved /\ unsaved' = Append(unsaved, messages')
    BY <1>d DEF ToolsReturn, FinalAnswer, Dispatch
  <2>2. /\ IsPrefix(was, messages) /\ IsPrefix(was, saved)
        /\ \A k \in DOMAIN unsaved : IsPrefix(was, unsaved[k])
    <3>1. ~CallTool
      BY <1>d DEF ToolsReturn, FinalAnswer, CallTool
    <3> QED BY <1>2, <1>3, <2>1, <3>1 DEF Cut, Opening
  <2>3. IsPrefix(was, messages')
    BY <1>0, <1>1, <1>d, <2>2, Adds, PrefixOfMore
  <2>4. \A k \in DOMAIN unsaved' : IsPrefix(was, unsaved'[k])
    BY <1>0, <2>1, <2>2, <2>3, Dispatched
  <2> QED BY <2>1, <2>2, <2>3, <2>4
<1>e. CASE \/ StreamFails \/ EndTurn \/ Archived \/ NotArchived
  <2>1. /\ phase \in {"model", "ended", "archiving"}
        /\ phase' \in {"ended", "idle", "archiving"}
        /\ UNCHANGED <<messages, unsaved, saved>>
    BY <1>e DEF StreamFails, EndTurn, Archived, NotArchived
  <2>2. /\ IsPrefix(was, messages) /\ IsPrefix(was, saved)
        /\ \A k \in DOMAIN unsaved : IsPrefix(was, unsaved[k])
    <3>1. ~CallTool
      BY <2>1 DEF CallTool
    <3> QED BY <1>2, <1>3, <2>1, <3>1 DEF Cut, Opening
  <2> QED BY <2>1, <2>2
<1>f. CASE LoopCompacts
  <2>1. records' = records /\ records = <<>>
    BY <1>f, <1>4 DEF LoopCompacts
  <2>2. Usable' = {}
    BY <2>1 DEF Usable
  <2> QED BY <2>2
<1>g. CASE AnnounceCompacted
  <2>1. /\ phase = "compacted" /\ phase' = "model" /\ saved' = saved
        /\ messages' = messages /\ unsaved' = Append(unsaved, messages')
    BY <1>g DEF AnnounceCompacted, Dispatch
  <2>2. /\ IsPrefix(was, messages) /\ IsPrefix(was, saved)
        /\ \A k \in DOMAIN unsaved : IsPrefix(was, unsaved[k])
    BY <2>1, <1>2, <1>3 DEF Cut, Opening, CallTool
  <2>3. \A k \in DOMAIN unsaved' : IsPrefix(was, unsaved'[k])
    BY <1>0, <2>1, <2>2, Dispatched
  <2> QED BY <2>1, <2>2, <2>3
<1>h. CASE \E to \in Anchors : DecideRewind(to)
  <2>1. PICK to \in Anchors : DecideRewind(to)
    BY <1>h
  <2>2. phase = "idle" /\ phase' = "rewinding" /\ saved' = saved
    BY <2>1 DEF DecideRewind
  <2>3. /\ IsPrefix(was, messages) /\ IsPrefix(was, saved)
        /\ \A k \in DOMAIN unsaved : IsPrefix(was, unsaved[k])
    BY <2>2, <1>2, <1>3 DEF Cut, Opening, CallTool
  <2>4. PICK kept \in 0..Len(messages) :
           /\ messages' = SubSeq(messages, 1, kept)
           /\ unsaved' = Append(unsaved, messages')
           /\ dropped' = (kept < Len(messages))
    BY <2>1, Rewound
  <2>5. CASE dropped'
    BY <2>2, <2>3, <2>5 DEF Cut
  <2>6. CASE ~dropped'
    <3>1. Len(messages) \in Nat
      BY <1>0
    <3>2. kept = Len(messages)
      <4>1. ~(kept < Len(messages))
        BY <2>4, <2>6
      <4> QED BY <3>1, <4>1
    <3>3. messages' = messages
      BY <1>0, <2>4, <3>2
    <3>4. \A k \in DOMAIN unsaved' : IsPrefix(was, unsaved'[k])
      BY <1>0, <2>3, <2>4, <3>3, Dispatched
    <3> QED BY <2>2, <2>3, <3>3, <3>4
  <2> QED BY <2>5, <2>6
<1>i. CASE EndRewind
  <2>1. /\ phase = "truncated" /\ phase' = "idle" /\ ~dropped
        /\ UNCHANGED <<messages, unsaved, saved>>
    BY <1>i, <1>4 DEF EndRewind, RewindBarrier
  <2>2. /\ IsPrefix(was, messages) /\ IsPrefix(was, saved)
        /\ \A k \in DOMAIN unsaved : IsPrefix(was, unsaved[k])
    BY <2>1, <1>2, <1>3 DEF Cut, Opening, CallTool
  <2> QED BY <2>1, <2>2
<1>j. CASE Persist
  <2>1. PICK k \in DOMAIN unsaved :
           /\ saved' = unsaved[k] /\ unsaved' = SubSeq(unsaved, k + 1, Len(unsaved))
           /\ phase' = IF phase = "rewinding" THEN "truncated" ELSE phase
           /\ UNCHANGED <<messages, dropped>>
    BY <1>j DEF Persist
  <2>2. CASE i \in Usable /\ records'[i] = records[i]
    <3>1. Cut' = Cut
      BY <2>1 DEF Cut
    <3>2. ~Cut => \A m \in DOMAIN unsaved' : IsPrefix(was, unsaved'[m])
      BY <1>2, <2>1, <2>2, PersistTypes
    <3>3. ~Cut => IsPrefix(was, saved')
      BY <1>2, <2>1, <2>2
    <3>4. Cut => dropped' /\ phase' = "truncated"
      BY <2>1 DEF Cut
    <3> QED BY <1>2, <2>1, <2>2, <3>1, <3>2, <3>3, <3>4
  <2>3. CASE CallTool
    <3>1. unsaved = <<>>
      BY <2>3 DEF CallTool, Settled
    <3> QED BY <2>1, <3>1
  <2> QED BY <1>3, <2>2, <2>3
<1>k. CASE Kill
  <2>1. /\ phase' = "down" /\ unsaved' = <<>> /\ saved' = saved /\ ~CallTool
        /\ orphans' = orphans \cup PastTheFile
    BY <1>k DEF Kill, CallTool
  <2>2. i \in Usable /\ records'[i] = records[i] /\ i \in DOMAIN records
    BY <1>3, <2>1 DEF Usable
  <2>3. /\ ~(records[i].to > Len(saved)) /\ records[i].to = Len(was)
        /\ Fits(was, saved)
    BY <1>w, <1>o, <2>1, <2>2 DEF PastTheFile, Anchored, Fitting, was
  <2>4. Len(was) \in Nat /\ Len(saved) \in Nat
    BY <1>0, <1>1
  <2>5. IsPrefix(was, saved)
    BY <2>3, <2>4 DEF Fits
  <2>6. DOMAIN unsaved' = {}
    BY <2>1
  <2> QED BY <2>1, <2>5, <2>6
<1>l. ~BarrierFails /\ ~PersistFails
  BY DEF BarrierFails, PersistFails
<1> QED BY <1>a, <1>b, <1>c, <1>d, <1>e, <1>f, <1>g, <1>h, <1>i, <1>j, <1>k,
           <1>l DEF RewindNext

\* What the interface shows is never behind the file.
LEMMA BehindStep ==
    ASSUME RewindTypeOK, RewindTypeOK', Behind, RewindNext
    PROVE  Behind'
<1> SUFFICES ASSUME ~warned', phase' \notin {"down", "compacted"}
             PROVE  IsPrefix(Latest', messages')
  BY DEF Behind
<1>0. /\ messages \in Seq(Entries) /\ messages' \in Seq(Entries)
      /\ saved \in Seq(Entries) /\ unsaved \in Seq(Transcripts)
      /\ Len(unsaved) \in Nat /\ DOMAIN unsaved = 1..Len(unsaved)
      /\ messages' \in Transcripts
  <2>1. /\ messages \in Seq(Entries) /\ messages' \in Seq(Entries)
        /\ saved \in Seq(Entries) /\ unsaved \in Seq(Transcripts)
        /\ messages' \in Transcripts
    BY DEF RewindTypeOK, Transcripts, Entries
  <2> QED BY <2>1, LenProperties
<1>w. ~warned
  BY DEF RewindNext, Start, Submit, CallTool, ToolsReturn, FinalAnswer,
         StreamFails, LoopCompacts, AnnounceCompacted, EndTurn, Archived,
         NotArchived, DecideRewind, EndRewind, BarrierFails, Persist,
         PersistFails, Kill
<1>b. phase \notin {"down", "compacted"} => IsPrefix(Latest, messages)
  BY <1>w DEF Behind
<1>t. Latest \in Seq(Entries)
  <2>1. CASE unsaved = <<>>
    BY <1>0, <2>1 DEF Latest
  <2>2. CASE unsaved # <<>>
    <3>1. Len(unsaved) \in 1..Len(unsaved)
      BY <1>0, <2>2
    <3>2. unsaved[Len(unsaved)] \in Transcripts
      BY <1>0, <3>1
    <3> QED BY <2>2, <3>2 DEF Latest, Transcripts, Entries
  <2> QED BY <2>1, <2>2
<1>1. CASE Start
  <2>1. Latest' = messages'
    BY <1>1 DEF Start, Latest
  <2> QED BY <1>0, <2>1, PrefixOfItself
<1>2. CASE Submit
  <2>1. Latest' = Latest /\ phase = "idle"
    BY <1>2 DEF Submit, Latest
  <2> QED BY <1>0, <1>b, <1>t, <1>2, <2>1, Adds, PrefixOfMore
<1>3. CASE unsaved' = Append(unsaved, messages')
  <2>1. Len(unsaved') = Len(unsaved) + 1 /\ unsaved'[Len(unsaved) + 1] = messages'
    BY <1>0, <1>3
  <2>2. unsaved' # <<>>
    BY <1>0, <2>1
  <2>3. Latest' = messages'
    BY <2>1, <2>2 DEF Latest
  <2> QED BY <1>0, <2>3, PrefixOfItself
<1>4. CASE StreamFails \/ EndTurn \/ Archived \/ NotArchived \/ EndRewind
  <2>1. /\ UNCHANGED <<messages, unsaved, saved>>
        /\ phase \in {"model", "ended", "archiving", "truncated"}
    BY <1>4 DEF StreamFails, EndTurn, Archived, NotArchived, EndRewind
  <2>2. Latest' = Latest
    BY <2>1 DEF Latest
  <2> QED BY <1>b, <2>1, <2>2
<1>5. CASE Persist
  <2>1. PICK k \in DOMAIN unsaved :
           /\ saved' = unsaved[k] /\ unsaved' = SubSeq(unsaved, k + 1, Len(unsaved))
           /\ phase' = (IF phase = "rewinding" THEN "truncated" ELSE phase)
           /\ messages' = messages
    BY <1>5 DEF Persist
  <2>2. k \in Nat /\ k >= 1 /\ k <= Len(unsaved)
    BY <1>0
  <2>3. /\ Len(unsaved') = Len(unsaved) - k /\ unsaved' \in Seq(Transcripts)
        /\ \A m \in 1..(Len(unsaved) - k) : unsaved'[m] = unsaved[k + m]
    BY <1>0, <2>1, <2>2, TailOfSeq
  <2>4. unsaved # <<>> /\ Latest = unsaved[Len(unsaved)]
    BY <1>0, <2>2 DEF Latest
  <2>5. CASE k = Len(unsaved)
    <3>1. unsaved' = <<>>
      BY <1>0, <2>3, <2>5, EmptySeq
    <3> QED BY <1>b, <2>1, <2>4, <2>5, <3>1 DEF Latest
  <2>6. CASE k < Len(unsaved)
    <3>1. /\ unsaved' # <<>> /\ Len(unsaved) - k \in 1..(Len(unsaved) - k)
          /\ k + (Len(unsaved) - k) = Len(unsaved)
      BY <1>0, <2>2, <2>3, <2>6
    <3>2. Latest' = Latest
      BY <2>3, <2>4, <3>1 DEF Latest
    <3> QED BY <1>b, <2>1, <3>2
  <2> QED BY <1>0, <2>2, <2>5, <2>6
<1>6. CASE CallTool \/ ToolsReturn \/ FinalAnswer \/ AnnounceCompacted
  BY <1>3, <1>6 DEF CallTool, ToolsReturn, FinalAnswer, AnnounceCompacted, Dispatch
<1>7. CASE \E to \in Anchors : DecideRewind(to)
  BY <1>3, <1>7 DEF DecideRewind, Dispatch
<1>8. ~LoopCompacts /\ ~Kill /\ ~BarrierFails /\ ~PersistFails
  BY DEF LoopCompacts, Kill, BarrierFails, PersistFails
<1> QED BY <1>1, <1>2, <1>4, <1>5, <1>6, <1>7, <1>8 DEF RewindNext

LEMMA FittingStep ==
    ASSUME RewindTypeOK, RewindTypeOK', Behind, InPlace, InPlace', Fitting, RewindNext
    PROVE  Fitting'
<1> SUFFICES ASSUME ~warned', NEW i \in Usable' \ orphans'
             PROVE  /\ Fits(records'[i].was, saved')
                    /\ \A k \in DOMAIN unsaved' : Fits(records'[i].was, unsaved'[k])
  BY DEF Fitting
<1> DEFINE was == records'[i].was
<1>o. ASSUME NEW to \in Anchors, DecideRewind(to)
      PROVE  warned' = warned /\ orphans' = orphans
  BY <1>o DEF DecideRewind
<1>v. ~warned
  BY <1>o DEF RewindNext, Start, Submit, CallTool, ToolsReturn, FinalAnswer,
         StreamFails, LoopCompacts, AnnounceCompacted, EndTurn, Archived,
         NotArchived, EndRewind, BarrierFails, Persist, PersistFails, Kill
<1>n. i \notin orphans
  BY <1>o DEF RewindNext, Start, Submit, CallTool, ToolsReturn, FinalAnswer,
         StreamFails, LoopCompacts, AnnounceCompacted, EndTurn, Archived,
         NotArchived, EndRewind, BarrierFails, Persist, PersistFails, Kill
<1>w. ~warned /\ i \notin orphans
  BY <1>v, <1>n
<1>p. phase' # "down" /\ ~Cut' => IsPrefix(was, messages')
  BY DEF InPlace
<1>s. messages \in Seq(Entries) /\ saved \in Seq(Entries)
  BY DEF RewindTypeOK, Transcripts, Entries
<1>0. /\ messages \in Seq(Entries) /\ saved \in Seq(Entries)
      /\ Len(messages) \in Nat /\ Len(saved) \in Nat
  BY <1>s, LenProperties
<1>1. \/ i \in Usable /\ was = records[i].was
      \/ CallTool /\ was = messages
  BY UsableStep, AnchorOfThisCall
<1>2. i \in Usable /\ was = records[i].was =>
         /\ Fits(was, saved) /\ \A k \in DOMAIN unsaved : Fits(was, unsaved[k])
         /\ phase # "down" /\ ~Cut => IsPrefix(was, messages)
  BY <1>w DEF Fitting, InPlace
<1> HIDE DEF was
<1>3. Fits(was, saved')
  <2>1. CASE CallTool
    <3>1. saved' = saved /\ Latest = saved /\ phase = "model"
      BY <2>1 DEF CallTool, Settled, Latest
    <3>2. IsPrefix(saved, messages)
      BY <1>w, <3>1 DEF Behind
    <3>3. Len(messages) <= Len(saved) => messages = saved
      <4>1. /\ Len(saved) <= Len(messages)
            /\ \A k \in 1..Len(saved) : saved[k] = messages[k]
        BY <1>0, <3>2, PrefixIff
      <4> QED BY <1>0, <4>1, SeqEqual
    <3>4. IsPrefix(messages, messages)
      BY <1>0, PrefixOfItself
    <3>5. Fits(messages, saved)
      BY <3>3, <3>4 DEF Fits
    <3> QED BY <1>1, <1>2, <3>1, <3>5
  <2>2. CASE Start
    <3>1. saved' = messages' /\ phase' # "down" /\ ~Cut'
      BY <2>2 DEF Start, Cut
    <3> QED BY <1>p, <3>1 DEF Fits
  <2>3. CASE Persist
    <3>1. PICK k \in DOMAIN unsaved : saved' = unsaved[k]
      BY <2>3 DEF Persist
    <3>2. CallTool => unsaved = <<>>
      BY DEF CallTool, Settled
    <3> QED BY <1>1, <1>2, <2>1, <3>1
  <2>4. CASE ~CallTool /\ ~Start /\ ~Persist
    <3>1. ASSUME NEW to \in Anchors, DecideRewind(to) PROVE saved' = saved
      BY <3>1 DEF DecideRewind
    <3>2. saved' = saved
      BY <2>4, <3>1
         DEF RewindNext, Submit, ToolsReturn, FinalAnswer, StreamFails,
             LoopCompacts, AnnounceCompacted, EndTurn, Archived, NotArchived,
             EndRewind, BarrierFails, PersistFails, Kill
    <3> QED BY <1>1, <1>2, <2>4, <3>2
  <2> QED BY <2>1, <2>2, <2>3, <2>4
<1>4. ASSUME NEW k \in DOMAIN unsaved' PROVE Fits(was, unsaved'[k])
  <2>1. CASE unsaved' = Append(unsaved, messages') /\ Fits(was, messages')
    <3>0. messages' \in Transcripts
      BY DEF RewindTypeOK
    <3>1. unsaved'[k] = messages' \/ (k \in DOMAIN unsaved /\ unsaved'[k] = unsaved[k])
      BY <2>1, <3>0, Dispatched
    <3>2. CallTool => unsaved = <<>> /\ DOMAIN unsaved = {}
      BY DEF CallTool, Settled
    <3> QED BY <1>1, <1>2, <2>1, <3>1, <3>2
  <2>2. CASE CallTool \/ ToolsReturn \/ FinalAnswer \/ AnnounceCompacted
    <3>1. /\ unsaved' = Append(unsaved, messages')
          /\ phase' \in {"tools", "model", "ended"}
      BY <2>2 DEF CallTool, ToolsReturn, FinalAnswer, AnnounceCompacted, Dispatch
    <3>2. Fits(was, messages')
      BY <1>p, <3>1 DEF Cut, Fits
    <3> QED BY <2>1, <3>1, <3>2
  <2>3. CASE \E to \in Anchors : DecideRewind(to)
    <3>1. PICK to \in Anchors : DecideRewind(to)
      BY <2>3
    <3>2. PICK kept \in 0..Len(messages) :
             /\ unsaved' = Append(unsaved, messages') /\ Len(messages') = kept
             /\ \A m \in 1..kept : messages'[m] = messages[m]
      BY <3>1, Rewound
    <3>3. was \in Seq(Entries) /\ messages' \in Seq(Entries) /\ IsPrefix(was, messages)
      <4>1. phase = "idle" /\ ~CallTool
        BY <3>1 DEF DecideRewind, CallTool
      <4>2. i \in Usable /\ was = records[i].was /\ IsPrefix(was, messages)
        BY <1>1, <1>2, <4>1 DEF Cut
      <4>3. records \in Seq(Records) /\ i \in DOMAIN records
        BY <4>2 DEF RewindTypeOK, Usable
      <4>4. records[i] \in Records
        BY <4>3
      <4> QED BY <4>2, <4>4 DEF Records, RewindTypeOK, Transcripts, Entries
    <3>4. Len(was) \in Nat /\ \A m \in 1..Len(was) : was[m] = messages[m]
      BY <1>0, <3>3, PrefixIff
    <3>5. ASSUME Len(was) <= Len(messages') PROVE IsPrefix(was, messages')
      <4>1. \A m \in 1..Len(was) : m \in 1..kept
        BY <3>2, <3>4, <3>5
      <4>2. \A m \in 1..Len(was) : was[m] = messages'[m]
        BY <3>2, <3>4, <4>1
      <4> QED BY <3>3, <3>5, <4>2, PrefixIff
    <3>6. Fits(was, messages')
      BY <3>5 DEF Fits
    <3> QED BY <2>1, <3>2, <3>6
  <2>4. CASE Persist
    <3>1. PICK m \in DOMAIN unsaved : unsaved' = SubSeq(unsaved, m + 1, Len(unsaved))
      BY <2>4 DEF Persist
    <3>2. \E n \in DOMAIN unsaved : unsaved'[k] = unsaved[n]
      BY <3>1, PersistTypes
    <3>3. CallTool => DOMAIN unsaved = {}
      BY DEF CallTool, Settled
    <3> QED BY <1>1, <1>2, <3>2, <3>3
  <2>5. CASE unsaved' = unsaved /\ ~CallTool
    BY <1>1, <1>2, <2>5
  <2>6. CASE unsaved' = <<>>
    BY <2>6
  <2>7. CASE \/ Start \/ Submit \/ StreamFails \/ LoopCompacts \/ EndTurn
             \/ Archived \/ NotArchived \/ EndRewind \/ BarrierFails \/ Kill
    <3>1. unsaved' = <<>> \/ (unsaved' = unsaved /\ ~CallTool)
      BY <2>7 DEF Start, Submit, StreamFails, LoopCompacts, EndTurn, Archived,
                  NotArchived, EndRewind, BarrierFails, Kill, CallTool
    <3> QED BY <2>5, <2>6, <3>1
  <2>8. ~PersistFails
    BY DEF PersistFails
  <2> QED BY <2>2, <2>3, <2>4, <2>7, <2>8 DEF RewindNext
<1> QED BY <1>3, <1>4 DEF was

\* Every message of a transcript it was made from is shown.
LEMMA StartShows ==
    ASSUME RewindTypeOK, Start
    PROVE  \A k \in DOMAIN messages' : messages'[k].id \in shown' \cup {task'}
<1>1. saved \in Seq(Entries) /\ DOMAIN saved = 1..Len(saved) /\ Len(saved) \in Nat
  BY LenProperties DEF RewindTypeOK, Transcripts, Entries
<1>2. shown' = shown \cup Ids(saved)
  BY DEF Start
<1>3. \A k \in 1..Len(saved) : saved[k].id \in shown'
  BY <1>1, <1>2 DEF Ids
<1>4. CASE messages' = saved
  BY <1>1, <1>3, <1>4
<1>5. CASE /\ made.messages < MaxMessages /\ task' = made.messages + 1
           /\ messages' = Append(saved, Message("user"))
  <2>1. Message("user") \in Entries /\ Message("user").id = task'
    <3>1. made.messages \in 0..MaxMessages
      BY DEF RewindTypeOK
    <3> QED BY <1>5, <3>1, RewindBounds DEF Message, Entries, Kinds
  <2>2. /\ messages' \in Seq(Entries) /\ Len(messages') = Len(saved) + 1
        /\ messages'[Len(saved) + 1] = Message("user")
        /\ \A k \in 1..Len(saved) : messages'[k] = saved[k]
    BY <1>1, <1>5, <2>1
  <2>3. \A k \in DOMAIN messages' : k \in 1..Len(saved) \/ k = Len(saved) + 1
    BY <1>1, <2>2, LenProperties
  <2> QED BY <1>3, <2>1, <2>2, <2>3
<1> QED BY <1>4, <1>5 DEF Start

LEMMA CursorStep ==
    ASSUME RewindTypeOK, RewindTypeOK', WithinBounds, NothingSkipped,
           RewindNext
    PROVE  WithinBounds' /\ NothingSkipped'
<1> DEFINE At(k) == messages[k].id \in shown \cup {task}
<1> SUFFICES ASSUME ~warned'
             PROVE  /\ phase' \notin {"rewinding", "truncated"} =>
                          archivist'.cursor <= Len(messages')
                    /\ \A k \in DOMAIN messages' : k <= archivist'.cursor =>
                          messages'[k].id \in shown' \cup {task'}
  BY DEF WithinBounds, NothingSkipped
<1>0. /\ messages \in Seq(Entries) /\ messages' \in Seq(Entries)
      /\ Len(messages) \in Nat /\ Len(messages') \in Nat
      /\ DOMAIN messages = 1..Len(messages) /\ DOMAIN messages' = 1..Len(messages')
      /\ archivist \in Archivists /\ archivist.cursor \in Nat
  <2>1. messages \in Seq(Entries) /\ messages' \in Seq(Entries)
    BY DEF RewindTypeOK, Transcripts, Entries
  <2>2. archivist \in Archivists
    BY DEF RewindTypeOK, Archivists
  <2> QED BY <2>1, <2>2, LenProperties DEF Archivists
<1>w. ~warned
  BY DEF RewindNext, Start, Submit, CallTool, ToolsReturn, FinalAnswer,
         StreamFails, LoopCompacts, AnnounceCompacted, EndTurn, Archived,
         NotArchived, DecideRewind, EndRewind, BarrierFails, Persist,
         PersistFails, Kill
<1>b. phase \notin {"rewinding", "truncated"} => archivist.cursor <= Len(messages)
  BY <1>w DEF WithinBounds
<1>n. \A k \in DOMAIN messages : k <= archivist.cursor =>
         messages[k].id \in shown \cup {task}
  BY <1>w DEF NothingSkipped
<1>1. CASE Start
  <2>1. archivist'.cursor = Len(messages')
    BY <1>1 DEF Start, NewArchivist
  <2> QED BY <1>0, <1>1, <2>1, StartShows
<1>2. CASE Submit \/ CallTool \/ ToolsReturn \/ FinalAnswer
  <2>1. PICK e \in Entries : messages' = Append(messages, e)
    BY <1>2, Adds
  <2>2. /\ phase \notin {"rewinding", "truncated"}
        /\ UNCHANGED <<shown, task>>
    BY <1>2 DEF Submit, CallTool, ToolsReturn, FinalAnswer
  <2>3. archivist'.cursor = archivist.cursor
    BY <1>0, <1>2 DEF Submit, CallTool, ToolsReturn, FinalAnswer, Archivists
  <2>4. archivist.cursor <= Len(messages)
    BY <1>b, <2>2
  <2>5. Len(messages') = Len(messages) + 1
        /\ \A k \in 1..Len(messages) : messages'[k] = messages[k]
    BY <1>0, <2>1
  <2>6. \A k \in DOMAIN messages' : k <= archivist.cursor => k \in DOMAIN messages
    BY <1>0, <2>4, <2>5
  <2>7. \A k \in DOMAIN messages' : k <= archivist'.cursor =>
           messages'[k].id \in shown' \cup {task'}
    BY <1>0, <1>n, <2>2, <2>3, <2>5, <2>6
  <2> QED BY <1>0, <2>3, <2>4, <2>5, <2>7
<1>3. CASE LoopCompacts \/ EndRewind
  <2>1. archivist'.cursor = 0
    BY <1>0, <1>3 DEF LoopCompacts, EndRewind, CursorAfterCompaction,
                     CursorAfterRewind, Archivists
  <2> QED BY <1>0, <2>1
<1>4. CASE \/ StreamFails \/ AnnounceCompacted \/ EndTurn \/ NotArchived
  <2>1. /\ phase \notin {"rewinding", "truncated"}
        /\ UNCHANGED <<messages, shown, task>>
    BY <1>4 DEF StreamFails, AnnounceCompacted, EndTurn, NotArchived, Dispatch
  <2>2. archivist'.cursor \in {archivist.cursor, InBounds(archivist)}
    BY <1>0, <1>4 DEF StreamFails, AnnounceCompacted, EndTurn, NotArchived,
                      CursorAfterFailure, Archivists
  <2>3. archivist'.cursor <= archivist.cursor
    BY <1>0, <2>2 DEF InBounds
  <2>4. archivist.cursor <= Len(messages)
    BY <1>b, <2>1
  <2>5. archivist'.cursor \in Nat
    BY <1>0, <2>2 DEF InBounds
  <2>6. \A k \in DOMAIN messages : k <= archivist'.cursor => k <= archivist.cursor
    BY <1>0, <2>3, <2>5
  <2>7. archivist'.cursor <= Len(messages')
    BY <1>0, <2>1, <2>3, <2>4, <2>5
  <2> QED BY <1>n, <2>1, <2>6, <2>7
<1>5. CASE Archived
  <2>1. /\ UNCHANGED <<messages, task>> /\ archivist'.cursor = Len(messages)
        /\ shown' = shown \cup
                       Ids(SubSeq(messages, archivist.cursor + 1, Len(messages)))
    BY <1>0, <1>5 DEF Archived, Archivists
  <2>2. \A k \in DOMAIN messages : k <= archivist.cursor \/ k > archivist.cursor
    BY <1>0
  <2>3. \A k \in DOMAIN messages : messages[k].id \in shown' \cup {task}
    BY <1>n, <2>1, <2>2, ShownAfter
  <2> QED BY <1>0, <2>1, <2>3
<1>6. CASE \E to \in Anchors : DecideRewind(to)
  <2>1. PICK to \in Anchors : DecideRewind(to)
    BY <1>6
  <2>2. phase' = "rewinding" /\ UNCHANGED <<archivist, shown, task>>
    BY <2>1 DEF DecideRewind
  <2>3. PICK kept \in 0..Len(messages) :
           Len(messages') = kept /\ \A k \in 1..kept : messages'[k] = messages[k]
    BY <2>1, Rewound
  <2>4. \A k \in DOMAIN messages' : k \in DOMAIN messages /\ messages'[k] = messages[k]
    BY <1>0, <2>3
  <2> QED BY <1>n, <2>2, <2>4
<1>7. CASE Persist
  <2>1. /\ phase' \notin {"rewinding", "truncated"} => phase \notin {"rewinding", "truncated"}
        /\ UNCHANGED <<messages, archivist, shown, task>>
    BY <1>7 DEF Persist
  <2> QED BY <1>b, <1>n, <2>1
<1>8. CASE Kill
  <2>1. messages' = <<>> /\ archivist'.cursor = 0
    BY <1>8 DEF Kill, NewArchivist
  <2> QED BY <1>0, <2>1
<1>9. ~BarrierFails /\ ~PersistFails
  BY DEF BarrierFails, PersistFails
<1> QED BY <1>1, <1>2, <1>3, <1>4, <1>5, <1>6, <1>7, <1>8, <1>9 DEF RewindNext

----------------------------------------------------------------------------

LEMMA RewindInitially == RewindInit => RewindInv
<1> SUFFICES ASSUME RewindInit PROVE RewindInv
  OBVIOUS
<1>1. /\ <<>> \in Transcripts /\ <<>> \in Seq(Transcripts) /\ <<>> \in Seq(Records)
      /\ Interval \in Nat /\ MaxMessages \in Nat
      /\ MaxRewinds \in Nat /\ MaxCompactions \in Nat /\ MaxProcesses \in Nat
  BY RewindBounds, IntervalIsPositive DEF Transcripts
<1>2. RewindTypeOK
  <2>1. /\ phase \in Phases /\ messages = <<>> /\ saved = <<>> /\ unsaved = <<>>
        /\ records = <<>> /\ dropped \in BOOLEAN /\ warned \in BOOLEAN /\ task = 0
        /\ shown = {} /\ orphans = {}
    BY DEF RewindInit, Phases
  <2>2. archivist \in [cursor : Nat, calls : 0..Interval, near : BOOLEAN]
    BY <1>1 DEF RewindInit, NewArchivist
  <2>3. made \in [messages : 0..MaxMessages, rewinds : 0..MaxRewinds,
                 compactions : 0..MaxCompactions, starts : 0..MaxProcesses]
    BY <1>1 DEF RewindInit
  <2>4. task \in 0..MaxMessages
    BY <1>1, <2>1
  <2> QED BY <1>1, <2>1, <2>2, <2>3, <2>4 DEF RewindTypeOK
<1>3. Usable = {}
  BY DEF RewindInit, Usable
<1> QED BY <1>2, <1>3 DEF RewindInit, RewindInv, Anchored, InPlace, Fitting, Behind,
           WithinBounds, NothingSkipped, NewArchivist

LEMMA RewindInductive == RewindInv /\ [RewindNext]_rewindVars => RewindInv'
<1> SUFFICES ASSUME RewindInv, [RewindNext]_rewindVars PROVE RewindInv'
  OBVIOUS
<1>1. CASE RewindNext
  <2>1. RewindTypeOK'
    BY <1>1, RewindTypeStep DEF RewindInv
  <2>2. InPlace'
    BY <1>1, <2>1, InPlaceStep DEF RewindInv
  <2> QED BY <1>1, <2>1, <2>2, AnchoredStep, FittingStep, BehindStep, CursorStep
          DEF RewindInv
<1>2. CASE UNCHANGED rewindVars
  <2>1. RewindTypeOK' /\ Anchored'
    BY <1>2 DEF rewindVars, RewindInv, RewindTypeOK, Anchored, Usable
  <2>2. InPlace'
    BY <1>2 DEF rewindVars, RewindInv, InPlace, Usable, Cut, Opening, Settled
  <2>4. Fitting' /\ Behind'
    BY <1>2 DEF rewindVars, RewindInv, Fitting, Fits, Behind, Latest, Usable
  <2>3. WithinBounds' /\ NothingSkipped'
    BY <1>2 DEF rewindVars, RewindInv, WithinBounds, NothingSkipped
  <2> QED BY <2>1, <2>2, <2>3, <2>4 DEF RewindInv
<1> QED BY <1>1, <1>2

\* An anchor that is usable and no orphan names a place the transcript still
\* has, the file too but for the two instants, and the archivist's cursor stays
\* below what it was shown.
THEOREM RewindInvariance == RewindSpec => []RewindInv
<1>1. RewindInit => RewindInv
  BY RewindInitially
<1>2. RewindInv /\ [RewindNext]_rewindVars => RewindInv'
  BY RewindInductive
<1> QED BY <1>1, <1>2, PTL DEF RewindSpec

\* What a /rewind would keep is what the transcript held when its anchor was
\* taken, whatever compactions and rewinds came between and wherever a process
\* was killed, unless the anchor was past the end of the file at a kill.
THEOREM RewindsToItsPlace == RewindSpec => []AnchorsHold
<1>1. RewindInv => AnchorsHold
  BY DEF RewindInv, InPlace, Cut, AnchorsHold
<1> QED BY <1>1, RewindInvariance, PTL

\* A transcript that /rewind shortens to such an anchor is one every provider
\* accepts.
THEOREM RewindKeepsPairs == RewindSpec => RewoundIsPaired
<1>1. RewindInv /\ [RewindNext]_rewindVars
         => [ToAnAnchorThatHolds => Paired(messages')]_rewindVars
  <2> SUFFICES ASSUME RewindInv, RewindNext, ToAnAnchorThatHolds
               PROVE  Paired(messages')
    OBVIOUS
  <2>1. PICK to \in Anchors : DecideRewind(to)
    BY DEF ToAnAnchorThatHolds, RewindNext, Start, Submit, CallTool, ToolsReturn,
           FinalAnswer, StreamFails, LoopCompacts, AnnounceCompacted, EndTurn,
           Archived, NotArchived, EndRewind, BarrierFails, Persist, PersistFails,
           Kill
  <2>2. PICK i \in Usable \ orphans : records[i].to = Len(messages')
    BY DEF ToAnAnchorThatHolds
  <2>3. /\ Len(messages') = Len(records[i].was) /\ Paired(records[i].was)
        /\ IsPrefix(records[i].was, messages)
    BY <2>2 DEF ToAnAnchorThatHolds, RewindInv, Anchored, InPlace, Cut
  <2>4. PICK kept \in 0..Len(messages) :
           /\ messages' = SubSeq(messages, 1, kept) /\ Len(messages') = kept
    BY <2>1, Rewound DEF RewindInv
  <2>5. messages' = records[i].was
    <3>1. messages \in Seq(Entries) /\ records \in Seq(Records) /\ i \in DOMAIN records
      BY DEF RewindInv, RewindTypeOK, Transcripts, Entries, Usable
    <3>2. records[i].was \in Seq(Entries)
      <4>1. records[i] \in Records
        BY <3>1
      <4> QED BY <4>1 DEF Records, Transcripts, Entries
    <3>3. messages' \in Seq(Entries) /\ \A m \in 1..kept : messages'[m] = messages[m]
      BY <2>4, <3>1
    <3>4. \A m \in 1..Len(records[i].was) : records[i].was[m] = messages[m]
      BY <2>3, <3>1, <3>2, PrefixIff
    <3> QED BY <2>3, <2>4, <3>2, <3>3, <3>4, SeqEqual
  <2> QED BY <2>3, <2>5
<1> QED BY <1>1, RewindInvariance, PTL DEF RewindSpec, RewoundIsPaired

\* The archivist passes over no message.
THEOREM ArchivistSkipsNothing == RewindSpec => []NothingSkipped
<1>1. RewindInv => NothingSkipped
  BY DEF RewindInv
<1> QED BY <1>1, RewindInvariance, PTL
=============================================================================
