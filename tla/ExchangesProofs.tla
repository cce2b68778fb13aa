------------------------------ MODULE ExchangesProofs ------------------------------
(***************************************************************************)
(* Proofs about the exchanges that are answered in several pieces: the chat *)
(* shows whole answers (Assistant), and the four calls of the YouSign       *)
(* client implement one order (YousignExchange), for any number of          *)
(* questions, deltas, builds, callers, requests, contracts and signers.     *)
(***************************************************************************)
EXTENDS YousignExchange, Assistant, SequenceTheorems, FiniteSetTheorems, TLAPS

-----------------------------------------------------------------------------
(* The assistant. *)

Builds == Seq({"running", "built", "failed", "lost"})

LastEvents == {[type |-> "done"], Error}

\* An answer on its way: u is what the browser has not taken yet of it, n the deltas said
\* so far and text those shown: u is the lines of the others, in order, and possibly the
\* last event's.
OnItsWay(text, n, u) ==
    LET m == n - Len(text) IN
    /\ m \in Nat
    /\ \A i \in 1..Len(text) : text[i] = i
    /\ Len(u) \in {2 * m, 2 * m + 2}
    /\ \A i \in 1..m : u[2 * i - 1] = Token(Len(text) + i)
    /\ \A i \in 1..(m + 1) : 2 * i <= Len(u) => u[2 * i] = Newline
    /\ Len(u) = 2 * m + 2 => u[2 * m + 1] \in LastEvents

\* u ends with the last event.
Closed(text, n, u) == Len(u) = 2 * (n - Len(text)) + 2
EndsWith(text, n, u, event) == Closed(text, n, u) /\ u[2 * (n - Len(text)) + 1] = event

\* One question: the server s, the wire w, the connection o, the browser c, n deltas said.
Heard(c, s, w, o, n) ==
    /\ c.shown = "nothing" =>
          /\ s.at = "idle" /\ o = "none" /\ n = 0 /\ w = << >>
          /\ c.text = << >> /\ c.buffer = << >>
    /\ s.at = "idle" => c.shown \in {"nothing", "told"}
    /\ s.failedBy # NoBuild => s.at = "over"
    /\ o = "ended" => s.at = "over"
    /\ c.shown \in {"asking", "streaming"} =>
          /\ OnItsWay(c.text, n, c.buffer \o w)
          /\ Closed(c.text, n, c.buffer \o w) => s.at = "over"
          /\ s.failedBy # NoBuild => EndsWith(c.text, n, c.buffer \o w, Error)
    /\ c.shown = "asking" => c.text = << >>
    /\ c.shown \in {"answered", "noAnswer"} =>
          s.at = "over" /\ s.failedBy = NoBuild
    /\ c.shown = "answered" => Len(c.text) = n /\ \A i \in 1..n : c.text[i] = i
    /\ c.shown = "noAnswer" => n = 0

EachHeard == \A q \in Questions : Heard(client[q], server[q], wire[q], open[q], said[q])

\* The only build that can run is the memoized one, the last; what is memoized has not
\* failed; and what was over when a question was asked is older than what runs.
Building ==
    /\ Len(build) <= MaxBuilds
    /\ ready # NoBuild => ready = Len(build) /\ build[ready] \in {"running", "built"}
    /\ \A b \in DOMAIN build : build[b] = "running" => b = ready
    /\ \A q \in Questions :
          /\ asked[q] <= Len(build)
          /\ \A b \in DOMAIN build : build[b] = "running" => asked[q] < b
    /\ FailureIsFresh

Chatting == ChatTypeOK /\ EachHeard /\ Building

LEMMA CharTypes ==
    /\ Newline \in Char
    /\ LastEvents \subseteq Event /\ Event \subseteq Char
    /\ \A i \in 1..MaxDeltas : Token(i) \in Event
    /\ \A i : Token(i) # Newline /\ Token(i) \notin LastEvents
    /\ Newline \notin LastEvents
<1>1. /\ Newline \in Char /\ LastEvents \subseteq Event /\ Event \subseteq Char
      /\ \A i \in 1..MaxDeltas : Token(i) \in Event
  BY DEF Newline, Char, LastEvents, Event, Token, Error
<1>2. Newline.type = "newline" /\ \A i : Token(i).type = "token" /\ Token(i).delta = i
  BY DEF Newline, Token
<1>3. \A e \in LastEvents : e.type \in {"done", "error"}
  BY DEF LastEvents, Error
<1> QED BY <1>1, <1>2, <1>3

\* A line written after u.
LEMMA LineAdded ==
    ASSUME NEW u \in Seq(Char), NEW e \in Event
    PROVE  /\ u \o Line(e) \in Seq(Char)
           /\ Len(u \o Line(e)) = Len(u) + 2
           /\ \A i \in 1..Len(u) : (u \o Line(e))[i] = u[i]
           /\ (u \o Line(e))[Len(u) + 1] = e /\ (u \o Line(e))[Len(u) + 2] = Newline
<1> DEFINE l == Line(e)
<1>1. l \in Seq(Char) /\ Len(l) = 2 /\ l[1] = e /\ l[2] = Newline
  BY CharTypes DEF Line
<1> HIDE DEF l
<1>2. /\ u \o l \in Seq(Char) /\ Len(u \o l) = Len(u) + Len(l)
      /\ \A i \in 1..(Len(u) + Len(l)) : (u \o l)[i] = IF i <= Len(u) THEN u[i] ELSE l[i - Len(u)]
  BY <1>1, ConcatProperties
<1>3. Len(u) \in Nat
  BY LenProperties
<1>4. (u \o l)[Len(u) + 1] = l[1] /\ (u \o l)[Len(u) + 2] = l[2]
  <2>1. Len(u) + 1 \in 1..(Len(u) + Len(l)) /\ ~(Len(u) + 1 <= Len(u)) /\ Len(u) + 1 - Len(u) = 1
    BY <1>1, <1>3
  <2>2. Len(u) + 2 \in 1..(Len(u) + Len(l)) /\ ~(Len(u) + 2 <= Len(u)) /\ Len(u) + 2 - Len(u) = 2
    BY <1>1, <1>3
  <2>3. /\ (u \o l)[Len(u) + 1] = l[Len(u) + 1 - Len(u)]
        /\ (u \o l)[Len(u) + 2] = l[Len(u) + 2 - Len(u)]
    BY <1>2, <2>1, <2>2
  <2> QED BY <2>1, <2>2, <2>3
<1>5. \A i \in 1..Len(u) : (u \o l)[i] = u[i]
  BY <1>1, <1>2, <1>3
<1> QED BY <1>1, <1>2, <1>4, <1>5 DEF l

\* A delta goes after those on their way ...
LEMMA TokenAdded ==
    ASSUME NEW text \in Seq(1..MaxDeltas), NEW n \in 0..MaxDeltas, n < MaxDeltas,
           NEW u \in Seq(Char), OnItsWay(text, n, u), ~Closed(text, n, u)
    PROVE  /\ OnItsWay(text, n + 1, u \o Line(Token(n + 1)))
           /\ ~Closed(text, n + 1, u \o Line(Token(n + 1)))
<1> DEFINE m == n - Len(text)
           v == u \o Line(Token(n + 1))
<1>1. Len(text) \in Nat /\ n + 1 \in 1..MaxDeltas /\ n \in Nat /\ n + 1 - Len(text) = m + 1
  BY LenProperties, DeltasAssumption
<1>2. /\ m \in Nat /\ Len(u) = 2 * m
      /\ \A i \in 1..Len(text) : text[i] = i
      /\ \A i \in 1..m : u[2 * i - 1] = Token(Len(text) + i)
      /\ \A i \in 1..(m + 1) : 2 * i <= Len(u) => u[2 * i] = Newline
  BY DEF OnItsWay, Closed
<1>3. Token(n + 1) \in Event
  BY <1>1, CharTypes
<1>4. /\ Len(v) = 2 * m + 2 /\ \A i \in 1..(2 * m) : v[i] = u[i]
      /\ v[2 * m + 1] = Token(n + 1) /\ v[2 * m + 2] = Newline
  BY <1>2, <1>3, LineAdded
<1> HIDE DEF v
<1>5. \A i \in 1..(m + 1) : v[2 * i - 1] = Token(Len(text) + i) /\ v[2 * i] = Newline
  <2> SUFFICES ASSUME NEW i \in 1..(m + 1)
               PROVE  v[2 * i - 1] = Token(Len(text) + i) /\ v[2 * i] = Newline
    OBVIOUS
  <2>1. CASE i = m + 1
    <3>1. 2 * i - 1 = 2 * m + 1 /\ 2 * i = 2 * m + 2 /\ Len(text) + i = n + 1
      BY <1>1, <1>2, <2>1
    <3> QED BY <1>4, <3>1
  <2>2. CASE i # m + 1
    <3>1. i \in 1..m /\ 2 * i - 1 \in 1..(2 * m) /\ 2 * i \in 1..(2 * m) /\ 2 * i <= Len(u)
      BY <1>2, <2>2
    <3> QED BY <1>2, <1>4, <3>1
  <2> QED BY <2>1, <2>2
<1>6. Len(v) = 2 * (m + 1) /\ m + 1 \in Nat /\ ~(2 * (m + 1) = 2 * (m + 1) + 2)
  BY <1>2, <1>4
<1>7. \A i \in 1..(m + 2) : 2 * i <= Len(v) => v[2 * i] = Newline
  BY <1>2, <1>5, <1>6
<1>8. n + 1 - Len(text) = m + 1 /\ m + 1 + 1 = m + 2
  BY <1>1, <1>2
<1> HIDE DEF m
<1> QED BY <1>2, <1>5, <1>6, <1>7, <1>8 DEF OnItsWay, Closed, v

\* ... and the last event after them all.
LEMMA LastAdded ==
    ASSUME NEW text \in Seq(1..MaxDeltas), NEW n \in 0..MaxDeltas, NEW e \in LastEvents,
           NEW u \in Seq(Char), OnItsWay(text, n, u), ~Closed(text, n, u)
    PROVE  /\ OnItsWay(text, n, u \o Line(e))
           /\ EndsWith(text, n, u \o Line(e), e)
<1> DEFINE m == n - Len(text)
           v == u \o Line(e)
<1>1. Len(text) \in Nat /\ n \in Nat
  BY LenProperties, DeltasAssumption
<1>2. /\ m \in Nat /\ Len(u) = 2 * m
      /\ \A i \in 1..Len(text) : text[i] = i
      /\ \A i \in 1..m : u[2 * i - 1] = Token(Len(text) + i)
      /\ \A i \in 1..(m + 1) : 2 * i <= Len(u) => u[2 * i] = Newline
  BY DEF OnItsWay, Closed
<1>3. e \in Event
  BY CharTypes
<1>4. /\ Len(v) = 2 * m + 2 /\ \A i \in 1..(2 * m) : v[i] = u[i]
      /\ v[2 * m + 1] = e /\ v[2 * m + 2] = Newline
  BY <1>2, <1>3, LineAdded
<1> HIDE DEF v
<1>5. \A i \in 1..m : v[2 * i - 1] = Token(Len(text) + i) /\ v[2 * i] = Newline
  <2> SUFFICES ASSUME NEW i \in 1..m
               PROVE  v[2 * i - 1] = Token(Len(text) + i) /\ v[2 * i] = Newline
    OBVIOUS
  <2>1. 2 * i - 1 \in 1..(2 * m) /\ 2 * i \in 1..(2 * m) /\ 2 * i <= Len(u) /\ i \in 1..(m + 1)
    BY <1>2
  <2> QED BY <1>2, <1>4, <2>1
<1>6. \A i \in 1..(m + 1) : v[2 * i] = Newline
  <2> SUFFICES ASSUME NEW i \in 1..(m + 1) PROVE v[2 * i] = Newline
    OBVIOUS
  <2>1. CASE i = m + 1
    <3>1. 2 * i = 2 * m + 2
      BY <1>2, <2>1
    <3> QED BY <1>4, <3>1
  <2>2. CASE i # m + 1
    BY <1>2, <1>5, <2>2
  <2> QED BY <2>1, <2>2
<1> HIDE DEF m
<1> QED BY <1>2, <1>4, <1>5, <1>6 DEF OnItsWay, Closed, EndsWith, v, m

\* The first line is taken from a buffer that holds one.
LEMMA FirstLine ==
    ASSUME NEW text \in Seq(1..MaxDeltas), NEW n \in 0..MaxDeltas,
           NEW b \in Seq(Char), NEW w \in Seq(Char),
           OnItsWay(text, n, b \o w), HasLine(b)
    PROVE  /\ LineEnd(b) = 2 /\ Len(b) >= 2 /\ Len(b) \in Nat
           /\ b[1] = (b \o w)[1]
           /\ SubSeq(b, 1, LineEnd(b) - 1) = <<b[1]>>
           /\ n > Len(text) => b[1] = Token(Len(text) + 1)
           /\ n = Len(text) => b[1] \in LastEvents /\ Closed(text, n, b \o w)
<1> DEFINE u == b \o w
           m == n - Len(text)
<1>1. /\ Len(b) \in Nat /\ Len(w) \in Nat /\ Len(text) \in Nat /\ n \in Nat
      /\ DOMAIN b = 1..Len(b)
      /\ Len(u) = Len(b) + Len(w)
      /\ \A i \in 1..Len(b) : u[i] = b[i]
  BY LenProperties, ConcatProperties, DeltasAssumption
<1>2. /\ m \in Nat /\ Len(u) \in {2 * m, 2 * m + 2}
      /\ \A i \in 1..m : u[2 * i - 1] = Token(Len(text) + i)
      /\ \A i \in 1..(m + 1) : 2 * i <= Len(u) => u[2 * i] = Newline
      /\ Len(u) = 2 * m + 2 => u[2 * m + 1] \in LastEvents
  BY DEF OnItsWay
<1> HIDE DEF u
<1>3. PICK k \in 1..Len(b) : b[k] = Newline
  BY <1>1 DEF HasLine
<1>4. Len(u) >= 1 /\ Len(u) >= 2
  BY <1>1, <1>2, <1>3
<1>5. n > Len(text) => u[1] = Token(Len(text) + 1)
  <2> SUFFICES ASSUME n > Len(text) PROVE u[1] = Token(Len(text) + 1)
    OBVIOUS
  <2>1. 1 \in 1..m /\ 2 * 1 - 1 = 1
    BY <1>1, <1>2
  <2> QED BY <1>2, <2>1
<1>6. n = Len(text) => u[1] \in LastEvents /\ Len(u) = 2 * m + 2
  <2> SUFFICES ASSUME n = Len(text) PROVE u[1] \in LastEvents /\ Len(u) = 2 * m + 2
    OBVIOUS
  <2>1. m = 0 /\ 2 * m + 1 = 1 /\ Len(u) = 2 * m + 2
    BY <1>1, <1>2, <1>4
  <2> QED BY <1>2, <2>1
<1>7. u[1] # Newline
  <2>1. n > Len(text) \/ n = Len(text)
    BY <1>1, <1>2
  <2> QED BY <2>1, <1>5, <1>6, CharTypes
<1>8. u[2] = Newline
  <2>1. 1 \in 1..(m + 1) /\ 2 * 1 = 2
    BY <1>2
  <2> QED BY <1>2, <1>4, <2>1
<1>9. b[1] = u[1] /\ k # 1 /\ Len(b) >= 2 /\ b[2] = Newline /\ b[1] # Newline
  BY <1>1, <1>3, <1>7, <1>8
<1>10. LineEnd(b) = 2
  <2> DEFINE P(i) == /\ b[i] = Newline
                     /\ \A j \in 1..(i - 1) : b[j] # Newline
  <2>1. 2 \in DOMAIN b /\ P(2)
    BY <1>1, <1>9
  <2>2. \A i \in DOMAIN b : P(i) => i = 2
    BY <1>1, <1>9
  <2> QED BY <2>1, <2>2 DEF LineEnd
<1>11. SubSeq(b, 1, 1) = <<b[1]>>
  <2>1. SubSeq(b, 1, 1) = SubSeq(b, 1, 0) \o <<b[1]>>
    BY <1>1, <1>9, SubSeqRecursiveSecond
  <2>2. SubSeq(b, 1, 0) = << >>
    BY SubSeqEmpty
  <2>3. b[1] \in Char /\ <<b[1]>> \in Seq(Char)
    BY <1>1, <1>9, ElementOfSeq
  <2> QED BY <2>1, <2>2, <2>3, ConcatEmptySeq
<1> QED BY <1>1, <1>5, <1>6, <1>9, <1>10, <1>11 DEF u, Closed

\* What is left of an answer when its first line is gone.
LEMMA LineGone ==
    ASSUME NEW b \in Seq(Char), NEW w \in Seq(Char), Len(b) >= 2, LineEnd(b) = 2
    PROVE  /\ Rest(b) \in Seq(Char)
           /\ Rest(b) \o w \in Seq(Char)
           /\ Len(Rest(b) \o w) = Len(b \o w) - 2
           /\ \A i \in 1..Len(Rest(b) \o w) : (Rest(b) \o w)[i] = (b \o w)[i + 2]
<1> DEFINE r == SubSeq(b, 3, Len(b))
<1>1. Len(b) \in Nat /\ Len(w) \in Nat
  BY LenProperties
<1>2. \A i \in 3..Len(b) : b[i] \in Char
  BY <1>1, ElementOfSeq
<1>3. /\ r \in Seq(Char) /\ Len(r) = IF 3 <= Len(b) THEN Len(b) - 3 + 1 ELSE 0
      /\ \A i \in 1..(Len(b) - 3 + 1) : r[i] = b[3 + i - 1]
  BY <1>1, <1>2, SubSeqProperties
<1>4. Rest(b) = r
  BY DEF Rest
<1> HIDE DEF r
<1>5. Len(r) = Len(b) - 2 /\ \A i \in 1..Len(r) : r[i] = b[i + 2]
  <2>1. Len(r) = Len(b) - 2
    <3>1. Len(r) = IF 3 <= Len(b) THEN Len(b) - 3 + 1 ELSE 0
      BY <1>3
    <3>2. PICK l \in Nat : l = Len(b) /\ l >= 2
      BY <1>1
    <3>3. Len(r) = IF 3 <= l THEN l - 3 + 1 ELSE 0
      BY <3>1, <3>2
    <3>4. Len(r) = l - 2
      BY <3>2, <3>3
    <3> QED BY <3>2, <3>4
  <2>2. ASSUME NEW i \in 1..Len(r) PROVE r[i] = b[i + 2]
    <3>1. i \in 1..(Len(b) - 3 + 1) /\ 3 + i - 1 = i + 2
      BY <1>1, <2>1
    <3> QED BY <1>3, <3>1
  <2> QED BY <2>1, <2>2
<1>6. /\ r \o w \in Seq(Char) /\ Len(r \o w) = Len(r) + Len(w)
      /\ \A i \in 1..(Len(r) + Len(w)) : (r \o w)[i] = IF i <= Len(r) THEN r[i] ELSE w[i - Len(r)]
  BY <1>3, ConcatProperties
<1>7. /\ Len(b \o w) = Len(b) + Len(w)
      /\ \A i \in 1..(Len(b) + Len(w)) : (b \o w)[i] = IF i <= Len(b) THEN b[i] ELSE w[i - Len(b)]
  BY ConcatProperties
<1>8. ASSUME NEW i \in 1..Len(r \o w) PROVE (r \o w)[i] = (b \o w)[i + 2]
  <2>1. CASE i <= Len(r)
    <3>1. /\ i \in 1..Len(r) /\ i \in 1..(Len(r) + Len(w))
          /\ i + 2 \in 1..(Len(b) + Len(w)) /\ i + 2 <= Len(b)
      BY <1>1, <1>5, <1>6, <2>1
    <3> QED BY <1>5, <1>6, <1>7, <2>1, <3>1
  <2>2. CASE ~(i <= Len(r))
    <3>1. /\ i \in 1..(Len(r) + Len(w)) /\ i + 2 \in 1..(Len(b) + Len(w)) /\ ~(i + 2 <= Len(b))
          /\ i + 2 - Len(b) = i - Len(r)
      BY <1>1, <1>5, <1>6, <2>2
    <3> QED BY <1>6, <1>7, <2>2, <3>1
  <2> QED BY <2>1, <2>2
<1> QED BY <1>1, <1>3, <1>4, <1>5, <1>6, <1>7, <1>8

\* The browser takes a delta ...
LEMMA TokenTaken ==
    ASSUME NEW text \in Seq(1..MaxDeltas), NEW n \in 0..MaxDeltas, n > Len(text),
           NEW u \in Seq(Char), NEW v \in Seq(Char), OnItsWay(text, n, u),
           Len(v) = Len(u) - 2, \A i \in 1..Len(v) : v[i] = u[i + 2]
    PROVE  LET t == Append(text, Len(text) + 1) IN
           /\ t \in Seq(1..MaxDeltas)
           /\ OnItsWay(t, n, v)
           /\ Closed(t, n, v) => Closed(text, n, u)
           /\ \A e : EndsWith(text, n, u, e) => EndsWith(t, n, v, e)
<1> DEFINE m == n - Len(text)
           t == Append(text, Len(text) + 1)
<1>1. Len(text) \in Nat /\ n \in Nat /\ Len(text) + 1 \in 1..MaxDeltas /\ Len(u) \in Nat
  BY LenProperties, DeltasAssumption
<1>2. /\ m \in Nat /\ m >= 1 /\ Len(u) \in {2 * m, 2 * m + 2}
      /\ \A i \in 1..Len(text) : text[i] = i
      /\ \A i \in 1..m : u[2 * i - 1] = Token(Len(text) + i)
      /\ \A i \in 1..(m + 1) : 2 * i <= Len(u) => u[2 * i] = Newline
      /\ Len(u) = 2 * m + 2 => u[2 * m + 1] \in LastEvents
  BY <1>1 DEF OnItsWay
<1>3. /\ t \in Seq(1..MaxDeltas) /\ Len(t) = Len(text) + 1
      /\ \A i \in 1..Len(text) : t[i] = text[i]
      /\ t[Len(text) + 1] = Len(text) + 1
  BY <1>1, AppendProperties
<1>4. \A i \in 1..Len(t) : t[i] = i
  BY <1>1, <1>2, <1>3
<1> HIDE DEF t
<1>5. n - Len(t) = m - 1 /\ m - 1 \in Nat
  BY <1>1, <1>2, <1>3
<1>6. Len(v) \in {2 * (m - 1), 2 * (m - 1) + 2}
  BY <1>2
<1>7. ASSUME NEW i \in 1..(m - 1) PROVE v[2 * i - 1] = Token(Len(t) + i)
  <2>1. /\ 2 * i - 1 \in 1..Len(v) /\ 2 * i - 1 + 2 = 2 * (i + 1) - 1 /\ i + 1 \in 1..m
        /\ Len(t) + i = Len(text) + (i + 1)
    BY <1>1, <1>2, <1>3, <1>6
  <2>2. v[2 * i - 1] = u[2 * (i + 1) - 1]
    BY <2>1
  <2> QED BY <1>2, <2>1, <2>2
<1>8. ASSUME NEW i \in 1..(m - 1 + 1), 2 * i <= Len(v) PROVE v[2 * i] = Newline
  <2>1. /\ 2 * i \in 1..Len(v) /\ 2 * i + 2 = 2 * (i + 1) /\ i + 1 \in 1..(m + 1)
        /\ 2 * (i + 1) <= Len(u)
    BY <1>1, <1>2, <1>6, <1>8
  <2>2. v[2 * i] = u[2 * (i + 1)]
    BY <2>1
  <2> QED BY <1>2, <2>1, <2>2
<1>9. Len(v) = 2 * (m - 1) + 2 => Len(u) = 2 * m + 2 /\ v[2 * (m - 1) + 1] = u[2 * m + 1]
  <2> SUFFICES ASSUME Len(v) = 2 * (m - 1) + 2
               PROVE  Len(u) = 2 * m + 2 /\ v[2 * (m - 1) + 1] = u[2 * m + 1]
    OBVIOUS
  <2>1. /\ Len(u) = 2 * m + 2 /\ 2 * (m - 1) + 1 \in 1..Len(v) /\ 2 * (m - 1) + 1 + 2 = 2 * m + 1
    BY <1>1, <1>2
  <2> QED BY <2>1
<1>10. Len(u) = 2 * m + 2 => Len(v) = 2 * (m - 1) + 2
  BY <1>2
<1> HIDE DEF m
<1>11. OnItsWay(t, n, v)
  BY <1>2, <1>4, <1>5, <1>6, <1>7, <1>8, <1>9 DEF OnItsWay
<1>12. Closed(t, n, v) => Closed(text, n, u)
  BY <1>5, <1>9 DEF Closed, m
<1>13. \A e : EndsWith(text, n, u, e) => EndsWith(t, n, v, e)
  BY <1>5, <1>9, <1>10 DEF EndsWith, Closed, m
<1> QED BY <1>3, <1>11, <1>12, <1>13 DEF t

\* ... or the last event, after which nothing comes.
LEMMA LastTaken ==
    ASSUME NEW text \in Seq(1..MaxDeltas), NEW n \in 0..MaxDeltas, n = Len(text),
           NEW u \in Seq(Char), NEW v \in Seq(Char), OnItsWay(text, n, u), Closed(text, n, u),
           Len(v) = Len(u) - 2
    PROVE  OnItsWay(text, n, v) /\ ~Closed(text, n, v)
<1>1. n - Len(text) = 0 /\ Len(v) = 0 /\ \A i \in 1..Len(text) : text[i] = i
  BY LenProperties, DeltasAssumption DEF OnItsWay, Closed
<1> QED BY <1>1 DEF OnItsWay, Closed

\* At the end of the stream nothing is left.
LEMMA NothingLeft ==
    ASSUME NEW text \in Seq(1..MaxDeltas), NEW n \in 0..MaxDeltas,
           NEW b \in Seq(Char), OnItsWay(text, n, b \o << >>), ~HasLine(b)
    PROVE  b = << >> /\ n = Len(text) /\ ~Closed(text, n, b \o << >>)
<1>1. b \o << >> = b
  BY ConcatEmptySeq
<1>2. Len(b) \in Nat /\ DOMAIN b = 1..Len(b) /\ Len(text) \in Nat /\ n \in Nat
  BY LenProperties, DeltasAssumption
<1>3. PICK m : m = n - Len(text)
  OBVIOUS
<1>4. /\ m \in Nat /\ Len(b) \in {2 * m, 2 * m + 2}
      /\ \A i \in 1..(m + 1) : 2 * i <= Len(b) => b[2 * i] = Newline
  BY <1>1, <1>3 DEF OnItsWay
<1>5. ~(2 <= Len(b))
  <2> SUFFICES ASSUME 2 <= Len(b) PROVE FALSE
    OBVIOUS
  <2>1. 1 \in 1..(m + 1) /\ 2 * 1 = 2
    BY <1>4
  <2>2. b[2] = Newline
    BY <1>4, <2>1
  <2>3. 2 \in 1..Len(b)
    BY <1>2
  <2> QED BY <1>2, <2>2, <2>3 DEF HasLine
<1>6. m = 0 /\ Len(b) = 0
  <2>1. PICK l \in Nat : l = Len(b)
    BY <1>2
  <2>2. m \in Nat /\ l \in {2 * m, 2 * m + 2} /\ ~(2 <= l)
    BY <2>1, <1>4, <1>5
  <2>3. m = 0 /\ l = 0
    BY <2>2
  <2> QED BY <2>1, <2>3
<1>7. b = << >>
  BY <1>6, EmptySeq
<1>8. n = Len(text)
  BY <1>2, <1>3, <1>6
<1> QED BY <1>1, <1>2, <1>6, <1>7, <1>8 DEF Closed

\* Reading a piece leaves what was not taken as it was.
LEMMA PieceRead ==
    ASSUME NEW b \in Seq(Char), NEW w \in Seq(Char), NEW k \in Nat, k <= Len(w)
    PROVE  /\ b \o SubSeq(w, 1, k) \in Seq(Char)
           /\ SubSeq(w, k + 1, Len(w)) \in Seq(Char)
           /\ (b \o SubSeq(w, 1, k)) \o SubSeq(w, k + 1, Len(w)) = b \o w
<1> DEFINE read == SubSeq(w, 1, k)
           rest == SubSeq(w, k + 1, Len(w))
<1>1. Len(w) \in Nat /\ \A i \in 1..Len(w) : w[i] \in Char
  BY LenProperties, ElementOfSeq
<1>2. read \in Seq(Char) /\ rest \in Seq(Char)
  <2>1. (\A i \in 1..k : w[i] \in Char) /\ (\A i \in (k + 1)..Len(w) : w[i] \in Char)
    BY <1>1
  <2>2. k + 1 \in Int /\ Len(w) \in Int
    BY <1>1
  <2> QED BY <2>1, <2>2, SubSeqProperties
<1>3. read \o rest = w
  <2>1. 1 \in 1..(Len(w) + 1) /\ k \in (1 - 1)..Len(w) /\ Len(w) \in k..Len(w)
    BY <1>1
  <2>2. read \o rest = SubSeq(w, 1, Len(w))
    BY <2>1, ConcatAdjacentSubSeq
  <2> QED BY <2>2, SubSeqFull
<1> HIDE DEF read, rest
<1>4. (b \o read) \o rest = b \o (read \o rest)
  BY <1>2, ConcatAssociative
<1>5. b \o read \in Seq(Char)
  BY <1>2, ConcatProperties
<1> QED BY <1>2, <1>3, <1>4, <1>5 DEF read, rest

LEMMA LineAfter ==
    ASSUME NEW b \in Seq(Char), NEW w \in Seq(Char), NEW e \in Event
    PROVE  /\ b \o (w \o Line(e)) = (b \o w) \o Line(e)
           /\ b \o w \in Seq(Char) /\ w \o Line(e) \in Seq(Char)
<1>1. Line(e) \in Seq(Char)
  BY CharTypes DEF Line
<1>2. PICK l \in Seq(Char) : l = Line(e)
  BY <1>1
<1>3. b \o (w \o l) = (b \o w) \o l
  BY ConcatAssociative
<1>4. b \o w \in Seq(Char) /\ w \o l \in Seq(Char)
  BY ConcatProperties
<1> QED BY <1>2, <1>3, <1>4

\* Nothing said, nothing shown, nothing on its way.
LEMMA NothingYet == OnItsWay(<< >>, 0, << >> \o << >>) /\ ~Closed(<< >>, 0, << >> \o << >>)
<1>1. << >> \o << >> = << >>
  BY ConcatEmptySeq
<1>2. ASSUME NEW t, NEW u, Len(t) = 0, Len(u) = 0
      PROVE  OnItsWay(t, 0, u) /\ ~Closed(t, 0, u)
  <2>1. 0 - Len(t) = 0
    BY <1>2
  <2> QED BY <1>2, <2>1 DEF OnItsWay, Closed
<1>3. Len(<< >>) = 0
  BY EmptySeq
<1> QED BY <1>1, <1>2, <1>3

\* What each step makes of one question.

LEMMA HeardAtFirst ==
    Heard([shown |-> "nothing", text |-> << >>, buffer |-> << >>],
          [at |-> "idle", on |-> NoBuild, failedBy |-> NoBuild], << >>, "none", 0)
BY DEF Heard, NoBuild

LEMMA HeardAsked ==
    ASSUME NEW c \in Client, NEW s \in Server, NEW w, NEW o, NEW n,
           Heard(c, s, w, o, n), c.shown = "nothing"
    PROVE  /\ Heard([c EXCEPT !.shown = "asking"], [s EXCEPT !.at = "embed"], w, "open", n)
           /\ Heard([c EXCEPT !.shown = "told"], s, w, o, n)
<1>1. /\ s.at = "idle" /\ o = "none" /\ n = 0 /\ w = << >>
      /\ c.text = << >> /\ c.buffer = << >> /\ s.failedBy = NoBuild
  BY DEF Heard
<1>2. [s EXCEPT !.at = "embed"].at = "embed" /\ [s EXCEPT !.at = "embed"].failedBy = s.failedBy
  BY DEF Server
<1>3. \A x : /\ [c EXCEPT !.shown = x].shown = x /\ [c EXCEPT !.shown = x].text = c.text
             /\ [c EXCEPT !.shown = x].buffer = c.buffer
  BY DEF Client
<1>5. OnItsWay(<< >>, 0, << >> \o << >>) /\ ~Closed(<< >>, 0, << >> \o << >>)
  BY NothingYet
<1> DEFINE ca == [c EXCEPT !.shown = "asking"]
           ct == [c EXCEPT !.shown = "told"]
           se == [s EXCEPT !.at = "embed"]
<1>6. /\ ca.shown = "asking" /\ ca.text = << >> /\ ca.buffer = << >>
      /\ ct.shown = "told" /\ se.at = "embed" /\ se.failedBy = NoBuild
  BY <1>1, <1>2, <1>3
<1> HIDE DEF ca, ct, se
<1>7. Heard(ca, se, w, "open", n)
  BY <1>1, <1>5, <1>6 DEF Heard
<1>8. Heard(ct, s, w, o, n)
  BY <1>1, <1>6 DEF Heard
<1> QED BY <1>7, <1>8 DEF ca, ct, se

\* The server at work: nothing ended, nothing failed.
LEMMA AtWork ==
    ASSUME NEW c, NEW s, NEW w, NEW o, NEW n, Heard(c, s, w, o, n), s.at \notin {"idle", "over"}
    PROVE  /\ s.failedBy = NoBuild /\ o # "ended"
           /\ c.shown \notin {"nothing", "answered", "noAnswer"}
           /\ c.shown \in {"asking", "streaming"} =>
                 OnItsWay(c.text, n, c.buffer \o w) /\ ~Closed(c.text, n, c.buffer \o w)
BY DEF Heard

LEMMA HeardOfWork ==
    ASSUME NEW c, NEW s, NEW w, NEW o, NEW n, Heard(c, s, w, o, n), s.at \notin {"idle", "over"},
           NEW t, t.at # "idle", t.failedBy = NoBuild
    PROVE  Heard(c, t, w, o, n)
BY AtWork DEF Heard

\* Every question that fails while the server is at work, whatever failed.
LEMMA HeardError ==
    ASSUME NEW c \in Client, NEW s, NEW w \in Seq(Char), NEW o, NEW n \in 0..MaxDeltas,
           Heard(c, s, w, o, n), s.at \notin {"idle", "over"},
           NEW t, t.at = "over", NEW p
    PROVE  Heard(c, t, w \o Line(Error), p, n)
<1>1. /\ c.shown \notin {"nothing", "answered", "noAnswer"}
      /\ c.shown \in {"asking", "streaming"} =>
            OnItsWay(c.text, n, c.buffer \o w) /\ ~Closed(c.text, n, c.buffer \o w)
  BY AtWork
<1>2. c.text \in Seq(1..MaxDeltas) /\ c.buffer \in Seq(Char) /\ Error \in LastEvents
  BY DEF Client, LastEvents
<1>3. /\ c.buffer \o (w \o Line(Error)) = (c.buffer \o w) \o Line(Error)
      /\ c.buffer \o w \in Seq(Char)
  BY <1>2, CharTypes, LineAfter
<1>4. ASSUME c.shown \in {"asking", "streaming"}
      PROVE  /\ OnItsWay(c.text, n, c.buffer \o (w \o Line(Error)))
             /\ EndsWith(c.text, n, c.buffer \o (w \o Line(Error)), Error)
  <2>1. OnItsWay(c.text, n, c.buffer \o w) /\ ~Closed(c.text, n, c.buffer \o w)
    BY <1>1, <1>4
  <2>2. /\ OnItsWay(c.text, n, (c.buffer \o w) \o Line(Error))
        /\ EndsWith(c.text, n, (c.buffer \o w) \o Line(Error), Error)
    BY <1>2, <1>3, <2>1, LastAdded
  <2> QED BY <1>3, <2>2
<1>5. c.shown = "asking" => c.text = << >>
  BY DEF Heard
<1>6. c.shown \in {"asking", "streaming"} =>
          /\ OnItsWay(c.text, n, c.buffer \o (w \o Line(Error)))
          /\ EndsWith(c.text, n, c.buffer \o (w \o Line(Error)), Error)
  BY <1>4
<1> QED BY <1>1, <1>5, <1>6 DEF Heard

LEMMA HeardDelta ==
    ASSUME NEW c \in Client, NEW s, NEW w \in Seq(Char), NEW o, NEW n \in 0..MaxDeltas,
           n < MaxDeltas, Heard(c, s, w, o, n), s.at = "stream"
    PROVE  Heard(c, s, w \o Line(Token(n + 1)), o, n + 1)
<1> DEFINE l == Line(Token(n + 1))
<1>1. /\ s.failedBy = NoBuild /\ o # "ended"
      /\ c.shown \notin {"nothing", "answered", "noAnswer"}
      /\ c.shown \in {"asking", "streaming"} =>
            OnItsWay(c.text, n, c.buffer \o w) /\ ~Closed(c.text, n, c.buffer \o w)
  BY AtWork
<1>2. c.text \in Seq(1..MaxDeltas) /\ c.buffer \in Seq(Char)
  BY DEF Client
<1>3. c.buffer \o (w \o l) = (c.buffer \o w) \o l /\ c.buffer \o w \in Seq(Char)
  <2>1. n + 1 \in 1..MaxDeltas
    BY DeltasAssumption
  <2> QED BY <1>2, <2>1, CharTypes, LineAfter
<1>4. c.shown \in {"asking", "streaming"} =>
          /\ OnItsWay(c.text, n + 1, c.buffer \o (w \o l))
          /\ ~Closed(c.text, n + 1, c.buffer \o (w \o l))
  <2> SUFFICES ASSUME c.shown \in {"asking", "streaming"}
               PROVE  /\ OnItsWay(c.text, n + 1, c.buffer \o (w \o l))
                      /\ ~Closed(c.text, n + 1, c.buffer \o (w \o l))
    OBVIOUS
  <2>1. OnItsWay(c.text, n, c.buffer \o w) /\ ~Closed(c.text, n, c.buffer \o w)
    BY <1>1
  <2>2. /\ OnItsWay(c.text, n + 1, (c.buffer \o w) \o l)
        /\ ~Closed(c.text, n + 1, (c.buffer \o w) \o l)
    BY <1>2, <1>3, <2>1, TokenAdded
  <2> QED BY <1>3, <2>2
<1>5. c.shown = "asking" => c.text = << >>
  BY DEF Heard
<1> HIDE DEF l
<1>6. Heard(c, s, w \o l, o, n + 1)
  BY <1>1, <1>4, <1>5 DEF Heard
<1> QED BY <1>6 DEF l

LEMMA HeardDone ==
    ASSUME NEW c \in Client, NEW s \in Server, NEW w \in Seq(Char), NEW o, NEW n \in 0..MaxDeltas,
           Heard(c, s, w, o, n), s.at = "stream", NEW p
    PROVE  Heard(c, [s EXCEPT !.at = "over"], w \o Line([type |-> "done"]), p, n)
<1> DEFINE l == Line([type |-> "done"])
           t == [s EXCEPT !.at = "over"]
<1>1. /\ s.failedBy = NoBuild
      /\ c.shown \notin {"nothing", "answered", "noAnswer"}
      /\ c.shown \in {"asking", "streaming"} =>
            OnItsWay(c.text, n, c.buffer \o w) /\ ~Closed(c.text, n, c.buffer \o w)
  BY AtWork
<1>2. c.text \in Seq(1..MaxDeltas) /\ c.buffer \in Seq(Char) /\ [type |-> "done"] \in LastEvents
  BY DEF Client, LastEvents
<1>3. c.buffer \o (w \o l) = (c.buffer \o w) \o l /\ c.buffer \o w \in Seq(Char)
  BY <1>2, CharTypes, LineAfter
<1>4. c.shown \in {"asking", "streaming"} => OnItsWay(c.text, n, c.buffer \o (w \o l))
  <2> SUFFICES ASSUME c.shown \in {"asking", "streaming"}
               PROVE  OnItsWay(c.text, n, c.buffer \o (w \o l))
    OBVIOUS
  <2>1. OnItsWay(c.text, n, c.buffer \o w) /\ ~Closed(c.text, n, c.buffer \o w)
    BY <1>1
  <2>2. OnItsWay(c.text, n, (c.buffer \o w) \o l)
    BY <1>2, <1>3, <2>1, LastAdded
  <2> QED BY <1>3, <2>2
<1>5. c.shown = "asking" => c.text = << >>
  BY DEF Heard
<1>6. t.at = "over" /\ t.failedBy = NoBuild
  BY <1>1 DEF Server
<1> HIDE DEF l, t
<1>7. Heard(c, t, w \o l, p, n)
  BY <1>1, <1>4, <1>5, <1>6 DEF Heard
<1> QED BY <1>7 DEF l, t

\* A connection that is cut, on either side.
LEMMA HeardCut ==
    ASSUME NEW c, NEW s, NEW w, NEW o, NEW n, Heard(c, s, w, o, n), c.shown # "nothing"
    PROVE  Heard(c, s, w, "cut", n)
BY DEF Heard

LEMMA HeardTold ==
    ASSUME NEW c \in Client, NEW s, NEW w, NEW o, NEW n, Heard(c, s, w, o, n),
           c.shown \in {"asking", "streaming"}
    PROVE  Heard([c EXCEPT !.shown = "told"], s, w, o, n)
<1> DEFINE d == [c EXCEPT !.shown = "told"]
<1>1. d.shown = "told"
  BY DEF Client
<1> HIDE DEF d
<1>2. Heard(d, s, w, o, n)
  BY <1>1 DEF Heard
<1> QED BY <1>2 DEF d

LEMMA HeardPiece ==
    ASSUME NEW c \in Client, NEW s, NEW w \in Seq(Char), NEW o, NEW n, NEW k \in Nat, k <= Len(w),
           Heard(c, s, w, o, n), c.shown \in {"asking", "streaming"}
    PROVE  LET d == [c EXCEPT !.buffer = @ \o SubSeq(w, 1, k)] IN
           d \in Client /\ Heard(d, s, SubSeq(w, k + 1, Len(w)), o, n)
<1> DEFINE d == [c EXCEPT !.buffer = c.buffer \o SubSeq(w, 1, k)]
           rest == SubSeq(w, k + 1, Len(w))
<1>1. c.buffer \in Seq(Char)
  BY DEF Client
<1>2. /\ c.buffer \o SubSeq(w, 1, k) \in Seq(Char)
      /\ (c.buffer \o SubSeq(w, 1, k)) \o rest = c.buffer \o w
  BY <1>1, PieceRead
<1>3. /\ d \in Client /\ d.shown = c.shown /\ d.text = c.text
      /\ d.buffer = c.buffer \o SubSeq(w, 1, k)
  BY <1>2 DEF Client
<1>4. d.buffer \o rest = c.buffer \o w
  BY <1>2, <1>3
<1> HIDE DEF d, rest
<1>5. Heard(d, s, rest, o, n)
  BY <1>3, <1>4 DEF Heard
<1> QED BY <1>3, <1>5 DEF d, rest

LEMMA EventEffect ==
    /\ \A c, e : FlushLine(c, <<e>>) = OnEvent(c, e)
    /\ \A c : FlushLine(c, << >>) = c
    /\ \A c, i : OnEvent(c, Token(i))
                   = [c EXCEPT !.shown = "streaming", !.text = Append(c.text, i)]
    /\ \A c : OnEvent(c, Error) = [c EXCEPT !.shown = "told"]
    /\ \A c : OnEvent(c, [type |-> "done"]) = c
<1>1. ASSUME NEW c, NEW e PROVE FlushLine(c, <<e>>) = OnEvent(c, e)
  <2>1. <<e>> # << >> /\ Head(<<e>>) = e
    OBVIOUS
  <2> QED BY <2>1 DEF FlushLine
<1>2. ASSUME NEW c PROVE FlushLine(c, << >>) = c
  BY DEF FlushLine
<1>3. ASSUME NEW c, NEW i
      PROVE  OnEvent(c, Token(i))
               = [c EXCEPT !.shown = "streaming", !.text = Append(c.text, i)]
  <2>1. Token(i).type = "token" /\ Token(i).delta = i
    BY DEF Token
  <2> QED BY <2>1 DEF OnEvent
<1>4. ASSUME NEW c PROVE OnEvent(c, Error) = [c EXCEPT !.shown = "told"]
  <2>1. Error.type = "error"
    BY DEF Error
  <2> QED BY <2>1 DEF OnEvent
<1>5. ASSUME NEW c PROVE OnEvent(c, [type |-> "done"]) = c
  <2> DEFINE e == [type |-> "done"]
  <2>1. e.type = "done"
    OBVIOUS
  <2> HIDE DEF e
  <2>2. OnEvent(c, e) = c
    BY <2>1 DEF OnEvent
  <2> QED BY <2>2 DEF e
<1> QED BY <1>1, <1>2, <1>3, <1>4, <1>5

LEMMA HeardLine ==
    ASSUME NEW c \in Client, NEW s, NEW w \in Seq(Char), NEW o, NEW n \in 0..MaxDeltas,
           Heard(c, s, w, o, n), c.shown \in {"asking", "streaming"}, HasLine(c.buffer)
    PROVE  LET d == FlushLine([c EXCEPT !.buffer = Rest(c.buffer)],
                              SubSeq(c.buffer, 1, LineEnd(c.buffer) - 1)) IN
           d \in Client /\ Heard(d, s, w, o, n)
<1> DEFINE text == c.text
           b == c.buffer
           u == b \o w
           v == Rest(b) \o w
           x == [c EXCEPT !.buffer = Rest(b)]
           d == FlushLine(x, SubSeq(b, 1, LineEnd(b) - 1))
<1>1. text \in Seq(1..MaxDeltas) /\ b \in Seq(Char) /\ Len(text) \in Nat /\ n \in Nat
  BY LenProperties, DeltasAssumption DEF Client
<1>2. /\ OnItsWay(text, n, u)
      /\ Closed(text, n, u) => s.at = "over"
      /\ s.failedBy # NoBuild => EndsWith(text, n, u, Error)
      /\ s.failedBy # NoBuild => s.at = "over"
      /\ o = "ended" => s.at = "over"
      /\ s.at # "idle"
  BY DEF Heard
<1>3. /\ LineEnd(b) = 2 /\ Len(b) >= 2
      /\ b[1] = u[1]
      /\ SubSeq(b, 1, LineEnd(b) - 1) = <<b[1]>>
      /\ n > Len(text) => b[1] = Token(Len(text) + 1)
      /\ n = Len(text) => b[1] \in LastEvents /\ Closed(text, n, u)
  BY <1>1, <1>2, FirstLine
<1>4. /\ Rest(b) \in Seq(Char) /\ v \in Seq(Char) /\ u \in Seq(Char)
      /\ Len(v) = Len(u) - 2
      /\ \A i \in 1..Len(v) : v[i] = u[i + 2]
  BY <1>1, <1>3, LineGone, ConcatProperties
<1>5. x \in Client /\ x.shown = c.shown /\ x.text = text /\ x.buffer = Rest(b)
  BY <1>4 DEF Client
<1> HIDE DEF x, b, text
<1>6. d = OnEvent(x, b[1])
  <2>1. FlushLine(x, <<b[1]>>) = OnEvent(x, b[1])
    BY EventEffect
  <2> QED BY <1>3, <2>1
<1>7. n > Len(text) \/ n = Len(text)
  <2>1. n - Len(text) \in Nat
    BY <1>2 DEF OnItsWay
  <2> QED BY <1>1, <2>1
<1> HIDE DEF d
<1>8. CASE n > Len(text)
  <2> DEFINE t == Append(text, Len(text) + 1)
  <2>1. /\ t \in Seq(1..MaxDeltas)
        /\ OnItsWay(t, n, v)
        /\ Closed(t, n, v) => Closed(text, n, u)
        /\ \A e : EndsWith(text, n, u, e) => EndsWith(t, n, v, e)
    BY <1>1, <1>2, <1>4, <1>8, TokenTaken
  <2>2. d = [x EXCEPT !.shown = "streaming", !.text = t]
    <3>1. d = OnEvent(x, Token(Len(text) + 1))
      BY <1>3, <1>6, <1>8
    <3>2. d = [x EXCEPT !.shown = "streaming", !.text = Append(x.text, Len(text) + 1)]
      BY <3>1, EventEffect
    <3> QED BY <3>2, <1>5
  <2> HIDE DEF t
  <2>3. d \in Client /\ d.shown = "streaming" /\ d.text = t /\ d.buffer = Rest(b)
    BY <1>5, <2>1, <2>2 DEF Client
  <2>4. d.buffer \o w = v
    BY <2>3
  <2> HIDE DEF u, v
  <2>5. Heard(d, s, w, o, n)
    BY <1>2, <2>1, <2>3, <2>4 DEF Heard
  <2> QED BY <2>3, <2>5 DEF text, b, x, d
<1>9. CASE n = Len(text) /\ b[1] = Error
  <2>1. d = [x EXCEPT !.shown = "told"]
    BY <1>6, <1>9, EventEffect
  <2>2. d \in Client /\ d.shown = "told"
    BY <1>5, <2>1 DEF Client
  <2> HIDE DEF u, v
  <2>3. Heard(d, s, w, o, n)
    BY <1>2, <2>2 DEF Heard
  <2> QED BY <2>2, <2>3 DEF text, b, x, d
<1>10. CASE n = Len(text) /\ b[1] = [type |-> "done"]
  <2>1. d = x
    BY <1>6, <1>10, EventEffect
  <2>2. OnItsWay(text, n, v) /\ ~Closed(text, n, v)
    BY <1>1, <1>3, <1>4, <1>10, <1>2, LastTaken
  <2>3. s.failedBy = NoBuild
    <3>1. 2 * (n - Len(text)) + 1 = 1
      BY <1>1, <1>10
    <3>2. EndsWith(text, n, u, Error) => u[1] = Error
      BY <3>1 DEF EndsWith
    <3>3. u[1] = [type |-> "done"]
      BY <1>3, <1>10
    <3>4. Error # [type |-> "done"]
      BY DEF Error
    <3> QED BY <1>2, <3>2, <3>3, <3>4
  <2>4. c.shown = "asking" => text = << >>
    BY DEF Heard, text
  <2>5. x.buffer \o w = v
    BY <1>5
  <2> HIDE DEF u, v
  <2>6. Heard(x, s, w, o, n)
    BY <1>2, <1>5, <2>2, <2>3, <2>4, <2>5 DEF Heard
  <2> QED BY <1>5, <2>1, <2>6 DEF text, b, x, d
<1> QED
  <2>1. n = Len(text) => b[1] = Error \/ b[1] = [type |-> "done"]
    BY <1>3 DEF LastEvents
  <2> QED BY <1>7, <1>8, <1>9, <1>10, <2>1

LEMMA HeardEnd ==
    ASSUME NEW c \in Client, NEW s, NEW n \in 0..MaxDeltas,
           Heard(c, s, << >>, "ended", n), c.shown \in {"asking", "streaming"}, ~HasLine(c.buffer)
    PROVE  LET f == FlushLine([c EXCEPT !.buffer = << >>], c.buffer)
               d == [f EXCEPT !.shown = CASE f.shown = "told" -> "told"
                                          [] f.shown = "streaming" -> "answered"
                                          [] OTHER -> "noAnswer"]
           IN  d \in Client /\ Heard(d, s, << >>, "ended", n)
<1> DEFINE x == [c EXCEPT !.buffer = << >>]
           f == FlushLine(x, c.buffer)
           y == CASE f.shown = "told" -> "told" [] f.shown = "streaming" -> "answered"
                  [] OTHER -> "noAnswer"
           d == [f EXCEPT !.shown = y]
<1>1. c.text \in Seq(1..MaxDeltas) /\ c.buffer \in Seq(Char)
  BY DEF Client
<1>2. /\ OnItsWay(c.text, n, c.buffer \o << >>)
      /\ s.failedBy # NoBuild => EndsWith(c.text, n, c.buffer \o << >>, Error)
      /\ s.at = "over"
      /\ c.shown = "asking" => c.text = << >>
  BY DEF Heard
<1>3. c.buffer = << >> /\ n = Len(c.text) /\ ~Closed(c.text, n, c.buffer \o << >>)
  BY <1>1, <1>2, NothingLeft
<1>4. s.failedBy = NoBuild
  BY <1>2, <1>3 DEF EndsWith
<1>5. \A i \in 1..n : c.text[i] = i
  BY <1>2, <1>3 DEF OnItsWay
<1>6. << >> \in Seq(Char)
  BY EmptySeq
<1>7. x \in Client /\ x.shown = c.shown /\ x.text = c.text
  BY <1>6 DEF Client
<1>8. f = x
  BY <1>3, EventEffect
<1>9. y = IF c.shown = "streaming" THEN "answered" ELSE "noAnswer"
  BY <1>7, <1>8
<1>10. d \in Client /\ d.shown = y /\ d.text = c.text
  <2>1. y \in {"answered", "noAnswer"}
    BY <1>9
  <2> HIDE DEF y, x, f
  <2> QED BY <1>7, <1>8, <2>1 DEF Client
<1> HIDE DEF d, y, f, x
<1>11. c.shown = "asking" => n = 0
  BY <1>2, <1>3, EmptySeq
<1>12. Heard(d, s, << >>, "ended", n)
  BY <1>2, <1>3, <1>4, <1>5, <1>9, <1>10, <1>11 DEF Heard
<1> QED BY <1>10, <1>12 DEF d, y, f, x

\* How many builds are over, when none but the last may run.
LEMMA OverCount ==
    ASSUME NEW B \in Builds, \A b \in DOMAIN B : B[b] = "running" => b = Len(B)
    PROVE  LET n == Cardinality({b \in DOMAIN B : B[b] # "running"}) IN
           n \in 0..Len(B) /\ \A b \in DOMAIN B : B[b] = "running" => n < b
<1> DEFINE over == {b \in DOMAIN B : B[b] # "running"}
<1>1. PICK l \in Nat : l = Len(B)
  BY LenProperties DEF Builds
<1>2. DOMAIN B = 1..l
  BY <1>1, LenProperties DEF Builds
<1>3. ASSUME l > 0, B[l] = "running" PROVE Cardinality(over) = l - 1
  <2>1. over = 1..(l - 1)
    BY <1>1, <1>2, <1>3
  <2>2. PICK k \in Nat : k = l - 1
    BY <1>3
  <2>3. Cardinality(1..k) = IF 1 > k THEN 0 ELSE k - 1 + 1
    BY FS_Interval
  <2>4. Cardinality(1..k) = k
    BY <2>3
  <2> QED BY <2>1, <2>2, <2>4
<1>4. ASSUME ~(l > 0 /\ B[l] = "running")
      PROVE  Cardinality(over) = l /\ \A b \in DOMAIN B : B[b] # "running"
  <2>1. \A b \in DOMAIN B : B[b] # "running"
    BY <1>1, <1>2, <1>4
  <2>2. over = 1..l
    BY <1>2, <2>1
  <2>3. Cardinality(1..l) = IF 1 > l THEN 0 ELSE l - 1 + 1
    BY FS_Interval
  <2>4. Cardinality(1..l) = l
    BY <2>3
  <2> QED BY <2>1, <2>2, <2>4
<1>5. \A b \in DOMAIN B : B[b] = "running" => b = l
  BY <1>1
<1> HIDE DEF over
<1>6. Cardinality(over) \in 0..l /\ \A b \in DOMAIN B : B[b] = "running" => Cardinality(over) < b
  BY <1>3, <1>4, <1>5
<1> QED BY <1>1, <1>6 DEF over

LEMMA ChatStarts == ChatInit => Chatting
<1> SUFFICES ASSUME ChatInit PROVE Chatting
  OBVIOUS
<1>1. NoBuild = 0 /\ 0 \in 0..MaxBuilds /\ 0 \in 0..MaxDeltas
  BY DeltasAssumption, BuildsAssumption DEF NoBuild
<1>2. << >> \in Seq(Char) /\ << >> \in Seq(1..MaxDeltas) /\ << >> \in Builds /\ Len(<< >>) = 0
  BY EmptySeq DEF Builds
<1>3. ChatTypeOK
  BY <1>1, <1>2 DEF ChatInit, ChatTypeOK, Server, Client, Builds
<1>4. EachHeard
  BY HeardAtFirst DEF ChatInit, EachHeard
<1>5. Building
  <2>1. DOMAIN build = {}
    BY DEF ChatInit
  <2>2. /\ ready = NoBuild /\ Len(build) = 0
        /\ \A q \in Questions : asked[q] = 0 /\ server[q].failedBy = NoBuild
    BY <1>2 DEF ChatInit
  <2> QED BY <1>1, <2>1, <2>2, BuildsAssumption DEF Building, FailureIsFresh
<1> QED BY <1>3, <1>4, <1>5 DEF Chatting

LEMMA EachNext ==
    (\A p \in Questions : Heard(client'[p], server'[p], wire'[p], open'[p], said'[p]))
        => EachHeard'
BY DEF EachHeard, Heard, OnItsWay, Closed, EndsWith

LEMMA BuildingKept ==
    ASSUME Building, UNCHANGED <<ready, build, asked>>,
           \A q \in Questions : server'[q].failedBy = server[q].failedBy
    PROVE  Building'
BY DEF Building, FailureIsFresh

LEMMA ChatTypes ==
    ASSUME ChatTypeOK, NEW q \in Questions
    PROVE  /\ client[q] \in Client /\ server[q] \in Server /\ wire[q] \in Seq(Char)
           /\ open[q] \in {"none", "open", "ended", "cut"}
           /\ said[q] \in 0..MaxDeltas /\ asked[q] \in 0..MaxBuilds
BY DEF ChatTypeOK

LEMMA ChatAsks ==
    ASSUME Chatting, NEW q \in Questions, NEW body \in ChatRequest, AskQuestion(q, body)
    PROVE  Chatting'
<1> DEFINE n == Cardinality({b \in DOMAIN build : build[b] # "running"})
           x == IF body = "valid" THEN "asking" ELSE "told"
<1>1. ChatTypeOK /\ EachHeard /\ Building
  BY DEF Chatting
<1>2. /\ client[q].shown = "nothing"
      /\ client' = [client EXCEPT ![q].shown = x]
      /\ body = "valid" => /\ server' = [server EXCEPT ![q].at = "embed"]
                           /\ open' = [open EXCEPT ![q] = "open"]
      /\ body # "valid" => UNCHANGED <<server, open>>
      /\ asked' = [asked EXCEPT ![q] = n]
      /\ UNCHANGED <<configured, ready, build, wire, said>>
  BY DEF AskQuestion
<1>3. n \in 0..Len(build) /\ \A b \in DOMAIN build : build[b] = "running" => n < b
  <2>1. build \in Builds
    BY <1>1 DEF ChatTypeOK, Builds
  <2>2. \A b \in DOMAIN build : build[b] = "running" => b = Len(build)
    <3> SUFFICES ASSUME NEW b \in DOMAIN build, build[b] = "running" PROVE b = Len(build)
      OBVIOUS
    <3>1. b = ready /\ b # NoBuild
      <4>1. DOMAIN build = 1..Len(build) /\ Len(build) \in Nat
        BY <2>1, LenProperties DEF Builds
      <4> QED BY <1>1, <4>1 DEF Building, NoBuild
    <3> QED BY <1>1, <3>1 DEF Building
  <2> QED BY <2>1, <2>2, OverCount
<1> HIDE DEF n
<1>4. Len(build) \in Nat /\ Len(build) <= MaxBuilds /\ n \in 0..MaxBuilds
  <2>1. Len(build) \in Nat
    BY <1>1, LenProperties DEF ChatTypeOK
  <2> QED BY <1>1, <1>3, <2>1, BuildsAssumption DEF Building
<1>5. ChatTypeOK'
  <2>1. client' \in [Questions -> Client]
    <3>1. x \in {"asking", "told"}
      OBVIOUS
    <3> HIDE DEF x
    <3>2. client \in [Questions -> Client] /\ client[q] \in Client
      BY <1>1 DEF ChatTypeOK
    <3>3. [client[q] EXCEPT !.shown = x] \in Client
      BY <3>1, <3>2 DEF Client
    <3> QED BY <1>2, <3>2, <3>3
  <2>2. server' \in [Questions -> Server]
    <3>1. CASE body = "valid"
      <4>1. server \in [Questions -> Server] /\ server' = [server EXCEPT ![q].at = "embed"]
        BY <1>1, <1>2, <3>1 DEF ChatTypeOK
      <4>2. [server[q] EXCEPT !.at = "embed"] \in Server
        BY <4>1 DEF Server
      <4> QED BY <4>1, <4>2
    <3>2. CASE body # "valid"
      BY <1>1, <1>2, <3>2 DEF ChatTypeOK
    <3> QED BY <3>1, <3>2
  <2>3. open' \in [Questions -> {"none", "open", "ended", "cut"}]
    BY <1>1, <1>2 DEF ChatTypeOK
  <2>4. asked' \in [Questions -> 0..MaxBuilds]
    BY <1>1, <1>2, <1>4 DEF ChatTypeOK
  <2> QED BY <1>1, <1>2, <2>1, <2>2, <2>3, <2>4 DEF ChatTypeOK
<1>6. EachHeard'
  <2> SUFFICES ASSUME NEW p \in Questions
               PROVE  Heard(client'[p], server'[p], wire'[p], open'[p], said'[p])
    BY EachNext
  <2>1. Heard(client[p], server[p], wire[p], open[p], said[p])
    BY <1>1 DEF EachHeard
  <2>2. wire'[p] = wire[p] /\ said'[p] = said[p]
    BY <1>2
  <2>3. CASE p # q
    <3>1. client'[p] = client[p] /\ server'[p] = server[p] /\ open'[p] = open[p]
      BY <1>1, <1>2, <2>3 DEF ChatTypeOK
    <3> QED BY <2>1, <2>2, <3>1
  <2>4. CASE p = q
    <3>1. client[q] \in Client /\ server[q] \in Server
      BY <1>1, ChatTypes
    <3>2. /\ Heard([client[q] EXCEPT !.shown = "asking"], [server[q] EXCEPT !.at = "embed"],
                   wire[q], "open", said[q])
          /\ Heard([client[q] EXCEPT !.shown = "told"], server[q], wire[q], open[q], said[q])
      BY <1>2, <2>1, <2>4, <3>1, HeardAsked
    <3>3. CASE body = "valid"
      <4>1. /\ client'[q] = [client[q] EXCEPT !.shown = "asking"]
            /\ server'[q] = [server[q] EXCEPT !.at = "embed"] /\ open'[q] = "open"
        BY <1>1, <1>2, <3>3 DEF ChatTypeOK
      <4> QED BY <2>2, <2>4, <3>2, <4>1
    <3>4. CASE body # "valid"
      <4>1. /\ client'[q] = [client[q] EXCEPT !.shown = "told"]
            /\ server'[q] = server[q] /\ open'[q] = open[q]
        BY <1>1, <1>2, <3>4 DEF ChatTypeOK
      <4> QED BY <2>2, <2>4, <3>2, <4>1
    <3> QED BY <3>3, <3>4
  <2> QED BY <2>3, <2>4
<1>7. Building'
  <2>1. \A p \in Questions : server'[p].failedBy = server[p].failedBy
    <3>1. CASE body = "valid"
      <4>1. server \in [Questions -> Server] /\ server' = [server EXCEPT ![q].at = "embed"]
        BY <1>1, <1>2, <3>1 DEF ChatTypeOK
      <4>2. [server[q] EXCEPT !.at = "embed"].failedBy = server[q].failedBy
        BY <4>1 DEF Server
      <4> QED BY <4>1, <4>2
    <3>2. CASE body # "valid"
      BY <1>1, <1>2, <3>2 DEF ChatTypeOK
    <3> QED BY <3>1, <3>2
  <2>2. \A p \in Questions : asked'[p] = IF p = q THEN n ELSE asked[p]
    BY <1>1, <1>2 DEF ChatTypeOK
  <2>3. server[q].failedBy = NoBuild
    <3>1. Heard(client[q], server[q], wire[q], open[q], said[q])
      BY <1>1 DEF EachHeard
    <3> QED BY <1>2, <3>1 DEF Heard
  <2> QED BY <1>1, <1>2, <1>3, <1>4, <2>1, <2>2, <2>3 DEF Building, FailureIsFresh
<1> QED BY <1>5, <1>6, <1>7 DEF Chatting

\* Steps of the server by which no answer changes ...
LEMMA WorkGoesOn ==
    ASSUME Chatting, UNCHANGED <<wire, open, client, said>>,
           \A p \in Questions : \/ server'[p] = server[p]
                                \/ /\ server[p].at \notin {"idle", "over"}
                                   /\ server'[p].at # "idle" /\ server'[p].failedBy = NoBuild
    PROVE  EachHeard'
<1> SUFFICES ASSUME NEW p \in Questions
             PROVE  Heard(client'[p], server'[p], wire'[p], open'[p], said'[p])
  BY EachNext
<1>1. Heard(client[p], server[p], wire[p], open[p], said[p])
  BY DEF Chatting, EachHeard
<1>2. Heard(client[p], server'[p], wire[p], open[p], said[p])
  BY <1>1, HeardOfWork
<1> QED BY <1>2

\* ... and by which some questions fail.
LEMMA SomeFail ==
    ASSUME Chatting, NEW qs, ErrorTo(qs), UNCHANGED <<client, said>>,
           \A p \in Questions :
               IF p \in qs THEN server[p].at \notin {"idle", "over"} /\ server'[p].at = "over"
               ELSE server'[p] = server[p]
    PROVE  /\ EachHeard'
           /\ wire' \in [Questions -> Seq(Char)]
           /\ open' \in [Questions -> {"none", "open", "ended", "cut"}]
<1>1. ChatTypeOK /\ EachHeard
  BY DEF Chatting
<1>2. /\ wire' = [p \in Questions |-> IF p \in qs THEN wire[p] \o Line(Error) ELSE wire[p]]
      /\ open' = [p \in Questions |-> IF p \in qs /\ open[p] = "open" THEN "ended" ELSE open[p]]
  BY DEF ErrorTo
<1>3. open' \in [Questions -> {"none", "open", "ended", "cut"}]
  BY <1>1, <1>2 DEF ChatTypeOK
<1>4. wire' \in [Questions -> Seq(Char)]
  <2>1. \A p \in Questions : wire[p] \o Line(Error) \in Seq(Char) /\ wire[p] \in Seq(Char)
    <3>1. Error \in Event
      BY CharTypes DEF LastEvents
    <3> QED BY <1>1, <3>1, ChatTypes, LineAfter
  <2> QED BY <1>2, <2>1
<1>5. EachHeard'
  <2> SUFFICES ASSUME NEW p \in Questions
               PROVE  Heard(client'[p], server'[p], wire'[p], open'[p], said'[p])
    BY EachNext
  <2>1. Heard(client[p], server[p], wire[p], open[p], said[p])
    BY <1>1 DEF EachHeard
  <2>2. CASE p \in qs
    <3>1. /\ client[p] \in Client /\ wire[p] \in Seq(Char) /\ said[p] \in 0..MaxDeltas
          /\ wire'[p] = wire[p] \o Line(Error)
      BY <1>1, <1>2, <2>2, ChatTypes
    <3>2. server[p].at \notin {"idle", "over"} /\ server'[p].at = "over"
      BY <2>2
    <3>3. Heard(client[p], server'[p], wire[p] \o Line(Error), open'[p], said[p])
      BY <2>1, <3>1, <3>2, HeardError
    <3> QED BY <3>1, <3>3
  <2>3. CASE p \notin qs
    <3>1. wire'[p] = wire[p] /\ open'[p] = open[p] /\ server'[p] = server[p]
      BY <1>2, <2>3
    <3> QED BY <2>1, <3>1
  <2> QED BY <2>2, <2>3
<1> QED BY <1>3, <1>4, <1>5

\* One question's place changes, and nothing it failed by.
LEMMA PlaceMoves ==
    ASSUME ChatTypeOK, NEW q \in Questions,
           NEW x \in {"embed", "store", "waiting", "chat", "stream", "over"},
           server' = [server EXCEPT ![q].at = x]
    PROVE  /\ server' \in [Questions -> Server]
           /\ server'[q].at = x
           /\ \A p \in Questions : /\ p # q => server'[p] = server[p]
                                   /\ server'[p].failedBy = server[p].failedBy
<1>1. server \in [Questions -> Server] /\ server[q] \in Server
  BY DEF ChatTypeOK
<1> DEFINE t == [server[q] EXCEPT !.at = x]
<1>2. t \in Server /\ t.at = x /\ t.failedBy = server[q].failedBy
  BY <1>1 DEF Server
<1>3. server' = [server EXCEPT ![q] = t]
  OBVIOUS
<1> HIDE DEF t
<1> QED BY <1>1, <1>2, <1>3

LEMMA QuestionAtWork ==
    ASSUME Chatting, NEW q \in Questions, server[q].at \notin {"idle", "over"}
    PROVE  server[q].failedBy = NoBuild /\ open[q] # "ended"
BY AtWork DEF Chatting, EachHeard

LEMMA ChatAdvances ==
    ASSUME Chatting, NEW q \in Questions, EmbedQuestion(q) \/ BeginStream(q)
    PROVE  Chatting'
<1>1. ChatTypeOK /\ EachHeard /\ Building
  BY DEF Chatting
<1>2. PICK x \in {"store", "stream"} :
          /\ server[q].at \notin {"idle", "over"}
          /\ server' = [server EXCEPT ![q].at = x]
          /\ UNCHANGED <<configured, ready, build, wire, open, client, said, asked>>
  BY DEF EmbedQuestion, BeginStream, ServerAt
<1>3. /\ server' \in [Questions -> Server] /\ server'[q].at = x
      /\ \A p \in Questions : /\ p # q => server'[p] = server[p]
                              /\ server'[p].failedBy = server[p].failedBy
  BY <1>1, <1>2, PlaceMoves
<1>4. server'[q].failedBy = NoBuild
  BY <1>2, <1>3, QuestionAtWork
<1>5. ChatTypeOK'
  BY <1>1, <1>2, <1>3 DEF ChatTypeOK
<1>6. EachHeard'
  <2>1. UNCHANGED <<wire, open, client, said>> /\ server'[q].at # "idle"
    BY <1>2, <1>3
  <2> QED BY <1>2, <1>3, <1>4, <2>1, WorkGoesOn
<1>7. Building'
  BY <1>1, <1>2, <1>3, BuildingKept
<1> QED BY <1>5, <1>6, <1>7 DEF Chatting

LEMMA ChatCallFails ==
    ASSUME Chatting, NEW q \in Questions, CallFails(q)
    PROVE  Chatting'
<1>1. ChatTypeOK /\ EachHeard /\ Building
  BY DEF Chatting
<1>2. /\ server[q].at \notin {"idle", "over"}
      /\ server' = [server EXCEPT ![q].at = "over"]
      /\ ErrorTo({q})
      /\ UNCHANGED <<configured, ready, build, client, said, asked>>
  BY DEF CallFails
<1>3. /\ server' \in [Questions -> Server] /\ server'[q].at = "over"
      /\ \A p \in Questions : /\ p # q => server'[p] = server[p]
                              /\ server'[p].failedBy = server[p].failedBy
  BY <1>1, <1>2, PlaceMoves
<1>4. /\ EachHeard'
      /\ wire' \in [Questions -> Seq(Char)]
      /\ open' \in [Questions -> {"none", "open", "ended", "cut"}]
  <2>1. UNCHANGED <<client, said>>
    BY <1>2
  <2> QED BY <1>2, <1>3, <2>1, SomeFail
<1>5. ChatTypeOK'
  BY <1>1, <1>2, <1>3, <1>4 DEF ChatTypeOK
<1>6. Building'
  BY <1>1, <1>2, <1>3, BuildingKept
<1> QED BY <1>4, <1>5, <1>6 DEF Chatting

\* The first question after a failure, or at all, starts the build.
LEMMA ChatStartsBuild ==
    ASSUME Chatting, NEW q \in Questions, Search(q), ready = NoBuild
    PROVE  Chatting'
<1> DEFINE b == Len(build) + 1
           t == [server[q] EXCEPT !.at = "waiting", !.on = b]
<1>1. ChatTypeOK /\ EachHeard /\ Building
  BY DEF Chatting
<1>2. /\ server[q].at = "store" /\ b <= MaxBuilds
      /\ build' = Append(build, "running") /\ ready' = b
      /\ server' = [server EXCEPT ![q] = t]
      /\ UNCHANGED <<configured, wire, open, client, said, asked>>
  BY DEF Search, ServerAt, GetStore, StartBuild
<1>3. /\ Len(build) \in Nat /\ build \in Builds /\ DOMAIN build = 1..Len(build)
      /\ "running" \in {"running", "built", "failed", "lost"}
  BY <1>1, LenProperties DEF ChatTypeOK, Builds
<1>4. /\ build' \in Builds /\ Len(build') = b /\ DOMAIN build' = 1..b
      /\ \A k \in 1..Len(build) : build'[k] = build[k]
      /\ build'[b] = "running"
  BY <1>2, <1>3, AppendProperties, LenProperties DEF Builds
<1>5. b \in 0..MaxBuilds
  BY <1>2, <1>3, BuildsAssumption
<1>6. server[q].failedBy = NoBuild
  BY <1>2, QuestionAtWork
<1>7. t \in Server /\ t.at = "waiting" /\ t.failedBy = NoBuild
  <2> HIDE DEF b
  <2>1. server[q] \in Server
    BY <1>1 DEF ChatTypeOK
  <2> QED BY <1>5, <1>6, <2>1 DEF Server
<1> HIDE DEF t
<1>8. /\ server' \in [Questions -> Server]
      /\ \A p \in Questions : server'[p] = IF p = q THEN t ELSE server[p]
  BY <1>1, <1>2, <1>7 DEF ChatTypeOK
<1>9. ChatTypeOK'
  BY <1>1, <1>2, <1>4, <1>5, <1>8 DEF ChatTypeOK, Builds
<1>10. EachHeard'
  <2>1. UNCHANGED <<wire, open, client, said>>
    BY <1>2
  <2> QED BY <1>2, <1>7, <1>8, <2>1, WorkGoesOn
<1>11. Building'
  <2>1. \A k \in DOMAIN build : build[k] # "running"
    <3>1. \A k \in DOMAIN build : build[k] = "running" => k = 0
      BY <1>1 DEF Building, NoBuild
    <3> QED BY <1>3, <3>1
  <2>2. \A k \in DOMAIN build' : build'[k] = "running" => k = b
    BY <1>3, <1>4, <2>1
  <2>3. \A p \in Questions : asked'[p] = asked[p] /\ asked[p] \in Nat /\ asked[p] <= Len(build)
    BY <1>1, <1>2, BuildsAssumption DEF ChatTypeOK, Building
  <2>4. \A p \in Questions : asked'[p] < b /\ asked'[p] <= Len(build')
    BY <1>3, <1>4, <2>3
  <2>5. FailureIsFresh'
    BY <1>1, <1>2, <1>7, <1>8 DEF Building, FailureIsFresh
  <2> HIDE DEF b
  <2>6. ready' # NoBuild => ready' = Len(build') /\ build'[ready'] \in {"running", "built"}
    BY <1>2, <1>4
  <2>7. Len(build') <= MaxBuilds
    BY <1>2, <1>4
  <2> QED BY <1>2, <2>2, <2>4, <2>5, <2>6, <2>7 DEF Building
<1> QED BY <1>9, <1>10, <1>11 DEF Chatting

\* The others find a promise that is pending or kept, never one that is broken.
LEMMA ChatAwaits ==
    ASSUME Chatting, NEW q \in Questions, Search(q), ready # NoBuild
    PROVE  Chatting'
<1>1. ChatTypeOK /\ EachHeard /\ Building
  BY DEF Chatting
<1>2. build[ready] \in {"running", "built"}
  BY <1>1 DEF Building
<1> DEFINE at == CASE build[ready] = "running" -> "waiting" [] build[ready] = "built" -> "chat"
                   [] OTHER -> "over"
           t == [at |-> at, on |-> ready, failedBy |-> IF at = "over" THEN ready ELSE NoBuild]
<1>3. at \in {"waiting", "chat"}
  BY <1>2
<1>4. /\ server[q].at = "store"
      /\ server' = [server EXCEPT ![q] = t]
      /\ UNCHANGED <<configured, ready, build, client, said, asked>>
      /\ UNCHANGED <<wire, open>>
  BY <1>3 DEF Search, ServerAt, GetStore, Await
<1>5. ready \in 0..MaxBuilds /\ NoBuild \in 0..MaxBuilds
  BY <1>1, BuildsAssumption DEF ChatTypeOK, NoBuild
<1> HIDE DEF at
<1>6. t \in Server /\ t.at # "idle" /\ t.failedBy = NoBuild
  BY <1>3, <1>5 DEF Server
<1>7. server[q].failedBy = NoBuild
  BY <1>4, QuestionAtWork
<1> HIDE DEF t
<1>8. /\ server' \in [Questions -> Server]
      /\ \A p \in Questions : server'[p] = IF p = q THEN t ELSE server[p]
  BY <1>1, <1>4, <1>6 DEF ChatTypeOK
<1>9. ChatTypeOK'
  BY <1>1, <1>4, <1>8 DEF ChatTypeOK
<1>10. EachHeard'
  <2>1. UNCHANGED <<wire, open, client, said>>
    BY <1>4
  <2> QED BY <1>4, <1>6, <1>8, <2>1, WorkGoesOn
<1>11. Building'
  <2>1. \A p \in Questions : server'[p].failedBy = server[p].failedBy
    BY <1>6, <1>7, <1>8
  <2> QED BY <1>1, <1>4, <2>1, BuildingKept
<1> QED BY <1>9, <1>10, <1>11 DEF Chatting

\* The build is the memoized one; those who wait for it were asked before it was over.
LEMMA ChatBuildEnds ==
    ASSUME Chatting, NEW b \in DOMAIN build, BuildDone(b) \/ BuildFails(b)
    PROVE  Chatting'
<1>1. ChatTypeOK /\ EachHeard /\ Building
  BY DEF Chatting
<1>2. /\ build \in Builds /\ DOMAIN build = 1..Len(build) /\ Len(build) \in Nat
      /\ b \in 1..Len(build) /\ b \in 0..MaxBuilds /\ NoBuild \in 0..MaxBuilds /\ b # NoBuild
  <2>1. build \in Builds /\ DOMAIN build = 1..Len(build) /\ Len(build) \in Nat
    BY <1>1, LenProperties DEF ChatTypeOK, Builds
  <2>2. Len(build) <= MaxBuilds
    BY <1>1 DEF Building
  <2> QED BY <2>1, <2>2, BuildsAssumption DEF NoBuild
<1>3. /\ build[b] = "running" /\ b = ready
      /\ \A k \in DOMAIN build : build[k] = "running" => k = b
      /\ \A q \in Questions : asked[q] < b
  BY <1>1, BuildDone(b) \/ BuildFails(b) DEF Building, BuildDone, BuildFails
<1>4. ASSUME NEW x \in {"built", "failed"}, build' = [build EXCEPT ![b] = x]
      PROVE  /\ build' \in Builds /\ Len(build') = Len(build) /\ DOMAIN build' = DOMAIN build
             /\ \A k \in DOMAIN build' : build'[k] # "running"
             /\ build'[b] = x
  <2>1. x \in {"running", "built", "failed", "lost"}
    BY <1>4
  <2>2. /\ build' \in Builds /\ Len(build') = Len(build)
        /\ \A k \in 1..Len(build) : build'[k] = IF k = b THEN x ELSE build[k]
    BY <1>2, <1>4, <2>1, ExceptSeq DEF Builds
  <2>3. DOMAIN build' = 1..Len(build)
    BY <2>2, LenProperties DEF Builds
  <2>4. build'[b] = x
    BY <1>2, <2>2
  <2>5. ASSUME NEW k \in DOMAIN build' PROVE build'[k] # "running"
    <3>1. k \in 1..Len(build)
      BY <2>3
    <3>2. CASE k = b
      BY <2>2, <3>1, <3>2
    <3>3. CASE k # b
      BY <1>2, <1>3, <2>2, <3>1, <3>3
    <3> QED BY <3>2, <3>3
  <2> QED BY <1>2, <2>2, <2>3, <2>4, <2>5
<1>5. CASE BuildDone(b)
  <2>1. /\ build' = [build EXCEPT ![b] = "built"]
        /\ server' = [p \in Questions |-> IF p \in Waiting(b)
                                          THEN [server[p] EXCEPT !.at = "chat"]
                                          ELSE server[p]]
        /\ UNCHANGED <<configured, ready, wire, open, client, said, asked>>
    BY <1>5 DEF BuildDone
  <2>2. ASSUME NEW p \in Questions
        PROVE  /\ server'[p] \in Server /\ server'[p].failedBy = server[p].failedBy
               /\ \/ server'[p] = server[p]
                  \/ /\ server[p].at \notin {"idle", "over"}
                     /\ server'[p].at # "idle" /\ server'[p].failedBy = NoBuild
    <3>1. server[p] \in Server
      BY <1>1, ChatTypes
    <3>2. CASE p \in Waiting(b)
      <4>1. server[p].at = "waiting"
        BY <3>2 DEF Waiting, ServerAt
      <4>2. server[p].failedBy = NoBuild
        BY <4>1, QuestionAtWork
      <4>3. server'[p] = [server[p] EXCEPT !.at = "chat"]
        BY <2>1, <3>2
      <4> QED BY <3>1, <4>1, <4>2, <4>3 DEF Server
    <3>3. CASE p \notin Waiting(b)
      BY <2>1, <3>1, <3>3
    <3> QED BY <3>2, <3>3
  <2>3. ChatTypeOK'
    <3>1. server' \in [Questions -> Server]
      BY <2>1, <2>2
    <3>2. build' \in Builds
      BY <1>4, <2>1
    <3> QED BY <1>1, <2>1, <3>1, <3>2 DEF ChatTypeOK, Builds
  <2>4. EachHeard'
    <3>1. UNCHANGED <<wire, open, client, said>>
      BY <2>1
    <3> QED BY <2>2, <3>1, WorkGoesOn
  <2>5. Building'
    <3>1. /\ Len(build') = Len(build) /\ \A k \in DOMAIN build' : build'[k] # "running"
          /\ build'[b] = "built" /\ ready' = b /\ ready' = ready /\ asked' = asked
      BY <1>3, <1>4, <2>1
    <3>2. FailureIsFresh'
      BY <1>1, <2>1, <2>2 DEF Building, FailureIsFresh
    <3> QED BY <1>1, <3>1, <3>2 DEF Building
  <2> QED BY <2>3, <2>4, <2>5 DEF Chatting
<1>6. CASE BuildFails(b)
  <2>1. /\ build' = [build EXCEPT ![b] = "failed"]
        /\ ready' = NoBuild
        /\ server' = [p \in Questions |-> IF p \in Waiting(b)
                                          THEN [server[p] EXCEPT !.at = "over", !.failedBy = b]
                                          ELSE server[p]]
        /\ ErrorTo(Waiting(b))
        /\ UNCHANGED <<configured, client, said, asked>>
    BY <1>6 DEF BuildFails
  <2>2. ASSUME NEW p \in Questions
        PROVE  /\ server'[p] \in Server
               /\ IF p \in Waiting(b)
                  THEN /\ server[p].at \notin {"idle", "over"} /\ server'[p].at = "over"
                       /\ server'[p].failedBy = b
                  ELSE server'[p] = server[p]
    <3>1. server[p] \in Server
      BY <1>1, ChatTypes
    <3>2. CASE p \in Waiting(b)
      <4>1. server[p].at = "waiting"
        BY <3>2 DEF Waiting, ServerAt
      <4>2. server'[p] = [server[p] EXCEPT !.at = "over", !.failedBy = b]
        BY <2>1, <3>2
      <4> QED BY <1>2, <3>1, <3>2, <4>1, <4>2 DEF Server
    <3>3. CASE p \notin Waiting(b)
      BY <2>1, <3>1, <3>3
    <3> QED BY <3>2, <3>3
  <2>3. /\ EachHeard'
        /\ wire' \in [Questions -> Seq(Char)]
        /\ open' \in [Questions -> {"none", "open", "ended", "cut"}]
    <3>1. UNCHANGED <<client, said>>
      BY <2>1
    <3> QED BY <2>1, <2>2, <3>1, SomeFail
  <2>4. ChatTypeOK'
    <3>1. server' \in [Questions -> Server]
      BY <2>1, <2>2
    <3>2. build' \in Builds
      BY <1>4, <2>1
    <3> QED BY <1>1, <1>2, <2>1, <2>3, <3>1, <3>2 DEF ChatTypeOK, Builds
  <2>5. Building'
    <3>1. /\ Len(build') = Len(build) /\ \A k \in DOMAIN build' : build'[k] # "running"
          /\ ready' = NoBuild /\ asked' = asked
      BY <1>3, <1>4, <2>1
    <3>2. FailureIsFresh'
      <4> SUFFICES ASSUME NEW p \in Questions, server'[p].failedBy # NoBuild
                   PROVE  server'[p].failedBy > asked'[p]
        BY DEF FailureIsFresh
      <4>1. CASE p \in Waiting(b)
        <5>1. /\ server'[p].failedBy = b /\ asked'[p] = asked[p]
              /\ asked[p] < b /\ asked[p] \in 0..MaxBuilds
          BY <1>1, <1>3, <2>1, <2>2, <4>1, ChatTypes
        <5> QED BY <1>2, <5>1, BuildsAssumption
      <4>2. CASE p \notin Waiting(b)
        BY <1>1, <2>1, <2>2, <4>2 DEF Building, FailureIsFresh
      <4> QED BY <4>1, <4>2
    <3> QED BY <1>1, <3>1, <3>2 DEF Building
  <2> QED BY <2>3, <2>4, <2>5 DEF Chatting
<1> QED BY <1>5, <1>6

LEMMA ChatDelta ==
    ASSUME Chatting, NEW q \in Questions, Delta(q)
    PROVE  Chatting'
<1>1. ChatTypeOK /\ EachHeard /\ Building
  BY DEF Chatting
<1> DEFINE l == Line(Token(said[q] + 1))
<1>2. /\ server[q].at = "stream" /\ said[q] < MaxDeltas
      /\ said' = [said EXCEPT ![q] = said[q] + 1]
      /\ wire' = [wire EXCEPT ![q] = wire[q] \o l]
      /\ UNCHANGED <<configured, ready, build, server, open, client, asked>>
  BY DEF Delta, ServerAt, Write
<1>3. client[q] \in Client /\ wire[q] \in Seq(Char) /\ said[q] \in 0..MaxDeltas
  BY <1>1, ChatTypes
<1>4. said[q] + 1 \in 0..MaxDeltas /\ said[q] + 1 \in 1..MaxDeltas
  BY <1>2, <1>3, DeltasAssumption
<1>5. wire[q] \o l \in Seq(Char)
  BY <1>3, <1>4, CharTypes, LineAfter
<1>6. Heard(client[q], server[q], wire[q] \o l, open[q], said[q] + 1)
  <2>1. Heard(client[q], server[q], wire[q], open[q], said[q])
    BY <1>1 DEF EachHeard
  <2> QED BY <1>2, <1>3, <2>1, HeardDelta
<1> HIDE DEF l
<1>7. /\ said' \in [Questions -> 0..MaxDeltas] /\ wire' \in [Questions -> Seq(Char)]
      /\ said'[q] = said[q] + 1 /\ wire'[q] = wire[q] \o l
      /\ \A p \in Questions : p # q => said'[p] = said[p] /\ wire'[p] = wire[p]
  BY <1>1, <1>2, <1>4, <1>5 DEF ChatTypeOK
<1>8. ChatTypeOK'
  BY <1>1, <1>2, <1>7 DEF ChatTypeOK
<1>9. EachHeard'
  <2> SUFFICES ASSUME NEW p \in Questions
               PROVE  Heard(client'[p], server'[p], wire'[p], open'[p], said'[p])
    BY EachNext
  <2>1. Heard(client[p], server[p], wire[p], open[p], said[p])
    BY <1>1 DEF EachHeard
  <2>2. client' = client /\ server' = server /\ open' = open
    BY <1>2
  <2> QED BY <1>6, <1>7, <2>1, <2>2
<1>10. Building'
  <2>1. /\ UNCHANGED <<ready, build, asked>>
        /\ \A p \in Questions : server'[p].failedBy = server[p].failedBy
    BY <1>2
  <2> QED BY <1>1, <2>1, BuildingKept
<1> QED BY <1>8, <1>9, <1>10 DEF Chatting

LEMMA ChatDone ==
    ASSUME Chatting, NEW q \in Questions, Done(q)
    PROVE  Chatting'
<1>1. ChatTypeOK /\ EachHeard /\ Building
  BY DEF Chatting
<1> DEFINE l == Line([type |-> "done"])
           t == [server[q] EXCEPT !.at = "over"]
           o == IF open[q] = "open" THEN "ended" ELSE open[q]
<1>2. /\ server[q].at = "stream"
      /\ server' = [server EXCEPT ![q].at = "over"]
      /\ server' = [server EXCEPT ![q] = t]
      /\ wire' = [wire EXCEPT ![q] = wire[q] \o l]
      /\ open' = [open EXCEPT ![q] = o]
      /\ UNCHANGED <<configured, ready, build, client, said, asked>>
  BY DEF Done, ServerAt, Write
<1>3. /\ client[q] \in Client /\ wire[q] \in Seq(Char) /\ said[q] \in 0..MaxDeltas
      /\ server[q] \in Server /\ open[q] \in {"none", "open", "ended", "cut"}
  BY <1>1, ChatTypes
<1>4. wire[q] \o l \in Seq(Char)
  <2>1. [type |-> "done"] \in Event
    BY CharTypes DEF LastEvents
  <2> QED BY <1>3, <2>1, LineAfter
<1>5. o \in {"none", "open", "ended", "cut"}
  BY <1>3
<1> HIDE DEF o
<1>6. Heard(client[q], t, wire[q] \o l, o, said[q])
  <2>1. Heard(client[q], server[q], wire[q], open[q], said[q])
    BY <1>1 DEF EachHeard
  <2> QED BY <1>2, <1>3, <2>1, HeardDone
<1>7. /\ server' \in [Questions -> Server]
      /\ \A p \in Questions : server'[p].failedBy = server[p].failedBy
  BY <1>1, <1>2, PlaceMoves
<1> HIDE DEF l, t
<1>8. /\ wire' \in [Questions -> Seq(Char)]
      /\ open' \in [Questions -> {"none", "open", "ended", "cut"}]
      /\ wire'[q] = wire[q] \o l /\ open'[q] = o /\ server'[q] = t
      /\ \A p \in Questions :
            p # q => server'[p] = server[p] /\ wire'[p] = wire[p] /\ open'[p] = open[p]
  BY <1>1, <1>2, <1>4, <1>5 DEF ChatTypeOK
<1>9. ChatTypeOK'
  BY <1>1, <1>2, <1>7, <1>8 DEF ChatTypeOK
<1>10. EachHeard'
  <2> SUFFICES ASSUME NEW p \in Questions
               PROVE  Heard(client'[p], server'[p], wire'[p], open'[p], said'[p])
    BY EachNext
  <2>1. Heard(client[p], server[p], wire[p], open[p], said[p])
    BY <1>1 DEF EachHeard
  <2>2. client' = client /\ said' = said
    BY <1>2
  <2> QED BY <1>6, <1>8, <2>1, <2>2
<1>11. Building'
  <2>1. UNCHANGED <<ready, build, asked>>
    BY <1>2
  <2> QED BY <1>1, <1>7, <2>1, BuildingKept
<1> QED BY <1>9, <1>10, <1>11 DEF Chatting

LEMMA LenOfFunction ==
    ASSUME NEW S, NEW n \in Nat, NEW s \in [1..n -> S]
    PROVE  Len(s) = n
<1>1. s \in Seq(S)
  BY SeqDef
<1>2. PICK k \in Nat : k = Len(s)
  BY <1>1, LenProperties
<1>3. 1..n = 1..k
  BY <1>1, <1>2, LenProperties
<1>4. n = k
  <2>1. n <= k
    <3>1. n = 0 \/ n \in 1..k
      BY <1>3
    <3> QED BY <1>2, <3>1
  <2>2. k <= n
    <3>1. k = 0 \/ k \in 1..n
      BY <1>2, <1>3
    <3> QED BY <3>1
  <2> QED BY <1>2, <2>1, <2>2
<1> QED BY <1>2, <1>4

\* A restart leaves no build running and no question at work.
LEMMA ChatRestarts ==
    ASSUME Chatting, Restart
    PROVE  Chatting'
<1> DEFINE busy == {p \in Questions : server[p].at \notin {"idle", "over"}}
<1>1. ChatTypeOK /\ EachHeard /\ Building
  BY DEF Chatting
<1>2. /\ ready' = NoBuild
      /\ build' = [b \in DOMAIN build |-> IF build[b] = "running" THEN "lost" ELSE build[b]]
      /\ server' = [p \in Questions |-> IF p \in busy THEN [server[p] EXCEPT !.at = "over"]
                                        ELSE server[p]]
      /\ open' = [p \in Questions |-> IF p \in busy /\ open[p] = "open" THEN "cut" ELSE open[p]]
      /\ UNCHANGED <<configured, wire, client, said, asked>>
  BY DEF Restart
<1>3. /\ build \in [1..Len(build) -> {"running", "built", "failed", "lost"}]
      /\ Len(build) \in Nat /\ DOMAIN build = 1..Len(build)
  BY <1>1, LenProperties DEF ChatTypeOK
<1>4. /\ build' \in Builds /\ Len(build') = Len(build)
      /\ \A b \in DOMAIN build' : build'[b] # "running"
  <2>1. build' \in [1..Len(build) -> {"running", "built", "failed", "lost"}]
    BY <1>2, <1>3
  <2>2. build' \in Builds
    BY <1>3, <2>1, SeqDef DEF Builds
  <2>3. Len(build') = Len(build)
    BY <1>3, <2>1, LenOfFunction
  <2>4. \A b \in DOMAIN build' : build'[b] # "running"
    BY <1>2, <1>3
  <2> QED BY <2>2, <2>3, <2>4
<1>5. ASSUME NEW p \in Questions
      PROVE  /\ server'[p] \in Server /\ server'[p].failedBy = server[p].failedBy
             /\ p \in busy => server'[p].at = "over"
             /\ p \notin busy => server'[p] = server[p] /\ open'[p] = open[p]
             /\ open'[p] \in {"none", "open", "ended", "cut"}
             /\ open'[p] = "ended" => open[p] = "ended"
  <2>1. server[p] \in Server /\ open[p] \in {"none", "open", "ended", "cut"}
    BY <1>1, ChatTypes
  <2>2. CASE p \in busy
    <3>1. server'[p] = [server[p] EXCEPT !.at = "over"]
      BY <1>2, <2>2
    <3>2. /\ server'[p] \in Server /\ server'[p].at = "over"
          /\ server'[p].failedBy = server[p].failedBy
      BY <2>1, <3>1 DEF Server
    <3>3. open'[p] = IF open[p] = "open" THEN "cut" ELSE open[p]
      BY <1>2, <2>2
    <3> HIDE DEF busy
    <3> QED BY <2>1, <2>2, <3>2, <3>3
  <2>3. CASE p \notin busy
    <3> HIDE DEF busy
    <3> QED BY <1>2, <2>1, <2>3
  <2> QED BY <2>2, <2>3
<1>6. ChatTypeOK'
  <2>1. /\ server' \in [Questions -> Server]
        /\ open' \in [Questions -> {"none", "open", "ended", "cut"}]
    BY <1>2, <1>5
  <2>2. ready' \in 0..MaxBuilds
    BY <1>2, BuildsAssumption DEF NoBuild
  <2> QED BY <1>1, <1>2, <1>4, <2>1, <2>2 DEF ChatTypeOK, Builds
<1>7. EachHeard'
  <2> SUFFICES ASSUME NEW p \in Questions
               PROVE  Heard(client'[p], server'[p], wire'[p], open'[p], said'[p])
    BY EachNext
  <2>1. Heard(client[p], server[p], wire[p], open[p], said[p])
    BY <1>1 DEF EachHeard
  <2>2. client' = client /\ said' = said /\ wire' = wire
    BY <1>2
  <2>3. CASE p \in busy
    <3>1. server[p].at \notin {"idle", "over"}
      BY <2>3
    <3>2. server[p].failedBy = NoBuild /\ open[p] # "ended"
      BY <3>1, QuestionAtWork
    <3>3. server'[p].at = "over" /\ server'[p].failedBy = NoBuild
      BY <1>5, <2>3, <3>2
    <3>4. Heard(client[p], server'[p], wire[p], open'[p], said[p])
      <4> DEFINE c == client[p]
                 s == server[p]
                 t == server'[p]
      <4>1. c.shown \notin {"nothing", "answered", "noAnswer"}
        BY <2>1, <3>1, AtWork
      <4>2. t.at = "over" /\ t.failedBy = NoBuild /\ Heard(c, s, wire[p], open[p], said[p])
        BY <2>1, <3>3
      <4> HIDE DEF c, s, t
      <4>3. Heard(c, t, wire[p], open'[p], said[p])
        BY <4>1, <4>2 DEF Heard
      <4> QED BY <4>3 DEF c, t
    <3> QED BY <2>2, <3>4
  <2>4. CASE p \notin busy
    <3>1. server'[p] = server[p] /\ open'[p] = open[p]
      BY <1>5, <2>4
    <3> QED BY <2>1, <2>2, <3>1
  <2> QED BY <2>3, <2>4
<1>8. Building'
  <2>1. FailureIsFresh'
    BY <1>1, <1>2, <1>5 DEF Building, FailureIsFresh
  <2>2. asked' = asked
    BY <1>2
  <2> QED BY <1>1, <1>2, <1>4, <2>1, <2>2 DEF Building
<1> QED BY <1>6, <1>7, <1>8 DEF Chatting

\* Steps of one browser, or of its connection: the server sees nothing of them.
LEMMA Listening ==
    ASSUME Chatting, NEW q \in Questions, NEW c \in Client, NEW w \in Seq(Char),
           NEW o \in {"none", "open", "ended", "cut"},
           UNCHANGED <<configured, ready, build, server, said, asked>>,
           client' = [client EXCEPT ![q] = c], wire' = [wire EXCEPT ![q] = w],
           open' = [open EXCEPT ![q] = o],
           Heard(c, server[q], w, o, said[q])
    PROVE  Chatting'
<1>1. ChatTypeOK /\ EachHeard /\ Building
  BY DEF Chatting
<1>2. /\ client' \in [Questions -> Client] /\ wire' \in [Questions -> Seq(Char)]
      /\ open' \in [Questions -> {"none", "open", "ended", "cut"}]
      /\ client'[q] = c /\ wire'[q] = w /\ open'[q] = o
      /\ \A p \in Questions :
            p # q => client'[p] = client[p] /\ wire'[p] = wire[p] /\ open'[p] = open[p]
  BY <1>1 DEF ChatTypeOK
<1>3. ChatTypeOK'
  BY <1>1, <1>2 DEF ChatTypeOK
<1>4. EachHeard'
  <2> SUFFICES ASSUME NEW p \in Questions
               PROVE  Heard(client'[p], server'[p], wire'[p], open'[p], said'[p])
    BY EachNext
  <2>1. Heard(client[p], server[p], wire[p], open[p], said[p])
    BY <1>1 DEF EachHeard
  <2> QED BY <1>2, <2>1
<1>5. Building'
  BY <1>1, BuildingKept
<1> QED BY <1>3, <1>4, <1>5 DEF Chatting

LEMMA ChatListens ==
    ASSUME Chatting, NEW q \in Questions,
           \/ \E length \in Nat : Read(q, length)
           \/ TakeLine(q) \/ EndOfStream(q) \/ ReadFails(q) \/ Disconnect(q)
    PROVE  Chatting'
<1> DEFINE c == client[q]
           s == server[q]
           w == wire[q]
           o == open[q]
           n == said[q]
<1>1. ChatTypeOK /\ EachHeard
  BY DEF Chatting
<1>2. /\ client \in [Questions -> Client] /\ wire \in [Questions -> Seq(Char)]
      /\ open \in [Questions -> {"none", "open", "ended", "cut"}]
      /\ wire = [wire EXCEPT ![q] = w] /\ open = [open EXCEPT ![q] = o]
  BY <1>1 DEF ChatTypeOK
<1>3. /\ c \in Client /\ w \in Seq(Char) /\ o \in {"none", "open", "ended", "cut"}
      /\ n \in 0..MaxDeltas /\ Heard(c, s, w, o, n)
  BY <1>1, ChatTypes DEF EachHeard
<1>4. /\ c.shown \in {"asking", "streaming"}
      /\ UNCHANGED <<configured, ready, build, server, said, asked>>
  BY DEF Read, TakeLine, EndOfStream, ReadFails, Disconnect, Reading
<1>5. ASSUME NEW k \in Nat, Read(q, k) PROVE Chatting'
  <2> DEFINE d == [c EXCEPT !.buffer = c.buffer \o SubSeq(w, 1, k)]
             v == SubSeq(w, k + 1, Len(w))
  <2>1. /\ k <= Len(w) /\ wire' = [wire EXCEPT ![q] = v] /\ client' = [client EXCEPT ![q] = d]
        /\ open' = [open EXCEPT ![q] = o]
    BY <1>2, <1>5 DEF Read
  <2>2. d \in Client /\ Heard(d, s, v, o, n)
    <3> HIDE DEF c, s, w, o, n, d, v
    <3> QED BY <1>3, <1>4, <2>1, HeardPiece DEF d, v
  <2>3. v \in Seq(Char)
    BY <1>3, <2>1, PieceRead
  <2> HIDE DEF d, v
  <2> QED BY <1>3, <1>4, <2>1, <2>2, <2>3, Listening
<1>6. CASE TakeLine(q)
  <2> DEFINE d == FlushLine([c EXCEPT !.buffer = Rest(c.buffer)],
                            SubSeq(c.buffer, 1, LineEnd(c.buffer) - 1))
  <2>1. /\ HasLine(c.buffer) /\ client' = [client EXCEPT ![q] = d]
        /\ wire' = [wire EXCEPT ![q] = w] /\ open' = [open EXCEPT ![q] = o]
    BY <1>2, <1>6 DEF TakeLine
  <2>2. d \in Client /\ Heard(d, s, w, o, n)
    <3> HIDE DEF c, s, w, o, n
    <3> QED BY <1>3, <1>4, <2>1, HeardLine
  <2> HIDE DEF d
  <2> QED BY <1>3, <1>4, <2>1, <2>2, Listening
<1>7. CASE EndOfStream(q)
  <2> DEFINE f == FlushLine([c EXCEPT !.buffer = << >>], c.buffer)
             d == [f EXCEPT !.shown = CASE f.shown = "told" -> "told"
                                        [] f.shown = "streaming" -> "answered"
                                        [] OTHER -> "noAnswer"]
  <2>1. /\ ~HasLine(c.buffer) /\ o = "ended" /\ w = << >>
        /\ client' = [client EXCEPT ![q] = d]
        /\ wire' = [wire EXCEPT ![q] = w] /\ open' = [open EXCEPT ![q] = o]
    BY <1>2, <1>7 DEF EndOfStream
  <2>2. d \in Client /\ Heard(d, s, w, o, n)
    <3> HIDE DEF c, s, w, o, n
    <3>1. Heard(c, s, << >>, "ended", n)
      BY <1>3, <2>1
    <3>2. d \in Client /\ Heard(d, s, << >>, "ended", n)
      BY <1>3, <1>4, <2>1, <3>1, HeardEnd
    <3> QED BY <2>1, <3>2
  <2> HIDE DEF d
  <2> QED BY <1>3, <1>4, <2>1, <2>2, Listening
<1>8. CASE ReadFails(q)
  <2> DEFINE d == [c EXCEPT !.shown = "told"]
  <2>1. /\ client' = [client EXCEPT ![q] = d]
        /\ wire' = [wire EXCEPT ![q] = w] /\ open' = [open EXCEPT ![q] = o]
    BY <1>2, <1>8 DEF ReadFails
  <2>2. d \in Client
    BY <1>3 DEF Client
  <2>3. Heard(d, s, w, o, n)
    <3> HIDE DEF c, s, w, o, n
    <3> QED BY <1>3, <1>4, HeardTold
  <2> HIDE DEF d
  <2> QED BY <1>3, <1>4, <2>1, <2>2, <2>3, Listening
<1>9. CASE Disconnect(q)
  <2>1. /\ open' = [open EXCEPT ![q] = "cut"]
        /\ client' = [client EXCEPT ![q] = c] /\ wire' = [wire EXCEPT ![q] = w]
    BY <1>2, <1>9 DEF Disconnect
  <2>2. Heard(c, s, w, "cut", n)
    <3> HIDE DEF c, s, w, o, n
    <3> QED BY <1>3, <1>4, HeardCut
  <2> QED BY <1>3, <1>4, <2>1, <2>2, Listening
<1> QED BY <1>5, <1>6, <1>7, <1>8, <1>9

LEMMA ChatSteps == Chatting /\ [ChatNext]_chatVars => Chatting'
<1> SUFFICES ASSUME Chatting, [ChatNext]_chatVars PROVE Chatting'
  OBVIOUS
<1>1. CASE UNCHANGED chatVars
  BY <1>1 DEF chatVars, Chatting, ChatTypeOK, EachHeard, Heard, OnItsWay, Closed, EndsWith,
              Building, FailureIsFresh
<1>2. ASSUME NEW q \in Questions, NEW body \in ChatRequest, AskQuestion(q, body) PROVE Chatting'
  BY <1>2, ChatAsks
<1>3. ASSUME NEW q \in Questions, EmbedQuestion(q) \/ BeginStream(q) PROVE Chatting'
  BY <1>3, ChatAdvances
<1>4. ASSUME NEW q \in Questions, CallFails(q) PROVE Chatting'
  BY <1>4, ChatCallFails
<1>5. ASSUME NEW q \in Questions, Search(q) PROVE Chatting'
  BY <1>5, ChatStartsBuild, ChatAwaits
<1>6. ASSUME NEW q \in Questions, Delta(q) PROVE Chatting'
  BY <1>6, ChatDelta
<1>7. ASSUME NEW q \in Questions, Done(q) PROVE Chatting'
  BY <1>7, ChatDone
<1>8. ASSUME NEW q \in Questions,
             \/ \E length \in 1..(2 * MaxDeltas + 2) : Read(q, length)
             \/ TakeLine(q) \/ EndOfStream(q) \/ ReadFails(q) \/ Disconnect(q)
      PROVE  Chatting'
  <2>1. 1..(2 * MaxDeltas + 2) \subseteq Nat
    BY DeltasAssumption
  <2> QED BY <1>8, <2>1, ChatListens
<1>9. ASSUME NEW b \in DOMAIN build, BuildDone(b) \/ BuildFails(b) PROVE Chatting'
  BY <1>9, ChatBuildEnds
<1>10. CASE Restart
  BY <1>10, ChatRestarts
<1> QED BY <1>1, <1>2, <1>3, <1>4, <1>5, <1>6, <1>7, <1>8, <1>9, <1>10 DEF ChatNext

\* Every answer on its way is whole so far, and what runs or is memoized is one build.
THEOREM ChatInvariance == ChatSpec => []Chatting
<1> QED BY ChatStarts, ChatSteps, PTL DEF ChatSpec

\* At most one build runs: the memoized one.
LEMMA OnlyTheMemoized == Chatting => OneBuild
<1> SUFFICES ASSUME Chatting PROVE OneBuild
  OBVIOUS
<1> DEFINE running == {b \in DOMAIN build : build[b] = "running"}
<1>1. running \in SUBSET {ready}
  BY DEF Chatting, Building
<1>2. IsFiniteSet({ready}) /\ Cardinality({ready}) = 1
  BY FS_Singleton
<1> HIDE DEF running
<1>3. IsFiniteSet(running) /\ Cardinality(running) <= 1
  BY <1>1, <1>2, FS_Subset
<1> QED BY <1>3 DEF OneBuild, running

\* What the chat closes as an answer is all that the model said, in order, in whatever
\* pieces it came and whatever failed; one build of the documentation runs at a time, and
\* no question fails by a build that was over before it was asked.
THEOREM AnswersWhole == ChatSpec => []AnswersSound
<1>1. Chatting => AnswersSound
  <2> SUFFICES ASSUME Chatting PROVE AnswersSound
    OBVIOUS
  <2>1. AnswerIsWhole
    <3> SUFFICES ASSUME NEW q \in Questions
                 PROVE  /\ client[q].shown = "answered" =>
                              client[q].text = [i \in 1..said[q] |-> i]
                        /\ client[q].shown = "noAnswer" => said[q] = 0
                        /\ client[q].shown \in {"answered", "noAnswer"} =>
                              server[q].failedBy = NoBuild
      BY DEF AnswerIsWhole
    <3>1. /\ Heard(client[q], server[q], wire[q], open[q], said[q])
          /\ client[q] \in Client
      BY ChatTypes DEF Chatting, EachHeard
    <3>2. ASSUME client[q].shown = "answered" PROVE client[q].text = [i \in 1..said[q] |-> i]
      <4>1. Len(client[q].text) = said[q] /\ \A i \in 1..said[q] : client[q].text[i] = i
        BY <3>1, <3>2 DEF Heard
      <4>2. client[q].text \in [1..said[q] -> 1..MaxDeltas]
        BY <3>1, <4>1, LenProperties DEF Client
      <4> QED BY <4>1, <4>2
    <3> QED BY <3>1, <3>2 DEF Heard
  <2> QED BY <2>1, OnlyTheMemoized DEF Chatting, Building, AnswersSound
<1> QED BY <1>1, ChatInvariance, PTL

-----------------------------------------------------------------------------
(* YouSign: the invariant. *)

USE NoneAssumption, SignersAssumption

\* Nobody is at work on a request at first.
LEMMA InitExchanging == ExchangeInit => Exchanging
  BY DEF ExchangeInit, Exchanging, ExchangeTypeOK, CallAgrees, OwnRequest, Working, Remote, Call,
         Nothing, Idle, At, Request

\* The records stay of their kinds.
LEMMA StepTyped == Exchanging /\ [ExchangeNext]_exchangeVars => ExchangeTypeOK'
<1> SUFFICES ASSUME ExchangeTypeOK, \A h \in Calls : CallAgrees(h), [ExchangeNext]_exchangeVars
             PROVE  ExchangeTypeOK'
  BY DEF Exchanging
<1>1. CASE UNCHANGED exchangeVars
  BY <1>1 DEF exchangeVars, ExchangeTypeOK
<1>2. ASSUME NEW h \in Calls, NEW c \in Contracts, Ask(h, c)
      PROVE  ExchangeTypeOK'
  BY <1>2 DEF Ask, ExchangeTypeOK, Call
<1>3. ASSUME NEW h \in Calls, NEW answered \in BOOLEAN, NEW sr \in Requests,
             CreateRequest(h, sr, answered)
      PROVE  ExchangeTypeOK'
  <2>1. call[h] \in Call /\ call[h].contract \in Contracts \cup {None}
    BY DEF ExchangeTypeOK, Call
  <2>2. [Nothing EXCEPT !.status = "draft", !.contract = call[h].contract] \in Remote
    <3>1. Nothing \in Remote
      BY DEF Nothing, Remote
    <3> QED
      BY <2>1, <3>1 DEF Remote
  <2>3. remote' \in [Requests -> Remote]
    BY <1>3, <2>2 DEF CreateRequest, ExchangeTypeOK
  <2>4. /\ Idle \in Call
        /\ [call[h] EXCEPT !.pc = "upload", !.sr = sr] \in Call
    <3>1. Idle \in Call
      BY DEF Idle, Call
    <3>2. [call[h] EXCEPT !.pc = "upload", !.sr = sr] \in Call
      BY <2>1 DEF Call
    <3> QED
      BY <3>1, <3>2
  <2>5. call' \in [Calls -> Call]
    BY <1>3, <2>4 DEF CreateRequest, Then, ExchangeTypeOK
  <2> QED
    BY <2>3, <2>5 DEF ExchangeTypeOK
<1>4. ASSUME NEW h \in Calls, NEW answered \in BOOLEAN, UploadDocument(h, answered)
      PROVE  ExchangeTypeOK'
  <2>1. call[h].sr \in Requests /\ call[h].contract \in Contracts
    BY <1>4 DEF UploadDocument, CallAgrees, Working, At
  <2>2. remote' \in [Requests -> Remote]
    BY <1>4, <2>1 DEF UploadDocument, ExchangeTypeOK, Remote
  <2>3. call' \in [Calls -> Call]
    BY <1>4 DEF UploadDocument, Then, Idle, ExchangeTypeOK, Call
  <2> QED
    BY <2>2, <2>3 DEF ExchangeTypeOK
<1>5. ASSUME NEW h \in Calls, NEW answered \in BOOLEAN, AddSigner(h, answered)
      PROVE  ExchangeTypeOK'
  <2>1. /\ call[h].sr \in Requests
        /\ call[h].added < NSigners
        /\ Request(h).signers = call[h].added
    BY <1>5 DEF AddSigner, CallAgrees, Working, At
  <2>2. call[h].added \in 0..NSigners
    BY DEF ExchangeTypeOK, Call
  <2>3. call[h].added + 1 \in 0..NSigners
    BY <2>1, <2>2
  <2>4. remote' = [remote EXCEPT ![call[h].sr] = [@ EXCEPT !.signers = call[h].added + 1]]
    BY <1>5, <2>1 DEF AddSigner, Request, ExchangeTypeOK
  <2>5. remote[call[h].sr] \in Remote
    BY <2>1 DEF ExchangeTypeOK
  <2>6. [remote[call[h].sr] EXCEPT !.signers = call[h].added + 1] \in Remote
    BY <2>3, <2>5 DEF Remote
  <2>7. remote' \in [Requests -> Remote]
    BY <2>1, <2>4, <2>6 DEF ExchangeTypeOK
  <2>8. call[h] \in Call
    BY DEF ExchangeTypeOK
  <2>9. \A last \in BOOLEAN :
          [call[h] EXCEPT !.added = call[h].added + 1,
                          !.pc = IF last THEN "activate" ELSE "sign"] \in Call
    BY <2>3, <2>8 DEF Call
  <2>10. Idle \in Call
    BY DEF Idle, Call
  <2>11. call' \in [Calls -> Call]
    BY <1>5, <2>9, <2>10 DEF AddSigner, Then, ExchangeTypeOK
  <2> QED
    BY <2>7, <2>11 DEF ExchangeTypeOK
<1>6. ASSUME NEW h \in Calls, NEW answered \in BOOLEAN, Activate(h, answered)
      PROVE  ExchangeTypeOK'
  <2>1. call[h].sr \in Requests /\ call[h] \in Call
    BY <1>6 DEF Activate, CallAgrees, Working, At, ExchangeTypeOK
  <2>2. remote' \in [Requests -> Remote]
    BY <1>6, <2>1 DEF Activate, ExchangeTypeOK, Remote
  <2>3. Idle \in Call
    BY DEF Idle, Call
  <2>4. [call[h] EXCEPT !.pc = "done"] \in Call
    BY <2>1 DEF Call
  <2>5. call' \in [Calls -> Call]
    BY <1>6, <2>3, <2>4 DEF Activate, Then, ExchangeTypeOK
  <2> QED
    BY <2>2, <2>5 DEF ExchangeTypeOK
<1>7. ASSUME NEW h \in Calls, Fails(h)
      PROVE  ExchangeTypeOK'
  BY <1>7 DEF Fails, Idle, ExchangeTypeOK, Call
<1> QED
  BY <1>1, <1>2, <1>3, <1>4, <1>5, <1>6, <1>7 DEF ExchangeNext

\* The callers that do not move, and whose request nobody touches, are as before.
LEMMA OthersAgree ==
    ASSUME NEW i \in Calls, CallAgrees(i), call'[i] = call[i],
           Working(i) => remote'[call[i].sr] = remote[call[i].sr]
    PROVE  CallAgrees(i)'
  BY DEF CallAgrees, Working, Request, At

\* A caller that fails or is done works on no request.
LEMMA LeavesOwn ==
    ASSUME ExchangeTypeOK, OwnRequest, NEW h \in Calls, NEW next,
           call' = [call EXCEPT ![h] = next],
           next.pc \in {"upload", "sign", "activate"} => Working(h) /\ next.sr = call[h].sr
    PROVE  OwnRequest'
  BY DEF OwnRequest, Working, ExchangeTypeOK

\* Each call keeps a caller and its request together, and away from the others'.
LEMMA StepAgrees ==
    Exchanging /\ [ExchangeNext]_exchangeVars => (\A i \in Calls : CallAgrees(i))' /\ OwnRequest'
<1> SUFFICES ASSUME Exchanging, [ExchangeNext]_exchangeVars
             PROVE  (\A i \in Calls : CallAgrees(i))' /\ OwnRequest'
  OBVIOUS
<1> USE DEF Exchanging
<1>1. CASE UNCHANGED exchangeVars
  BY <1>1 DEF exchangeVars, CallAgrees, OwnRequest, Working, Request, At
<1>2. ASSUME NEW h \in Calls, NEW c \in Contracts, Ask(h, c)
      PROVE  (\A i \in Calls : CallAgrees(i))' /\ OwnRequest'
  <2> DEFINE next == [pc |-> "create", contract |-> c, sr |-> None, added |-> 0]
  <2>1. call' = [call EXCEPT ![h] = next] /\ next.pc = "create" /\ UNCHANGED remote
    BY <1>2 DEF Ask
  <2>2. CallAgrees(h)'
    BY <2>1 DEF CallAgrees, Working, At, ExchangeTypeOK
  <2>3. ASSUME NEW i \in Calls, i # h
        PROVE  CallAgrees(i)'
    BY <2>1, <2>3, OthersAgree DEF ExchangeTypeOK
  <2>4. OwnRequest'
    BY <2>1, LeavesOwn
  <2> QED
    BY <2>2, <2>3, <2>4
<1>3. ASSUME NEW h \in Calls, NEW answered \in BOOLEAN, NEW sr \in Requests,
             CreateRequest(h, sr, answered)
      PROVE  (\A i \in Calls : CallAgrees(i))' /\ OwnRequest'
  <2>1. /\ call[h].pc = "create" /\ call[h].contract \in Contracts /\ call[h] \in Call
        /\ remote[sr] = Nothing
        /\ remote' = [remote EXCEPT ![sr] = [Nothing EXCEPT !.status = "draft",
                                                           !.contract = call[h].contract]]
    BY <1>3 DEF CreateRequest, At, CallAgrees, ExchangeTypeOK
  <2>2. call'[h] = IF answered THEN [call[h] EXCEPT !.pc = "upload", !.sr = sr] ELSE Idle
    BY <1>3 DEF CreateRequest, Then, ExchangeTypeOK
  <2>3. \A i \in Calls \ {h} : call'[i] = call[i]
    BY <1>3 DEF CreateRequest, Then, ExchangeTypeOK
  <2>4. \A i \in Calls : Working(i) => call[i].sr \in Requests \ {sr}
    <3> SUFFICES ASSUME NEW i \in Calls, Working(i)
                 PROVE  call[i].sr \in Requests \ {sr}
      OBVIOUS
    <3>1. call[i].sr \in Requests /\ remote[call[i].sr].status = "draft"
      <4>1. CallAgrees(i)
        OBVIOUS
      <4>2. /\ call[i].sr \in Requests
            /\ remote[call[i].sr] = [status |-> "draft", contract |-> call[i].contract,
                                     document |-> IF At(i, "upload") THEN None
                                                  ELSE call[i].contract,
                                     signers |-> call[i].added]
        BY <4>1, Zenon DEF CallAgrees, Request
      <4> QED
        BY <4>2
    <3>2. remote[sr].status = "none"
      BY <2>1 DEF Nothing
    <3> QED
      BY <3>1, <3>2
  <2>5. ASSUME NEW i \in Calls, i # h
        PROVE  CallAgrees(i)'
    BY <2>1, <2>3, <2>4, <2>5, OthersAgree DEF ExchangeTypeOK
  <2>6. ~Working(h)
    BY <2>1 DEF Working
  <2>7. OwnRequest'
    <3>1. ASSUME NEW i \in Calls, i # h
          PROVE  Working(i)' = Working(i) /\ call'[i].sr = call[i].sr
      BY <2>3, <3>1 DEF Working
    <3>2. Working(h)' => call'[h].sr = sr
      BY <2>2 DEF Working, Idle, ExchangeTypeOK, Call
    <3> QED
      BY <2>4, <3>1, <3>2 DEF OwnRequest
  <2>8. CallAgrees(h)'
    <3>1. CASE answered
      <4>1. /\ call'[h].pc = "upload" /\ call'[h].sr = sr
            /\ call'[h].contract = call[h].contract /\ call'[h].added = 0
        BY <2>1, <2>2, <3>1 DEF CallAgrees, At, Call
      <4>2. remote'[sr] = [status |-> "draft", contract |-> call[h].contract,
                           document |-> None, signers |-> 0]
        BY <2>1 DEF Nothing, ExchangeTypeOK
      <4> QED
        BY <2>1, <4>1, <4>2 DEF CallAgrees, Working, Request, At
    <3>2. CASE ~answered
      BY <2>2, <3>2 DEF CallAgrees, Working, At, Idle
    <3> QED
      BY <3>1, <3>2
  <2> QED
    BY <2>5, <2>7, <2>8
<1>4. ASSUME NEW h \in Calls, NEW answered \in BOOLEAN, UploadDocument(h, answered)
      PROVE  (\A i \in Calls : CallAgrees(i))' /\ OwnRequest'
  <2>1. CallAgrees(h) /\ At(h, "upload") /\ Working(h) /\ call[h] \in Call
    BY <1>4 DEF UploadDocument, At, Working, ExchangeTypeOK
  <2>2. call'[h] = IF answered
                   THEN [call[h] EXCEPT !.pc = IF NSigners = 0 THEN "activate" ELSE "sign"]
                   ELSE Idle
    BY <1>4 DEF UploadDocument, Then, ExchangeTypeOK
  <2>3. \A i \in Calls \ {h} : call'[i] = call[i]
    BY <1>4 DEF UploadDocument, Then, ExchangeTypeOK
  <2>4. \A i \in Calls \ {h} : Working(i) => remote'[call[i].sr] = remote[call[i].sr]
    BY <1>4, <2>1 DEF UploadDocument, OwnRequest, Working, ExchangeTypeOK
  <2>5. ASSUME NEW i \in Calls, i # h
        PROVE  CallAgrees(i)'
    BY <2>3, <2>4, <2>5, OthersAgree
  <2>6. OwnRequest'
    BY <1>4, <2>1, LeavesOwn DEF UploadDocument, Then, Idle, Call
  <2>7. CallAgrees(h)'
    <3>1. CASE answered
      <4>1. /\ call'[h].pc = IF NSigners = 0 THEN "activate" ELSE "sign"
            /\ call'[h].sr = call[h].sr
            /\ call'[h].contract = call[h].contract /\ call'[h].added = 0
        BY <2>1, <2>2, <3>1 DEF CallAgrees, Call
      <4>2. remote'[call[h].sr] = [status |-> "draft", contract |-> call[h].contract,
                                   document |-> call[h].contract, signers |-> 0]
        BY <1>4, <2>1 DEF UploadDocument, CallAgrees, Request, At, ExchangeTypeOK
      <4> QED
        BY <2>1, <4>1, <4>2 DEF CallAgrees, Working, Request, At
    <3>2. CASE ~answered
      BY <2>2, <3>2 DEF CallAgrees, Working, At, Idle
    <3> QED
      BY <3>1, <3>2
  <2> QED
    BY <2>5, <2>6, <2>7
<1>5. ASSUME NEW h \in Calls, NEW answered \in BOOLEAN, AddSigner(h, answered)
      PROVE  (\A i \in Calls : CallAgrees(i))' /\ OwnRequest'
  <2>1. CallAgrees(h) /\ At(h, "sign") /\ Working(h) /\ call[h] \in Call
    BY <1>5 DEF AddSigner, At, Working, ExchangeTypeOK
  <2>2. call'[h] = IF answered
                   THEN [call[h] EXCEPT !.added = call[h].added + 1,
                                        !.pc = IF call[h].added + 1 = NSigners THEN "activate"
                                               ELSE "sign"]
                   ELSE Idle
    BY <1>5 DEF AddSigner, Then, ExchangeTypeOK
  <2>3. \A i \in Calls \ {h} : call'[i] = call[i]
    BY <1>5 DEF AddSigner, Then, ExchangeTypeOK
  <2>4. \A i \in Calls \ {h} : Working(i) => remote'[call[i].sr] = remote[call[i].sr]
    BY <1>5, <2>1 DEF AddSigner, OwnRequest, Working, ExchangeTypeOK
  <2>5. ASSUME NEW i \in Calls, i # h
        PROVE  CallAgrees(i)'
    BY <2>3, <2>4, <2>5, OthersAgree
  <2>6. OwnRequest'
    BY <1>5, <2>1, LeavesOwn DEF AddSigner, Then, Idle, Call
  <2>7. CallAgrees(h)'
    <3>1. CASE answered
      <4>1. /\ call'[h].pc = IF call[h].added + 1 = NSigners THEN "activate" ELSE "sign"
            /\ call'[h].sr = call[h].sr
            /\ call'[h].contract = call[h].contract
            /\ call'[h].added = call[h].added + 1
        BY <2>1, <2>2, <3>1 DEF Call
      <4>2. remote'[call[h].sr] = [status |-> "draft", contract |-> call[h].contract,
                                   document |-> call[h].contract, signers |-> call[h].added + 1]
        BY <1>5, <2>1 DEF AddSigner, CallAgrees, Request, At, ExchangeTypeOK
      <4>3. call[h].added < NSigners /\ call[h].added \in 0..NSigners
        BY <2>1 DEF CallAgrees, Call
      <4> QED
        BY <2>1, <4>1, <4>2, <4>3 DEF CallAgrees, Working, Request, At
    <3>2. CASE ~answered
      BY <2>2, <3>2 DEF CallAgrees, Working, At, Idle
    <3> QED
      BY <3>1, <3>2
  <2> QED
    BY <2>5, <2>6, <2>7
<1>6. ASSUME NEW h \in Calls, NEW answered \in BOOLEAN, Activate(h, answered)
      PROVE  (\A i \in Calls : CallAgrees(i))' /\ OwnRequest'
  <2>1. CallAgrees(h) /\ At(h, "activate") /\ Working(h) /\ call[h] \in Call
    BY <1>6 DEF Activate, At, Working, ExchangeTypeOK
  <2>2. call'[h] = IF answered THEN [call[h] EXCEPT !.pc = "done"] ELSE Idle
    BY <1>6 DEF Activate, Then, ExchangeTypeOK
  <2>3. \A i \in Calls \ {h} : call'[i] = call[i]
    BY <1>6 DEF Activate, Then, ExchangeTypeOK
  <2>4. \A i \in Calls \ {h} : Working(i) => remote'[call[i].sr] = remote[call[i].sr]
    BY <1>6, <2>1 DEF Activate, OwnRequest, Working, ExchangeTypeOK
  <2>5. ASSUME NEW i \in Calls, i # h
        PROVE  CallAgrees(i)'
    BY <2>3, <2>4, <2>5, OthersAgree
  <2>6. OwnRequest'
    BY <1>6, <2>1, LeavesOwn DEF Activate, Then, Idle, Call
  <2>7. CallAgrees(h)'
    BY <2>1, <2>2 DEF CallAgrees, Working, At, Idle, Call
  <2> QED
    BY <2>5, <2>6, <2>7
<1>7. ASSUME NEW h \in Calls, Fails(h)
      PROVE  (\A i \in Calls : CallAgrees(i))' /\ OwnRequest'
  <2>1. call' = [call EXCEPT ![h] = Idle] /\ Idle.pc = "idle" /\ UNCHANGED remote
    BY <1>7 DEF Fails, Idle
  <2>2. CallAgrees(h)'
    BY <2>1 DEF CallAgrees, Working, At, ExchangeTypeOK
  <2>3. ASSUME NEW i \in Calls, i # h
        PROVE  CallAgrees(i)'
    BY <2>1, <2>3, OthersAgree DEF ExchangeTypeOK
  <2>4. OwnRequest'
    BY <2>1, LeavesOwn
  <2> QED
    BY <2>2, <2>3, <2>4
<1> QED
  BY <1>1, <1>2, <1>3, <1>4, <1>5, <1>6, <1>7 DEF ExchangeNext

\* In every state a caller's request holds what the caller has sent, and no other's.
THEOREM ExchangeInvariance == ExchangeSpec => []Exchanging
<1>1. Exchanging /\ [ExchangeNext]_exchangeVars => Exchanging'
  BY StepTyped, StepAgrees DEF Exchanging
<1> QED
  BY InitExchanging, <1>1, PTL DEF ExchangeSpec

-----------------------------------------------------------------------------
(* YouSign: the refinement. *)

\* Nothing is ordered at first.
LEMMA InitOrders == ExchangeInit => Orders!Init
  BY DEF ExchangeInit, Orders!Init, Orders!Idle, activeRequests, orders, ActiveOf, OrderOf,
         Nothing, Idle, At

\* A step of h that leaves every request under way, or not, as it was, moves h's order only.
LEMMA OrderMoves ==
    ASSUME ExchangeTypeOK, NEW h \in Calls, NEW next, call' = [call EXCEPT ![h] = next]
    PROVE  orders' = [orders EXCEPT ![h] = OrderOf(h)']
<1>1. \A i \in Calls \ {h} : OrderOf(i)' = OrderOf(i)
  BY DEF OrderOf, At, ExchangeTypeOK
<1> QED
  BY <1>1 DEF orders

\* What happens to a request that is not under way, before or after, is not seen.
LEMMA DraftsUnseen ==
    ASSUME ExchangeTypeOK, NEW sr \in Requests, NEW to, remote' = [remote EXCEPT ![sr] = to],
           remote[sr].status # "ongoing", to.status # "ongoing"
    PROVE  UNCHANGED activeRequests
<1>1. \A r \in Requests : ActiveOf(r)' = ActiveOf(r)
  BY DEF ActiveOf, ExchangeTypeOK
<1> QED
  BY <1>1 DEF activeRequests

\* A caller that has asked and stops has its order failed.
LEMMA GivesUp ==
    ASSUME Exchanging, NEW h \in Calls, ~At(h, "idle"), ~At(h, "done"),
           call' = [call EXCEPT ![h] = Idle], UNCHANGED activeRequests
    PROVE  Orders!Next
<1>1. orders[h].state = "asked"
  BY DEF orders, OrderOf
<1>2. OrderOf(h)' = Orders!Idle
  BY DEF Exchanging, OrderOf, At, Idle, Orders!Idle, ExchangeTypeOK
<1>3. orders' = [orders EXCEPT ![h] = Orders!Idle]
  BY <1>2, OrderMoves DEF Exchanging
<1>4. Orders!Fail(h)
  BY <1>1, <1>3 DEF Orders!Fail
<1>5. orders'[h].state = "idle"
  BY <1>3 DEF Orders!Idle, orders
<1> QED
  BY <1>1, <1>4, <1>5 DEF Orders!Next

\* A caller that goes on to its next call has still only asked.
LEMMA GoesOn ==
    ASSUME Exchanging, NEW h \in Calls, ~At(h, "idle"), ~At(h, "done"), NEW next,
           call' = [call EXCEPT ![h] = next], next.pc \notin {"idle", "done"},
           next.contract = call[h].contract
    PROVE  UNCHANGED orders
<1>1. OrderOf(h)' = OrderOf(h)
  BY DEF Exchanging, OrderOf, At, ExchangeTypeOK
<1> QED
  BY <1>1, OrderMoves DEF Exchanging, orders

\* Each call is a step of the order, or is not seen.
LEMMA StepOrders ==
    Exchanging /\ [ExchangeNext]_exchangeVars => [Orders!Next]_<<activeRequests, orders>>
<1> SUFFICES ASSUME Exchanging, [ExchangeNext]_exchangeVars
             PROVE  Orders!Next \/ UNCHANGED <<activeRequests, orders>>
  OBVIOUS
<1>1. CASE UNCHANGED exchangeVars
  BY <1>1 DEF exchangeVars, activeRequests, orders, ActiveOf, OrderOf, At
<1>2. ASSUME NEW h \in Calls, NEW c \in Contracts, Ask(h, c)
      PROVE  Orders!Next
  <2>1. orders[h].state # "asked"
    BY <1>2 DEF Ask, orders, OrderOf, At
  <2>2. OrderOf(h)' = [state |-> "asked", contract |-> c, sr |-> None]
    BY <1>2 DEF Ask, OrderOf, At, Exchanging, ExchangeTypeOK
  <2>3. orders' = [orders EXCEPT ![h] = [state |-> "asked", contract |-> c, sr |-> None]]
    BY <1>2, <2>2, OrderMoves DEF Ask, Exchanging
  <2>4. UNCHANGED activeRequests
    BY <1>2 DEF Ask, activeRequests, ActiveOf
  <2>5. Orders!Ask(h, c)
    BY <2>1, <2>3, <2>4 DEF Orders!Ask
  <2>6. orders'[h].state = "asked"
    BY <2>3 DEF orders
  <2> QED
    BY <2>1, <2>5, <2>6 DEF Orders!Next
<1>3. ASSUME NEW h \in Calls, NEW answered \in BOOLEAN, NEW sr \in Requests,
             CreateRequest(h, sr, answered)
      PROVE  Orders!Next \/ UNCHANGED <<activeRequests, orders>>
  <2>1. /\ At(h, "create") /\ ~At(h, "idle") /\ ~At(h, "done")
        /\ call[h] \in Call
    BY <1>3 DEF CreateRequest, At, Exchanging, ExchangeTypeOK
  <2> DEFINE draft == [Nothing EXCEPT !.status = "draft", !.contract = call[h].contract]
  <2>2. draft.status = "draft" /\ remote[sr].status = "none"
    BY <1>3 DEF CreateRequest, Nothing
  <2>3. UNCHANGED activeRequests
    BY <1>3, <2>2, DraftsUnseen DEF CreateRequest, Exchanging
  <2> DEFINE next == [call[h] EXCEPT !.pc = "upload", !.sr = sr]
  <2>4. next.pc = "upload" /\ next.contract = call[h].contract
    BY <2>1 DEF Call
  <2>5. CASE answered
    BY <1>3, <2>1, <2>3, <2>4, <2>5, GoesOn DEF CreateRequest, Then
  <2>6. CASE ~answered
    BY <1>3, <2>1, <2>3, <2>6, GivesUp DEF CreateRequest, Then
  <2> QED
    BY <2>5, <2>6
<1>4. ASSUME NEW h \in Calls, NEW answered \in BOOLEAN, UploadDocument(h, answered)
      PROVE  Orders!Next \/ UNCHANGED <<activeRequests, orders>>
  <2>1. /\ At(h, "upload") /\ ~At(h, "idle") /\ ~At(h, "done")
        /\ call[h] \in Call /\ CallAgrees(h)
    BY <1>4 DEF UploadDocument, At, Exchanging, ExchangeTypeOK
  <2>2. /\ call[h].sr \in Requests
        /\ Request(h) \in Remote
        /\ Request(h).status = "draft"
    BY <2>1 DEF CallAgrees, Working, At, Request, Exchanging, ExchangeTypeOK
  <2> DEFINE to == [Request(h) EXCEPT !.document = call[h].contract]
  <2>3. remote' = [remote EXCEPT ![call[h].sr] = to] /\ to.status = "draft"
    BY <1>4, <2>2 DEF UploadDocument, Request, Remote, Exchanging, ExchangeTypeOK
  <2>4. UNCHANGED activeRequests
    BY <2>2, <2>3, DraftsUnseen DEF Request, Exchanging
  <2> DEFINE next == [call[h] EXCEPT !.pc = IF NSigners = 0 THEN "activate" ELSE "sign"]
  <2>5. next.pc \in {"sign", "activate"} /\ next.contract = call[h].contract
    BY <2>1 DEF Call
  <2>6. CASE answered
    BY <1>4, <2>1, <2>4, <2>5, <2>6, GoesOn DEF UploadDocument, Then
  <2>7. CASE ~answered
    BY <1>4, <2>1, <2>4, <2>7, GivesUp DEF UploadDocument, Then
  <2> QED
    BY <2>6, <2>7
<1>5. ASSUME NEW h \in Calls, NEW answered \in BOOLEAN, AddSigner(h, answered)
      PROVE  Orders!Next \/ UNCHANGED <<activeRequests, orders>>
  <2>1. /\ At(h, "sign") /\ ~At(h, "idle") /\ ~At(h, "done")
        /\ call[h] \in Call /\ CallAgrees(h)
    BY <1>5 DEF AddSigner, At, Exchanging, ExchangeTypeOK
  <2>2. /\ call[h].sr \in Requests
        /\ Request(h) \in Remote
        /\ Request(h).status = "draft"
    BY <2>1 DEF CallAgrees, Working, At, Request, Exchanging, ExchangeTypeOK
  <2> DEFINE to == [Request(h) EXCEPT !.signers = @ + 1]
  <2>3. remote' = [remote EXCEPT ![call[h].sr] = to] /\ to.status = "draft"
    BY <1>5, <2>2 DEF AddSigner, Request, Remote, Exchanging, ExchangeTypeOK
  <2>4. UNCHANGED activeRequests
    BY <2>2, <2>3, DraftsUnseen DEF Request, Exchanging
  <2> DEFINE next == [call[h] EXCEPT !.added = @ + 1,
                                   !.pc = IF call[h].added + 1 = NSigners THEN "activate"
                                          ELSE "sign"]
  <2>5. next.pc \in {"sign", "activate"} /\ next.contract = call[h].contract
    BY <2>1 DEF Call
  <2>6. CASE answered
    BY <1>5, <2>1, <2>4, <2>5, <2>6, GoesOn DEF AddSigner, Then
  <2>7. CASE ~answered
    BY <1>5, <2>1, <2>4, <2>7, GivesUp DEF AddSigner, Then
  <2> QED
    BY <2>6, <2>7
<1>6. ASSUME NEW h \in Calls, NEW answered \in BOOLEAN, Activate(h, answered)
      PROVE  Orders!Next
  <2>1. /\ At(h, "activate") /\ ~At(h, "idle") /\ ~At(h, "done")
        /\ call[h] \in Call /\ CallAgrees(h)
    BY <1>6 DEF Activate, At, Exchanging, ExchangeTypeOK
  <2>2. PICK sr \in Requests, c \in Contracts : sr = call[h].sr /\ c = call[h].contract
    BY <2>1 DEF CallAgrees, Working, At
  <2>3. remote[sr] = [status |-> "draft", contract |-> c, document |-> c, signers |-> NSigners]
    BY <2>1, <2>2 DEF CallAgrees, Working, At, Request
  <2>4. remote' = [remote EXCEPT ![sr] = [status |-> "ongoing", contract |-> c,
                                          document |-> c, signers |-> NSigners]]
    <3>1. remote' = [remote EXCEPT ![sr] = [remote[sr] EXCEPT !.status = "ongoing"]]
      BY <1>6, <2>2 DEF Activate, Exchanging, ExchangeTypeOK
    <3>2. [remote[sr] EXCEPT !.status = "ongoing"]
            = [status |-> "ongoing", contract |-> c, document |-> c, signers |-> NSigners]
      BY <2>3
    <3> QED
      BY <3>1, <3>2
  <2>5. /\ activeRequests[sr] = None
        /\ activeRequests' = [activeRequests EXCEPT ![sr] = Orders!Whole(c)]
    <3>1. ActiveOf(sr)' = Orders!Whole(c)
      BY <2>4 DEF ActiveOf, Orders!Whole, Exchanging, ExchangeTypeOK
    <3>2. \A r \in Requests \ {sr} : ActiveOf(r)' = ActiveOf(r)
      BY <2>4 DEF ActiveOf, Exchanging, ExchangeTypeOK
    <3>3. ActiveOf(sr) = None
      BY <2>3 DEF ActiveOf
    <3> QED
      BY <3>1, <3>2, <3>3 DEF activeRequests
  <2>6. orders[h] = [state |-> "asked", contract |-> c, sr |-> None]
    BY <2>1, <2>2 DEF orders, OrderOf
  <2> DEFINE sent == [state |-> "sent", contract |-> c, sr |-> sr]
  <2>7. orders' = [orders EXCEPT ![h] = IF answered THEN sent ELSE Orders!Idle]
    <3>1. call'[h] = IF answered THEN [call[h] EXCEPT !.pc = "done"] ELSE Idle
      BY <1>6 DEF Activate, Then, Exchanging, ExchangeTypeOK
    <3>2. OrderOf(h)' = IF answered THEN sent ELSE Orders!Idle
      BY <2>1, <2>2, <3>1 DEF OrderOf, At, Idle, Orders!Idle, Call
    <3> QED
      BY <1>6, <3>2, OrderMoves DEF Activate, Then, Exchanging
  <2>8. orders[h].contract = c
    BY <2>6
  <2>9. Orders!Send(h, sr, answered)
    BY <2>5, <2>6, <2>7, <2>8 DEF Orders!Send
  <2>10. orders'[h].state # "asked"
    BY <2>7 DEF orders, Orders!Idle
  <2> QED
    BY <2>6, <2>9, <2>10 DEF Orders!Next
<1>7. ASSUME NEW h \in Calls, Fails(h)
      PROVE  Orders!Next
  <2>1. UNCHANGED activeRequests
    BY <1>7 DEF Fails, activeRequests, ActiveOf
  <2> QED
    BY <1>7, <2>1, GivesUp DEF Fails, At
<1> QED
  BY <1>1, <1>2, <1>3, <1>4, <1>5, <1>6, <1>7 DEF ExchangeNext

\* The four calls are one order, sent whole or not at all
\* (YousignClient.createAndActivateSignatureRequest).
THEOREM Refinement == ExchangeSpec => ImplementsOrders
  BY InitOrders, StepOrders, ExchangeInvariance, PTL
     DEF ExchangeSpec, ImplementsOrders, Orders!Spec
=============================================================================
