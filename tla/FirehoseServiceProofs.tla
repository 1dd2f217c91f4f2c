----------------------- MODULE FirehoseServiceProofs -----------------------
(***************************************************************************)
(* Theorems about a clean link of FirehoseLink: what is on the wire at     *)
(* each point of a call, and that the link implements FlashService.        *)
(*                                                                         *)
(* They hold if no read from the port ends just in front of the close of a *)
(* document (~SplitClose); ReadExact fails otherwise.                      *)
(***************************************************************************)
EXTENDS FirehoseLinkProofs

-----------------------------------------------------------------------------
(* The shape of a clean link *)

\* Tokens of a response's document.
Width == IF wraps THEN 3 ELSE 2

\* A response to command id stands behind the first p tokens of s.
RespondsAt(s, p, id, ok) ==
  /\ p + Width <= Len(s)
  /\ s[p + 1].k = "head" /\ s[p + 1].id = id /\ s[p + 1].ok = ok
  /\ s[p + 2].k = "end"
  /\ wraps => s[p + 3].k = "close"

NoHead(s, p) == \A j \in 1..p : s[j].k # "head"
NoHex(s, p)  == \A j \in 1..p : s[j].k # "hex"

\* Nothing but log lines, whole ones.
Quiet(s) ==
  /\ \A j \in 1..Len(s) : s[j].k \in {"log", "close"}
  /\ Len(s) >= 1 => s[1].k = "log"

\* The sectors of the call behind its first k are behind the first p tokens
\* of s as raw data, with the completion response behind them.
CompletesAt(s, p, k) ==
  /\ Len(s) = p + (call.n - k) + Width
  /\ \A j \in 1..(call.n - k) : s[p + j].k = "raw" /\ s[p + j].v = disk[call.at + k + j - 1]
  /\ \E ok \in BOOLEAN : RespondsAt(s, p + (call.n - k), call.id, ok)

\* The hex log lines among the first p tokens of s are those behind the first
\* b, and have the call's sectors.
HexRun(s, b, p) ==
  /\ b + call.n <= p
  /\ \A j \in 1..p : s[j].k = "hex" <=> b + 1 <= j /\ j <= b + call.n
  /\ \A r \in 1..call.n : s[b + r].v = disk[call.at + r - 1]

HexesIn(s, p) == \E b \in 0..p : HexRun(s, b, p)

Sent     == tx = <<Cmd(call)>> /\ dev.st = "idle" /\ Quiet(stream)
Silent   == tx = <<>> /\ dev.st = "idle"
Erased   == \A s \in Span(call) : disk[s] = Zero
Stored(k) == \A j \in 1..k : disk[call.at + j - 1] = call.data[j]

\* The answer to the call, its first verdict ok, stands behind the first p
\* tokens of s, or, if its data came as hex log lines, they are among those.
Says(s, p, ok) ==
  /\ NoHead(s, p) /\ RespondsAt(s, p, call.id, ok)
  /\ IF call.op = "read" /\ ok
     THEN \/ NoHex(s, p) /\ CompletesAt(s, p + Width, 0)
          \/ HexesIn(s, p) /\ CompletesAt(s, p + Width, call.n)
     ELSE Len(s) = p + Width

\* The device has refused the call, carried it out, or accepted its data.
Answered(p, ok) ==
  /\ tx = <<>> /\ Says(stream, p, ok)
  /\ IF call.op = "program" /\ ok THEN dev = [st |-> "data", c |-> call, done |-> 0]
     ELSE dev.st = "idle"
  /\ call.op = "erase" /\ ok => Erased

\* The device is at the k-th sector of a program's data, or has answered.
Storing(k) ==
  /\ Stored(k)
  /\ IF k < call.n
     THEN /\ dev = [st |-> "data", c |-> call, done |-> k] /\ stream = <<>>
          /\ Len(tx) = call.n - k /\ \A j \in 1..(call.n - k) : tx[j].v = call.data[k + j]
     ELSE Silent /\ CompletesAt(stream, 0, call.n)

\* What has been collected of a read are the first sectors of it.
Collected == \A j \in 1..Len(got) : got[j] = disk[call.at + j - 1]

CallShape ==
  /\ call.op # "peek" /\ (call.op # "query" => call.n >= 1)
  /\ call.op = "program" => \A j \in 1..call.n : call.data[j] \in Vals
  /\ pc # "idle" => result = NoResult

CutShape ==
  /\ arrived < Len(stream) => stream[arrived + 1].k # "close"
  /\ ~wraps => \A j \in 1..Len(stream) : stream[j].k # "close"

WireShape ==
  /\ pc # "peek"
  /\ pc \in {"drain", "drainmore"} => fetched = 0
  /\ pc \in {"drain", "drainmore", "idle"} => Silent /\ Quiet(stream)
  /\ pc = "resp"  => Sent \/ \E p \in 0..Len(stream), ok \in BOOLEAN : Answered(p, ok)
  /\ pc \in {"raw", "final"} /\ call.op = "read" =>
       Silent /\ Collected /\ CompletesAt(stream, 0, Len(got))
  /\ pc = "final" /\ call.op = "program" => \E k \in 0..call.n : Storing(k)

Unspoiled == \A s \in Sectors : disk[s] # Junk

CleanInv ==
  clean => CallShape /\ CutShape /\ WireShape /\ Unspoiled /\ AnswersOwn /\ ReadExact

-----------------------------------------------------------------------------
(* The same tokens at another place *)

WidthFacts == Width \in Nat /\ Width >= 2 /\ Width = IF wraps THEN 3 ELSE 2

LEMMA WidthIsSmall == WidthFacts
  BY DEF WidthFacts, Width

\* t is s without its first e tokens.
Behind(t, s, e) ==
  /\ Len(t) \in Nat /\ Len(s) = e + Len(t)
  /\ \A j \in 1..Len(t) : t[j] = s[e + j]

LEMMA RespondsBehind ==
  ASSUME NEW s, NEW t, NEW e \in Nat, Behind(t, s, e), NEW p \in Nat, NEW id, NEW ok
  PROVE  RespondsAt(t, p, id, ok) <=> RespondsAt(s, e + p, id, ok)
<1>1. p + Width <= Len(t) <=> (e + p) + Width <= Len(s)
  BY WidthIsSmall DEF Behind, WidthFacts
<1>2. ASSUME p + Width <= Len(t)
      PROVE  /\ t[p + 1] = s[(e + p) + 1] /\ t[p + 2] = s[(e + p) + 2]
             /\ wraps => t[p + 3] = s[(e + p) + 3]
  <2>1. p + 1 \in 1..Len(t) /\ p + 2 \in 1..Len(t) /\ (wraps => p + 3 \in 1..Len(t))
    BY <1>2, WidthIsSmall DEF Behind, WidthFacts
  <2>2. e + (p + 1) = (e + p) + 1 /\ e + (p + 2) = (e + p) + 2 /\ e + (p + 3) = (e + p) + 3
    OBVIOUS
  <2> QED  BY <2>1, <2>2 DEF Behind
<1> QED  BY <1>1, <1>2 DEF RespondsAt

LEMMA CompletesBehind ==
  ASSUME NEW s, NEW t, NEW e \in Nat, Behind(t, s, e), NEW p \in Nat,
         call.n \in Nat, NEW k \in 0..call.n
  PROVE  CompletesAt(t, p, k) <=> CompletesAt(s, e + p, k)
<1> DEFINE m == call.n - k
<1>1. m \in Nat
  OBVIOUS
<1> HIDE DEF m
<1>2. Len(t) = p + m + Width <=> Len(s) = (e + p) + m + Width
  <2>1. Len(t) \in Nat /\ Len(s) = e + Len(t) /\ Width \in Nat
    BY WidthIsSmall DEF Behind, WidthFacts
  <2> QED  BY <1>1, <2>1
<1>3. ASSUME Len(t) = p + m + Width, NEW j \in 1..m PROVE t[p + j] = s[(e + p) + j]
  <2>1. p + j \in 1..Len(t) /\ e + (p + j) = (e + p) + j
    BY <1>1, <1>3, WidthIsSmall DEF WidthFacts
  <2> QED  BY <2>1 DEF Behind
<1>4. \A ok \in BOOLEAN : RespondsAt(t, p + m, call.id, ok) <=> RespondsAt(s, (e + p) + m, call.id, ok)
  <2>1. p + m \in Nat /\ e + (p + m) = (e + p) + m
    BY <1>1
  <2> QED  BY <2>1, RespondsBehind
<1> QED  BY <1>2, <1>3, <1>4 DEF CompletesAt, m

\* What is behind the next m sectors is the rest of the read.
LEMMA CompletesLater ==
  ASSUME NEW s, NEW p \in Nat, call.n \in Nat, call.at \in Nat, NEW k \in Nat, NEW m \in Nat,
         k + m <= call.n, CompletesAt(s, p, k)
  PROVE  CompletesAt(s, p + m, k + m)
<1>1. /\ call.n - k \in Nat /\ call.n - (k + m) \in Nat
      /\ p + (call.n - k) = (p + m) + (call.n - (k + m))
  OBVIOUS
<1>2. Len(s) = (p + m) + (call.n - (k + m)) + Width
  BY <1>1 DEF CompletesAt
<1>3. ASSUME NEW j \in 1..(call.n - (k + m))
      PROVE  s[(p + m) + j].k = "raw" /\ s[(p + m) + j].v = disk[call.at + (k + m) + j - 1]
  <2>1. /\ m + j \in 1..(call.n - k) /\ p + (m + j) = (p + m) + j
        /\ call.at + k + (m + j) - 1 = call.at + (k + m) + j - 1
    BY <1>1
  <2>2. s[p + (m + j)].k = "raw" /\ s[p + (m + j)].v = disk[call.at + k + (m + j) - 1]
    BY <2>1 DEF CompletesAt
  <2> QED  BY <2>1, <2>2
<1> QED  BY <1>1, <1>2, <1>3 DEF CompletesAt

\* A response stays where it is when more is put behind it.
LEMMA RespondsBefore ==
  ASSUME NEW s \in Seq(Token), NEW t \in Seq(Token), NEW p \in Nat, NEW id, NEW ok,
         RespondsAt(s, p, id, ok)
  PROVE  RespondsAt(s \o t, p, id, ok)
<1>1. /\ Len(s) \in Nat /\ Len(t) \in Nat /\ Len(s \o t) = Len(s) + Len(t)
      /\ \A j \in 1..Len(s) : (s \o t)[j] = s[j]
  BY ConcatProperties, LenProperties
<1>2. p + 1 \in 1..Len(s) /\ p + 2 \in 1..Len(s) /\ (wraps => p + 3 \in 1..Len(s))
  BY <1>1, WidthIsSmall DEF RespondsAt, WidthFacts
<1>3. p + Width <= Len(s \o t)
  BY <1>1, WidthIsSmall DEF RespondsAt, WidthFacts
<1> QED  BY <1>1, <1>2, <1>3 DEF RespondsAt

LEMMA ConcatBehind ==
  ASSUME NEW s \in Seq(Token), NEW t \in Seq(Token)
  PROVE  Behind(t, s \o t, Len(s)) /\ Len(s) \in Nat
<1>1. /\ Len(s) \in Nat /\ Len(t) \in Nat /\ Len(s \o t) = Len(s) + Len(t)
      /\ \A j \in 1..(Len(s) + Len(t)) : (s \o t)[j] = IF j <= Len(s) THEN s[j] ELSE t[j - Len(s)]
  BY ConcatProperties, LenProperties
<1>2. ASSUME NEW j \in 1..Len(t) PROVE (s \o t)[Len(s) + j] = t[j]
  <2>1. Len(s) + j \in 1..(Len(s) + Len(t)) /\ ~(Len(s) + j <= Len(s)) /\ (Len(s) + j) - Len(s) = j
    BY <1>1
  <2> QED  BY <1>1, <2>1
<1> QED  BY <1>1, <1>2 DEF Behind

LEMMA QuietFacts ==
  ASSUME NEW s \in Seq(Token), Quiet(s)
  PROVE  Len(s) \in Nat /\ NoHead(s, Len(s)) /\ NoHex(s, Len(s))
  BY LenProperties DEF Quiet, NoHead, NoHex

\* Behind quiet tokens, an answer says what it says.
LEMMA SaysBehindQuiet ==
  ASSUME NEW s \in Seq(Token), Quiet(s), NEW t \in Seq(Token), NEW p \in 0..Len(t),
         NEW ok \in BOOLEAN, call.n \in Nat, Says(t, p, ok)
  PROVE  Says(s \o t, Len(s) + p, ok)
<1> DEFINE e == Len(s)   u == s \o t
<1>1. /\ e \in Nat /\ Len(t) \in Nat /\ Len(u) = e + Len(t) /\ p \in Nat /\ p <= Len(t)
      /\ \A j \in 1..(e + Len(t)) : u[j] = IF j <= e THEN s[j] ELSE t[j - e]
  BY ConcatProperties, LenProperties
<1>2. Behind(t, u, e)
  BY ConcatBehind
<1> HIDE DEF e, u
<1>3. NoHead(s, e) /\ NoHex(s, e)
  BY QuietFacts DEF e
<1>4. ASSUME NEW j \in 1..(e + p)
      PROVE  IF j <= e THEN u[j] = s[j] /\ j \in 1..e ELSE u[j] = t[j - e] /\ j - e \in 1..p
  BY <1>1
<1>5. NoHead(u, e + p) /\ (NoHex(t, p) => NoHex(u, e + p))
  BY <1>3, <1>4 DEF NoHead, NoHex, Says
<1>6. RespondsAt(u, e + p, call.id, ok)
  BY <1>1, <1>2, RespondsBehind DEF Says
<1>7. WidthFacts /\ e + (p + Width) = (e + p) + Width /\ p + Width \in Nat
  BY <1>1, WidthIsSmall DEF WidthFacts
<1>8. \A k \in 0..call.n : CompletesAt(t, p + Width, k) => CompletesAt(u, (e + p) + Width, k)
  BY <1>1, <1>2, <1>7, CompletesBehind
<1>9. HexesIn(t, p) => HexesIn(u, e + p)
  <2> SUFFICES ASSUME HexesIn(t, p) PROVE HexesIn(u, e + p)
    OBVIOUS
  <2>1. PICK b \in 0..p :
          /\ b + call.n <= p
          /\ \A j \in 1..p : t[j].k = "hex" <=> b + 1 <= j /\ j <= b + call.n
          /\ \A r \in 1..call.n : t[b + r].v = disk[call.at + r - 1]
    BY DEF HexesIn, HexRun
  <2> DEFINE c == e + b
  <2>2. c \in 0..(e + p) /\ c + call.n <= e + p
    BY <1>1, <2>1
  <2>3. ASSUME NEW j \in 1..(e + p)
        PROVE  u[j].k = "hex" <=> c + 1 <= j /\ j <= c + call.n
    <3>1. CASE j <= e
      BY <1>1, <1>3, <1>4, <2>1, <3>1 DEF NoHex
    <3>2. CASE j > e
      <4>1. u[j] = t[j - e] /\ j - e \in 1..p
        BY <1>1, <1>4, <3>2
      <4>2. t[j - e].k = "hex" <=> b + 1 <= j - e /\ j - e <= b + call.n
        BY <2>1, <4>1
      <4> QED  BY <1>1, <2>1, <4>1, <4>2
    <3> QED  BY <1>1, <3>1, <3>2
  <2>4. ASSUME NEW r \in 1..call.n PROVE u[c + r].v = disk[call.at + r - 1]
    <3>1. c + r \in 1..(e + p) /\ ~(c + r <= e) /\ (c + r) - e = b + r
      BY <1>1, <2>1
    <3>2. u[c + r] = t[b + r]
      BY <1>4, <3>1
    <3> QED  BY <2>1, <3>2
  <2> QED  BY <2>2, <2>3, <2>4 DEF HexesIn, HexRun
<1>10. (Len(t) = p + Width) => (Len(u) = (e + p) + Width)
  BY <1>1, <1>7 DEF WidthFacts
<1>11. 0 \in 0..call.n /\ call.n \in 0..call.n
  OBVIOUS
<1>12. Says(u, e + p, ok)
  BY <1>5, <1>6, <1>8, <1>9, <1>10, <1>11 DEF Says
<1> QED  BY <1>12 DEF e, u

-----------------------------------------------------------------------------
(* What the client finds, and what it leaves *)

LEMMA StreamFacts ==
  ASSUME StreamOK
  PROVE  /\ Len(stream) \in Nat /\ arrived \in Nat /\ fetched \in Nat
         /\ fetched <= arrived /\ arrived <= Len(stream)
  BY LenProperties DEF StreamOK

LEMMA NextTo ==
  ASSUME NEW i \in Nat, NEW p \in Nat, ~(i <= p), ~(p + 1 <= i - 1)
  PROVE  i = p + 1
  OBVIOUS

\* The first response in the stream is the one the client reads, whole.
LEMMA ReplyAt ==
  ASSUME StreamOK, CutShape, NEW p \in Nat, NoHead(stream, p), NEW id, NEW ok,
         RespondsAt(stream, p, id, ok),
         NEW i \in 1..arrived, NEW e \in 1..arrived, NEW b, Reply(i, e, b)
  PROVE  /\ i = p + 1 /\ e = p + Width /\ e \in Nat /\ e <= arrived
         /\ stream[i].id = id /\ stream[i].ok = ok
<1>1. /\ Len(stream) \in Nat /\ arrived \in Nat /\ arrived <= Len(stream)
      /\ e \in Nat /\ e <= arrived /\ i \in Nat /\ p \in Nat
  BY StreamFacts
<1>2. PICK first \in 1..i, r \in 1..e : ResponseAt(first, r, arrived) /\ TextEnd(r, arrived, e)
  BY DEF Reply
<1>3. first \in Nat /\ r \in Nat /\ first < r /\ r <= arrived /\ first <= i /\ r <= e
  BY <1>1, <1>2 DEF ResponseAt
<1>4. first = p + 1
  <2>1. stream[first].k = "head" /\ \A j \in 1..(first-1) : stream[j].k # "head"
    BY <1>2 DEF ResponseAt
  <2>2. ~(first <= p)
    BY <1>1, <1>3, <2>1 DEF NoHead
  <2>3. stream[p + 1].k = "head"
    BY DEF RespondsAt
  <2>4. ~(p + 1 <= first - 1)
    BY <1>1, <1>3, <2>1, <2>3
  <2> QED  BY <1>1, <1>3, <2>2, <2>4, NextTo
<1>5. r = p + 2 /\ p + 2 <= arrived
  <2>1. Slash(p + 2)
    BY DEF RespondsAt, Slash
  <2>2. ~(p + 2 <= r - 1)
    BY <1>1, <1>2, <1>3, <1>4, <2>1 DEF ResponseAt
  <2> QED  BY <1>1, <1>3, <1>4, <2>2
<1> DEFINE closes == {j \in (r+1)..arrived : stream[j].k = "close"}
<1>6. IF closes = {} THEN e = r ELSE e \in closes /\ \A j \in closes : e <= j
  BY <1>2 DEF TextEnd
<1>7. e <= p + 3 /\ (e = p + 3 => stream[p + 3].k = "close") => i = p + 1
  <2> SUFFICES ASSUME e <= p + 3, e = p + 3 => stream[p + 3].k = "close", i # p + 1
               PROVE  FALSE
    OBVIOUS
  <2>1. i <= e /\ stream[i].k = "head"
    BY DEF Reply
  <2>2. i = p + 2 \/ i = p + 3
    BY <1>1, <1>3, <1>4, <2>1
  <2>3. stream[p + 2].k = "end"
    BY DEF RespondsAt
  <2>4. i = p + 3 => e = p + 3
    BY <1>1, <2>1
  <2> QED  BY <2>1, <2>2, <2>3, <2>4
<1>8. CASE wraps
  <2>1. Width = 3 /\ p + 3 <= Len(stream) /\ stream[p + 3].k = "close"
    BY <1>8 DEF Width, RespondsAt
  <2>2. p + 3 <= arrived
    <3>1. CASE arrived = p + 2
      <4>1. arrived < Len(stream) /\ arrived + 1 = p + 3
        BY <1>1, <2>1, <3>1
      <4> QED  BY <2>1, <4>1 DEF CutShape
    <3> QED  BY <1>1, <1>5, <3>1
  <2>3. p + 3 \in closes /\ \A j \in closes : p + 3 <= j
    BY <1>1, <1>5, <2>1, <2>2
  <2>4. e \in closes /\ e <= p + 3
    BY <1>6, <2>3
  <2>5. e = p + 3
    BY <1>1, <1>5, <2>3, <2>4
  <2> QED  BY <1>1, <1>7, <2>1, <2>5 DEF RespondsAt
<1>9. CASE ~wraps
  <2>1. Width = 2
    BY <1>9 DEF Width
  <2>2. closes = {}
    BY <1>1, <1>9 DEF CutShape
  <2> QED  BY <1>1, <1>6, <1>5, <1>7, <2>1, <2>2 DEF RespondsAt
<1> QED  BY <1>8, <1>9

\* There is no response to read in quiet tokens.
LEMMA NoReply ==
  ASSUME StreamOK, Quiet(stream),
         NEW i \in 1..arrived, NEW e, NEW b, Reply(i, e, b)
  PROVE  FALSE
<1>1. i \in 1..Len(stream) /\ stream[i].k = "head"
  BY StreamFacts DEF Reply
<1> QED  BY <1>1 DEF Quiet

LEMMA RestLen ==
  ASSUME NEW e \in Nat, NEW n \in Nat, e <= n
  PROVE  (IF e + 1 <= n THEN n - (e + 1) + 1 ELSE 0) = n - e
  OBVIOUS

\* Using tokens that have arrived keeps the rest, and the cut.
LEMMA UseRest ==
  ASSUME StreamOK, CutShape, NEW e \in Nat, NEW f \in Nat, e <= f, f <= arrived,
         Use(e, f), UNCHANGED style
  PROVE  Behind(stream', stream, e) /\ CutShape'
<1>1. /\ Len(stream) \in Nat /\ arrived \in Nat /\ arrived <= Len(stream)
  BY StreamFacts
<1>2. stream' = SubSeq(stream, e + 1, Len(stream)) /\ arrived' = arrived - e /\ wraps' = wraps
  BY DEF Use, style
<1>3. \A j \in (e+1)..Len(stream) : stream[j] \in Token
  BY <1>1, ElementOfSeq DEF StreamOK
<1>4. /\ Len(stream') = Len(stream) - e
      /\ \A j \in 1..(Len(stream) - e) : stream'[j] = stream[e + j]
  <2>1. /\ Len(stream') = IF e + 1 <= Len(stream) THEN Len(stream) - (e + 1) + 1 ELSE 0
        /\ \A j \in 1..(Len(stream) - (e + 1) + 1) : stream'[j] = stream[(e + 1) + j - 1]
    BY <1>1, <1>2, <1>3, SubSeqProperties
  <2>2. /\ Len(stream) - (e + 1) + 1 = Len(stream) - e
        /\ \A j \in 1..(Len(stream) - e) : (e + 1) + j - 1 = e + j
    BY <1>1
  <2>3. Len(stream') = Len(stream) - e
    BY <1>1, <2>1
  <2>4. ASSUME NEW j \in 1..(Len(stream) - e) PROVE stream'[j] = stream[e + j]
    <3>1. j \in 1..(Len(stream) - (e + 1) + 1) /\ (e + 1) + j - 1 = e + j
      BY <2>2
    <3>2. stream'[j] = stream[(e + 1) + j - 1]
      BY <2>1, <3>1
    <3> QED  BY <3>1, <3>2
  <2> QED  BY <2>3, <2>4
<1>5. Behind(stream', stream, e)
  BY <1>1, <1>4 DEF Behind
<1>6. arrived' < Len(stream') => stream'[arrived' + 1].k # "close"
  <2> SUFFICES ASSUME arrived' < Len(stream') PROVE stream'[arrived' + 1].k # "close"
    OBVIOUS
  <2>1. arrived' + 1 \in 1..(Len(stream) - e) /\ e + (arrived' + 1) = arrived + 1
        /\ arrived < Len(stream)
    BY <1>1, <1>2, <1>4
  <2>2. stream'[arrived' + 1] = stream[arrived + 1]
    BY <1>4, <2>1
  <2> QED  BY <2>1, <2>2 DEF CutShape
<1>7. ~wraps' => \A j \in 1..Len(stream') : stream'[j].k # "close"
  <2>1. \A j \in 1..Len(stream') : e + j \in 1..Len(stream) /\ stream'[j] = stream[e + j]
    BY <1>1, <1>4
  <2> QED  BY <1>2, <2>1 DEF CutShape
<1> QED  BY <1>5, <1>6, <1>7 DEF CutShape

-----------------------------------------------------------------------------
(* The device's answers *)

Opens(s) == Len(s) >= 1 /\ s[1].k # "close"
Plain(s) == ~wraps => \A j \in 1..Len(s) : s[j].k # "close"

LEMMA ConcatFits ==
  ASSUME NEW s \in Seq(Token), NEW t \in Seq(Token), Opens(s), Plain(s), Plain(t)
  PROVE  Opens(s \o t) /\ Plain(s \o t)
<1>1. /\ Len(s) \in Nat /\ Len(t) \in Nat /\ Len(s \o t) = Len(s) + Len(t)
      /\ \A j \in 1..(Len(s) + Len(t)) : (s \o t)[j] = IF j <= Len(s) THEN s[j] ELSE t[j - Len(s)]
  BY ConcatProperties, LenProperties
<1>2. Opens(s \o t)
  BY <1>1 DEF Opens
<1>3. ASSUME ~wraps, NEW j \in 1..Len(s \o t) PROVE (s \o t)[j].k # "close"
  <2>1. CASE j <= Len(s)
    <3>1. j \in 1..Len(s) /\ (s \o t)[j] = s[j]
      BY <1>1, <2>1
    <3> QED  BY <1>3, <3>1 DEF Plain
  <2>2. CASE ~(j <= Len(s))
    <3>1. j - Len(s) \in 1..Len(t) /\ (s \o t)[j] = t[j - Len(s)]
      BY <1>1, <2>2
    <3> QED  BY <1>3, <3>1 DEF Plain
  <2> QED  BY <2>1, <2>2
<1> QED  BY <1>2, <1>3 DEF Plain

\* The tokens of a document, and the one that closes it.
LEMMA DocShape ==
  ASSUME NEW id \in Nat, NEW toks \in Seq(Token), Opens(toks),
         \A j \in 1..Len(toks) : toks[j].k # "close"
  PROVE  /\ Doc(id, toks) \in Seq(Token)
         /\ Len(Doc(id, toks)) = Len(toks) + Width - 2
         /\ \A j \in 1..Len(toks) : Doc(id, toks)[j] = toks[j]
         /\ wraps => Doc(id, toks)[Len(toks) + 1].k = "close"
         /\ Opens(Doc(id, toks)) /\ Plain(Doc(id, toks))
<1>1. Doc(id, toks) \in Seq(Token)
  BY DocType
<1>2. Len(toks) \in Nat /\ Len(toks) >= 1
  BY LenProperties DEF Opens
<1>3. CASE wraps
  <2> DEFINE t == Tok("close", id, TRUE, Junk)
  <2>1. t \in Token /\ t.k = "close"
    BY TokType, DataFacts DEF Kinds, Tok
  <2>2. Doc(id, toks) = Append(toks, t)
    BY <1>3 DEF Doc
  <2> HIDE DEF t
  <2>3. /\ Len(Append(toks, t)) = Len(toks) + 1
        /\ \A j \in 1..Len(toks) : Append(toks, t)[j] = toks[j]
        /\ Append(toks, t)[Len(toks) + 1] = t
    BY <2>1, AppendProperties
  <2>4. Width = 3
    BY <1>3 DEF Width
  <2>5. Opens(Append(toks, t))
    BY <1>2, <2>3 DEF Opens
  <2>6. Len(toks) + 1 = Len(toks) + Width - 2
    BY <1>2, <2>4
  <2> QED  BY <1>1, <1>3, <2>1, <2>2, <2>3, <2>5, <2>6 DEF Plain
<1>4. CASE ~wraps
  <2>1. Doc(id, toks) = toks /\ Width = 2
    BY <1>4 DEF Doc, Width
  <2>2. Len(toks) = Len(toks) + Width - 2
    BY <1>2, <2>1
  <2> QED  BY <1>1, <1>4, <2>1, <2>2 DEF Plain
<1> QED  BY <1>3, <1>4

LEMMA LogDocShape ==
  ASSUME NEW id \in Nat
  PROVE  /\ LogDoc(id) \in Seq(Token) /\ Quiet(LogDoc(id))
         /\ Opens(LogDoc(id)) /\ Plain(LogDoc(id))
<1> DEFINE t == Tok("log", id, TRUE, Junk)
           ts == <<t>>
           D == Doc(id, ts)
<1>1. t \in Token /\ t.k = "log"
  BY TokType, DataFacts DEF Kinds, Tok
<1>2. LogDoc(id) = D
  BY DEF LogDoc
<1> HIDE DEF t
<1>3. ts \in Seq(Token) /\ Len(ts) = 1 /\ ts[1] = t
  BY <1>1
<1> HIDE DEF ts
<1>4. Opens(ts) /\ \A j \in 1..Len(ts) : ts[j].k # "close"
  BY <1>1, <1>3 DEF Opens
<1>5. /\ D \in Seq(Token) /\ Len(D) = 1 + Width - 2 /\ D[1] = t
      /\ wraps => D[2].k = "close"
      /\ Opens(D) /\ Plain(D)
  <2>1. /\ Doc(id, ts) \in Seq(Token) /\ Len(Doc(id, ts)) = Len(ts) + Width - 2
        /\ \A j \in 1..Len(ts) : Doc(id, ts)[j] = ts[j]
        /\ wraps => Doc(id, ts)[Len(ts) + 1].k = "close"
        /\ Opens(Doc(id, ts)) /\ Plain(Doc(id, ts))
    BY <1>3, <1>4, DocShape
  <2>2. 1 \in 1..Len(ts) /\ Len(ts) + 1 = 2
    BY <1>3
  <2> QED  BY <1>3, <2>1, <2>2
<1> HIDE DEF D
<1>6. Quiet(D)
  <2>1. CASE wraps
    <3>1. Len(D) = 2 /\ 1..2 = {1, 2}
      BY <1>5, <2>1 DEF Width
    <3>2. \A j \in {1, 2} : D[j].k \in {"log", "close"}
      BY <1>1, <1>5, <2>1
    <3> QED  BY <1>1, <1>5, <3>1, <3>2 DEF Quiet
  <2>2. CASE ~wraps
    <3>1. Len(D) = 1 /\ 1..1 = {1}
      BY <1>5, <2>2 DEF Width
    <3>2. \A j \in {1} : D[j].k \in {"log", "close"}
      BY <1>1, <1>5
    <3> QED  BY <1>1, <1>5, <3>1, <3>2 DEF Quiet
  <2> QED  BY <2>1, <2>2
<1> QED  BY <1>2, <1>5, <1>6

LEMMA RespDocShape ==
  ASSUME NEW id \in Nat, NEW ok \in BOOLEAN
  PROVE  /\ RespDoc(id, ok) \in Seq(Token) /\ Len(RespDoc(id, ok)) = Width
         /\ RespondsAt(RespDoc(id, ok), 0, id, ok)
         /\ Opens(RespDoc(id, ok)) /\ Plain(RespDoc(id, ok))
<1> DEFINE h == Tok("head", id, ok, Junk)
           t == Tok("end", id, ok, Junk)
           ts == <<h, t>>
           D == Doc(id, ts)
<1>1. h \in Token /\ t \in Token /\ h.k = "head" /\ h.id = id /\ h.ok = ok /\ t.k = "end"
  BY TokType, DataFacts DEF Kinds, Tok
<1>2. RespDoc(id, ok) = D
  BY DEF RespDoc
<1> HIDE DEF h, t
<1>3. ts \in Seq(Token) /\ Len(ts) = 2 /\ ts[1] = h /\ ts[2] = t
  BY <1>1
<1> HIDE DEF ts
<1>4. Opens(ts) /\ \A j \in 1..Len(ts) : ts[j].k # "close"
  BY <1>1, <1>3 DEF Opens
<1>5. /\ D \in Seq(Token) /\ Len(D) = 2 + Width - 2 /\ D[1] = h /\ D[2] = t
      /\ wraps => D[3].k = "close"
      /\ Opens(D) /\ Plain(D)
  <2>1. /\ Doc(id, ts) \in Seq(Token) /\ Len(Doc(id, ts)) = Len(ts) + Width - 2
        /\ \A j \in 1..Len(ts) : Doc(id, ts)[j] = ts[j]
        /\ wraps => Doc(id, ts)[Len(ts) + 1].k = "close"
        /\ Opens(Doc(id, ts)) /\ Plain(Doc(id, ts))
    BY <1>3, <1>4, DocShape
  <2>2. 1 \in 1..Len(ts) /\ 2 \in 1..Len(ts) /\ Len(ts) + 1 = 3
    BY <1>3
  <2> QED  BY <1>3, <2>1, <2>2
<1> HIDE DEF D
<1>6. Len(D) = Width
  BY <1>5, WidthIsSmall DEF WidthFacts
<1>7. RespondsAt(D, 0, id, ok)
  BY <1>1, <1>5, <1>6, WidthIsSmall DEF WidthFacts, RespondsAt
<1> QED  BY <1>2, <1>5, <1>6, <1>7

LEMMA RawDataShape ==
  ASSUME disk \in [Sectors -> Data], call \in Call, call.n >= 1, NEW k \in {"raw", "hex"}
  PROVE  /\ RawData(call, k) \in Seq(Token) /\ Len(RawData(call, k)) = call.n
         /\ \A j \in 1..call.n :
              RawData(call, k)[j].k = k /\ RawData(call, k)[j].v = disk[call.at + j - 1]
         /\ Opens(RawData(call, k)) /\ Plain(RawData(call, k))
<1> DEFINE D == RawData(call, k)
<1>1. D \in Seq(Token) /\ k \in Kinds /\ k # "close"
  BY RawDataType DEF Kinds
<1>2. call.n \in Nat /\ D \in [1..call.n -> Token]
  <2>1. D = [i \in 1..call.n |-> Tok(k, call.id, TRUE, disk[call.at + i - 1])] /\ call.n \in Nat
    BY DEF RawData, Call
  <2>2. DOMAIN D = 1..call.n
    BY <2>1
  <2>3. DOMAIN D = 1..Len(D) /\ Len(D) \in Nat /\ D \in [1..Len(D) -> Token]
    BY <1>1, LenProperties
  <2> QED  BY <2>1, <2>2, <2>3
<1>3. \A j \in 1..call.n : D[j].k = k /\ D[j].v = disk[call.at + j - 1]
  BY DEF RawData, Tok
<1>4. Len(D) = call.n
  BY <1>2, FunctionIsSeq
<1> HIDE DEF D
<1>5. Opens(D) /\ Plain(D)
  BY <1>1, <1>2, <1>3, <1>4 DEF Opens, Plain
<1> QED  BY <1>1, <1>3, <1>4, <1>5 DEF D

\* The sectors as raw data and the response behind them complete a read.
LEMMA RawCompletes ==
  ASSUME disk \in [Sectors -> Data], call \in Call, call.n >= 1, NEW ok2 \in BOOLEAN
  PROVE  LET X == RawData(call, "raw") \o RespDoc(call.id, ok2) IN
         X \in Seq(Token) /\ CompletesAt(X, 0, 0) /\ Opens(X) /\ Plain(X)
<1> DEFINE D == RawData(call, "raw")
           R == RespDoc(call.id, ok2)
           X == D \o R
<1>1. call.n \in Nat /\ call.id \in Nat /\ call.at \in Nat
  BY DEF Call, Sectors
<1>2. /\ D \in Seq(Token) /\ Len(D) = call.n /\ Opens(D) /\ Plain(D)
      /\ \A j \in 1..call.n : D[j].k = "raw" /\ D[j].v = disk[call.at + j - 1]
  BY RawDataShape
<1>3. /\ R \in Seq(Token) /\ Len(R) = Width /\ Opens(R) /\ Plain(R)
      /\ RespondsAt(R, 0, call.id, ok2)
  BY <1>1, RespDocShape
<1> HIDE DEF D, R
<1>4. /\ X \in Seq(Token) /\ Len(X) = call.n + Width
      /\ \A j \in 1..call.n : X[j] = D[j]
  <2>1. /\ X \in Seq(Token) /\ Len(X) = Len(D) + Len(R)
        /\ \A j \in 1..(Len(D) + Len(R)) : X[j] = IF j <= Len(D) THEN D[j] ELSE R[j - Len(D)]
    BY <1>2, <1>3, ConcatProperties
  <2>2. \A j \in 1..call.n : j \in 1..(call.n + Width) /\ j <= call.n
    BY <1>1, WidthIsSmall DEF WidthFacts
  <2> QED  BY <1>2, <1>3, <2>1, <2>2
<1>5. Opens(X) /\ Plain(X)
  BY <1>2, <1>3, ConcatFits
<1>6. Behind(R, X, call.n)
  BY <1>2, <1>3, ConcatBehind
<1> HIDE DEF X
<1>7. RespondsAt(X, call.n, call.id, ok2)
  <2>1. RespondsAt(X, call.n + 0, call.id, ok2)
    BY <1>1, <1>3, <1>6, RespondsBehind
  <2> QED  BY <1>1, <2>1
<1>8. call.n - 0 = call.n /\ 0 + call.n = call.n
  BY <1>1
<1>9. \A j \in 1..call.n : 0 + j = j /\ call.at + 0 + j - 1 = call.at + j - 1
  BY <1>1
<1>10. CompletesAt(X, 0, 0)
  BY <1>2, <1>4, <1>7, <1>8, <1>9 DEF CompletesAt
<1> QED  BY <1>4, <1>5, <1>10 DEF X, D, R

\* An answer, its verdict ok behind the first q tokens.
Speaks(A, q, ok) ==
  A \in Seq(Token) /\ Opens(A) /\ Plain(A) /\ q \in 0..Len(A) /\ Says(A, q, ok)

LEMMA SimpleAnswer ==
  ASSUME call \in Call, NEW ok \in BOOLEAN, ~(call.op = "read" /\ ok)
  PROVE  Speaks(RespDoc(call.id, ok), 0, ok)
<1> DEFINE R == RespDoc(call.id, ok)
<1>1. call.id \in Nat
  BY DEF Call
<1>2. /\ R \in Seq(Token) /\ Len(R) = Width /\ Opens(R) /\ Plain(R)
      /\ RespondsAt(R, 0, call.id, ok)
  BY <1>1, RespDocShape
<1> HIDE DEF R
<1>3. NoHead(R, 0) /\ Len(R) = 0 + Width /\ 0 \in 0..Len(R)
  BY <1>2, WidthIsSmall DEF NoHead, WidthFacts
<1>4. Says(R, 0, ok)
  BY <1>2, <1>3 DEF Says
<1> QED  BY <1>2, <1>3, <1>4 DEF Speaks, R

LEMMA RawAnswer ==
  ASSUME disk \in [Sectors -> Data], call \in Call, call.op = "read", call.n >= 1, NEW ok2 \in BOOLEAN
  PROVE  Speaks(RespDoc(call.id, TRUE) \o (RawData(call, "raw") \o RespDoc(call.id, ok2)), 0, TRUE)
<1> DEFINE R == RespDoc(call.id, TRUE)
           X == RawData(call, "raw") \o RespDoc(call.id, ok2)
           A == R \o X
<1>1. call.id \in Nat /\ call.n \in Nat
  BY DEF Call
<1>2. /\ R \in Seq(Token) /\ Len(R) = Width /\ Opens(R) /\ Plain(R)
      /\ RespondsAt(R, 0, call.id, TRUE)
  BY <1>1, RespDocShape
<1>3. X \in Seq(Token) /\ CompletesAt(X, 0, 0) /\ Opens(X) /\ Plain(X)
  BY RawCompletes
<1> HIDE DEF R, X
<1>4. A \in Seq(Token) /\ Opens(A) /\ Plain(A) /\ Len(A) \in Nat
  BY <1>2, <1>3, ConcatFits, ConcatProperties, LenProperties
<1>5. RespondsAt(A, 0, call.id, TRUE)
  BY <1>2, <1>3, RespondsBefore
<1>6. Behind(X, A, Width) /\ Width \in Nat /\ Width + 0 = 0 + Width
  BY <1>2, <1>3, ConcatBehind
<1> HIDE DEF A
<1>7. CompletesAt(A, 0 + Width, 0)
  <2>1. 0 \in 0..call.n
    BY <1>1
  <2>2. CompletesAt(A, Width + 0, 0)
    BY <1>1, <1>3, <1>6, <2>1, CompletesBehind
  <2> QED  BY <1>6, <2>2
<1>8. NoHead(A, 0) /\ NoHex(A, 0) /\ 0 \in 0..Len(A)
  BY <1>4 DEF NoHead, NoHex
<1>9. Says(A, 0, TRUE)
  BY <1>5, <1>7, <1>8 DEF Says
<1> QED  BY <1>4, <1>8, <1>9 DEF Speaks, A, R, X

LEMMA HexAnswer ==
  ASSUME disk \in [Sectors -> Data], call \in Call, call.op = "read", call.n >= 1,
         NEW ok2 \in BOOLEAN
  PROVE  \E q \in Nat :
           Speaks(Doc(call.id, RawData(call, "hex"))
                    \o (RespDoc(call.id, TRUE) \o RespDoc(call.id, ok2)), q, TRUE)
<1> DEFINE D == RawData(call, "hex")
           H == Doc(call.id, D)
           R == RespDoc(call.id, TRUE)
           R2 == RespDoc(call.id, ok2)
           X == R \o R2
           A == H \o X
           q == Len(H)
<1>1. call.id \in Nat /\ call.n \in Nat
  BY DEF Call
<1>2. /\ R \in Seq(Token) /\ Len(R) = Width /\ Opens(R) /\ Plain(R)
      /\ RespondsAt(R, 0, call.id, TRUE)
  BY <1>1, RespDocShape
<1>3. /\ R2 \in Seq(Token) /\ Len(R2) = Width /\ Opens(R2) /\ Plain(R2)
      /\ RespondsAt(R2, 0, call.id, ok2)
  BY <1>1, RespDocShape
<1>4. /\ D \in Seq(Token) /\ Len(D) = call.n /\ Opens(D) /\ Plain(D)
      /\ \A j \in 1..call.n : D[j].k = "hex" /\ D[j].v = disk[call.at + j - 1]
  BY RawDataShape
<1> HIDE DEF R, R2, D
<1>5. /\ H \in Seq(Token) /\ q = call.n + Width - 2
      /\ \A j \in 1..call.n : H[j] = D[j]
      /\ wraps => H[call.n + 1].k = "close"
      /\ Opens(H) /\ Plain(H)
  <2>1. \A j \in 1..Len(D) : D[j].k # "close"
    BY <1>4
  <2>2. /\ H \in Seq(Token) /\ Len(H) = Len(D) + Width - 2
        /\ \A j \in 1..Len(D) : H[j] = D[j]
        /\ wraps => H[Len(D) + 1].k = "close"
        /\ Opens(H) /\ Plain(H)
    BY <1>1, <1>4, <2>1, DocShape
  <2> QED  BY <1>4, <2>2
<1> HIDE DEF H
<1>6. /\ X \in Seq(Token) /\ Opens(X) /\ Plain(X) /\ Len(X) = Width + Width
      /\ Behind(R2, X, Width) /\ RespondsAt(X, 0, call.id, TRUE) /\ Width \in Nat
  <2>1. X \in Seq(Token) /\ Len(X) = Width + Width
    <3>1. X \in Seq(Token) /\ Len(X) = Len(R) + Len(R2)
      BY <1>2, <1>3, ConcatProperties
    <3> QED  BY <1>2, <1>3, <3>1
  <2>2. Opens(X) /\ Plain(X)
    BY <1>2, <1>3, ConcatFits
  <2>3. Behind(R2, X, Width)
    BY <1>2, <1>3, ConcatBehind
  <2>4. RespondsAt(X, 0, call.id, TRUE)
    BY <1>2, <1>3, RespondsBefore
  <2> QED  BY <2>1, <2>2, <2>3, <2>4, WidthIsSmall DEF WidthFacts
<1> HIDE DEF X
<1>7. /\ A \in Seq(Token) /\ Opens(A) /\ Plain(A) /\ Behind(X, A, q) /\ q \in Nat
      /\ Len(A) = q + Len(X) /\ \A j \in 1..q : A[j] = H[j]
  <2>1. /\ A \in Seq(Token) /\ Len(A) = Len(H) + Len(X)
        /\ \A j \in 1..(Len(H) + Len(X)) : A[j] = IF j <= Len(H) THEN H[j] ELSE X[j - Len(H)]
        /\ Len(H) \in Nat /\ Len(X) \in Nat
    BY <1>5, <1>6, ConcatProperties, LenProperties
  <2>2. \A j \in 1..Len(H) : A[j] = H[j]
    <3>1. \A j \in 1..Len(H) : j \in 1..(Len(H) + Len(X)) /\ j <= Len(H)
      BY <2>1
    <3> QED  BY <2>1, <3>1
  <2>3. Opens(A) /\ Plain(A) /\ Behind(X, A, q)
    BY <1>5, <1>6, ConcatFits, ConcatBehind
  <2> QED  BY <2>1, <2>2, <2>3
<1> HIDE DEF A
<1>8. /\ q = call.n \/ (q = call.n + 1 /\ wraps)
      /\ q >= call.n
  <2>1. CASE wraps   BY <1>1, <1>5, <2>1 DEF Width
  <2>2. CASE ~wraps  BY <1>1, <1>5, <2>2 DEF Width
  <2> QED  BY <2>1, <2>2
<1> HIDE DEF q
<1>9. \A j \in 1..q : IF j <= call.n THEN A[j] = D[j] /\ j \in 1..call.n
                      ELSE A[j].k = "close"
  <2> SUFFICES ASSUME NEW j \in 1..q
               PROVE  IF j <= call.n THEN A[j] = D[j] /\ j \in 1..call.n
                      ELSE A[j].k = "close"
    OBVIOUS
  <2>1. A[j] = H[j]
    BY <1>7
  <2>2. CASE j <= call.n
    <3>1. j \in 1..call.n
      BY <1>1, <1>7, <2>2
    <3> QED  BY <1>5, <2>1, <2>2, <3>1
  <2>3. CASE ~(j <= call.n)
    <3>1. j = call.n + 1 /\ wraps
      BY <1>1, <1>7, <1>8, <2>3
    <3> QED  BY <1>5, <2>1, <2>3, <3>1
  <2> QED  BY <2>2, <2>3
<1>10. NoHead(A, q)
  BY <1>4, <1>9 DEF NoHead
<1>11. HexesIn(A, q)
  <2>1. 0 \in 0..q /\ 0 + call.n <= q
    BY <1>1, <1>7, <1>8
  <2>2. ASSUME NEW j \in 1..q
        PROVE  A[j].k = "hex" <=> 0 + 1 <= j /\ j <= 0 + call.n
    <3>1. 0 + 1 <= j /\ 0 + call.n = call.n
      BY <1>1, <1>7
    <3>2. A[j].k = "hex" <=> j <= call.n
      BY <1>4, <1>9
    <3> QED  BY <3>1, <3>2
  <2>3. ASSUME NEW r \in 1..call.n PROVE A[0 + r].v = disk[call.at + r - 1]
    <3>1. 0 + r = r /\ r \in 1..q /\ r <= call.n
      BY <1>1, <1>7, <1>8
    <3> QED  BY <1>4, <1>9, <3>1
  <2> QED  BY <2>1, <2>2, <2>3 DEF HexesIn, HexRun
<1>12. RespondsAt(A, q, call.id, TRUE)
  <2>1. RespondsAt(A, q + 0, call.id, TRUE)
    BY <1>6, <1>7, RespondsBehind
  <2>2. q + 0 = q
    BY <1>7
  <2> QED  BY <2>1, <2>2
<1>13. CompletesAt(X, Width, call.n)
  <2>1. call.n - call.n = 0 /\ Width + 0 = Width
    BY <1>1, <1>6
  <2>2. RespondsAt(X, Width + 0, call.id, ok2)
    BY <1>3, <1>6, RespondsBehind
  <2>3. Len(X) = Width + 0 + Width /\ 1..0 = {}
    BY <1>6, <2>1
  <2> QED  BY <2>1, <2>2, <2>3 DEF CompletesAt
<1>14. CompletesAt(A, q + Width, call.n)
  <2>1. call.n \in 0..call.n
    BY <1>1
  <2> QED  BY <1>1, <1>6, <1>7, <1>13, <2>1, CompletesBehind
<1>15. Says(A, q, TRUE)
  BY <1>10, <1>11, <1>12, <1>14 DEF Says
<1>16. q \in 0..Len(A)
  BY <1>6, <1>7
<1> QED  BY <1>7, <1>15, <1>16 DEF Speaks, A, H, X, D, R, R2

\* With or without a log line in front.
LEMMA LoggedSpeaks ==
  ASSUME call \in Call, NEW logs \in {<<>>, LogDoc(call.id)},
         NEW B, NEW q \in Nat, NEW ok \in BOOLEAN, Speaks(B, q, ok)
  PROVE  \E p \in Nat : Speaks(logs \o B, p, ok)
<1>1. call.id \in Nat /\ call.n \in Nat
  BY DEF Call
<1>2. B \in Seq(Token) /\ Opens(B) /\ Plain(B) /\ q \in 0..Len(B) /\ Says(B, q, ok)
  BY DEF Speaks
<1>3. logs \in Seq(Token) /\ Quiet(logs) /\ Plain(logs)
  <2>1. LogDoc(call.id) \in Seq(Token) /\ Quiet(LogDoc(call.id)) /\ Plain(LogDoc(call.id))
    BY <1>1, LogDocShape
  <2>2. <<>> \in Seq(Token) /\ Len(<<>>) = 0 /\ 1..0 = {}
    BY EmptySeq
  <2>3. Quiet(<<>>) /\ Plain(<<>>)
    BY <2>2 DEF Quiet, Plain
  <2> QED  BY <2>1, <2>2, <2>3
<1>4. Says(logs \o B, Len(logs) + q, ok)
  BY <1>1, <1>2, <1>3, SaysBehindQuiet
<1>5. Opens(logs \o B) /\ Plain(logs \o B)
  <2>1. CASE logs = <<>>
    BY <1>2, <2>1, ConcatEmptySeq
  <2>2. CASE logs = LogDoc(call.id)
    <3>1. Opens(logs)
      BY <1>1, <2>2, LogDocShape
    <3> QED  BY <1>2, <1>3, <3>1, ConcatFits
  <2> QED  BY <2>1, <2>2
<1>6. logs \o B \in Seq(Token) /\ Len(logs \o B) = Len(logs) + Len(B)
      /\ Len(logs) \in Nat /\ Len(B) \in Nat
  BY <1>2, <1>3, ConcatProperties, LenProperties
<1>7. Len(logs) + q \in Nat /\ Len(logs) + q \in 0..Len(logs \o B)
  BY <1>2, <1>6
<1> QED  BY <1>4, <1>5, <1>6, <1>7 DEF Speaks

\* Concatenation, as an operator the provers do not look into.
Cat(s, t) == s \o t

LEMMA CatAssociative ==
  ASSUME NEW T, NEW s \in Seq(T), NEW t \in Seq(T), NEW u \in Seq(T)
  PROVE  Cat(Cat(s, t), u) = Cat(s, Cat(t, u))
  BY ConcatAssociative DEF Cat

LEMMA Regroup ==
  ASSUME NEW s \in Seq(Token), NEW t \in Seq(Token), NEW u \in Seq(Token), NEW v \in Seq(Token)
  PROVE  Cat(Cat(Cat(s, t), u), v) = Cat(s, Cat(t, Cat(u, v)))
<1>1. Cat(s, t) \in Seq(Token) /\ Cat(u, v) \in Seq(Token)
  BY ConcatProperties DEF Cat
<1>2. Cat(Cat(Cat(s, t), u), v) = Cat(Cat(s, t), Cat(u, v))
  BY <1>1, CatAssociative
<1>3. Cat(Cat(s, t), Cat(u, v)) = Cat(s, Cat(t, Cat(u, v)))
  BY <1>1, CatAssociative
<1> QED  BY <1>2, <1>3

\* Every answer to a call says one thing.
LEMMA AnswerSpeaks ==
  ASSUME disk \in [Sectors -> Data], call \in Call, call.op # "peek",
         call.op = "read" => call.n >= 1,
         NEW ok \in BOOLEAN, NEW ok2 \in BOOLEAN, NEW lg \in BOOLEAN
  PROVE  \E p \in Nat : Speaks(Answer(call, ok, ok2, lg), p, ok)
<1> DEFINE logs == IF lg THEN LogDoc(call.id) ELSE <<>>
           D == RawData(call, "raw")
           H == Doc(call.id, RawData(call, "hex"))
           R == RespDoc(call.id, TRUE)
           R1 == RespDoc(call.id, ok)
           R2 == RespDoc(call.id, ok2)
<1>1. logs \in {<<>>, LogDoc(call.id)} /\ call.id \in Nat
  BY DEF Call
<1>2. logs \in Seq(Token) /\ R \in Seq(Token) /\ R2 \in Seq(Token)
  BY <1>1, LogDocType, RespDocType, EmptySeq
<1>3. CASE call.op = "read" /\ ok /\ ~hexlogs
  <2>1. D \in Seq(Token)
    BY RawDataType DEF Kinds
  <2>2. Answer(call, ok, ok2, lg) = Cat(Cat(Cat(logs, R), D), R2)
    BY <1>3 DEF Answer, Cat
  <2>3. Speaks(R \o (D \o R2), 0, TRUE) /\ ok = TRUE
    BY <1>3, RawAnswer
  <2> HIDE DEF logs, D, R, R2
  <2>4. Cat(Cat(Cat(logs, R), D), R2) = Cat(logs, Cat(R, Cat(D, R2)))
    BY <1>2, <2>1, Regroup
  <2>5. \E p \in Nat : Speaks(Cat(logs, Cat(R, Cat(D, R2))), p, TRUE)
    BY <1>1, <2>3, LoggedSpeaks DEF Cat
  <2> QED  BY <2>2, <2>3, <2>4, <2>5
<1>4. CASE call.op = "read" /\ ok /\ hexlogs
  <2>1. H \in Seq(Token)
    BY <1>1, RawDataType, DocType DEF Kinds
  <2>2. Answer(call, ok, ok2, lg) = Cat(Cat(Cat(logs, H), R), R2)
    BY <1>4 DEF Answer, Cat
  <2>3. PICK q \in Nat : Speaks(H \o (R \o R2), q, TRUE)
    BY <1>4, HexAnswer
  <2>4. ok = TRUE
    BY <1>4
  <2> HIDE DEF logs, H, R, R2
  <2>5. Cat(Cat(Cat(logs, H), R), R2) = Cat(logs, Cat(H, Cat(R, R2)))
    BY <1>2, <2>1, Regroup
  <2>6. \E p \in Nat : Speaks(Cat(logs, Cat(H, Cat(R, R2))), p, TRUE)
    BY <1>1, <2>3, LoggedSpeaks DEF Cat
  <2> QED  BY <2>2, <2>4, <2>5, <2>6
<1>5. CASE ~(call.op = "read" /\ ok)
  <2>1. Answer(call, ok, ok2, lg) = logs \o R1
    BY <1>5 DEF Answer
  <2>2. Speaks(R1, 0, ok)
    BY <1>5, SimpleAnswer
  <2> HIDE DEF logs, R1
  <2>3. \E p \in Nat : Speaks(logs \o R1, p, ok)
    BY <1>1, <2>2, LoggedSpeaks
  <2> QED  BY <2>1, <2>3
<1> QED  BY <1>3, <1>4, <1>5

-----------------------------------------------------------------------------
(* A clean link stays so shaped: the device's steps *)

LEMMA EmitCut ==
  ASSUME StreamOK, CutShape, NEW A \in Seq(Token), Opens(A), Plain(A),
         stream' = stream \o A, arrived' = arrived, wraps' = wraps
  PROVE  CutShape'
<1>1. /\ Len(stream) \in Nat /\ Len(A) \in Nat /\ Len(stream') = Len(stream) + Len(A)
      /\ \A j \in 1..(Len(stream) + Len(A)) :
           stream'[j] = IF j <= Len(stream) THEN stream[j] ELSE A[j - Len(stream)]
  BY ConcatProperties, LenProperties DEF StreamOK
<1>2. arrived \in Nat /\ arrived <= Len(stream)
  BY DEF StreamOK
<1>3. stream'[arrived + 1].k # "close"
  <2>1. CASE arrived < Len(stream)
    <3>1. arrived + 1 \in 1..(Len(stream) + Len(A)) /\ arrived + 1 <= Len(stream)
      BY <1>1, <1>2, <2>1
    <3> QED  BY <1>1, <2>1, <3>1 DEF CutShape
  <2>2. CASE arrived = Len(stream)
    <3>1. /\ arrived + 1 \in 1..(Len(stream) + Len(A)) /\ ~(arrived + 1 <= Len(stream))
          /\ (arrived + 1) - Len(stream) = 1
      BY <1>1, <1>2, <2>2 DEF Opens
    <3>2. stream'[arrived + 1] = A[1]
      BY <1>1, <3>1
    <3> QED  BY <3>2 DEF Opens
  <2>3. arrived < Len(stream) \/ arrived = Len(stream)
    BY <1>1, <1>2
  <2> QED  BY <2>1, <2>2, <2>3
<1>4. ASSUME ~wraps, NEW j \in 1..Len(stream') PROVE stream'[j].k # "close"
  <2>1. CASE j <= Len(stream)
    <3>1. j \in 1..Len(stream) /\ stream'[j] = stream[j]
      BY <1>1, <2>1
    <3> QED  BY <1>4, <3>1 DEF CutShape
  <2>2. CASE ~(j <= Len(stream))
    <3>1. j - Len(stream) \in 1..Len(A) /\ stream'[j] = A[j - Len(stream)]
      BY <1>1, <2>2
    <3> QED  BY <1>4, <3>1 DEF Plain
  <2> QED  BY <2>1, <2>2
<1> QED  BY <1>3, <1>4 DEF CutShape

\* What was said of a stream that has become the next one.
LEMMA RespondsNext ==
  ASSUME wraps' = wraps, call' = call, NEW p, NEW ok
  PROVE  RespondsAt(stream', p, call.id, ok) <=> RespondsAt(stream, p, call.id, ok)'
  BY DEF RespondsAt, Width

LEMMA CompletesNext ==
  ASSUME wraps' = wraps, call' = call, disk' = disk, NEW p, NEW k
  PROVE  CompletesAt(stream', p, k) <=> CompletesAt(stream, p, k)'
  BY RespondsNext DEF CompletesAt, RespondsAt, Width

LEMMA SaysNext ==
  ASSUME wraps' = wraps, call' = call, call.op = "read" => disk' = disk,
         NEW p, NEW ok, Says(stream', p, ok)
  PROVE  Says(stream, p, ok)'
<1>1. NoHead(stream, p)' /\ RespondsAt(stream, p, call.id, ok)' /\ Width' = Width
  BY DEF Says, NoHead, RespondsAt, Width
<1>2. CASE call.op = "read" /\ ok
  <2>1. disk' = disk
    BY <1>2
  <2>2. \A k : CompletesAt(stream', p + Width, k) => CompletesAt(stream, p + Width, k)'
    BY <1>1, <2>1 DEF CompletesAt, RespondsAt, Width
  <2>3. HexesIn(stream', p) => HexesIn(stream, p)'
    BY <2>1 DEF HexesIn, HexRun
  <2>4. NoHex(stream', p) => NoHex(stream, p)'
    BY DEF NoHex
  <2> QED  BY <1>1, <1>2, <2>2, <2>3, <2>4 DEF Says
<1>3. CASE ~(call.op = "read" /\ ok)
  BY <1>1, <1>3 DEF Says
<1> QED  BY <1>2, <1>3

\* Where a clean link is when something is on its way to the device.
LEMMA Working ==
  ASSUME IInv, CleanInv, clean, tx # <<>>
  PROVE  \/ pc = "resp" /\ Sent
         \/ /\ pc = "final" /\ call.op = "program"
            /\ \E k \in 0..call.n : k < call.n /\ Storing(k)
<1>1. WireShape /\ pc \in {"drain", "drainmore", "idle", "resp", "raw", "final", "peek"}
      /\ (pc = "final" => call.op \in {"program", "read"}) /\ (pc = "raw" => call.op = "read")
  BY DEF IInv, TypeOK, ClientOK, Progress, CleanInv
<1>2. ~Silent /\ \A p, ok : ~Answered(p, ok)
  BY DEF Silent, Answered
<1>3. \A k : Storing(k) => k < call.n
  BY <1>2 DEF Storing
<1> QED  BY <1>1, <1>2, <1>3 DEF WireShape

LEMMA NoVerdict ==
  ASSUME result' = NoResult
  PROVE  AnswersOwn' /\ ReadExact'
  BY DEF AnswersOwn, ReadExact, NoResult

\* A call made on a clean link.
LEMMA CleanCall ==
  ASSUME IInv, CleanInv, clean
  PROVE  /\ call \in Call /\ call.n \in Nat /\ call.id \in Nat /\ call.at \in Nat
         /\ call.op # "peek" /\ (call.op # "query" => call.n >= 1)
         /\ disk \in [Sectors -> Data] /\ StreamOK /\ CutShape /\ WireShape
         /\ Span(call) \subseteq Sectors
<1>1. call \in Call
  BY DEF IInv, TypeOK, ClientOK
<1>2. Span(call) \subseteq Sectors
  BY <1>1, NSectorsAssumption DEF Span, Sectors, Call
<1> QED  BY <1>1, <1>2 DEF IInv, TypeOK, DeviceOK, CleanInv, CallShape, Call, Sectors

LEMMA ExecuteClean ==
  ASSUME IInv, CleanInv, clean, DevExecute
  PROVE  CleanInv'
<1>1. pc = "resp" /\ Sent
  BY Working DEF DevExecute, Storing
<1>2. Head(tx).c = call /\ tx' = <<>>
  <2>1. tx = <<Cmd(call)>>
    BY <1>1 DEF Sent
  <2>2. Head(tx) = Cmd(call) /\ Tail(tx) = <<>>
    BY <2>1
  <2> QED  BY <2>2 DEF Cmd, DevExecute
<1>3. PICK ok \in BOOLEAN, ok2 \in BOOLEAN, lg \in BOOLEAN :
        /\ stream' = stream \o Answer(call, ok, ok2, lg)
        /\ DevErase(call, ok)
        /\ dev' = IF call.op = "program" /\ ok THEN [st |-> "data", c |-> call, done |-> 0] ELSE dev
  BY <1>2 DEF DevExecute
<1> DEFINE A == Answer(call, ok, ok2, lg)
<1>4. PICK q \in Nat : Speaks(A, q, ok)
  BY CleanCall, AnswerSpeaks
<1>5. A \in Seq(Token) /\ Opens(A) /\ Plain(A) /\ q \in 0..Len(A) /\ Says(A, q, ok)
  BY <1>4 DEF Speaks
<1> HIDE DEF A
<1>6. stream \in Seq(Token) /\ Quiet(stream) /\ stream' = stream \o A
  BY <1>1, <1>3, CleanCall DEF StreamOK, Sent, A
<1>7. Says(stream', Len(stream) + q, ok)
  BY <1>5, <1>6, CleanCall, SaysBehindQuiet
<1>8. /\ UNCHANGED <<wraps, hexlogs, pc, call, got, empties, result, fetched, arrived, clean>>
      /\ result = NoResult
  BY <1>1 DEF DevExecute, style, host, CleanInv, CallShape
<1>9. CutShape'
  BY <1>5, <1>6, <1>8, CleanCall, EmitCut
<1>10. /\ call.op # "erase" => disk' = disk
       /\ call.op = "erase" /\ ok => Erased'
       /\ Unspoiled'
  <2>1. disk' = IF call.op = "erase" /\ ok
                THEN [s \in Sectors |-> IF s \in Span(call) THEN Zero ELSE disk[s]] ELSE disk
    BY <1>3 DEF DevErase
  <2>2. Unspoiled
    BY DEF CleanInv
  <2> QED  BY <1>8, <2>1, <2>2, CleanCall, ValsAssumption DEF Erased, Unspoiled, Span
<1>11. PICK p \in Nat : p = Len(stream) + q
  BY CleanCall, StreamFacts
<1>12. p \in 0..Len(stream')
  <2>1. Len(stream) \in Nat /\ Len(A) \in Nat /\ Len(stream') = Len(stream) + Len(A)
    BY <1>5, <1>6, ConcatProperties, LenProperties
  <2> QED  BY <1>5, <1>11, <2>1
<1>13. Answered(p, ok)'
  <2>1. Says(stream, p, ok)'
    BY <1>7, <1>8, <1>10, <1>11, SaysNext
  <2>2. /\ tx' = <<>> /\ (call.op = "erase" /\ ok => Erased') /\ call' = call
        /\ IF call.op = "program" /\ ok THEN dev' = [st |-> "data", c |-> call, done |-> 0]
           ELSE dev'.st = "idle"
    BY <1>1, <1>2, <1>3, <1>8, <1>10 DEF Sent
  <2> QED  BY <2>1, <2>2 DEF Answered
<1>14. WireShape'
  BY <1>1, <1>8, <1>12, <1>13 DEF WireShape
<1>15. CallShape'
  BY <1>8 DEF CleanInv, CallShape
<1> QED  BY <1>8, <1>9, <1>10, <1>14, <1>15, NoVerdict DEF CleanInv

LEMMA StoreClean ==
  ASSUME IInv, CleanInv, clean, DevStore
  PROVE  CleanInv'
<1>1. PICK k \in 0..call.n : k < call.n /\ Storing(k) /\ pc = "final" /\ call.op = "program"
  BY Working DEF DevStore, Sent
<1>2. /\ dev = [st |-> "data", c |-> call, done |-> k] /\ stream = <<>> /\ Stored(k)
      /\ Len(tx) = call.n - k /\ \A j \in 1..(call.n - k) : tx[j].v = call.data[k + j]
  BY <1>1 DEF Storing
<1>3. /\ UNCHANGED <<wraps, hexlogs, pc, call, got, empties, result, fetched, arrived, clean>>
      /\ result = NoResult
  BY <1>1 DEF DevStore, style, host, CleanInv, CallShape
<1>4. PICK i \in Nat : i = k + 1
  BY <1>1
<1>5. i \in 1..call.n /\ k = i - 1 /\ k \in Nat /\ call.n \in Nat
  BY <1>1, <1>4, CleanCall
<1>6. /\ tx' = Tail(tx) /\ Len(tx') = call.n - i /\ Len(tx') \in Nat
      /\ \A j \in 1..(call.n - i) : tx'[j].v = call.data[i + j]
      /\ Head(tx).v = call.data[i]
  <2>1. tx \in Seq(Item) /\ tx # <<>> /\ tx' = Tail(tx)
    BY DEF IInv, TypeOK, DeviceOK, DevStore
  <2>2. /\ Head(tx) = tx[1] /\ Len(Tail(tx)) = Len(tx) - 1 /\ Len(Tail(tx)) \in Nat
        /\ \A j \in 1..Len(Tail(tx)) : Tail(tx)[j] = tx[j + 1]
    BY <2>1, HeadTailProperties, LenProperties
  <2>3. Len(tx') = call.n - i
    BY <1>2, <1>5, <2>1, <2>2
  <2>4. ASSUME NEW j \in 1..(call.n - i) PROVE tx'[j].v = call.data[i + j]
    <3>1. j + 1 \in 1..(call.n - k) /\ k + (j + 1) = i + j
      BY <1>5
    <3>2. tx'[j] = tx[j + 1]
      BY <2>1, <2>2, <2>3
    <3> QED  BY <1>2, <3>1, <3>2
  <2>5. tx[1].v = call.data[i]
    <3>1. 1 \in 1..(call.n - k) /\ k + 1 = i
      BY <1>5
    <3> QED  BY <1>2, <3>1
  <2> QED  BY <2>1, <2>2, <2>3, <2>4, <2>5
<1>7. disk' = [disk EXCEPT ![call.at + k] = call.data[i]]
  BY <1>2, <1>6 DEF DevStore
<1>8. /\ call.at + k \in Sectors /\ call.at \in Nat
      /\ \A j \in 1..call.n : call.at + j - 1 \in Sectors
      /\ disk \in [Sectors -> Data] /\ call.data[i] \in Vals
  <2>1. \A j \in 1..call.n : call.at + j - 1 \in Sectors
    BY CleanCall DEF Span
  <2>2. call.at + k = call.at + i - 1
    BY <1>5, CleanCall
  <2>3. call.data[i] \in Vals
    BY <1>1, <1>5 DEF CleanInv, CallShape
  <2> QED  BY <1>5, <2>1, <2>2, <2>3, CleanCall
<1>9. Stored(i)'
  <2>1. ASSUME NEW j \in 1..i PROVE disk'[call.at + j - 1] = call.data[j]
    <3>1. j \in 1..call.n /\ (j < i => j \in 1..k)
      BY <1>5
    <3>2. CASE j = i
      <4>1. call.at + j - 1 = call.at + k
        BY <1>5, <1>8, <3>2
      <4> QED  BY <1>7, <1>8, <3>2, <4>1
    <3>3. CASE j # i
      <4>1. call.at + j - 1 # call.at + k /\ j \in 1..k
        BY <1>5, <1>8, <3>1, <3>3
      <4>2. disk[call.at + j - 1] = call.data[j]
        BY <1>2, <4>1 DEF Stored
      <4> QED  BY <1>7, <1>8, <3>1, <4>1, <4>2
    <3> QED  BY <3>2, <3>3
  <2> QED  BY <1>3, <2>1 DEF Stored
<1>10. Unspoiled'
  <2>1. \A s \in Sectors : disk'[s] = disk[s] \/ disk'[s] \in Vals
    BY <1>7, <1>8
  <2> QED  BY <2>1, ValsAssumption DEF CleanInv, Unspoiled
<1>11. Storing(i)' /\ CutShape'
  <2>1. CASE i = call.n
    <3>1. PICK ok \in BOOLEAN : stream' = stream \o RespDoc(call.id, ok)
      BY <1>2, <1>4, <2>1 DEF DevStore
    <3> DEFINE R == RespDoc(call.id, ok)
    <3>2. /\ R \in Seq(Token) /\ Len(R) = Width /\ Opens(R) /\ Plain(R)
          /\ RespondsAt(R, 0, call.id, ok)
      BY CleanCall, RespDocShape
    <3> HIDE DEF R
    <3>3. stream' = stream \o R
      BY <3>1 DEF R
    <3>4. CutShape'
      BY <1>3, <3>2, <3>3, CleanCall, EmitCut
    <3>5. stream' = R
      BY <1>2, <3>2, <3>3, ConcatEmptySeq
    <3>6. CompletesAt(stream', 0, call.n)
      <4>1. call.n - call.n = 0 /\ Width = 0 + 0 + Width /\ 1..0 = {} /\ 0 + 0 = 0
        BY <1>5, WidthIsSmall DEF WidthFacts
      <4> QED  BY <3>2, <3>5, <4>1 DEF CompletesAt
    <3>7. CompletesAt(stream, 0, call.n)'
      <4>1. \E ok2 \in BOOLEAN : RespondsAt(stream', 0 + (call.n - call.n), call.id, ok2)
        BY <3>6 DEF CompletesAt
      <4> QED  BY <1>3, <1>5, <3>6, <4>1 DEF CompletesAt, RespondsAt, Width
    <3>8. tx' = <<>> /\ dev'.st = "idle"
      <4>1. Len(tx') = 0 /\ tx' \in Seq(Item)
        <5>1. tx' \in Seq(Item)
          BY <1>6, HeadTailProperties DEF IInv, TypeOK, DeviceOK, DevStore
        <5>2. call.n - i = 0
          BY <1>5, <2>1
        <5>3. Len(tx') = 0
          BY <1>6, <5>2
        <5> QED  BY <5>1, <5>3
      <4>2. tx' = <<>>
        BY <4>1, EmptySeq
      <4>3. dev' = [st |-> "idle", c |-> NoCall, done |-> 0]
        BY <1>2, <1>4, <2>1 DEF DevStore
      <4> QED  BY <4>2, <4>3
    <3> QED  BY <1>3, <1>9, <2>1, <3>4, <3>7, <3>8 DEF Storing, Silent
  <2>2. CASE i # call.n
    <3>1. dev' = [dev EXCEPT !.done = k + 1] /\ stream' = stream
      BY <1>2, <1>4, <2>2 DEF DevStore
    <3>2. dev' = [st |-> "data", c |-> call, done |-> i]
      BY <1>2, <1>4, <3>1
    <3>3. i < call.n
      BY <1>5, <2>2
    <3>4. CutShape'
      BY <1>3, <3>1, CleanCall DEF CutShape
    <3> QED  BY <1>2, <1>3, <1>6, <1>9, <3>1, <3>2, <3>3, <3>4 DEF Storing
  <2> QED  BY <2>1, <2>2
<1>12. i \in 0..call.n
  BY <1>5
<1>13. WireShape'
  BY <1>1, <1>3, <1>11, <1>12 DEF WireShape
<1>14. CallShape'
  BY <1>3 DEF CleanInv, CallShape
<1> QED  BY <1>3, <1>10, <1>11, <1>13, <1>14, NoVerdict DEF CleanInv

LEMMA IgnoreClean ==
  ASSUME IInv, CleanInv, clean, DevIgnore
  PROVE  FALSE
<1>1. tx # <<>> /\ dev.st = "idle" /\ ~Head(tx).cmd
  BY DEF DevIgnore
<1>2. pc = "resp" /\ Sent
  BY <1>1, Working DEF Storing
<1>3. Head(tx).cmd
  BY <1>2 DEF Sent, Cmd
<1> QED  BY <1>1, <1>3

-----------------------------------------------------------------------------
(* ... and the client's *)

\* What is on the wire stays as it is.
LEMMA WireSame ==
  ASSUME UNCHANGED <<wraps, call, got, stream, tx, dev, disk>>, pc' = pc,
         pc \in {"drain", "drainmore"} => fetched' = fetched, WireShape
  PROVE  WireShape'
<1>1. /\ Silent' = Silent /\ Quiet(stream)' = Quiet(stream) /\ Sent' = Sent
      /\ Collected' = Collected
  BY DEF Silent, Quiet, Sent, Collected
<1>2. \A p, ok : Answered(p, ok) => Answered(p, ok)'
  <2> SUFFICES ASSUME NEW p, NEW ok, Answered(p, ok) PROVE Answered(p, ok)'
    OBVIOUS
  <2>1. Says(stream, p, ok)'
    BY SaysNext DEF Answered
  <2> QED  BY <2>1 DEF Answered, Erased
<1>3. \A p, k : CompletesAt(stream, p, k) => CompletesAt(stream, p, k)'
  BY DEF CompletesAt, RespondsAt, Width
<1>4. \A k : Storing(k) => Storing(k)'
  BY <1>1, <1>3 DEF Storing, Stored
<1> QED  BY <1>1, <1>2, <1>3, <1>4 DEF WireShape

LEMMA WaitClean ==
  ASSUME IInv, CleanInv, clean, ~SplitClose, Deliver \/ Accumulate \/ EmptyRead
  PROVE  CleanInv'
<1>1. /\ UNCHANGED <<wraps, call, got, stream, tx, dev, disk, pc, result, clean>>
      /\ pc \in {"drain", "drainmore"} => fetched' = fetched
  BY DEF Deliver, Accumulate, EmptyRead, style, host, rx, Reading
<1>2. WireShape'
  BY <1>1, WireSame, CleanCall
<1>3. CutShape'
  BY <1>1, CleanCall DEF CutShape, Deliver, Cuts, Accumulate, EmptyRead, rx
<1>4. CallShape' /\ Unspoiled' /\ AnswersOwn' /\ ReadExact'
  BY <1>1 DEF CleanInv, CallShape, Unspoiled, AnswersOwn, ReadExact
<1> QED  BY <1>1, <1>2, <1>3, <1>4 DEF CleanInv

LEMMA SendClean ==
  ASSUME IInv, CleanInv, Send, clean'
  PROVE  CleanInv'
<1>1. PICK c \in Calls :
        /\ call' = c /\ tx' = Append(tx, Cmd(c)) /\ c.op # "peek" /\ clean
        /\ pc' = "resp"
  BY DEF Send
<1>2. pc = "idle" /\ UNCHANGED <<wraps, hexlogs, got, stream, fetched, arrived, dev, disk>>
      /\ result' = NoResult
  BY DEF Send, style, rx
<1>3. tx = <<>> /\ dev.st = "idle" /\ Quiet(stream)
  BY <1>1, <1>2 DEF CleanInv, WireShape, Silent
<1>4. tx' = <<Cmd(c)>>
  BY <1>1, <1>3
<1>5. Sent'
  BY <1>1, <1>2, <1>3, <1>4 DEF Sent, Quiet, Cmd
<1>6. WireShape'
  BY <1>1, <1>5 DEF WireShape
<1>7. CallShape'
  <2>1. c.op # "query" => c.n >= 1
    BY LinkAssumption DEF Calls, NoCall
  <2>2. c.op = "program" => \A j \in 1..c.n : c.data[j] \in Vals
    BY DEF Calls, NoCall
  <2> QED  BY <1>1, <1>2, <2>1, <2>2 DEF CallShape
<1>8. CutShape' /\ Unspoiled'
  BY <1>1, <1>2 DEF CleanInv, CutShape, Unspoiled
<1> QED  BY <1>2, <1>6, <1>7, <1>8, NoVerdict DEF CleanInv

\* Nothing is read before the drain, and what it drops are whole log lines.
LEMMA DrainClean ==
  ASSUME IInv, CleanInv, clean, DrainRead \/ DrainEmpty
  PROVE  CleanInv'
<1>1. /\ UNCHANGED <<wraps, call, got, tx, dev, disk, result, clean>>
      /\ pc \in {"drain", "drainmore"} /\ pc' \in {"drain", "drainmore", "idle"}
      /\ result = NoResult
  BY DEF DrainRead, DrainEmpty, style, rx, CleanInv, CallShape
<1>2. fetched = 0 /\ Silent /\ Quiet(stream) /\ StreamOK /\ CutShape
  BY <1>1, CleanCall DEF WireShape
<1>3. Quiet(stream') /\ CutShape' /\ fetched' = 0
  <2>1. CASE DrainEmpty
    BY <1>1, <1>2, <2>1 DEF DrainEmpty, rx, CutShape
  <2>2. CASE DrainRead
    <3> DEFINE t == SubSeq(stream, arrived + 1, Len(stream))
               z == SubSeq(stream, 1, fetched)
    <3>1. stream' = z \o t /\ arrived' = 0 /\ fetched' = 0
      BY <1>2, <2>2 DEF DrainRead, DropChunk
    <3>2. Len(stream) \in Nat /\ arrived \in Nat /\ arrived <= Len(stream)
      BY <1>2, StreamFacts
    <3>3. z = <<>>
      <4>1. z \in Seq(Token) /\ Len(z) = 0
        BY <1>2, <3>2, SubSeqStream
      <4> QED  BY <4>1, EmptySeq
    <3>4. t \in Seq(Token)
      BY <1>2, <3>2, SubSeqStream
    <3>5. stream' = t
      <4> HIDE DEF t, z
      <4> QED  BY <3>1, <3>3, <3>4, ConcatEmptySeq
    <3>6. Behind(stream', stream, arrived)
      <4>1. \A j \in (arrived+1)..Len(stream) : stream[j] \in Token
        BY <1>2, <3>2, ElementOfSeq DEF StreamOK
      <4>0. arrived + 1 \in Int /\ Len(stream) \in Int
        BY <3>2
      <4>2. /\ Len(t) = IF arrived + 1 <= Len(stream) THEN Len(stream) - (arrived + 1) + 1 ELSE 0
            /\ \A j \in 1..(Len(stream) - (arrived + 1) + 1) : t[j] = stream[(arrived + 1) + j - 1]
        BY <4>0, <4>1, SubSeqProperties
      <4>3. Len(stream) - (arrived + 1) + 1 = Len(stream) - arrived
        BY <3>2
      <4> HIDE DEF t
      <4>4. Len(t) = Len(stream) - arrived
        BY <3>2, <4>2, RestLen
      <4>5. ASSUME NEW j \in 1..Len(t) PROVE t[j] = stream[arrived + j]
        <5>1. j \in 1..(Len(stream) - (arrived + 1) + 1) /\ (arrived + 1) + j - 1 = arrived + j
          BY <3>2, <4>3, <4>4
        <5>2. t[j] = stream[(arrived + 1) + j - 1]
          BY <4>2, <5>1
        <5> QED  BY <5>1, <5>2
      <4> QED  BY <3>2, <3>5, <4>4, <4>5 DEF Behind
    <3>7. \A j \in 1..Len(stream') : stream'[j] = stream[arrived + j] /\ arrived + j \in 1..Len(stream)
      BY <3>2, <3>6 DEF Behind
    <3>8. Len(stream') >= 1 => stream'[1].k = "log"
      <4> SUFFICES ASSUME Len(stream') >= 1 PROVE stream'[1].k = "log"
        OBVIOUS
      <4>1. stream'[1] = stream[arrived + 1] /\ arrived + 1 \in 1..Len(stream) /\ arrived < Len(stream)
        BY <3>2, <3>6, <3>7 DEF Behind
      <4> QED  BY <1>2, <4>1 DEF Quiet, CutShape
    <3>9. Quiet(stream')
      BY <1>2, <3>7, <3>8 DEF Quiet
    <3>10. CutShape'
      <4>1. arrived' < Len(stream') => stream'[arrived' + 1].k # "close"
        <5>1. Len(stream') \in Nat /\ arrived' = 0
          BY <3>1, <3>6 DEF Behind
        <5>2. 0 < Len(stream') => stream'[0 + 1].k # "close"
          BY <3>8, <5>1
        <5> QED  BY <5>1, <5>2
      <4>2. ~wraps' => \A j \in 1..Len(stream') : stream'[j].k # "close"
        BY <1>1, <1>2, <3>7 DEF CutShape
      <4> QED  BY <4>1, <4>2 DEF CutShape
    <3> QED  BY <3>1, <3>9, <3>10
  <2> QED  BY <2>1, <2>2
<1>4. WireShape'
  BY <1>1, <1>2, <1>3 DEF WireShape, Silent, Quiet
<1>5. CallShape' /\ Unspoiled'
  BY <1>1 DEF CleanInv, CallShape, Unspoiled
<1> QED  BY <1>1, <1>3, <1>4, <1>5, NoVerdict DEF CleanInv

\* The response that read_response returns is the one the device gave.
LEMMA FirstVerdict ==
  ASSUME IInv, CleanInv, clean, pc = "resp",
         NEW i \in 1..arrived, NEW e \in 1..arrived, NEW b, Reply(i, e, b)
  PROVE  /\ e \in Nat /\ e <= arrived /\ stream[i].id = call.id /\ stream[i].ok \in BOOLEAN
         /\ \E p \in 0..Len(stream) : Answered(p, stream[i].ok) /\ e = p + Width
<1>1. ~Quiet(stream)
  BY CleanCall, NoReply
<1>2. PICK p \in 0..Len(stream), ok \in BOOLEAN : Answered(p, ok)
  BY <1>1, CleanCall DEF WireShape, Sent
<1>3. p \in Nat /\ NoHead(stream, p) /\ RespondsAt(stream, p, call.id, ok)
  BY <1>2, CleanCall, StreamFacts DEF Answered, Says
<1>4. /\ e = p + Width /\ e \in Nat /\ e <= arrived
      /\ stream[i].id = call.id /\ stream[i].ok = ok
  BY <1>3, CleanCall, ReplyAt
<1> QED  BY <1>2, <1>4

LEMMA LastVerdict ==
  ASSUME IInv, CleanInv, clean, pc = "final",
         NEW i \in 1..arrived, NEW e \in 1..arrived, NEW b, Reply(i, e, b)
  PROVE  /\ e \in Nat /\ e <= arrived /\ stream[i].id = call.id
         /\ Len(stream) = e /\ Silent
         /\ call.op = "read" => Collected
         /\ call.op = "program" => Stored(call.n)
         /\ call.op \in {"read", "program"}
<1>1. call.op \in {"read", "program"}
  BY DEF IInv, Progress
<1>2. /\ Silent /\ CompletesAt(stream, 0, call.n)
      /\ call.op = "read" => Collected
      /\ call.op = "program" => Stored(call.n)
  <2>1. CASE call.op = "read"
    <3>1. Len(got) = call.n
      BY <2>1 DEF IInv, Progress
    <3> QED  BY <2>1, <3>1, CleanCall DEF WireShape
  <2>2. CASE call.op = "program"
    <3>1. PICK k \in 0..call.n : Storing(k)
      BY <2>2, CleanCall DEF WireShape
    <3>2. CASE k < call.n
      <4>1. Len(stream) = 0 /\ arrived <= Len(stream) /\ arrived \in Nat /\ i <= arrived
        BY <3>1, <3>2, CleanCall, StreamFacts DEF Storing
      <4>2. FALSE
        BY <4>1
      <4> QED  BY <4>2
    <3>3. CASE ~(k < call.n)
      <4>1. k = call.n
        BY <3>3, CleanCall
      <4> QED  BY <2>2, <3>1, <3>3, <4>1 DEF Storing
    <3> QED  BY <3>2, <3>3
  <2> QED  BY <1>1, <2>1, <2>2
<1>3. PICK ok \in BOOLEAN : RespondsAt(stream, 0 + (call.n - call.n), call.id, ok)
  BY <1>2 DEF CompletesAt
<1>4. 0 + (call.n - call.n) = 0 /\ 0 + 0 + Width = Width /\ 0 + Width = Width
  BY CleanCall, WidthIsSmall DEF WidthFacts
<1>5. Len(stream) = Width
  <2>1. Len(stream) = 0 + (call.n - call.n) + Width
    BY <1>2 DEF CompletesAt
  <2> QED  BY <1>4, <2>1
<1>6. NoHead(stream, 0) /\ RespondsAt(stream, 0, call.id, ok)
  BY <1>3, <1>4 DEF NoHead
<1>7. e = 0 + Width /\ e \in Nat /\ e <= arrived /\ stream[i].id = call.id
  BY <1>6, CleanCall, ReplyAt
<1> QED  BY <1>1, <1>2, <1>4, <1>5, <1>7

\* The response that ends a call is all there is, and comes when the call has
\* been carried out (ok) or refused.
LEMMA Verdict ==
  ASSUME IInv, CleanInv, clean,
         NEW i \in 1..arrived, NEW e \in 1..arrived, Reply(i, e, TRUE),
         pc = "final" \/ call.op \in {"query", "erase"} \/ ~stream[i].ok
  PROVE  /\ e \in Nat /\ e <= arrived /\ stream[i].id = call.id
         /\ Len(stream) = e /\ Silent
         /\ pc = "final" /\ call.op = "read" => Collected
         /\ stream[i].ok /\ call.op = "program" => Stored(call.n)
         /\ stream[i].ok /\ call.op = "erase" => Erased
<1>1. CASE pc = "final"
  BY <1>1, LastVerdict
<1>2. CASE pc # "final"
  <2>1. pc = "resp"
    BY <1>2 DEF Reply, Reading
  <2>2. PICK p \in 0..Len(stream) :
          /\ Answered(p, stream[i].ok) /\ e = p + Width /\ e \in Nat /\ e <= arrived
          /\ stream[i].id = call.id
    BY <2>1, FirstVerdict
  <2>3. ~(call.op \in {"read", "program"} /\ stream[i].ok)
    BY <1>2
  <2>4. Len(stream) = e
    BY <2>2, <2>3 DEF Answered, Says
  <2> QED  BY <1>2, <2>2, <2>3, <2>4 DEF Answered, Silent
<1> QED  BY <1>1, <1>2

LEMMA VerdictClean ==
  ASSUME IInv, CleanInv, clean, Ack \/ Nak
  PROVE  CleanInv'
<1>1. PICK i \in 1..arrived, e \in 1..arrived :
        /\ Reply(i, e, TRUE) /\ Use(e, arrived)
        /\ pc = "final" \/ call.op \in {"query", "erase"} \/ ~stream[i].ok
        /\ \/ Return("nak", stream[i].id, <<>>)
           \/ Ack /\ Return("ok", stream[i].id, got)
        /\ UNCHANGED <<style, tx, dev, disk, clean>>
  BY DEF Ack, Nak
<1>2. /\ e \in Nat /\ e <= arrived /\ stream[i].id = call.id /\ Len(stream) = e /\ Silent
      /\ pc = "final" /\ call.op = "read" => Collected
  BY <1>1, Verdict
<1>3. /\ UNCHANGED <<wraps, hexlogs, tx, dev, disk, clean, call>> /\ pc' = "idle"
      /\ got' = <<>> /\ result'.id = stream[i].id
  <2>1. Return("nak", stream[i].id, <<>>) \/ Return("ok", stream[i].id, got)
    BY <1>1
  <2>2. pc' = "idle" /\ call' = call /\ got' = <<>> /\ result'.id = stream[i].id
    BY <2>1 DEF Return
  <2> QED  BY <1>1, <2>2 DEF style
<1>4. Behind(stream', stream, e) /\ CutShape'
  BY <1>1, <1>2, <1>3, CleanCall, StreamFacts, UseRest DEF style
<1>5. Len(stream') = 0
  BY <1>2, <1>4 DEF Behind
<1>6. Quiet(stream')
  BY <1>5 DEF Quiet
<1>7. WireShape'
  BY <1>2, <1>3, <1>6 DEF WireShape, Silent, Quiet
<1>8. CallShape' /\ Unspoiled' /\ AnswersOwn'
  BY <1>2, <1>3 DEF CleanInv, CallShape, Unspoiled, AnswersOwn
<1>9. ReadExact'
  <2> SUFFICES ASSUME result'.st = "ok", call.op = "read"
               PROVE  result'.data = [j \in 1..call.n |-> disk[call.at + j - 1]]
    BY <1>3 DEF ReadExact
  <2>1. Ack /\ result'.data = got
    BY <1>1 DEF Return
  <2>2. pc = "final" /\ Collected
    BY <1>2, <2>1 DEF Ack
  <2>3. Len(got) = call.n /\ got \in Seq(Data)
    BY <2>2 DEF IInv, TypeOK, ClientOK, Progress
  <2>4. DOMAIN got = 1..call.n /\ got = [j \in DOMAIN got |-> got[j]]
    BY <2>3, LenProperties
  <2>5. \A j \in 1..call.n : got[j] = disk[call.at + j - 1]
    BY <2>2, <2>3 DEF Collected
  <2> QED  BY <2>1, <2>4, <2>5
<1> QED  BY <1>3, <1>4, <1>7, <1>8, <1>9 DEF CleanInv

LEMMA ProgramClean ==
  ASSUME IInv, CleanInv, clean, ProgramGo
  PROVE  CleanInv'
<1>1. PICK i \in 1..arrived, e \in 1..arrived :
        Reply(i, e, TRUE) /\ stream[i].ok /\ Use(e, arrived)
  BY DEF ProgramGo
<1>2. /\ UNCHANGED <<wraps, hexlogs, call, got, result, dev, disk, clean>>
      /\ pc = "resp" /\ pc' = "final" /\ call.op = "program" /\ tx' = tx \o Payload(call)
  BY DEF ProgramGo, style
<1>3. PICK p \in 0..Len(stream) : Answered(p, stream[i].ok) /\ e = p + Width
  BY <1>1, <1>2, FirstVerdict
<1>4. e \in Nat /\ e <= arrived
  BY <1>1, <1>2, FirstVerdict
<1>5. stream[i].ok = TRUE
  BY <1>1, <1>2, FirstVerdict
<1>6. /\ tx = <<>> /\ Len(stream) = e
      /\ dev = [st |-> "data", c |-> call, done |-> 0]
  BY <1>2, <1>3, <1>5 DEF Answered, Says
<1>7. Behind(stream', stream, e) /\ CutShape' /\ StreamOK'
  BY <1>1, <1>2, <1>4, CleanCall, StreamFacts, UseRest, UseStream DEF style
<1>8. stream' = <<>>
  <2>1. Len(stream') = 0 /\ stream' \in Seq(Token)
    BY <1>4, <1>6, <1>7 DEF Behind, StreamOK
  <2> QED  BY <2>1, EmptySeq
<1>9. /\ tx' = Payload(call) /\ Len(tx') = call.n
      /\ \A j \in 1..call.n : tx'[j].v = call.data[j]
  <2> DEFINE P == Payload(call)
  <2>1. P = [j \in 1..call.n |-> [cmd |-> FALSE, c |-> call, v |-> call.data[j]]]
    BY DEF Payload
  <2>2. \A j \in 1..call.n : P[j].v = call.data[j]
    BY <2>1
  <2>3. P \in [1..call.n -> Range(P)]
    BY <2>1 DEF Range
  <2> HIDE DEF P
  <2>4. P \in Seq(Range(P)) /\ Len(P) = call.n
    BY <2>3, CleanCall, FunctionIsSeq
  <2>5. tx' = P
    BY <1>2, <1>6, <2>4, ConcatEmptySeq DEF P
  <2> QED  BY <2>2, <2>4, <2>5 DEF P
<1>10. Storing(0)'
  <2>1. 0 < call.n /\ call.n - 0 = call.n /\ \A j \in 1..call.n : 0 + j = j
    BY <1>2, CleanCall
  <2>2. \A j \in 1..(call.n - 0) : tx'[j].v = call.data[0 + j]
    BY <1>9, <2>1
  <2>3. Stored(0)'
    BY DEF Stored
  <2> QED  BY <1>2, <1>6, <1>8, <1>9, <2>1, <2>2, <2>3 DEF Storing
<1>11. 0 \in 0..call.n
  BY CleanCall
<1>12. WireShape'
  BY <1>2, <1>10, <1>11 DEF WireShape
<1>13. CallShape' /\ Unspoiled' /\ result' = NoResult
  BY <1>2 DEF CleanInv, CallShape, Unspoiled
<1> QED  BY <1>7, <1>12, <1>13, NoVerdict DEF CleanInv

\* The bytes in a stretch without hex log lines: none.
LEMMA NoHexBytes ==
  ASSUME NEW e \in Nat, NoHex(stream, e)
  PROVE  Len(HexBytes(1, e)) = 0
<1> DEFINE hex == {j \in 1..e : stream[j].k = "hex"}
           V(r) == CHOOSE v \in Data :
                     \A j \in hex : Cardinality({m \in hex : m < j}) = r - 1 => stream[j].v = v
<1>1. hex = {}
  BY DEF NoHex
<1>2. Cardinality(hex) = 0
  BY <1>1, FS_EmptySet
<1>3. HexBytes(1, e) = [r \in 1..Cardinality(hex) |-> V(r)]
  BY DEF HexBytes
<1> HIDE DEF hex, V
<1>4. HexBytes(1, e) \in [1..0 -> Data]
  <2>1. \A r \in 1..0 : FALSE
    OBVIOUS
  <2> QED  BY <1>2, <1>3, <2>1
<1> QED  BY <1>4, FunctionIsSeq

\* The bytes in a stretch that has the call's sectors as hex log lines.
LEMMA AllHexBytes ==
  ASSUME IInv, CleanInv, clean, call.n >= 1, NEW e \in Nat, NEW b \in Nat, HexRun(stream, b, e)
  PROVE  /\ Len(HexBytes(1, e)) = call.n
         /\ \A r \in 1..call.n : HexBytes(1, e)[r] = disk[call.at + r - 1]
<1> DEFINE hex == {j \in 1..e : stream[j].k = "hex"}
           Before(j) == Cardinality({m \in hex : m < j})
           V(r) == CHOOSE v \in Data : \A j \in hex : Before(j) = r - 1 => stream[j].v = v
<1>0. /\ call.n \in Nat /\ b + call.n <= e
      /\ \A j \in 1..e : stream[j].k = "hex" <=> b + 1 <= j /\ j <= b + call.n
  BY CleanCall DEF HexRun
<1>1. hex = (b + 1)..(b + call.n)
  BY <1>0
<1>2. Cardinality(hex) = call.n
  <2>1. Cardinality((b + 1)..(b + call.n)) = IF b + 1 > b + call.n THEN 0 ELSE (b + call.n) - (b + 1) + 1
    <3>1. b + 1 \in Int /\ b + call.n \in Int
      BY <1>0
    <3> QED  BY <3>1, FS_Interval
  <2>2. ~(b + 1 > b + call.n) /\ (b + call.n) - (b + 1) + 1 = call.n
    BY <1>0
  <2> QED  BY <1>1, <2>1, <2>2
<1>3. ASSUME NEW j \in hex PROVE Before(j) = j - 1 - b
  <2>1. {m \in hex : m < j} = (b + 1)..(j - 1)
    <3> HIDE DEF hex
    <3> QED  BY <1>0, <1>1
  <2>2. j \in Int /\ j >= b + 1
    BY <1>1
  <2>3. Cardinality((b + 1)..(j - 1)) = IF b + 1 > j - 1 THEN 0 ELSE (j - 1) - (b + 1) + 1
    BY <2>2, FS_Interval
  <2>4. (IF b + 1 > j - 1 THEN 0 ELSE (j - 1) - (b + 1) + 1) = j - 1 - b
    BY <2>2
  <2> QED  BY <2>1, <2>3, <2>4
<1>4. HexBytes(1, e) = [r \in 1..Cardinality(hex) |-> V(r)]
  BY DEF HexBytes
<1>5. ASSUME NEW r \in 1..call.n PROVE V(r) = disk[call.at + r - 1] /\ V(r) \in Data
  <2> HIDE DEF hex, Before
  <2> DEFINE d == disk[call.at + r - 1]
  <2>1. b + r \in hex /\ (b + r) - 1 - b = r - 1
    BY <1>0, <1>1
  <2>2. \A j \in hex : Before(j) = r - 1 => j = b + r
    <3> SUFFICES ASSUME NEW j \in hex, Before(j) = r - 1 PROVE j = b + r
      OBVIOUS
    <3>1. j - 1 - b = r - 1 /\ j \in Int
      BY <1>0, <1>1, <1>3
    <3> QED  BY <3>1
  <2>3. Before(b + r) = r - 1
    BY <1>3, <2>1
  <2>4. stream[b + r].v = d /\ d \in Data
    <3>1. call.at + r - 1 \in Sectors
      BY CleanCall DEF Span
    <3> QED  BY <3>1, CleanCall DEF HexRun
  <2> HIDE DEF d
  <2>5. \A v : (\A j \in hex : Before(j) = r - 1 => stream[j].v = v) <=> v = d
    BY <2>1, <2>2, <2>3, <2>4
  <2>6. V(r) = d /\ V(r) \in Data
    BY <2>4, <2>5
  <2> QED  BY <2>6 DEF d
<1> HIDE DEF hex, V
<1>6. HexBytes(1, e) \in [1..call.n -> Data]
  BY <1>2, <1>4, <1>5
<1> QED  BY <1>0, <1>2, <1>4, <1>5, <1>6, FunctionIsSeq

\* Taking raw tokens that are the next sectors of the call.
LEMMA TakeRaw ==
  ASSUME call.n \in Nat, NEW e \in Nat, NEW h \in Nat, NEW m \in Nat, h + m <= call.n,
         CompletesAt(stream, e, h)
  PROVE  \A j \in 1..m : Taken(stream[e + j]) = disk[call.at + h + j - 1]
<1> TAKE j \in 1..m
<1>1. j \in 1..(call.n - h)
  OBVIOUS
<1>2. stream[e + j].k = "raw" /\ stream[e + j].v = disk[call.at + h + j - 1]
  BY <1>1 DEF CompletesAt
<1> QED  BY <1>2 DEF Taken

\* A step that takes the next m sectors of a read from behind the first e
\* tokens, the first h being taken.
LEMMA TakeClean ==
  ASSUME IInv, CleanInv, clean, call.op = "read", Silent, pc # "idle",
         NEW e \in Nat, NEW h \in Nat, NEW m \in Nat, NEW f \in Nat,
         e + m <= f, f <= arrived, h + m <= call.n, CompletesAt(stream, e, h),
         Use(e + m, f), UNCHANGED <<style, call, result, tx, dev, disk, clean>>,
         Len(got') = h + m, Collected', pc' = IF h + m = call.n THEN "final" ELSE "raw"
  PROVE  CleanInv'
<1>1. Behind(stream', stream, e + m) /\ CutShape' /\ e + m \in Nat
  <2>1. e + m \in Nat
    OBVIOUS
  <2> QED  BY <2>1, CleanCall, UseRest
<1>2. CompletesAt(stream, e + m, h + m)
  BY CleanCall, CompletesLater
<1>3. CompletesAt(stream', 0, h + m)
  <2>1. h + m \in 0..call.n /\ 0 \in Nat /\ (e + m) + 0 = e + m
    BY CleanCall
  <2> QED  BY <1>1, <1>2, <2>1, CleanCall, CompletesBehind
<1>4. CompletesAt(stream, 0, h + m)' /\ Silent' /\ CallShape' /\ Unspoiled' /\ result' = NoResult
  BY <1>3, CompletesNext DEF style, Silent, CleanInv, CallShape, Unspoiled
<1>5. PICK n \in Nat : n = h + m
  OBVIOUS
<1>6. CompletesAt(stream, 0, n)' /\ Len(got') = n /\ pc' = IF n = call.n THEN "final" ELSE "raw"
  BY <1>4, <1>5
<1>7. CompletesAt(stream, 0, Len(got))'
  BY <1>6 DEF CompletesAt, RespondsAt, Width
<1>8. WireShape'
  BY <1>4, <1>6, <1>7 DEF WireShape
<1> QED  BY <1>1, <1>4, <1>8, NoVerdict DEF CleanInv

LEMMA ReadRawClean ==
  ASSUME IInv, CleanInv, clean, ReadRaw
  PROVE  CleanInv'
<1> DEFINE B(m) == [j \in 1..m |-> Taken(stream[j])]
<1>1. PICK m : /\ m = Smaller(arrived, call.n - Len(got)) /\ Use(m, m) /\ got' = got \o B(m)
               /\ pc' = IF Len(got) + m = call.n THEN "final" ELSE "raw"
  BY DEF ReadRaw
<1>2. PICK h : h = Len(got)
  OBVIOUS
<1>3. /\ pc = "raw" /\ call.op = "read" /\ h \in Nat /\ h <= call.n /\ got \in Seq(Data)
      /\ arrived \in Nat /\ call.n \in Nat
  BY <1>2, CleanCall, StreamFacts, LenProperties DEF IInv, TypeOK, ClientOK, Progress, ReadRaw
<1>4. m \in Nat /\ m <= arrived /\ h + m <= call.n
  BY <1>1, <1>2, <1>3 DEF Smaller
<1>5. Silent /\ Collected /\ CompletesAt(stream, 0, h)
  BY <1>2, <1>3, CleanCall DEF WireShape
<1>6. \A j \in 1..m : B(m)[j] = disk[call.at + h + j - 1]
  <2>1. \A j \in 1..m : Taken(stream[0 + j]) = disk[call.at + h + j - 1]
    <3>1. 0 \in Nat /\ h \in Nat /\ m \in Nat /\ call.n \in Nat
          /\ h + m <= call.n /\ CompletesAt(stream, 0, h)
      BY <1>3, <1>4, <1>5
    <3> QED  BY <3>1, TakeRaw
  <2>2. \A j \in 1..m : 0 + j = j
    BY <1>4
  <2> QED  BY <2>1, <2>2
<1>7. B(m) \in Seq(Data) /\ Len(B(m)) = m
  <2>1. \A j \in 1..m : call.at + h + j - 1 = call.at + (h + j) - 1 /\ h + j \in 1..call.n
    BY <1>3, <1>4, CleanCall
  <2>2. \A j \in 1..m : call.at + h + j - 1 \in Sectors
    BY <2>1, CleanCall DEF Span
  <2>3. \A j \in 1..m : B(m)[j] \in Data
    BY <1>6, <2>2, CleanCall
  <2>4. B(m) \in [1..m -> Data]
    BY <2>3
  <2> HIDE DEF B
  <2> QED  BY <1>4, <2>4, FunctionIsSeq
<1> HIDE DEF B
<1>8. Len(got') = h + m /\ Collected'
  <2>1. Len(got') = h + m
    BY <1>1, <1>2, <1>3, <1>7, ConcatProperties
  <2>2. ASSUME NEW j \in 1..(h + m) PROVE got'[j] = disk[call.at + j - 1]
    <3>1. got'[j] = IF j <= h THEN got[j] ELSE B(m)[j - h]
      BY <1>1, <1>2, <1>3, <1>7, ConcatProperties
    <3>2. CASE j <= h
      <4>1. j \in 1..h
        BY <1>3, <1>4, <3>2
      <4> QED  BY <1>2, <1>5, <3>1, <3>2, <4>1 DEF Collected
    <3>3. CASE ~(j <= h)
      <4>1. j - h \in 1..m /\ call.at + h + (j - h) - 1 = call.at + j - 1
        BY <1>3, <1>4, <3>3, CleanCall
      <4>2. B(m)[j - h] = disk[call.at + h + (j - h) - 1]
        BY <1>6, <4>1
      <4> QED  BY <3>1, <3>3, <4>1, <4>2
    <3> QED  BY <3>2, <3>3
  <2>3. call' = call /\ disk' = disk
    BY DEF ReadRaw
  <2> QED  BY <2>1, <2>2, <2>3 DEF Collected
<1>9. /\ UNCHANGED <<style, call, result, tx, dev, disk, clean>> /\ Use(0 + m, m)
      /\ pc' = IF h + m = call.n THEN "final" ELSE "raw"
  <2>1. 0 + m = m
    BY <1>4
  <2> QED  BY <1>1, <1>2, <2>1 DEF ReadRaw
<1>10. 0 + m <= m /\ 0 \in Nat /\ pc # "idle"
  BY <1>3, <1>4
<1> QED  BY <1>3, <1>4, <1>5, <1>8, <1>9, <1>10, TakeClean

LEMMA LeavesNat ==
  ASSUME NEW a \in Nat, NEW b \in Nat, b <= a
  PROVE  a - b \in Nat
  OBVIOUS

LEMMA SmallerFacts ==
  ASSUME NEW a \in Nat, NEW b \in Nat
  PROVE  Smaller(a, b) \in Nat /\ Smaller(a, b) <= a /\ Smaller(a, b) <= b
  BY DEF Smaller

\* What the first ACK of a read says: its sectors are in the log lines in
\* front of it, or behind it.
LEMMA ReadSays ==
  ASSUME IInv, CleanInv, clean, call.op = "read", NEW p \in 0..Len(stream), NEW e \in Nat,
         Answered(p, TRUE), e = p + Width, e <= arrived
  PROVE  \/ NoHex(stream, e) /\ CompletesAt(stream, e, 0)
         \/ /\ CompletesAt(stream, e, call.n)
            /\ \E b \in Nat : HexRun(stream, b, e)
<1>1. p \in Nat /\ call.n \in Nat
  BY CleanCall, StreamFacts
<1>2. ASSUME NEW j \in 1..e, ~(j <= p) PROVE stream[j].k # "hex"
  <2>1. RespondsAt(stream, p, call.id, TRUE)
    BY DEF Answered, Says
  <2>2. j = p + 1 \/ j = p + 2 \/ (wraps /\ j = p + 3)
    <3>1. CASE wraps
      <4>1. e = p + 3
        BY <3>1 DEF Width
      <4> QED  BY <1>1, <1>2, <3>1, <4>1
    <3>2. CASE ~wraps
      <4>1. e = p + 2
        BY <3>2 DEF Width
      <4> QED  BY <1>1, <1>2, <4>1
    <3> QED  BY <3>1, <3>2
  <2> QED  BY <2>1, <2>2 DEF RespondsAt
<1>3. p <= e /\ \A j \in 1..e : j <= p => j \in 1..p
  BY <1>1, WidthIsSmall DEF WidthFacts
<1>4. CASE NoHex(stream, p) /\ CompletesAt(stream, p + Width, 0)
  BY <1>2, <1>3, <1>4 DEF NoHex
<1>5. CASE HexesIn(stream, p) /\ CompletesAt(stream, p + Width, call.n)
  <2>1. PICK b \in 0..p :
          /\ b + call.n <= p
          /\ \A j \in 1..p : stream[j].k = "hex" <=> b + 1 <= j /\ j <= b + call.n
          /\ \A r \in 1..call.n : stream[b + r].v = disk[call.at + r - 1]
    BY <1>5 DEF HexesIn, HexRun
  <2>2. b \in Nat /\ b + call.n <= e
    BY <1>1, <1>3, <2>1
  <2>3. ASSUME NEW j \in 1..e
        PROVE  stream[j].k = "hex" <=> b + 1 <= j /\ j <= b + call.n
    <3>1. CASE j <= p
      BY <1>3, <2>1, <3>1
    <3>2. CASE ~(j <= p)
      <4>1. ~(j <= b + call.n)
        BY <1>1, <2>1, <3>2
      <4> QED  BY <1>2, <3>2, <4>1
    <3> QED  BY <3>1, <3>2
  <2>4. HexRun(stream, b, e)
    BY <2>1, <2>2, <2>3 DEF HexRun
  <2> QED  BY <1>5, <2>2, <2>4
<1> QED  BY <1>4, <1>5 DEF Answered, Says

LEMMA ReadGoClean ==
  ASSUME IInv, CleanInv, clean, ReadGo
  PROVE  CleanInv'
<1> DEFINE A(e, h) == [j \in 1..h |-> HexBytes(1, e)[j]]
           B(e, m) == [j \in 1..m |-> Taken(stream[e + j])]
<1>1. PICK i \in 1..arrived, e \in 1..arrived :
        LET h == Smaller(Len(HexBytes(1, e)), call.n)
            m == Smaller(arrived - e, call.n - h)
        IN /\ Reply(i, e, TRUE) /\ stream[i].ok /\ Use(e + m, arrived)
           /\ got' = A(e, h) \o B(e, m)
           /\ pc' = IF h + m = call.n THEN "final" ELSE "raw"
  BY DEF ReadGo
<1>2. PICK h : h = Smaller(Len(HexBytes(1, e)), call.n)
  OBVIOUS
<1>3. PICK m : m = Smaller(arrived - e, call.n - h)
  OBVIOUS
<1>4. /\ Reply(i, e, TRUE) /\ stream[i].ok /\ Use(e + m, arrived)
      /\ got' = A(e, h) \o B(e, m) /\ pc' = IF h + m = call.n THEN "final" ELSE "raw"
  BY <1>1, <1>2, <1>3
<1> HIDE DEF A, B
<1>5. /\ UNCHANGED <<style, call, result, tx, dev, disk, clean>>
      /\ pc = "resp" /\ call.op = "read"
  BY DEF ReadGo
<1>6. PICK p \in 0..Len(stream) : Answered(p, stream[i].ok) /\ e = p + Width
  BY <1>4, <1>5, FirstVerdict
<1>7. /\ e \in Nat /\ e <= arrived /\ stream[i].ok = TRUE /\ arrived \in Nat
      /\ call.n \in Nat /\ call.n >= 1 /\ call.at \in Nat
  BY <1>4, <1>5, FirstVerdict, CleanCall, StreamFacts
<1>8. Silent
  BY <1>5, <1>6 DEF Answered, Silent
<1>9. \A r \in 1..call.n : disk[call.at + r - 1] \in Data
  <2>1. \A r \in 1..call.n : call.at + r - 1 \in Sectors
    BY CleanCall DEF Span
  <2> QED  BY <2>1, CleanCall
<1>10. /\ h \in Nat /\ h <= call.n /\ CompletesAt(stream, e, h)
       /\ \A r \in 1..h : HexBytes(1, e)[r] = disk[call.at + r - 1]
  <2>1. CASE NoHex(stream, e) /\ CompletesAt(stream, e, 0)
    <3>1. Len(HexBytes(1, e)) = 0
      BY <1>7, <2>1, NoHexBytes
    <3>2. h = 0
      BY <1>2, <1>7, <3>1 DEF Smaller
    <3> QED  BY <1>7, <2>1, <3>2
  <2>2. CASE CompletesAt(stream, e, call.n) /\ \E b \in Nat : HexRun(stream, b, e)
    <3>1. PICK b \in Nat : HexRun(stream, b, e)
      BY <2>2
    <3>2. /\ Len(HexBytes(1, e)) = call.n
          /\ \A r \in 1..call.n : HexBytes(1, e)[r] = disk[call.at + r - 1]
      BY <1>7, <3>1, AllHexBytes
    <3>3. h = call.n
      BY <1>2, <1>7, <3>2 DEF Smaller
    <3>4. h \in Nat /\ h <= call.n
      BY <1>7, <3>3
    <3> QED  BY <2>2, <3>2, <3>3, <3>4
  <2> QED  BY <1>5, <1>6, <1>7, <2>1, <2>2, ReadSays
<1>11. m \in Nat /\ e + m <= arrived /\ h + m <= call.n
  <2>1. arrived - e \in Nat /\ call.n - h \in Nat
    BY <1>7, <1>10, LeavesNat
  <2>2. m \in Nat /\ m <= arrived - e /\ m <= call.n - h
    BY <1>3, <2>1, SmallerFacts
  <2> QED  BY <1>7, <1>10, <2>2
<1>12. A(e, h) \in Seq(Data) /\ Len(A(e, h)) = h /\ \A j \in 1..h : A(e, h)[j] = disk[call.at + j - 1]
  <2>1. \A j \in 1..h : j \in 1..call.n
    BY <1>7, <1>10
  <2>2. \A j \in 1..h : HexBytes(1, e)[j] = disk[call.at + j - 1] /\ HexBytes(1, e)[j] \in Data
    BY <1>9, <1>10, <2>1
  <2>3. A(e, h) \in [1..h -> Data] /\ \A j \in 1..h : A(e, h)[j] = HexBytes(1, e)[j]
    BY <2>2 DEF A
  <2> QED  BY <1>10, <2>2, <2>3, FunctionIsSeq
<1>13. B(e, m) \in Seq(Data) /\ Len(B(e, m)) = m
       /\ \A j \in 1..m : B(e, m)[j] = disk[call.at + h + j - 1]
  <2>1. \A j \in 1..m : Taken(stream[e + j]) = disk[call.at + h + j - 1]
    <3>1. e \in Nat /\ h \in Nat /\ m \in Nat /\ call.n \in Nat
          /\ h + m <= call.n /\ CompletesAt(stream, e, h)
      BY <1>7, <1>10, <1>11
    <3> QED  BY <3>1, TakeRaw
  <2>2. B(e, m) \in Seq(Data) /\ Len(B(e, m)) = m
    BY <1>7, <1>11, CleanCall, TakenSeq DEF B
  <2> QED  BY <2>1, <2>2 DEF B
<1>14. Len(got') = h + m /\ Collected'
  <2>1. Len(got') = h + m
    BY <1>4, <1>12, <1>13, ConcatProperties
  <2>2. ASSUME NEW j \in 1..(h + m) PROVE got'[j] = disk[call.at + j - 1]
    <3>1. got'[j] = IF j <= h THEN A(e, h)[j] ELSE B(e, m)[j - h]
      <4>1. A(e, h) \in Seq(Data) /\ Len(A(e, h)) = h /\ B(e, m) \in Seq(Data) /\ Len(B(e, m)) = m
        BY <1>12, <1>13
      <4> HIDE DEF A, B
      <4>2. PICK a, b : a = A(e, h) /\ b = B(e, m)
        OBVIOUS
      <4>3. a \in Seq(Data) /\ Len(a) = h /\ b \in Seq(Data) /\ Len(b) = m
        BY <4>1, <4>2
      <4>4. \A k \in 1..(Len(a) + Len(b)) : (a \o b)[k]
                                            = IF k <= Len(a) THEN a[k] ELSE b[k - Len(a)]
        BY <4>3, ConcatProperties
      <4>5. (a \o b)[j] = IF j <= h THEN a[j] ELSE b[j - h]
        BY <4>3, <4>4
      <4> QED  BY <1>4, <4>2, <4>5
    <3>2. CASE j <= h
      <4>1. j \in 1..h
        BY <1>10, <1>11, <3>2
      <4> QED  BY <1>12, <3>1, <3>2, <4>1
    <3>3. CASE ~(j <= h)
      <4>1. j - h \in 1..m /\ call.at + h + (j - h) - 1 = call.at + j - 1
        BY <1>7, <1>10, <1>11, <3>3
      <4>2. B(e, m)[j - h] = disk[call.at + h + (j - h) - 1]
        BY <1>13, <4>1
      <4> QED  BY <3>1, <3>3, <4>1, <4>2
    <3> QED  BY <3>2, <3>3
  <2> QED  BY <1>5, <2>1, <2>2 DEF Collected
<1>15. pc # "idle" /\ arrived <= arrived
  BY <1>5, <1>7
<1> QED  BY <1>4, <1>5, <1>7, <1>8, <1>10, <1>11, <1>14, <1>15, TakeClean

-----------------------------------------------------------------------------
(* The invariant of a clean link *)

LEMMA InitClean == Init => CleanInv
<1> SUFFICES ASSUME Init PROVE CleanInv
  OBVIOUS
<1> DEFINE L == LogDoc(0)
<1>1. L \in Seq(Token) /\ Quiet(L) /\ Opens(L) /\ Plain(L)
  BY LogDocShape
<1>2. /\ pc = "drain" /\ call = NoCall /\ result = NoResult /\ stream \in {<<>>, L, L \o L}
      /\ fetched = 0 /\ arrived = 0 /\ tx = <<>> /\ dev.st = "idle" /\ disk \in InitDisks
  BY DEF Init
<1> HIDE DEF L
<1>3. Quiet(stream) /\ Plain(stream) /\ Len(stream) \in Nat
  <2>1. CASE stream = <<>>
    <3>1. Len(stream) = 0
      BY <2>1
    <3> QED  BY <3>1 DEF Quiet, Plain
  <2>2. CASE stream = L
    BY <1>1, <2>2, LenProperties
  <2>3. CASE stream = L \o L
    <3>1. /\ Len(L) \in Nat /\ Len(stream) = Len(L) + Len(L) /\ Len(L) >= 1
          /\ \A j \in 1..(Len(L) + Len(L)) : stream[j] = IF j <= Len(L) THEN L[j] ELSE L[j - Len(L)]
      BY <1>1, <2>3, ConcatProperties, LenProperties DEF Opens
    <3>2. \A j \in 1..Len(stream) : \E i \in 1..Len(L) : stream[j] = L[i]
      <4> SUFFICES ASSUME NEW j \in 1..Len(stream) PROVE \E i \in 1..Len(L) : stream[j] = L[i]
        OBVIOUS
      <4>1. CASE j <= Len(L)
        <5>1. j \in 1..Len(L) /\ stream[j] = L[j]
          BY <3>1, <4>1
        <5> QED  BY <5>1
      <4>2. CASE ~(j <= Len(L))
        <5>1. j - Len(L) \in 1..Len(L) /\ stream[j] = L[j - Len(L)]
          BY <3>1, <4>2
        <5> QED  BY <5>1
      <4> QED  BY <4>1, <4>2
    <3>3. stream[1] = L[1]
      BY <3>1
    <3>4. Quiet(stream)
      BY <1>1, <3>1, <3>2, <3>3 DEF Quiet
    <3>5. Plain(stream)
      BY <1>1, <2>3, ConcatFits
    <3> QED  BY <3>1, <3>4, <3>5
  <2> QED  BY <1>2, <2>1, <2>2, <2>3
<1>4. CutShape
  BY <1>2, <1>3 DEF CutShape, Quiet, Plain
<1>5. WireShape
  BY <1>2, <1>3 DEF WireShape, Silent
<1>6. CallShape /\ AnswersOwn /\ ReadExact
  BY <1>2 DEF CallShape, AnswersOwn, ReadExact, NoCall, NoResult
<1>7. Unspoiled
  BY <1>2, LinkAssumption, ValsAssumption DEF Unspoiled
<1> QED  BY <1>4, <1>5, <1>6, <1>7 DEF CleanInv

\* A link that is clean has always been.
LEMMA WasClean ==
  ASSUME IInv, [Next]_vars, clean'
  PROVE  clean
<1>1. CASE Deliver \/ Device
  BY <1>1 DEF Deliver, Device, DevExecute, DevStore, DevIgnore
<1>2. CASE Send \/ SendFails
  BY <1>2 DEF Send, SendFails
<1>3. CASE Client
  BY <1>3 DEF Client, Accumulate, TooLarge, EmptyRead, GiveUp, Unreadable, Nak, Ack,
       ProgramGo, ProgramFails, ReadGo, ReadRaw, ReadRawFails, PeekRead, PeekEmpty,
       DrainRead, DrainEmpty
<1>4. CASE UNCHANGED vars
  BY <1>4 DEF vars
<1> QED  BY <1>1, <1>2, <1>3, <1>4 DEF Next

LEMMA NextClean ==
  ASSUME IInv, CleanInv, [Next]_vars, ~SplitClose
  PROVE  CleanInv'
<1> SUFFICES ASSUME clean' PROVE CleanInv'
  BY DEF CleanInv
<1>1. clean
  BY WasClean
<1>2. CASE Deliver  BY <1>1, <1>2, WaitClean
<1>3. CASE Device   BY <1>1, <1>3, ExecuteClean, StoreClean, IgnoreClean DEF Device
<1>4. CASE Send \/ SendFails
  BY <1>4, SendClean DEF SendFails
<1>5. CASE Client
  <2>1. CASE Accumulate \/ EmptyRead    BY <1>1, <2>1, WaitClean
  <2>2. CASE Ack \/ Nak                 BY <1>1, <2>2, VerdictClean
  <2>3. CASE ProgramGo                  BY <1>1, <2>3, ProgramClean
  <2>4. CASE ReadGo                     BY <1>1, <2>4, ReadGoClean
  <2>5. CASE ReadRaw                    BY <1>1, <2>5, ReadRawClean
  <2>6. CASE DrainRead \/ DrainEmpty    BY <1>1, <2>6, DrainClean
  <2>7. CASE PeekRead \/ PeekEmpty
    BY <1>1, <2>7, CleanCall DEF PeekRead, PeekEmpty, WireShape
  <2>8. CASE TooLarge \/ GiveUp \/ Unreadable \/ ProgramFails \/ ReadRawFails
    BY <2>8 DEF TooLarge, GiveUp, Unreadable, ProgramFails, ReadRawFails
  <2> QED  BY <1>5, <2>1, <2>2, <2>3, <2>4, <2>5, <2>6, <2>7, <2>8 DEF Client
<1>6. CASE UNCHANGED vars
  <2>1. UNCHANGED <<wraps, call, got, stream, tx, dev, disk, pc, result, clean, fetched, arrived>>
    BY <1>6 DEF vars, style, host, rx
  <2>2. WireShape'
    BY <1>1, <2>1, WireSame, CleanCall
  <2>3. CallShape' /\ CutShape' /\ Unspoiled' /\ AnswersOwn' /\ ReadExact'
    BY <1>1, <2>1 DEF CleanInv, CallShape, CutShape, Unspoiled, AnswersOwn, ReadExact
  <2> QED  BY <2>2, <2>3 DEF CleanInv
<1> QED  BY <1>2, <1>3, <1>4, <1>5, <1>6 DEF Next

-----------------------------------------------------------------------------
(* The theorems *)

\* The wire of a clean link holds, at each point of a call, what that point of
\* read_response, program_sectors and read_sectors waits for, and no more.
THEOREM CleanLink ==
  ASSUME ~SplitClose
  PROVE  Spec => []CleanInv
<1>1. Init => IInv /\ CleanInv
  BY InitIInv, InitClean
<1>2. IInv /\ CleanInv /\ [Next]_vars => (IInv /\ CleanInv)'
  BY NextIInv, NextClean
<1> QED  BY <1>1, <1>2, PTL DEF Spec

\* Between two calls of a clean link nothing of the earlier one is left: no
\* item for the device, no response, no data and no half of a document
\* (read_sectors: "we MUST read the final completion response").
THEOREM NothingLeftOver ==
  ASSUME ~SplitClose
  PROVE  Spec => []Drained
<1>1. CleanInv => Drained
  <2> SUFFICES ASSUME CleanInv, clean, pc = "idle"
               PROVE  /\ tx = <<>> /\ dev.st = "idle"
                      /\ \A j \in 1..Len(stream) : stream[j].k \in {"log", "close"}
                      /\ stream # <<>> => stream[1].k = "log"
    BY DEF Drained
  <2>1. Silent /\ Quiet(stream)
    BY DEF CleanInv, WireShape
  <2> QED  BY <2>1 DEF Silent, Quiet
<1> QED  BY <1>1, CleanLink, PTL

\* The verdict of a call on a clean link is the one the device gave to that
\* call, never that of an older response (read_response takes the first
\* response of its buffer, which Drained makes the right one).
THEOREM VerdictsAreOwn ==
  ASSUME ~SplitClose
  PROVE  Spec => []AnswersOwn
<1>1. CleanInv => AnswersOwn
  BY DEF CleanInv, AnswersOwn
<1> QED  BY <1>1, CleanLink, PTL

\* While the link is clean, the bytes of a command are never stored as the
\* contents of a sector (program_sectors sends data on an ACK only).
THEOREM CommandsAreNotData ==
  ASSUME ~SplitClose
  PROVE  Spec => []DiskUnspoiled
<1>1. CleanInv => DiskUnspoiled
  BY DEF CleanInv, Unspoiled, DiskUnspoiled
<1> QED  BY <1>1, CleanLink, PTL

\* A read that returns Ok on a clean link returns the device's sectors, whether
\* they came as raw data, before or after the leftover, or as hex log lines
\* (read_sectors).
THEOREM ReadsAreExact ==
  ASSUME ~SplitClose
  PROVE  Spec => []ReadExact
<1>1. CleanInv => ReadExact
  BY DEF CleanInv, ReadExact
<1> QED  BY <1>1, CleanLink, PTL

-----------------------------------------------------------------------------
(* The link implements FlashService: the steps *)

\* The service speaks of the same sectors and calls.
LEMMA ServiceNames ==
  /\ Service!Sectors = Sectors /\ Service!NoCall = NoCall /\ Service!NoResult = NoResult
  /\ \A c : Service!Span(c) = Span(c)
  BY DEF Service!Sectors, Sectors, Service!NoCall, NoCall, Service!NoResult, NoResult,
     Service!Span, Span

LEMMA ServiceInit == Init => Service!Init
<1> SUFFICES ASSUME Init PROVE Service!Init
  OBVIOUS
<1>1. disk \in [Sectors -> Vals \cup {Zero}]
  BY LinkAssumption DEF Init
<1> QED  BY <1>1, ServiceNames DEF Init, Service!Init

\* Nothing the callers see changes.
Unseen == UNCHANGED <<disk, call, pc # "idle", result, clean>>

LEMMA WaitStep ==
  ASSUME Deliver \/ Accumulate \/ EmptyRead \/ DevIgnore \/ ProgramGo \/ ReadGo \/ ReadRaw
  PROVE  Unseen
<1>1. CASE Deliver \/ Accumulate \/ EmptyRead \/ DevIgnore
  BY <1>1 DEF Unseen, Deliver, Accumulate, EmptyRead, DevIgnore, host, rx
<1>2. CASE ProgramGo
  BY <1>2 DEF Unseen, ProgramGo
<1>3. CASE ReadGo
  <2>1. pc = "resp" /\ (pc' = "final" \/ pc' = "raw") /\ UNCHANGED <<disk, call, result, clean>>
    BY <1>3 DEF ReadGo
  <2> QED  BY <2>1 DEF Unseen
<1>4. CASE ReadRaw
  <2>1. pc = "raw" /\ (pc' = "final" \/ pc' = "raw") /\ UNCHANGED <<disk, call, result, clean>>
    BY <1>4 DEF ReadRaw
  <2> QED  BY <2>1 DEF Unseen
<1> QED  BY <1>1, <1>2, <1>3, <1>4

LEMMA ExecuteStep ==
  ASSUME IInv, CleanInv, clean, DevExecute
  PROVE  Unseen \/ Service!Effect
<1>1. pc = "resp" /\ tx = <<Cmd(call)>>
  BY Working DEF DevExecute, Sent, Storing
<1>2. Head(tx).c = call
  <2>1. Head(tx) = Cmd(call)
    BY <1>1
  <2> QED  BY <2>1 DEF Cmd
<1>3. UNCHANGED <<call, pc, result, clean>> /\ \E ok \in BOOLEAN : DevErase(call, ok)
  BY <1>2 DEF DevExecute, host
<1>4. CASE disk' = disk
  BY <1>3, <1>4 DEF Unseen
<1>5. CASE disk' # disk
  <2>1. /\ call.op = "erase"
        /\ disk' = [s \in Sectors |-> IF s \in Span(call) THEN Zero ELSE disk[s]]
    BY <1>3, <1>5 DEF DevErase
  <2>2. disk' = [s \in Sectors |-> IF s \in Span(call) THEN Service!Wanted(call, s) ELSE disk[s]]
    BY <2>1 DEF Service!Wanted
  <2> QED  BY <1>1, <1>3, <2>1, <2>2, ServiceNames DEF Service!Effect
<1> QED  BY <1>4, <1>5

LEMMA StoreStep ==
  ASSUME IInv, CleanInv, clean, DevStore
  PROVE  Service!Effect
<1>1. PICK k \in 0..call.n : k < call.n /\ Storing(k) /\ pc = "final" /\ call.op = "program"
  BY Working DEF DevStore, Sent
<1>2. UNCHANGED <<call, pc, result, clean>>
  BY DEF DevStore, host
<1>3. /\ dev.c = call /\ dev.done = k /\ Len(tx) = call.n - k
      /\ \A j \in 1..(call.n - k) : tx[j].v = call.data[k + j]
  BY <1>1 DEF Storing
<1>4. /\ k \in Nat /\ call.n \in Nat /\ call.at \in Nat /\ disk \in [Sectors -> Data]
      /\ tx \in Seq(Item) /\ tx # <<>>
  BY <1>1, CleanCall DEF IInv, TypeOK, DeviceOK, DevStore
<1> DEFINE t == call.at + k
<1>5. Head(tx).v = call.data[k + 1]
  <2>1. Head(tx) = tx[1] /\ 1 \in 1..(call.n - k)
    BY <1>1, <1>4, HeadTailProperties
  <2> QED  BY <1>3, <2>1
<1>6. disk' = [disk EXCEPT ![t] = call.data[k + 1]]
  BY <1>3, <1>5 DEF DevStore
<1>7. t \in Span(call) /\ t - call.at + 1 = k + 1
  <2>1. k + 1 \in 1..call.n /\ call.at + (k + 1) - 1 = t
    BY <1>1, <1>4
  <2>2. t \in Span(call)
    BY <2>1 DEF Span
  <2>3. (call.at + k) - call.at + 1 = k + 1
    BY <1>4
  <2> QED  BY <2>2, <2>3
<1>8. Service!Wanted(call, t) = call.data[k + 1]
  BY <1>1, <1>7 DEF Service!Wanted
<1> HIDE DEF t
<1>9. disk' = [s \in Sectors |-> IF s \in {t} THEN Service!Wanted(call, s) ELSE disk[s]]
  BY <1>4, <1>6, <1>8
<1>10. {t} \in SUBSET Span(call) /\ call.op \in {"erase", "program"} /\ pc # "idle"
  BY <1>1, <1>7
<1> QED  BY <1>2, <1>9, <1>10, ServiceNames DEF Service!Effect

LEMMA SendStep ==
  ASSUME IInv, clean, Send
  PROVE  Service!Begin
<1>1. PICK c \in Calls :
        /\ call' = c /\ clean' = (clean /\ c.op # "peek")
        /\ pc' = IF c.op = "peek" THEN "peek" ELSE "resp"
  BY DEF Send
<1>2. c.id = call.id + 1
  BY DEF Calls, NoCall
<1>3. pc = "idle" /\ pc' # "idle" /\ result' = NoResult /\ disk' = disk
  BY <1>1 DEF Send
<1>4. clean' = (call'.op # "peek") /\ call'.id = call.id + 1
  BY <1>1, <1>2
<1> QED  BY <1>3, <1>4, ServiceNames DEF Service!Begin

LEMMA VerdictStep ==
  ASSUME IInv, CleanInv, clean, Ack \/ Nak
  PROVE  Service!Return
<1>1. PICK i \in 1..arrived, e \in 1..arrived :
        /\ Reply(i, e, TRUE)
        /\ pc = "final" \/ call.op \in {"query", "erase"} \/ ~stream[i].ok
        /\ \/ Return("nak", stream[i].id, <<>>)
           \/ stream[i].ok /\ Ack /\ Return("ok", stream[i].id, got)
        /\ UNCHANGED <<disk, clean>>
  BY DEF Ack, Nak
<1>2. /\ stream[i].id = call.id
      /\ pc = "final" /\ call.op = "read" => Collected
      /\ stream[i].ok /\ call.op = "program" => Stored(call.n)
      /\ stream[i].ok /\ call.op = "erase" => Erased
  BY <1>1, Verdict
<1>3. pc # "idle" /\ pc' = "idle" /\ call' = call /\ disk' = disk /\ clean' = clean
  BY <1>1 DEF Reply, Reading, Return
<1>4. result'.st \in {"none", "ok", "nak"} /\ result'.id = call.id
  BY <1>1, <1>2 DEF Return
<1>5. ASSUME result'.st = "ok"
      PROVE  Service!Done(call, disk, result'.data)
  <2>1. stream[i].ok /\ Ack /\ result'.data = got
    BY <1>1, <1>5 DEF Return
  <2>2. ASSUME call.op = "read"
        PROVE  result'.data = [j \in 1..call.n |-> disk[call.at + j - 1]]
    <3>1. pc = "final" /\ Collected
      BY <1>2, <2>1, <2>2 DEF Ack
    <3>2. Len(got) = call.n /\ got \in Seq(Data)
      BY <2>2, <3>1 DEF IInv, TypeOK, ClientOK, Progress
    <3>3. DOMAIN got = 1..call.n /\ got = [j \in DOMAIN got |-> got[j]]
      BY <3>2, LenProperties
    <3>4. \A j \in 1..call.n : got[j] = disk[call.at + j - 1]
      BY <3>1, <3>2 DEF Collected
    <3> QED  BY <2>1, <3>3, <3>4
  <2>3. ASSUME call.op = "erase", NEW s \in Span(call)
        PROVE  disk[s] = Service!Wanted(call, s)
    BY <1>2, <2>1, <2>3 DEF Erased, Service!Wanted
  <2>4. ASSUME call.op = "program", NEW s \in Span(call)
        PROVE  disk[s] = Service!Wanted(call, s)
    <3>1. PICK j \in 1..call.n : s = call.at + j - 1
      BY DEF Span
    <3>2. s - call.at + 1 = j
      BY <3>1, CleanCall
    <3>3. disk[s] = call.data[j]
      BY <1>2, <2>1, <2>4, <3>1 DEF Stored
    <3> QED  BY <2>4, <3>2, <3>3 DEF Service!Wanted
  <2> QED  BY <2>2, <2>3, <2>4, ServiceNames DEF Service!Done
<1> QED  BY <1>3, <1>4, <1>5 DEF Service!Return

LEMMA DrainStep ==
  ASSUME IInv, CleanInv, clean, DrainRead \/ DrainEmpty
  PROVE  Unseen \/ Service!Return
<1>1. /\ UNCHANGED <<call, disk, result, clean>> /\ result = NoResult /\ pc # "idle"
  BY DEF DrainRead, DrainEmpty, CleanInv, CallShape
<1>2. CASE pc' = "idle"
  BY <1>1, <1>2 DEF Service!Return, NoResult
<1>3. CASE pc' # "idle"
  BY <1>1, <1>3 DEF Unseen
<1> QED  BY <1>2, <1>3

LEMMA FailStep ==
  ASSUME SendFails \/ TooLarge \/ GiveUp \/ Unreadable \/ ProgramFails \/ ReadRawFails
  PROVE  Service!Fail
<1>1. CASE SendFails
  BY <1>1 DEF SendFails, Service!Fail
<1>2. CASE TooLarge \/ GiveUp \/ Unreadable \/ ProgramFails \/ ReadRawFails
  BY <1>2 DEF TooLarge, GiveUp, Unreadable, ProgramFails, ReadRawFails, Return, Service!Fail
<1> QED  BY <1>1, <1>2

\* Every step of the link is a step of the service, or one its callers do not
\* see.
LEMMA ServiceStep ==
  ASSUME IInv, CleanInv, [Next]_vars
  PROVE  [Service!Next]_(Service!vars)
<1> SUFFICES Unseen \/ Service!Next
  BY DEF Unseen, Service!vars
<1>1. CASE ~clean
  <2>1. ~clean'
    BY <1>1, WasClean
  <2> QED  BY <1>1, <2>1 DEF Service!Next
<1>2. CASE clean
  <2> SUFFICES Unseen \/ Service!Begin \/ Service!Effect \/ Service!Return \/ Service!Fail
    BY <1>2 DEF Service!Next
  <2>1. CASE Deliver \/ Accumulate \/ EmptyRead \/ ProgramGo \/ ReadGo \/ ReadRaw
    BY <2>1, WaitStep
  <2>2. CASE Device
    BY <1>2, <2>2, ExecuteStep, StoreStep, WaitStep DEF Device
  <2>3. CASE Send
    BY <1>2, <2>3, SendStep
  <2>4. CASE Ack \/ Nak
    BY <1>2, <2>4, VerdictStep
  <2>5. CASE DrainRead \/ DrainEmpty
    BY <1>2, <2>5, DrainStep
  <2>6. CASE SendFails \/ TooLarge \/ GiveUp \/ Unreadable \/ ProgramFails \/ ReadRawFails
    BY <2>6, FailStep
  <2>7. CASE PeekRead \/ PeekEmpty
    BY <1>2, <2>7, CleanCall DEF PeekRead, PeekEmpty, WireShape
  <2>8. CASE UNCHANGED vars
    BY <2>8 DEF vars, host, Unseen
  <2> QED  BY <2>1, <2>2, <2>3, <2>4, <2>5, <2>6, <2>7, <2>8 DEF Next, Client
<1> QED  BY <1>1, <1>2

\* FirehoseClient keeps what it promises the jobs: while the link is clean, a
\* call that returns Ok has been carried out by the device on exactly its
\* sectors, or returns exactly their contents, and each verdict is the one the
\* device gave to that call (execute_command, program_sectors, read_sectors
\* over a serial port).
THEOREM LinkImplementsService ==
  ASSUME ~SplitClose
  PROVE  Spec => ImplementsService
<1>1. Init => Service!Init
  BY ServiceInit
<1>2. IInv /\ CleanInv /\ [Next]_vars => [Service!Next]_(Service!vars)
  BY ServiceStep
<1>3. Spec => []IInv
  BY Inductive
<1>4. Spec => []CleanInv
  BY CleanLink
<1> QED  BY <1>1, <1>2, <1>3, <1>4, PTL DEF Spec, ImplementsService, Service!Spec
=============================================================================
