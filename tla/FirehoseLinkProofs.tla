------------------------- MODULE FirehoseLinkProofs -------------------------
(***************************************************************************)
(* Theorems about FirehoseLink, for every number of sectors, set of        *)
(* contents, bound and way of chunking the stream.                         *)
(***************************************************************************)
EXTENDS FirehoseLink, FiniteSetTheorems, SequenceTheorems, TLAPS

-----------------------------------------------------------------------------
(* Types of the operators *)

LEMMA FunctionIsSeq ==
  ASSUME NEW S, NEW n \in Nat, NEW f \in [1..n -> S]
  PROVE  f \in Seq(S) /\ Len(f) = n
<1>1. f \in Seq(S)
  BY SeqDef
<1>2. DOMAIN f = 1..Len(f) /\ Len(f) \in Nat
  BY <1>1, LenProperties
<1>3. DOMAIN f = 1..n
  OBVIOUS
<1> QED  BY <1>1, <1>2, <1>3

LEMMA DataFacts == Junk \in Data /\ Zero \in Data /\ Vals \subseteq Data
  BY DEF Data

LEMMA TokType ==
  ASSUME NEW k \in Kinds, NEW id \in Nat, NEW ok \in BOOLEAN, NEW v \in Data
  PROVE  Tok(k, id, ok, v) \in Token
  BY DEF Tok, Token

LEMMA DocType ==
  ASSUME NEW id \in Nat, NEW toks \in Seq(Token)
  PROVE  Doc(id, toks) \in Seq(Token)
<1>1. Tok("close", id, TRUE, Junk) \in Token
  BY TokType, DataFacts DEF Kinds
<1>2. Append(toks, Tok("close", id, TRUE, Junk)) \in Seq(Token)
  BY <1>1, AppendProperties
<1>3. QED  BY <1>2 DEF Doc

LEMMA LogDocType ==
  ASSUME NEW id \in Nat
  PROVE  LogDoc(id) \in Seq(Token)
<1> DEFINE t == Tok("log", id, TRUE, Junk)
<1>1. t \in Token
  BY TokType, DataFacts DEF Kinds
<1> HIDE DEF t
<1>2. <<t>> \in Seq(Token)
  BY <1>1
<1>3. QED  BY <1>2, DocType DEF LogDoc, t

LEMMA RespDocType ==
  ASSUME NEW id \in Nat, NEW ok \in BOOLEAN
  PROVE  RespDoc(id, ok) \in Seq(Token)
<1>1. Tok("head", id, ok, Junk) \in Token /\ Tok("end", id, ok, Junk) \in Token
  BY TokType, DataFacts DEF Kinds
<1>2. <<Tok("head", id, ok, Junk), Tok("end", id, ok, Junk)>> \in Seq(Token)
  BY <1>1
<1>3. QED  BY <1>2, DocType DEF RespDoc

LEMMA RawDataType ==
  ASSUME disk \in [Sectors -> Data], NEW c \in Call, NEW k \in Kinds
  PROVE  RawData(c, k) \in Seq(Token)
<1>1. ASSUME NEW i \in 1..c.n
      PROVE  Tok(k, c.id, TRUE, disk[c.at + i - 1]) \in Token
  <2>1. c.at + i - 1 \in Sectors
    BY NSectorsAssumption DEF Call, Sectors
  <2>2. QED  BY <2>1, TokType DEF Call
<1>2. c.n \in Nat
  BY DEF Call
<1>3. RawData(c, k) \in [1..c.n -> Token]
  BY <1>1 DEF RawData
<1> QED  BY <1>2, <1>3, FunctionIsSeq

LEMMA AnswerType ==
  ASSUME disk \in [Sectors -> Data], NEW c \in Call,
         NEW ok \in BOOLEAN, NEW ok2 \in BOOLEAN, NEW lg \in BOOLEAN
  PROVE  Answer(c, ok, ok2, lg) \in Seq(Token)
<1>1. c.id \in Nat
  BY DEF Call
<1> DEFINE logs == IF lg THEN LogDoc(c.id) ELSE <<>>
<1>2. logs \in Seq(Token)
  BY <1>1, LogDocType
<1>3. /\ RespDoc(c.id, TRUE) \in Seq(Token)
      /\ RespDoc(c.id, ok) \in Seq(Token)
      /\ RespDoc(c.id, ok2) \in Seq(Token)
  BY <1>1, RespDocType
<1>4. RawData(c, "raw") \in Seq(Token) /\ RawData(c, "hex") \in Seq(Token)
  BY RawDataType DEF Kinds
<1>5. Doc(c.id, RawData(c, "hex")) \in Seq(Token)
  BY <1>1, <1>4, DocType
<1> DEFINE R == RespDoc(c.id, TRUE)   R1 == RespDoc(c.id, ok)   R2 == RespDoc(c.id, ok2)
           raws == RawData(c, "raw")   hexes == Doc(c.id, RawData(c, "hex"))
<1>6. Answer(c, ok, ok2, lg) \in
        {logs \o R \o raws \o R2, logs \o hexes \o R \o R2, logs \o hexes \o R, logs \o R1}
  BY DEF Answer
<1> HIDE DEF logs, R, R1, R2, raws, hexes
<1>7. logs \o R \in Seq(Token) /\ logs \o hexes \in Seq(Token) /\ logs \o R1 \in Seq(Token)
  BY <1>2, <1>3, <1>5, ConcatProperties DEF R, R1, hexes
<1>8. logs \o R \o raws \in Seq(Token) /\ logs \o hexes \o R \in Seq(Token)
  BY <1>7, <1>3, <1>4, ConcatProperties DEF R, raws
<1>9. logs \o R \o raws \o R2 \in Seq(Token) /\ logs \o hexes \o R \o R2 \in Seq(Token)
  BY <1>8, <1>3, ConcatProperties DEF R2
<1> QED  BY <1>6, <1>7, <1>8, <1>9

LEMMA NoCallType == NoCall \in Call
  BY NSectorsAssumption DEF NoCall, Call, Ops, Sectors

\* The r-th byte of the hex log lines is a sector's contents.
LEMMA HexBytesType ==
  ASSUME stream \in Seq(Token), NEW lo \in Nat, lo >= 1, NEW hi \in Nat, hi <= Len(stream)
  PROVE  HexBytes(lo, hi) \in Seq(Data)
<1> DEFINE hex == {j \in lo..hi : stream[j].k = "hex"}
           Before(j) == Cardinality({m \in hex : m < j})
<1>1. IsFiniteSet(hex)
  <2>1. IsFiniteSet(lo..hi)
    BY FS_Interval
  <2>2. hex \in SUBSET (lo..hi)
    OBVIOUS
  <2> HIDE DEF hex
  <2> QED  BY <2>1, <2>2, FS_Subset
<1>2. Cardinality(hex) \in Nat
  BY <1>1, FS_CardinalityType
<1>3. ASSUME NEW r \in 1..Cardinality(hex)
      PROVE  (CHOOSE v \in Data : \A j \in hex : Before(j) = r - 1 => stream[j].v = v) \in Data
  <2>1. \E v \in Data : \A j \in hex : Before(j) = r - 1 => stream[j].v = v
    <3>1. ASSUME NEW i \in hex, NEW j \in hex, i < j
          PROVE  Before(i) # Before(j)
      <4> DEFINE A == {m \in hex : m < i}
                 B == {m \in hex : m < j}
      <4>1. A \subseteq B /\ i \in B /\ i \notin A
        BY <3>1
      <4>2. IsFiniteSet(B)
        BY <1>1, FS_Subset
      <4> HIDE DEF A, B
      <4>3. A \in SUBSET B /\ A # B
        BY <4>1
      <4>4. IsFiniteSet(A) /\ Cardinality(A) # Cardinality(B)
        BY <4>2, <4>3, FS_Subset
      <4> QED  BY <4>4 DEF A, B
    <3>2. CASE \E j \in hex : Before(j) = r - 1
      <4>1. PICK j \in hex : Before(j) = r - 1
        BY <3>2
      <4>2. ASSUME NEW i \in hex, Before(i) = r - 1
            PROVE  i = j
        <5>1. ~(i < j) /\ ~(j < i)
          BY <3>1, <4>1, <4>2
        <5> QED  BY <5>1
      <4>3. stream[j].v \in Data
        <5>1. j \in 1..Len(stream)
          OBVIOUS
        <5>2. stream[j] \in Token
          BY <5>1, ElementOfSeq
        <5> QED  BY <5>2 DEF Token
      <4> QED  BY <4>2, <4>3
    <3>3. CASE ~\E j \in hex : Before(j) = r - 1
      BY <3>3, DataFacts
    <3> QED  BY <3>2, <3>3
  <2> QED  BY <2>1
<1> HIDE DEF Before
<1>4. HexBytes(lo, hi) =
        [r \in 1..Cardinality(hex) |->
           CHOOSE v \in Data : \A j \in hex : Before(j) = r - 1 => stream[j].v = v]
  BY DEF HexBytes, Before
<1> HIDE DEF hex
<1>5. HexBytes(lo, hi) \in [1..Cardinality(hex) -> Data]
  BY <1>3, <1>4
<1> QED  BY <1>2, <1>5, FunctionIsSeq

LEMMA CallsType ==
  ASSUME call \in Call, NEW c \in Calls
  PROVE  c \in Call /\ c.n \in Nat /\ (c.op = "program" => c.n >= 1)
<1>1. call.id + 1 \in Nat
  BY DEF Call
<1>2. CASE c = [NoCall EXCEPT !.id = call.id + 1]
  <2>1. c = [op |-> "query", id |-> call.id + 1, at |-> 1, n |-> 0, data |-> <<>>]
    BY <1>2 DEF NoCall
  <2>2. <<>> \in Seq(Data)
    BY EmptySeq
  <2>3. 1 \in Sectors /\ 1 + 0 <= NSectors + 1
    BY NSectorsAssumption DEF Sectors
  <2> QED  BY <1>1, <2>1, <2>2, <2>3 DEF Call, Ops
<1>3. CASE c # [NoCall EXCEPT !.id = call.id + 1]
  <2>1. /\ c \in [op : Ops \ {"query"}, id : {call.id + 1}, at : Sectors, n : 1..MaxN,
                  data : Payloads \cup {<<>>}]
        /\ c.at + c.n <= NSectors + 1
        /\ IF c.op = "program" THEN c.data \in [1..c.n -> Vals] ELSE c.data = <<>>
    BY <1>3 DEF Calls
  <2>2. c.n \in Nat /\ c.n >= 1
    BY <2>1, LinkAssumption
  <2>3. c.op = "program" => c.data \in Seq(Data) /\ Len(c.data) = c.n
    <3> SUFFICES ASSUME c.op = "program"
                 PROVE  c.data \in Seq(Data) /\ Len(c.data) = c.n
      OBVIOUS
    <3>1. c.data \in [1..c.n -> Data]
      BY <2>1, DataFacts
    <3> QED  BY <2>2, <3>1, FunctionIsSeq
  <2>4. c.op # "program" => c.data \in Seq(Data)
    BY <2>1, EmptySeq
  <2> QED  BY <2>1, <2>2, <2>3, <2>4, <1>1 DEF Call
<1> QED  BY <1>2, <1>3

-----------------------------------------------------------------------------
(* What the actions do to the stream *)

LEMMA SubSeqStream ==
  ASSUME StreamOK, NEW m \in Nat, m >= 1, NEW n \in Nat, n <= Len(stream)
  PROVE  /\ SubSeq(stream, m, n) \in Seq(Token)
         /\ Len(SubSeq(stream, m, n)) = IF m <= n THEN n - m + 1 ELSE 0
<1>1. \A i \in m..n : stream[i] \in Token
  BY ElementOfSeq DEF StreamOK
<1> QED  BY <1>1, SubSeqProperties

LEMMA UseStream ==
  ASSUME StreamOK, NEW e \in Nat, NEW f \in Nat, e <= f, f <= arrived, Use(e, f)
  PROVE  StreamOK'
<1>1. Len(stream) \in Nat /\ fetched \in Nat /\ arrived \in Nat /\ arrived <= Len(stream)
  BY LenProperties DEF StreamOK
<1>2. stream' \in Seq(Token) /\ Len(stream') = Len(stream) - e
  BY <1>1, SubSeqStream DEF Use
<1> QED  BY <1>1, <1>2 DEF Use, StreamOK

LEMMA EmitStream ==
  ASSUME StreamOK, NEW A \in Seq(Token), stream' = stream \o A, UNCHANGED <<fetched, arrived>>
  PROVE  StreamOK'
<1>1. /\ stream' \in Seq(Token) /\ Len(stream') = Len(stream) + Len(A)
      /\ Len(stream) \in Nat /\ Len(A) \in Nat
  BY ConcatProperties, LenProperties DEF StreamOK
<1> QED  BY <1>1 DEF StreamOK

LEMMA DropChunkStream ==
  ASSUME StreamOK, DropChunk
  PROVE  StreamOK'
<1>1. Len(stream) \in Nat /\ fetched \in Nat /\ arrived \in Nat
      /\ fetched <= arrived /\ arrived <= Len(stream)
  BY LenProperties DEF StreamOK
<1> DEFINE s == SubSeq(stream, 1, fetched)
           t == SubSeq(stream, arrived + 1, Len(stream))
<1>2. s \in Seq(Token) /\ Len(s) = fetched /\ t \in Seq(Token) /\ Len(t) \in Nat
  BY <1>1, SubSeqStream, LenProperties
<1> HIDE DEF s, t
<1>3. s \o t \in Seq(Token) /\ Len(s \o t) = fetched + Len(t)
  BY <1>2, ConcatProperties
<1>4. stream' = s \o t /\ fetched' = fetched /\ arrived' = fetched
  BY DEF DropChunk, s, t
<1> QED  BY <1>1, <1>2, <1>3, <1>4 DEF StreamOK

-----------------------------------------------------------------------------
(* The inductive invariant, one lemma per action or group of actions *)

IInv == TypeOK /\ Progress /\ ReadLength

LEMMA InitIInv == Init => IInv
<1> SUFFICES ASSUME Init PROVE IInv
  OBVIOUS
<1>1. wraps \in BOOLEAN /\ hexlogs \in BOOLEAN /\ clean \in BOOLEAN
  BY LinkAssumption DEF Init
<1>2. ClientOK
  BY NoCallType, EmptySeq DEF Init, ClientOK, Result, NoResult, Verdicts
<1>3. StreamOK
  <2>1. LogDoc(0) \in Seq(Token) /\ <<>> \in Seq(Token)
    BY LogDocType, EmptySeq
  <2>2. stream \in Seq(Token)
    BY <2>1, ConcatProperties DEF Init
  <2> QED  BY <2>2, LenProperties DEF Init, StreamOK
<1>4. DeviceOK
  BY NoCallType, EmptySeq, LinkAssumption, DataFacts DEF Init, DeviceOK
<1>5. Progress /\ ReadLength
  BY DEF Init, Progress, ReadLength, NoResult
<1> QED  BY <1>1, <1>2, <1>3, <1>4, <1>5 DEF IInv, TypeOK

LEMMA ReplyFacts ==
  ASSUME StreamOK, NEW i \in 1..arrived, NEW e \in 1..arrived, NEW p, Reply(i, e, p)
  PROVE  /\ e \in Nat /\ arrived \in Nat /\ e <= arrived /\ arrived <= Len(stream)
         /\ stream[i].id \in Nat /\ stream[i].ok \in BOOLEAN
<1>1. arrived \in Nat /\ arrived <= Len(stream) /\ Len(stream) \in Nat
  BY LenProperties DEF StreamOK
<1>2. i \in 1..Len(stream)
  BY <1>1
<1>3. stream[i] \in Token
  BY <1>2, ElementOfSeq DEF StreamOK
<1> QED  BY <1>1, <1>3 DEF Token

LEMMA ReturnClient ==
  ASSUME ClientOK, NEW st \in Verdicts, NEW id \in Nat, NEW bytes \in Seq(Data),
         Return(st, id, bytes),
         st = "ok" /\ call.op = "read" => Len(bytes) = call.n
  PROVE  ClientOK' /\ Progress' /\ ReadLength'
<1>1. ClientOK'
  BY EmptySeq DEF Return, ClientOK, Result
<1>2. Progress'
  BY DEF Return, Progress
<1>3. ReadLength'
  BY DEF Return, ReadLength
<1> QED  BY <1>1, <1>2, <1>3

LEMMA DeliverIInv ==
  ASSUME IInv, Deliver PROVE IInv'
<1>1. StreamOK'
  BY LenProperties DEF IInv, TypeOK, StreamOK, Deliver, Cuts
<1>2. ClientOK' /\ DeviceOK' /\ Progress' /\ ReadLength'
  BY DEF IInv, TypeOK, ClientOK, DeviceOK, Progress, ReadLength, Deliver, host
<1>3. wraps' \in BOOLEAN /\ hexlogs' \in BOOLEAN /\ clean' \in BOOLEAN
  BY DEF IInv, TypeOK, Deliver, style
<1> QED  BY <1>1, <1>2, <1>3 DEF IInv, TypeOK

\* The head of what is on its way to the device.
LEMMA TxFacts ==
  ASSUME DeviceOK, tx # <<>>
  PROVE  /\ Head(tx).cmd \in BOOLEAN /\ Head(tx).c \in Call /\ Head(tx).v \in Data
         /\ Tail(tx) \in Seq(Item)
<1>1. Head(tx) \in Item /\ Tail(tx) \in Seq(Item)
  BY HeadTailProperties DEF DeviceOK
<1> QED  BY <1>1 DEF Item

LEMMA DevExecuteIInv ==
  ASSUME IInv, DevExecute PROVE IInv'
<1>1. PICK ok \in BOOLEAN, ok2 \in BOOLEAN, lg \in BOOLEAN :
        /\ stream' = stream \o Answer(Head(tx).c, ok, ok2, lg)
        /\ DevErase(Head(tx).c, ok)
        /\ dev' = IF Head(tx).c.op = "program" /\ ok
                  THEN [st |-> "data", c |-> Head(tx).c, done |-> 0] ELSE dev
  BY DEF DevExecute
<1> DEFINE c == Head(tx).c
<1>2. c \in Call /\ Tail(tx) \in Seq(Item)
  BY TxFacts DEF IInv, TypeOK, DevExecute
<1>3. Answer(c, ok, ok2, lg) \in Seq(Token)
  BY <1>2, AnswerType DEF IInv, TypeOK, DeviceOK
<1>4. StreamOK'
  BY <1>1, <1>3, EmitStream DEF IInv, TypeOK, DevExecute
<1>5. disk' \in [Sectors -> Data]
  BY <1>1, DataFacts DEF IInv, TypeOK, DeviceOK, DevErase
<1>6. DeviceOK'
  <2>1. c.n \in Nat /\ (c.op = "program" => c.n >= 1)
    BY <1>2 DEF Call
  <2>2. tx' = Tail(tx) /\ dev \in [st : {"idle", "data"}, c : Call, done : Nat]
        /\ (dev.st = "data" => dev.done < dev.c.n)
    BY DEF IInv, TypeOK, DeviceOK, DevExecute
  <2>3. dev' = IF c.op = "program" /\ ok THEN [st |-> "data", c |-> c, done |-> 0] ELSE dev
    BY <1>1
  <2> HIDE DEF c
  <2>4. dev' \in [st : {"idle", "data"}, c : Call, done : Nat]
        /\ (dev'.st = "data" => dev'.done < dev'.c.n)
    BY <1>2, <2>1, <2>2, <2>3
  <2> QED  BY <1>2, <1>5, <2>2, <2>4 DEF DeviceOK
<1>7. ClientOK' /\ Progress' /\ ReadLength'
  BY DEF IInv, TypeOK, ClientOK, Progress, ReadLength, DevExecute, host
<1>8. wraps' \in BOOLEAN /\ hexlogs' \in BOOLEAN /\ clean' \in BOOLEAN
  BY DEF IInv, TypeOK, DevExecute, style
<1> QED  BY <1>4, <1>6, <1>7, <1>8 DEF IInv, TypeOK

LEMMA DevStoreIInv ==
  ASSUME IInv, DevStore PROVE IInv'
<1>1. /\ Head(tx).v \in Data /\ Tail(tx) \in Seq(Item)
      /\ dev \in [st : {"idle", "data"}, c : Call, done : Nat] /\ dev.done < dev.c.n
      /\ dev.c \in Call /\ dev.c.id \in Nat /\ dev.c.n \in Nat
  BY TxFacts DEF IInv, TypeOK, DeviceOK, DevStore, Call
<1>2. disk' \in [Sectors -> Data]
  BY <1>1 DEF IInv, TypeOK, DeviceOK, DevStore
<1>3. ASSUME dev.done + 1 = dev.c.n PROVE StreamOK' /\ DeviceOK'
  <2>1. PICK ok \in BOOLEAN : stream' = stream \o RespDoc(dev.c.id, ok)
    BY <1>3 DEF DevStore
  <2>2. StreamOK'
    BY <1>1, <2>1, RespDocType, EmitStream DEF IInv, TypeOK, DevStore
  <2>3. DeviceOK'
    BY <1>1, <1>2, <1>3, NoCallType DEF DeviceOK, DevStore
  <2> QED  BY <2>2, <2>3
<1>4. ASSUME dev.done + 1 # dev.c.n PROVE StreamOK' /\ DeviceOK'
  <2>1. StreamOK'
    BY <1>4 DEF IInv, TypeOK, StreamOK, DevStore
  <2>2. dev' = [dev EXCEPT !.done = dev.done + 1] /\ tx' = Tail(tx)
    BY <1>4 DEF DevStore
  <2>3. DeviceOK'
    BY <1>1, <1>2, <1>4, <2>2 DEF DeviceOK
  <2> QED  BY <2>1, <2>3
<1>5. ClientOK' /\ Progress' /\ ReadLength'
  BY DEF IInv, TypeOK, ClientOK, Progress, ReadLength, DevStore, host
<1>6. wraps' \in BOOLEAN /\ hexlogs' \in BOOLEAN /\ clean' \in BOOLEAN
  BY DEF IInv, TypeOK, DevStore, style
<1> QED  BY <1>3, <1>4, <1>5, <1>6 DEF IInv, TypeOK

LEMMA DevIgnoreIInv ==
  ASSUME IInv, DevIgnore PROVE IInv'
<1>1. Tail(tx) \in Seq(Item)
  BY TxFacts DEF IInv, TypeOK, DevIgnore
<1>2. DeviceOK' /\ StreamOK'
  BY <1>1 DEF IInv, TypeOK, DeviceOK, StreamOK, DevIgnore, rx
<1>3. ClientOK' /\ Progress' /\ ReadLength'
  BY DEF IInv, TypeOK, ClientOK, Progress, ReadLength, DevIgnore, host, rx
<1>4. wraps' \in BOOLEAN /\ hexlogs' \in BOOLEAN /\ clean' \in BOOLEAN
  BY DEF IInv, TypeOK, DevIgnore, style
<1> QED  BY <1>2, <1>3, <1>4 DEF IInv, TypeOK

LEMMA SendIInv ==
  ASSUME IInv, Send \/ SendFails PROVE IInv'
<1>1. PICK c \in Calls : call' = c
  BY DEF Send, SendFails
<1>2. c \in Call
  BY <1>1, CallsType DEF IInv, TypeOK, ClientOK
<1>3. CASE Send
  <2>1. PICK d \in Calls :
          /\ call' = d /\ tx' = Append(tx, Cmd(d))
          /\ pc' = IF d.op = "peek" THEN "peek" ELSE "resp"
          /\ clean' = (clean /\ d.op # "peek")
    BY <1>3 DEF Send
  <2>2. d \in Call /\ Cmd(d) \in Item
    BY <1>1, <1>2, <2>1, DataFacts DEF Cmd, Item
  <2>3. Append(tx, Cmd(d)) \in Seq(Item)
    BY <2>2, AppendProperties DEF IInv, TypeOK, DeviceOK
  <2>4. DeviceOK' /\ StreamOK'
    BY <1>3, <2>1, <2>3 DEF IInv, TypeOK, DeviceOK, StreamOK, Send, rx
  <2>5. NoResult \in Result
    BY EmptySeq DEF NoResult, Result, Verdicts
  <2>6. ClientOK'
    BY <1>3, <2>1, <2>2, <2>5 DEF IInv, TypeOK, ClientOK, Send
  <2>7. Progress' /\ ReadLength'
    BY <1>3, <2>1 DEF Progress, ReadLength, Send, NoResult
  <2>8. wraps' \in BOOLEAN /\ hexlogs' \in BOOLEAN /\ clean' \in BOOLEAN
    BY <1>3, <2>1 DEF IInv, TypeOK, Send, style
  <2> QED  BY <2>4, <2>6, <2>7, <2>8 DEF IInv, TypeOK
<1>4. CASE SendFails
  <2>1. PICK d \in Calls : tx' \in {tx, Append(tx, Scrap(d)), Append(tx, Cmd(d))}
    BY <1>4 DEF SendFails
  <2>2. Cmd(d) \in Item /\ Scrap(d) \in Item
    BY CallsType, DataFacts DEF IInv, TypeOK, ClientOK, Cmd, Scrap, Item
  <2>3. tx \in Seq(Item) /\ Append(tx, Scrap(d)) \in Seq(Item) /\ Append(tx, Cmd(d)) \in Seq(Item)
    BY <2>2, AppendProperties DEF IInv, TypeOK, DeviceOK
  <2>4. tx' \in Seq(Item)
    BY <2>1, <2>3
  <2>5. DeviceOK' /\ StreamOK'
    BY <1>4, <2>4 DEF IInv, TypeOK, DeviceOK, StreamOK, SendFails, rx
  <2>6. ClientOK'
    BY <1>1, <1>2, <1>4, EmptySeq DEF IInv, TypeOK, ClientOK, SendFails, Result, Verdicts
  <2>7. Progress' /\ ReadLength'
    BY <1>4 DEF IInv, Progress, ReadLength, SendFails
  <2>8. wraps' \in BOOLEAN /\ hexlogs' \in BOOLEAN /\ clean' \in BOOLEAN
    BY <1>4 DEF IInv, TypeOK, SendFails, style
  <2> QED  BY <2>5, <2>6, <2>7, <2>8 DEF IInv, TypeOK
<1> QED  BY <1>3, <1>4

-----------------------------------------------------------------------------
(* The client's steps *)

\* What stays as it was when the device does nothing.
LEMMA DeviceStays ==
  ASSUME DeviceOK, UNCHANGED <<tx, dev, disk>>
  PROVE  DeviceOK'
  BY DEF DeviceOK

\* What is left to show of a step in which the device does nothing.
LEMMA ClientStep ==
  ASSUME IInv, StreamOK', ClientOK' /\ Progress' /\ ReadLength',
         UNCHANGED <<style, tx, dev, disk>>, clean' \in BOOLEAN
  PROVE  IInv'
<1>1. DeviceOK'
  BY DeviceStays DEF IInv, TypeOK
<1>2. wraps' \in BOOLEAN /\ hexlogs' \in BOOLEAN
  BY DEF IInv, TypeOK, style
<1> QED  BY <1>1, <1>2 DEF IInv, TypeOK

LEMMA AccumulateIInv ==
  ASSUME IInv, Accumulate \/ EmptyRead PROVE IInv'
<1>1. empties \in Nat /\ Len(stream) \in Nat
  BY LenProperties DEF IInv, TypeOK, ClientOK, StreamOK
<1>2. StreamOK'
  BY <1>1 DEF IInv, TypeOK, StreamOK, Accumulate, EmptyRead, rx
<1>3. ClientOK'
  BY <1>1 DEF IInv, TypeOK, ClientOK, Accumulate, EmptyRead
<1>4. DeviceOK'
  BY DeviceStays DEF IInv, TypeOK, Accumulate, EmptyRead
<1>5. Progress' /\ ReadLength'
  BY DEF IInv, Progress, ReadLength, Accumulate, EmptyRead, Reading
<1>6. wraps' \in BOOLEAN /\ hexlogs' \in BOOLEAN /\ clean' \in BOOLEAN
  BY DEF IInv, TypeOK, style, Accumulate, EmptyRead
<1> QED  BY <1>2, <1>3, <1>4, <1>5, <1>6 DEF IInv, TypeOK

LEMMA DropAllIInv ==
  ASSUME IInv, TooLarge \/ GiveUp PROVE IInv'
<1>1. /\ StreamOK /\ ClientOK /\ <<>> \in Seq(Data)
      /\ fetched \in Nat /\ arrived \in Nat /\ fetched <= arrived
  BY EmptySeq DEF IInv, TypeOK, StreamOK
<1>2. Use(arrived, arrived) \/ Use(fetched, fetched)
  BY DEF TooLarge, GiveUp
<1>3. StreamOK'
  BY <1>1, <1>2, UseStream
<1>4. PICK st \in {"invalid", "timeout"} : Return(st, 0, <<>>)
  BY DEF TooLarge, GiveUp
<1>5. st \in Verdicts /\ st # "ok"
  BY DEF Verdicts
<1>6. ClientOK' /\ Progress' /\ ReadLength'
  BY <1>1, <1>4, <1>5, ReturnClient
<1>7. clean' \in BOOLEAN /\ UNCHANGED <<style, tx, dev, disk>>
  BY DEF TooLarge, GiveUp
<1> QED  BY <1>3, <1>6, <1>7, ClientStep

\* The steps that return after a response.
LEMMA RespondedIInv ==
  ASSUME IInv, Unreadable \/ Nak \/ Ack PROVE IInv'
<1>1. /\ StreamOK /\ ClientOK /\ arrived \in Nat
      /\ <<>> \in Seq(Data) /\ got \in Seq(Data)
  BY EmptySeq DEF IInv, TypeOK, StreamOK, ClientOK
<1>2. PICK i \in 1..arrived, e \in 1..arrived :
        /\ Use(e, arrived)
        /\ \E p \in BOOLEAN : Reply(i, e, p)
        /\ \/ Return("invalid", 0, <<>>)
           \/ Return("nak", stream[i].id, <<>>)
           \/ Ack /\ Return("ok", stream[i].id, got)
  BY DEF Unreadable, Nak, Ack
<1>3. e \in Nat /\ e <= arrived /\ stream[i].id \in Nat
  BY <1>1, <1>2, ReplyFacts
<1>4. StreamOK'
  <2>1. StreamOK /\ Use(e, arrived) /\ e \in Nat /\ arrived \in Nat /\ e <= arrived
    BY <1>1, <1>2, <1>3
  <2> QED  BY <2>1, UseStream
<1>5. ClientOK' /\ Progress' /\ ReadLength'
  <2>1. PICK st \in {"invalid", "nak", "ok"}, id \in Nat, bytes \in Seq(Data) :
          /\ Return(st, id, bytes)
          /\ st = "ok" => Ack /\ bytes = got
    BY <1>1, <1>2, <1>3
  <2>2. st = "ok" /\ call.op = "read" => Len(bytes) = call.n
    BY <2>1 DEF Ack, IInv, Progress
  <2>3. st \in Verdicts
    BY DEF Verdicts
  <2> QED  BY <1>1, <2>1, <2>2, <2>3, ReturnClient
<1>6. clean' \in BOOLEAN /\ UNCHANGED <<style, tx, dev, disk>>
  BY DEF IInv, TypeOK, Unreadable, Nak, Ack
<1> QED  BY <1>4, <1>5, <1>6, ClientStep

\* The data of a program, and any part of it from its beginning.
LEMMA PayloadType ==
  ASSUME ClientOK, call.op = "program"
  PROVE  /\ Payload(call) \in Seq(Item)
         /\ \A k \in 0..(call.n - 1) : SubSeq(Payload(call), 1, k) \in Seq(Item)
<1>1. call \in Call /\ call.n \in Nat /\ call.data \in Seq(Data) /\ Len(call.data) = call.n
  BY DEF ClientOK, Call
<1>2. ASSUME NEW j \in 1..call.n
      PROVE  [cmd |-> FALSE, c |-> call, v |-> call.data[j]] \in Item
  <2>1. call.data[j] \in Data
    BY <1>1, ElementOfSeq
  <2> QED  BY <1>1, <2>1 DEF Item
<1>3. Payload(call) \in [1..call.n -> Item]
  BY <1>2 DEF Payload
<1> HIDE DEF Payload
<1>4. Payload(call) \in Seq(Item) /\ Len(Payload(call)) = call.n
  BY <1>1, <1>3, FunctionIsSeq
<1>5. ASSUME NEW k \in 0..(call.n - 1)
      PROVE  SubSeq(Payload(call), 1, k) \in Seq(Item)
  <2>1. \A j \in 1..k : Payload(call)[j] \in Item
    BY <1>1, <1>3
  <2> QED  BY <1>1, <2>1, SubSeqProperties
<1> QED  BY <1>4, <1>5

LEMMA ProgramFailsIInv ==
  ASSUME IInv, ProgramFails PROVE IInv'
<1>1. PICK i \in 1..arrived, e \in 1..arrived :
        Reply(i, e, TRUE) /\ stream[i].ok /\ Use(e, arrived)
  BY DEF ProgramFails
<1>2. StreamOK'
  <2>1. StreamOK /\ e \in Nat /\ arrived \in Nat /\ e <= arrived
    BY DEF IInv, TypeOK, StreamOK
  <2> QED  BY <1>1, <2>1, UseStream
<1>3. ClientOK' /\ Progress' /\ ReadLength'
  <2>1. Return("io", 0, <<>>) /\ <<>> \in Seq(Data) /\ ClientOK /\ "io" \in Verdicts
    BY EmptySeq DEF IInv, TypeOK, ProgramFails, Verdicts
  <2> QED  BY <2>1, ReturnClient
<1>4. DeviceOK'
  <2>1. PICK k \in 0..(call.n - 1) : tx' = tx \o SubSeq(Payload(call), 1, k)
    BY DEF ProgramFails
  <2>2. SubSeq(Payload(call), 1, k) \in Seq(Item)
    BY PayloadType DEF IInv, TypeOK, ProgramFails
  <2>3. tx' \in Seq(Item)
    BY <2>1, <2>2, ConcatProperties DEF IInv, TypeOK, DeviceOK
  <2> QED  BY <2>3 DEF IInv, TypeOK, DeviceOK, ProgramFails
<1>5. wraps' \in BOOLEAN /\ hexlogs' \in BOOLEAN /\ clean' \in BOOLEAN
  BY DEF IInv, TypeOK, style, ProgramFails
<1> QED  BY <1>2, <1>3, <1>4, <1>5 DEF IInv, TypeOK

LEMMA ProgramGoIInv ==
  ASSUME IInv, ProgramGo PROVE IInv'
<1>1. PICK i \in 1..arrived, e \in 1..arrived :
        Reply(i, e, TRUE) /\ stream[i].ok /\ Use(e, arrived)
  BY DEF ProgramGo
<1>2. StreamOK'
  <2>1. StreamOK /\ e \in Nat /\ arrived \in Nat /\ e <= arrived
    BY DEF IInv, TypeOK, StreamOK
  <2> QED  BY <1>1, <2>1, UseStream
<1>3. Payload(call) \in Seq(Item)
  BY PayloadType DEF IInv, TypeOK, ProgramGo
<1>4. DeviceOK'
  <2>1. tx' \in Seq(Item)
    BY <1>3, ConcatProperties DEF IInv, TypeOK, DeviceOK, ProgramGo
  <2> QED  BY <2>1 DEF IInv, TypeOK, DeviceOK, ProgramGo
<1>5. ClientOK'
  BY DEF IInv, TypeOK, ClientOK, ProgramGo
<1>6. Progress'
  <2>1. pc' = "final" /\ call'.op = "program"
    BY DEF ProgramGo
  <2> QED  BY <2>1 DEF Progress
<1>7. ReadLength'
  BY DEF IInv, ReadLength, ProgramGo
<1>8. wraps' \in BOOLEAN /\ hexlogs' \in BOOLEAN /\ clean' \in BOOLEAN
  BY DEF IInv, TypeOK, style, ProgramGo
<1> QED  BY <1>2, <1>4, <1>5, <1>6, <1>7, <1>8 DEF IInv, TypeOK

\* The sectors taken from the m tokens behind the first e.
LEMMA TakenSeq ==
  ASSUME StreamOK, NEW e \in Nat, NEW m \in Nat, e + m <= arrived
  PROVE  /\ [j \in 1..m |-> Taken(stream[e + j])] \in Seq(Data)
         /\ Len([j \in 1..m |-> Taken(stream[e + j])]) = m
<1>1. ASSUME NEW j \in 1..m PROVE Taken(stream[e + j]) \in Data
  <2>1. e + j \in 1..Len(stream)
    BY LenProperties DEF StreamOK
  <2>2. stream[e + j] \in Token
    BY <2>1, ElementOfSeq DEF StreamOK
  <2> QED  BY <2>2, DataFacts DEF Taken, Token
<1>2. [j \in 1..m |-> Taken(stream[e + j])] \in [1..m -> Data]
  BY <1>1
<1> QED  BY <1>2, FunctionIsSeq

LEMMA ReadGoIInv ==
  ASSUME IInv, ReadGo PROVE IInv'
<1>1. /\ StreamOK /\ arrived \in Nat /\ arrived <= Len(stream) /\ Len(stream) \in Nat
      /\ stream \in Seq(Token) /\ call.n \in Nat /\ call \in Call
  BY LenProperties DEF IInv, TypeOK, ClientOK, StreamOK, Call
<1>2. PICK i \in 1..arrived, e \in 1..arrived :
        LET hex  == HexBytes(1, e)
            h    == Smaller(Len(hex), call.n)
            m    == Smaller(arrived - e, call.n - h)
        IN /\ Use(e + m, arrived)
           /\ got' = [j \in 1..h |-> hex[j]] \o [j \in 1..m |-> Taken(stream[e + j])]
           /\ pc' = IF h + m = call.n THEN "final" ELSE "raw"
  BY DEF ReadGo
<1> DEFINE hex == HexBytes(1, e)
           h   == Smaller(Len(hex), call.n)
           m   == Smaller(arrived - e, call.n - h)
           A   == [j \in 1..h |-> hex[j]]
           B   == [j \in 1..m |-> Taken(stream[e + j])]
<1>3. e \in Nat /\ e <= arrived /\ e <= Len(stream)
  BY <1>1
<1>4. hex \in Seq(Data) /\ Len(hex) \in Nat
  BY <1>1, <1>3, HexBytesType, LenProperties
<1>5. Use(e + m, arrived) /\ got' = A \o B /\ pc' = IF h + m = call.n THEN "final" ELSE "raw"
  BY <1>2
<1> HIDE DEF hex
<1>6. h \in Nat /\ h <= Len(hex) /\ h <= call.n
  BY <1>1, <1>4 DEF Smaller
<1>7. A \in Seq(Data) /\ Len(A) = h
  <2> HIDE DEF h
  <2>1. \A j \in 1..h : hex[j] \in Data
    BY <1>4, <1>6, ElementOfSeq
  <2>2. A \in [1..h -> Data]
    BY <2>1
  <2> QED  BY <1>6, <2>2, FunctionIsSeq
<1> HIDE DEF h
<1>8. m \in Nat /\ e + m <= arrived /\ h + m <= call.n
      /\ (h + m # call.n => e + m = arrived)
  BY <1>1, <1>3, <1>6 DEF Smaller
<1> HIDE DEF m
<1>9. B \in Seq(Data) /\ Len(B) = m
  BY <1>1, <1>3, <1>8, TakenSeq
<1> HIDE DEF A, B
<1>10. got' \in Seq(Data) /\ Len(got') = h + m
  BY <1>5, <1>7, <1>9, ConcatProperties
<1>11. StreamOK' /\ fetched' = arrived - (e + m)
  <2>1. e + m \in Nat
    BY <1>3, <1>8
  <2> QED  BY <1>1, <1>5, <1>8, <2>1, UseStream DEF Use
<1>12. ClientOK'
  BY <1>5, <1>10 DEF IInv, TypeOK, ClientOK, ReadGo
<1>13. Progress'
  <2>1. call' = call /\ call.op = "read" /\ pc' \in {"final", "raw"}
    BY <1>5 DEF ReadGo
  <2>2. Len(got') <= call.n /\ (pc' = "final" => Len(got') = call.n)
        /\ (pc' = "raw" => fetched' = 0)
    BY <1>1, <1>3, <1>5, <1>6, <1>8, <1>10, <1>11
  <2> QED  BY <2>1, <2>2 DEF Progress
<1>16. ReadLength'
  BY DEF IInv, ReadLength, ReadGo
<1>14. DeviceOK'
  BY DeviceStays DEF IInv, TypeOK, ReadGo
<1>15. wraps' \in BOOLEAN /\ hexlogs' \in BOOLEAN /\ clean' \in BOOLEAN
  BY DEF IInv, TypeOK, style, ReadGo
<1> QED  BY <1>11, <1>12, <1>13, <1>14, <1>15, <1>16 DEF IInv, TypeOK

LEMMA ReadRawIInv ==
  ASSUME IInv, ReadRaw PROVE IInv'
<1>1. /\ StreamOK /\ arrived \in Nat /\ call.n \in Nat /\ got \in Seq(Data)
      /\ Len(got) \in Nat /\ Len(got) <= call.n /\ call.op = "read"
  BY LenProperties DEF IInv, TypeOK, ClientOK, StreamOK, Call, Progress, ReadRaw
<1> DEFINE m == Smaller(arrived, call.n - Len(got))
           B == [j \in 1..m |-> Taken(stream[j])]
           B0 == [j \in 1..m |-> Taken(stream[0 + j])]
<1>2. m \in Nat /\ m <= arrived /\ Len(got) + m <= call.n
  BY <1>1 DEF Smaller
<1>3. /\ Use(m, m) /\ got' = got \o B
      /\ pc' = IF Len(got) + m = call.n THEN "final" ELSE "raw"
  BY DEF ReadRaw
<1> HIDE DEF m
<1>4. B \in Seq(Data) /\ Len(B) = m
  <2>1. \A j \in 1..m : 0 + j = j
    BY <1>2
  <2>2. B = B0
    BY <2>1
  <2>3. 0 \in Nat /\ 0 + m <= arrived
    BY <1>1, <1>2
  <2>4. B0 \in Seq(Data) /\ Len(B0) = m
    BY <1>1, <1>2, <2>3, TakenSeq
  <2> QED  BY <2>2, <2>4
<1> HIDE DEF B
<1>5. got' \in Seq(Data) /\ Len(got') = Len(got) + m
  BY <1>1, <1>3, <1>4, ConcatProperties
<1>6. StreamOK' /\ fetched' = 0
  BY <1>1, <1>2, <1>3, UseStream DEF Use
<1>7. ClientOK'
  BY <1>3, <1>5 DEF IInv, TypeOK, ClientOK, ReadRaw
<1>8. Progress' /\ ReadLength'
  BY <1>1, <1>2, <1>3, <1>5, <1>6 DEF IInv, Progress, ReadLength, ReadRaw
<1>9. DeviceOK'
  BY DeviceStays DEF IInv, TypeOK, ReadRaw
<1>10. wraps' \in BOOLEAN /\ hexlogs' \in BOOLEAN /\ clean' \in BOOLEAN
  BY DEF IInv, TypeOK, style, ReadRaw
<1> QED  BY <1>6, <1>7, <1>8, <1>9, <1>10 DEF IInv, TypeOK

LEMMA ReadRawFailsIInv ==
  ASSUME IInv, ReadRawFails PROVE IInv'
<1>1. PICK st \in {"io", "timeout"} : Return(st, 0, <<>>)
  BY DEF ReadRawFails
<1>2. st \in Verdicts /\ st # "ok" /\ <<>> \in Seq(Data) /\ ClientOK
  BY EmptySeq DEF Verdicts, IInv, TypeOK
<1>3. ClientOK' /\ Progress' /\ ReadLength'
  BY <1>1, <1>2, ReturnClient
<1>4. StreamOK' /\ DeviceOK'
  BY DeviceStays DEF IInv, TypeOK, StreamOK, ReadRawFails, rx
<1>5. wraps' \in BOOLEAN /\ hexlogs' \in BOOLEAN /\ clean' \in BOOLEAN
  BY DEF IInv, TypeOK, style, ReadRawFails
<1> QED  BY <1>3, <1>4, <1>5 DEF IInv, TypeOK

LEMMA PeekIInv ==
  ASSUME IInv, PeekRead \/ PeekEmpty PROVE IInv'
<1>1. /\ StreamOK /\ ClientOK /\ DeviceOK /\ got \in Seq(Data) /\ <<>> \in Seq(Data)
      /\ call.op = "peek" /\ {"io", "ok", "nak"} \subseteq Verdicts
  BY EmptySeq DEF IInv, TypeOK, ClientOK, Progress, Verdicts, PeekRead, PeekEmpty
<1>2. UNCHANGED <<style, tx, dev, disk, clean>>
  BY DEF PeekRead, PeekEmpty
<1>3. DeviceOK' /\ wraps' \in BOOLEAN /\ hexlogs' \in BOOLEAN /\ clean' \in BOOLEAN
  BY <1>2, DeviceStays DEF IInv, TypeOK, style
<1>4. CASE PeekRead
  <2> DEFINE bytes == got \o HexBytes(fetched + 1, arrived)
  <2>1. bytes \in Seq(Data)
    <3>1. fetched + 1 \in Nat /\ fetched + 1 >= 1 /\ arrived \in Nat /\ arrived <= Len(stream)
      BY <1>1 DEF StreamOK
    <3>2. HexBytes(fetched + 1, arrived) \in Seq(Data)
      BY <1>1, <3>1, HexBytesType DEF StreamOK
    <3> QED  BY <1>1, <3>2, ConcatProperties
  <2>2. StreamOK'
    BY <1>1, <1>4, DropChunkStream DEF PeekRead
  <2>3. \/ Return("nak", 0, <<>>)
        \/ Return("ok", 0, bytes)
        \/ got' = bytes /\ UNCHANGED <<pc, call, empties, result>>
    BY <1>4 DEF PeekRead
  <2> HIDE DEF bytes
  <2>4. CASE got' = bytes /\ UNCHANGED <<pc, call, empties, result>>
    <3>1. ClientOK' /\ Progress' /\ ReadLength'
      BY <1>1, <1>4, <2>1, <2>4 DEF IInv, ClientOK, Progress, ReadLength, PeekRead
    <3> QED  BY <1>3, <2>2, <3>1 DEF IInv, TypeOK
  <2>5. CASE Return("nak", 0, <<>>) \/ Return("ok", 0, bytes)
    <3>1. ClientOK' /\ Progress' /\ ReadLength'
      BY <1>1, <2>1, <2>5, ReturnClient
    <3> QED  BY <1>3, <2>2, <3>1 DEF IInv, TypeOK
  <2> QED  BY <2>3, <2>4, <2>5
<1>5. CASE PeekEmpty
  <2>1. PICK st \in {"io", "ok"} : Return(st, 0, got)
    BY <1>5 DEF PeekEmpty
  <2>2. ClientOK' /\ Progress' /\ ReadLength'
    BY <1>1, <2>1, ReturnClient
  <2>3. StreamOK'
    BY <1>1, <1>5 DEF StreamOK, PeekEmpty, rx
  <2> QED  BY <1>3, <2>2, <2>3 DEF IInv, TypeOK
<1> QED  BY <1>4, <1>5

LEMMA DrainIInv ==
  ASSUME IInv, DrainRead \/ DrainEmpty PROVE IInv'
<1>1. StreamOK'
  <2>1. CASE DrainRead
    BY <2>1, DropChunkStream DEF IInv, TypeOK, DrainRead
  <2>2. CASE DrainEmpty
    BY <2>2 DEF IInv, TypeOK, StreamOK, DrainEmpty, rx
  <2> QED  BY <2>1, <2>2
<1>2. pc' \in {"drain", "drainmore", "idle"} /\ empties' \in Nat
  BY DEF IInv, TypeOK, ClientOK, DrainRead, DrainEmpty
<1>3. ClientOK' /\ Progress' /\ ReadLength'
  BY <1>2 DEF IInv, TypeOK, ClientOK, Progress, ReadLength, DrainRead, DrainEmpty
<1>4. DeviceOK'
  BY DeviceStays DEF IInv, TypeOK, DrainRead, DrainEmpty
<1>5. wraps' \in BOOLEAN /\ hexlogs' \in BOOLEAN /\ clean' \in BOOLEAN
  BY DEF IInv, TypeOK, style, DrainRead, DrainEmpty
<1> QED  BY <1>1, <1>3, <1>4, <1>5 DEF IInv, TypeOK

LEMMA StutterIInv ==
  ASSUME IInv, UNCHANGED vars PROVE IInv'
<1>1. ClientOK' /\ StreamOK' /\ DeviceOK'
  BY DEF IInv, TypeOK, ClientOK, StreamOK, DeviceOK, vars, host, rx
<1>2. Progress' /\ ReadLength'
  BY DEF IInv, Progress, ReadLength, vars, host, rx
<1>3. wraps' \in BOOLEAN /\ hexlogs' \in BOOLEAN /\ clean' \in BOOLEAN
  BY DEF IInv, TypeOK, vars, style
<1> QED  BY <1>1, <1>2, <1>3 DEF IInv, TypeOK

LEMMA NextIInv ==
  ASSUME IInv, [Next]_vars PROVE IInv'
<1>1. CASE Deliver  BY <1>1, DeliverIInv
<1>2. CASE Device   BY <1>2, DevExecuteIInv, DevStoreIInv, DevIgnoreIInv DEF Device
<1>3. CASE Send \/ SendFails  BY <1>3, SendIInv
<1>4. CASE Client
  <2>1. CASE Accumulate \/ EmptyRead  BY <2>1, AccumulateIInv
  <2>2. CASE TooLarge \/ GiveUp       BY <2>2, DropAllIInv
  <2>3. CASE Unreadable \/ Nak \/ Ack  BY <2>3, RespondedIInv
  <2>10. CASE ProgramFails            BY <2>10, ProgramFailsIInv
  <2>4. CASE ProgramGo                BY <2>4, ProgramGoIInv
  <2>5. CASE ReadGo                   BY <2>5, ReadGoIInv
  <2>6. CASE ReadRaw                  BY <2>6, ReadRawIInv
  <2>7. CASE ReadRawFails             BY <2>7, ReadRawFailsIInv
  <2>8. CASE PeekRead \/ PeekEmpty    BY <2>8, PeekIInv
  <2>9. CASE DrainRead \/ DrainEmpty  BY <2>9, DrainIInv
  <2> QED  BY <1>4, <2>1, <2>2, <2>3, <2>4, <2>5, <2>6, <2>7, <2>8, <2>9, <2>10 DEF Client
<1>5. CASE UNCHANGED vars  BY <1>5, StutterIInv
<1> QED  BY <1>1, <1>2, <1>3, <1>4, <1>5 DEF Next

-----------------------------------------------------------------------------
(* The theorems *)

\* The invariant holds in every reachable state, however the stream is cut
\* and whatever the device answers.
THEOREM Inductive == Spec => []IInv
<1>1. Init => IInv
  BY InitIInv
<1>2. IInv /\ [Next]_vars => IInv'
  BY NextIInv
<1> QED  BY <1>1, <1>2, PTL DEF Spec

\* Types are kept, and the cut points of the stream stay in order: the client
\* never uses more tokens than it has read, and never drops any it has not.
THEOREM TypeCorrect == Spec => []TypeOK
<1>1. IInv => TypeOK
  BY DEF IInv
<1> QED  BY <1>1, Inductive, PTL

\* A read never returns Ok with fewer or more sectors than asked for
\* (read_sectors loops until total_bytes are collected before it reads the
\* completion response), even when the link is out of step.
THEOREM ReadsAreFull == Spec => []ReadLength
<1>1. IInv => ReadLength
  BY DEF IInv
<1> QED  BY <1>1, Inductive, PTL
=============================================================================
