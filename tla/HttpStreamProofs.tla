--------------------------- MODULE HttpStreamProofs ---------------------------
(***************************************************************************)
(* Proofs about HttpStream for every block size, metadata unit, size of a  *)
(* title, number of redirects and set of blocks: the ring holds the audio  *)
(* of a station and nothing else however its body is cut into pieces, its  *)
(* titles are handed on when they change, and the worker's result says how *)
(* the transfer ended.  The argument is that the parser's counters always  *)
(* tell where in the body it stands.                                       *)
(***************************************************************************)
EXTENDS HttpStream, SequenceTheorems, FiniteSetTheorems, WellFoundedInduction,
        TLAPS

-----------------------------------------------------------------------------
(* What a server may answer                                                *)

\* A response, whatever it answers.
Responses ==
    [status : Statuses, meta : {"none", "good", "bad"}, typed : BOOLEAN,
     follow : BOOLEAN, body : Seq(Bytes)]

\* A block with its length byte is a sequence of bytes.
LEMMA BlockBytes ==
    ASSUME NEW b \in Seq(0..CONT)
    PROVE  Block(b) \in Seq(Bytes) /\ Len(Block(b)) = Len(b) + 1
  <1> DEFINE l == Other(IF b = <<>> THEN 0 ELSE 1)
             s == [k \in DOMAIN b |-> Other(b[k])]
  <1>1. l \in Bytes
    BY StreamAssumption DEF Bytes, Other, CONT
  <1>2. s \in Seq(Bytes) /\ Len(s) = Len(b)
    <2>1. \A k \in 1..Len(b) : Other(b[k]) \in Bytes
      BY StreamAssumption DEF Bytes, Other, CONT
    <2>2. DOMAIN b = 1..Len(b) /\ Len(b) \in Nat
      OBVIOUS
    <2> QED BY <2>1, <2>2
  <1>3. <<l>> \in Seq(Bytes) /\ Len(<<l>>) = 1
    BY <1>1
  <1> HIDE DEF l, s
  <1>4. <<l>> \o s \in Seq(Bytes) /\ Len(<<l>> \o s) = Len(b) + 1
    BY <1>2, <1>3
  <1> QED BY <1>4 DEF Block, l, s

\* A run of audio is one, of METAINT bytes.
LEMMA RunBytes ==
    ASSUME NEW n \in 0..2 PROVE Run(n) \in Seq(Bytes) /\ Len(Run(n)) = METAINT
  BY StreamAssumption DEF Run, Bytes, Audio, CONT

\* The body of a station is one.
LEMMA StationBytes ==
    ASSUME NEW a \in Blocks \cup {<<>>}, NEW b \in Blocks \cup {<<>>}
    PROVE  Station(a, b) \in Seq(Bytes)
  <1>1. a \in Seq(0..CONT) /\ b \in Seq(0..CONT)
    BY StreamAssumption, EmptySeq
  <1>2. Block(a) \in Seq(Bytes) /\ Block(b) \in Seq(Bytes)
    BY <1>1, BlockBytes
  <1>3. Run(0) \in Seq(Bytes) /\ Run(1) \in Seq(Bytes) /\ Run(2) \in Seq(Bytes)
    BY RunBytes
  <1> QED
    BY <1>2, <1>3 DEF Station

\* The answers of a station, and those without blocks.
TwoBlocks == {Station(a, b) : a \in Blocks \cup {<<>>}, b \in Blocks \cup {<<>>}}
OneBlock  == {Station(a, <<>>) : a \in Blocks \cup {<<>>}}
NoBlock   == {<<>>, Page, Run(0) \o Run(1)}

\* A status, the icy-metaint that may come with it, and the bodies.
Shape(ss, ms, bodies) ==
    [status : ss, meta : ms, typed : BOOLEAN, follow : {FALSE}, body : bodies]

\* The answers by their status and their icy-metaint.
LEMMA AnswersByShape ==
    ASSUME NEW r \in Answers
    PROVE  \/ r \in Shape({200}, {"good"}, TwoBlocks)
           \/ r \in Shape({200}, {"bad"}, OneBlock)
           \/ r \in Shape({200}, {"none"}, {<<>>, Run(0) \o Run(1)})
           \/ r \in Shape({204}, {"none"}, {<<>>})
           \/ r \in Shape({404}, {"none", "good"}, {<<>>, Page})
           \/ r \in [status : {302}, meta : {"none", "good", "bad"}, typed : {TRUE},
                     follow : BOOLEAN, body : {<<>>, Page}]
  <1>1. Answers =
            Shape({200}, {"good"}, TwoBlocks)
            \cup Shape({200}, {"bad"}, OneBlock)
            \cup Shape({200}, {"none"}, {<<>>, Run(0) \o Run(1)})
            \cup Shape({204}, {"none"}, {<<>>})
            \cup Shape({404}, {"none", "good"}, {<<>>, Page})
            \cup [status : {302}, meta : {"none", "good", "bad"}, typed : {TRUE},
                  follow : BOOLEAN, body : {<<>>, Page}]
    BY DEF Answers, Shape, TwoBlocks, OneBlock
  <1> QED
    BY <1>1, ZenonT(30)

\* The bodies are sequences of bytes.
LEMMA BodyBytes == TwoBlocks \cup OneBlock \cup NoBlock \subseteq Seq(Bytes)
  <1>1. Page \in Seq(Bytes) /\ <<>> \in Seq(Bytes)
    BY StreamAssumption DEF Page, Other, Bytes, CONT
  <1>2. Run(0) \o Run(1) \in Seq(Bytes)
    BY RunBytes
  <1>3. \A a, b \in Blocks \cup {<<>>} : Station(a, b) \in Seq(Bytes)
    BY StationBytes
  <1>4. <<>> \in Blocks \cup {<<>>}
    OBVIOUS
  <1>5. TwoBlocks \subseteq Seq(Bytes)
    BY <1>3 DEF TwoBlocks
  <1>6. OneBlock \subseteq Seq(Bytes)
    BY <1>3, <1>4 DEF OneBlock
  <1>7. NoBlock \subseteq Seq(Bytes)
    BY <1>1, <1>2 DEF NoBlock
  <1> QED
    BY <1>5, <1>6, <1>7

\* A shape with known statuses and bodies is a response.
LEMMA ShapeIs ==
    ASSUME NEW ss, NEW ms, NEW bodies, NEW r \in Shape(ss, ms, bodies),
           ss \subseteq Statuses, ms \subseteq {"none", "good", "bad"},
           bodies \subseteq Seq(Bytes)
    PROVE  r \in Responses /\ ~r.follow
  BY DEF Shape, Responses

\* Every answer is a response; only a redirect is followed.
LEMMA AnswersAre ==
    ASSUME NEW r \in Answers \cup {NoResponse}
    PROVE  r \in Responses /\ (r.follow => r.status = 302)
  <1>1. /\ TwoBlocks \subseteq Seq(Bytes) /\ OneBlock \subseteq Seq(Bytes)
        /\ {<<>>, Run(0) \o Run(1)} \subseteq Seq(Bytes)
        /\ {<<>>} \subseteq Seq(Bytes) /\ {<<>>, Page} \subseteq Seq(Bytes)
    BY BodyBytes DEF NoBlock
  <1>2. /\ {200} \subseteq Statuses /\ {204} \subseteq Statuses /\ {404} \subseteq Statuses
        /\ {"good"} \subseteq {"none", "good", "bad"}
        /\ {"bad"} \subseteq {"none", "good", "bad"}
        /\ {"none"} \subseteq {"none", "good", "bad"}
        /\ {"none", "good"} \subseteq {"none", "good", "bad"}
    BY DEF Statuses
  <1>3. CASE r = NoResponse
    BY <1>1, <1>3 DEF NoResponse, Responses, Statuses
  <1>4. CASE r \in Shape({200}, {"good"}, TwoBlocks)
    BY <1>1, <1>2, <1>4, ShapeIs
  <1>5. CASE r \in Shape({200}, {"bad"}, OneBlock)
    BY <1>1, <1>2, <1>5, ShapeIs, SMTT(40)
  <1>6. CASE r \in Shape({200}, {"none"}, {<<>>, Run(0) \o Run(1)})
    <2> DEFINE ss == {200}  ms == {"none"}  bodies == {<<>>, Run(0) \o Run(1)}
    <2>1. /\ ss \subseteq Statuses /\ ms \subseteq {"none", "good", "bad"}
          /\ bodies \subseteq Seq(Bytes) /\ r \in Shape(ss, ms, bodies)
      BY <1>1, <1>2, <1>6
    <2> HIDE DEF ss, ms, bodies
    <2> QED BY <2>1, ShapeIs
  <1>7. CASE r \in Shape({204}, {"none"}, {<<>>})
    <2> DEFINE ss == {204}  ms == {"none"}  bodies == {<<>>}
    <2>1. /\ ss \subseteq Statuses /\ ms \subseteq {"none", "good", "bad"}
          /\ bodies \subseteq Seq(Bytes) /\ r \in Shape(ss, ms, bodies)
      BY <1>1, <1>2, <1>7
    <2> HIDE DEF ss, ms, bodies
    <2> QED BY <2>1, ShapeIs
  <1>8. CASE r \in Shape({404}, {"none", "good"}, {<<>>, Page})
    <2> DEFINE ss == {404}  ms == {"none", "good"}  bodies == {<<>>, Page}
    <2>1. /\ ss \subseteq Statuses /\ ms \subseteq {"none", "good", "bad"}
          /\ bodies \subseteq Seq(Bytes) /\ r \in Shape(ss, ms, bodies)
      BY <1>1, <1>2, <1>8
    <2> HIDE DEF ss, ms, bodies
    <2> QED BY <2>1, ShapeIs
  <1>9. CASE r \in [status : {302}, meta : {"none", "good", "bad"}, typed : {TRUE},
                    follow : BOOLEAN, body : {<<>>, Page}]
    <2> DEFINE bodies == {<<>>, Page}
    <2>1. bodies \subseteq Seq(Bytes)
      BY <1>1
    <2>2. r \in [status : {302}, meta : {"none", "good", "bad"}, typed : {TRUE},
                 follow : BOOLEAN, body : bodies]
      BY <1>9
    <2> HIDE DEF bodies
    <2> QED BY <2>1, <2>2, ZenonT(30) DEF Responses, Statuses
  <1> QED
    BY <1>3, <1>4, <1>5, <1>6, <1>7, <1>8, <1>9, AnswersByShape, ZenonT(40)

-----------------------------------------------------------------------------
(* How the body of a station is laid out                                   *)

\* A set of naturals that is not empty has a least element.
LEMMA Least == ASSUME NEW S \in SUBSET Nat, S # {} PROVE \E n \in S : \A m \in S : n <= m
  <1> DEFINE R == OpToRel(<, Nat)
  <1>1. IsWellFoundedOn(R, Nat)
    BY NatLessThanWellFounded
  <1>2. \A x, y \in Nat : x < y => <<x, y>> \in R
    BY DEF OpToRel
  <1> HIDE DEF R
  <1>3. PICK x \in S : \A y \in S : ~ (<<y, x>> \in R)
    BY <1>1, WFMin, S \subseteq Nat
  <1>4. \A m \in S : x <= m
    <2> SUFFICES ASSUME NEW m \in S PROVE x <= m
      OBVIOUS
    <2>1. x \in Nat /\ m \in Nat /\ ~(m < x)
      BY <1>2, <1>3
    <2> QED BY <2>1
  <1> QED BY <1>4

\* The places of two sequences in their concatenation.
LEMMA Joins ==
    ASSUME NEW S, NEW s \in Seq(S), NEW t \in Seq(S)
    PROVE  /\ s \o t \in Seq(S) /\ Len(s \o t) = Len(s) + Len(t)
           /\ \A i \in 1..Len(s) : (s \o t)[i] = s[i]
           /\ \A i \in 1..Len(t) : (s \o t)[Len(s) + i] = t[i]
  OBVIOUS

\* The length byte and the bytes of a block.
LEMMA BlockIs ==
    ASSUME NEW b \in Seq(0..CONT)
    PROVE  /\ Block(b)[1] = Other(IF b = <<>> THEN 0 ELSE 1)
           /\ \A i \in 1..Len(b) : Block(b)[1 + i] = Other(b[i])
  <1> DEFINE l == Other(IF b = <<>> THEN 0 ELSE 1)
             s == [k \in DOMAIN b |-> Other(b[k])]
             B == Bytes \cup {Other(b[k]) : k \in DOMAIN b} \cup {l}
  <1>1. <<l>> \in Seq(B) /\ Len(<<l>>) = 1 /\ <<l>>[1] = l
    OBVIOUS
  <1>2. s \in Seq(B) /\ Len(s) = Len(b) /\ \A i \in 1..Len(b) : s[i] = Other(b[i])
    OBVIOUS
  <1>3. Block(b) = <<l>> \o s
    BY DEF Block
  <1> HIDE DEF l, s, B
  <1>4. (<<l>> \o s)[1] = l /\ \A i \in 1..Len(s) : (<<l>> \o s)[1 + i] = s[i]
    BY <1>1, <1>2, Joins
  <1>5. Block(b)[1] = l
    BY <1>3, <1>4
  <1>6. \A i \in 1..Len(b) : Block(b)[1 + i] = s[i]
    BY <1>2, <1>3, <1>4
  <1> QED BY <1>2, <1>5, <1>6 DEF l


\* Audio bytes played before run j, and where run j begins, with blocks of A and B bytes.
Played(j) == IF j = 0 THEN 0 ELSE IF j = 1 THEN METAINT ELSE METAINT + METAINT
RunStart(j, A, B) == Played(j) + (IF j = 0 THEN 0 ELSE IF j = 1 THEN A ELSE A + B)
BlockSize(j, A, B) == IF j = 0 THEN A ELSE B

\* The bytes from a place on are those of a block.
Filled(body, from) == \E b \in Blocks : \A i \in 1..UNIT : body[from + i].val = b[i]

\* A body of three runs of audio with a block after each of the first two.
Laid(body, A, B) ==
    /\ Len(body) = RunStart(2, A, B) + METAINT
    /\ \A j \in 0..2 : \A i \in 1..METAINT :
           body[RunStart(j, A, B) + i] = Audio(Played(j) + i)
    /\ \A j \in 0..1 : \A i \in 1..BlockSize(j, A, B) :
           body[RunStart(j, A, B) + METAINT + i].is = "other"
    /\ \A j \in 0..1 : body[RunStart(j, A, B) + METAINT + 1].val =
                           (IF BlockSize(j, A, B) = 1 THEN 0 ELSE 1)
    /\ \A j \in 0..1 : BlockSize(j, A, B) = 1 + UNIT =>
                           Filled(body, RunStart(j, A, B) + METAINT + 1)

\* The body of a station is laid out so, with blocks of 1 byte or of 1 + UNIT.
LEMMA StationLaid ==
    ASSUME NEW a \in Blocks \cup {<<>>}, NEW b \in Blocks \cup {<<>>}
    PROVE  \E A, B \in {1, 1 + UNIT} : Laid(Station(a, b), A, B)
  <1> DEFINE body == Station(a, b)
             p == Block(a)  q == Block(b)
             A == Len(p)  B == Len(q)
  <1>1. /\ a \in Seq(0..CONT) /\ b \in Seq(0..CONT)
        /\ a = <<>> \/ Len(a) = UNIT
        /\ b = <<>> \/ Len(b) = UNIT
    <2>1. \A x \in Blocks : x \in Seq(0..CONT) /\ Len(x) = UNIT
      BY StreamAssumption
    <2>2. <<>> \in Seq(0..CONT)
      OBVIOUS
    <2> QED BY <2>1, <2>2
  <1>2. /\ p \in Seq(Bytes) /\ q \in Seq(Bytes)
        /\ A = Len(a) + 1 /\ B = Len(b) + 1
    BY <1>1, BlockBytes
  <1>3. /\ A \in {1, 1 + UNIT}
        /\ A = 1 <=> a = <<>>
        /\ B \in {1, 1 + UNIT}
        /\ B = 1 <=> b = <<>>
    <2>1. /\ a = <<>> <=> Len(a) = 0
          /\ b = <<>> <=> Len(b) = 0
          /\ Len(a) \in Nat /\ Len(b) \in Nat
      BY <1>1
    <2> QED BY <1>1, <1>2, <2>1, IcyAssumption
  <1>4. /\ p[1] = Other(IF A = 1 THEN 0 ELSE 1) /\ \A i \in 1..A : p[i].is = "other"
        /\ q[1] = Other(IF B = 1 THEN 0 ELSE 1) /\ \A i \in 1..B : q[i].is = "other"
    <2>1. ASSUME NEW c \in Seq(0..CONT)
          PROVE  \A i \in 1..(Len(c) + 1) : Block(c)[i].is = "other"
      <3>1. SUFFICES ASSUME NEW i \in 1..(Len(c) + 1) PROVE Block(c)[i].is = "other"
        OBVIOUS
      <3>2. CASE i = 1
        <4>1. Block(c)[1] = Other(IF c = <<>> THEN 0 ELSE 1)
          BY BlockIs
        <4> QED BY <3>2, <4>1 DEF Other
      <3>3. CASE i # 1
        <4> DEFINE k == i - 1
        <4>1. k \in 1..Len(c) /\ 1 + k = i
          BY <3>3
        <4>2. Block(c)[1 + k] = Other(c[k])
          BY <4>1, BlockIs
        <4> QED BY <4>1, <4>2 DEF Other
      <3> QED BY <3>2, <3>3
    <2>2. /\ p[1] = Other(IF a = <<>> THEN 0 ELSE 1)
          /\ q[1] = Other(IF b = <<>> THEN 0 ELSE 1)
      BY <1>1, BlockIs
    <2> QED BY <1>1, <1>2, <1>3, <2>1, <2>2
  <1>5. /\ Run(0) \in Seq(Bytes) /\ Run(1) \in Seq(Bytes) /\ Run(2) \in Seq(Bytes)
        /\ Len(Run(0)) = METAINT /\ Len(Run(1)) = METAINT /\ Len(Run(2)) = METAINT
    BY RunBytes
  <1>6. \A i \in 1..METAINT : /\ Run(0)[i] = Audio(i) /\ Run(1)[i] = Audio(METAINT + i)
                              /\ Run(2)[i] = Audio(METAINT + METAINT + i)
    BY StreamAssumption DEF Run
  <1>7. body = Run(0) \o p \o Run(1) \o q \o Run(2)
    BY DEF Station
  <1> HIDE DEF body, p, q, A, B
  <1>8. /\ Len(body) = METAINT + A + METAINT + B + METAINT
        /\ \A i \in 1..METAINT : body[i] = Audio(i)
        /\ \A i \in 1..A : body[METAINT + i] = p[i]
        /\ \A i \in 1..METAINT : body[METAINT + A + i] = Audio(METAINT + i)
        /\ \A i \in 1..B : body[METAINT + A + METAINT + i] = q[i]
        /\ \A i \in 1..METAINT :
               body[METAINT + A + METAINT + B + i] = Audio(METAINT + METAINT + i)
    <2>1. PICK r0, r1, r2 : r0 = Run(0) /\ r1 = Run(1) /\ r2 = Run(2)
      OBVIOUS
    <2>2. r0 \in Seq(Bytes) /\ r1 \in Seq(Bytes) /\ r2 \in Seq(Bytes)
      BY <1>5, <2>1
    <2>3. Len(r0) = METAINT /\ Len(r1) = METAINT /\ Len(r2) = METAINT
      BY <1>5, <2>1
    <2>4. body = r0 \o p \o r1 \o q \o r2
      BY <1>7, <2>1
    <2>5. /\ Len(body) = METAINT + Len(p) + METAINT + Len(q) + METAINT
          /\ \A i \in 1..METAINT : body[i] = r0[i]
          /\ \A i \in 1..Len(p) : body[METAINT + i] = p[i]
          /\ \A i \in 1..METAINT : body[METAINT + Len(p) + i] = r1[i]
          /\ \A i \in 1..Len(q) : body[METAINT + Len(p) + METAINT + i] = q[i]
          /\ \A i \in 1..METAINT : body[METAINT + Len(p) + METAINT + Len(q) + i] = r2[i]
      <3>1. PICK s1 : s1 = r0 \o p
        OBVIOUS
      <3>2. PICK s2 : s2 = s1 \o r1
        OBVIOUS
      <3>3. PICK s3 : s3 = s2 \o q
        OBVIOUS
      <3>4. body = s3 \o r2
        BY <2>4, <3>1, <3>2, <3>3
      <3>5. s1 \in Seq(Bytes) /\ s2 \in Seq(Bytes) /\ s3 \in Seq(Bytes)
        BY <1>2, <2>2, <3>1, <3>2, <3>3
      <3>6. /\ Len(s1) = Len(r0) + Len(p)
            /\ \A i \in 1..Len(r0) : s1[i] = r0[i]
            /\ \A i \in 1..Len(p) : s1[Len(r0) + i] = p[i]
        BY <1>2, <2>2, <3>1, Joins
      <3>7. /\ Len(s2) = Len(s1) + Len(r1)
            /\ \A i \in 1..Len(s1) : s2[i] = s1[i]
            /\ \A i \in 1..Len(r1) : s2[Len(s1) + i] = r1[i]
        BY <3>2, <1>2, <2>2, <3>5, Joins
      <3>8. /\ Len(s3) = Len(s2) + Len(q)
            /\ \A i \in 1..Len(s2) : s3[i] = s2[i]
            /\ \A i \in 1..Len(q) : s3[Len(s2) + i] = q[i]
        BY <3>3, <1>2, <2>2, <3>5, Joins
      <3>9. /\ body \in Seq(Bytes) /\ Len(body) = Len(s3) + Len(r2)
            /\ \A i \in 1..Len(s3) : body[i] = s3[i]
            /\ \A i \in 1..Len(r2) : body[Len(s3) + i] = r2[i]
        BY <3>4, <1>2, <2>2, <3>5, Joins
      <3>10. /\ Len(r0) \in Nat /\ Len(p) \in Nat /\ Len(r1) \in Nat /\ Len(q) \in Nat
             /\ Len(r2) \in Nat
        BY <1>2, <2>2
      <3>11. /\ Len(s1) \in Nat /\ Len(s2) \in Nat /\ Len(s3) \in Nat
             /\ Len(s1) = Len(r0) + Len(p) /\ Len(s2) = Len(s1) + Len(r1)
             /\ Len(s3) = Len(s2) + Len(q)
        BY <3>6, <3>7, <3>8, <3>10
      <3>12. ASSUME NEW i \in 1..Len(r0) PROVE body[i] = r0[i]
        <4>1. i \in 1..Len(s1) /\ i \in 1..Len(s2) /\ i \in 1..Len(s3)
          BY <3>10, <3>11
        <4> QED BY <4>1, <3>6, <3>7, <3>8, <3>9
      <3>13. ASSUME NEW i \in 1..Len(p) PROVE body[Len(r0) + i] = p[i]
        <4> DEFINE k == Len(r0) + i
        <4>1. k \in 1..Len(s1) /\ k \in 1..Len(s2) /\ k \in 1..Len(s3)
          BY <3>10, <3>11
        <4> QED BY <4>1, <3>6, <3>7, <3>8, <3>9
      <3>14. ASSUME NEW i \in 1..Len(r1) PROVE body[Len(r0) + Len(p) + i] = r1[i]
        <4> DEFINE k == Len(r0) + Len(p) + i
        <4>1. k = Len(s1) + i /\ k \in 1..Len(s2) /\ k \in 1..Len(s3)
          BY <3>10, <3>11
        <4> HIDE DEF k
        <4>2. body[k] = r1[i]
          BY <4>1, <3>7, <3>8, <3>9
        <4> QED BY <4>2 DEF k
      <3>15. ASSUME NEW i \in 1..Len(q) PROVE body[Len(r0) + Len(p) + Len(r1) + i] = q[i]
        <4> DEFINE k == Len(r0) + Len(p) + Len(r1) + i
        <4>1. k = Len(s2) + i /\ k \in 1..Len(s3)
          BY <3>10, <3>11
        <4> HIDE DEF k
        <4>2. body[k] = q[i]
          BY <4>1, <3>8, <3>9
        <4> QED BY <4>2 DEF k
      <3>16. ASSUME NEW i \in 1..Len(r2)
             PROVE  body[Len(r0) + Len(p) + Len(r1) + Len(q) + i] = r2[i]
        <4> DEFINE k == Len(r0) + Len(p) + Len(r1) + Len(q) + i
        <4>1. k = Len(s3) + i
          BY <3>10, <3>11
        <4> HIDE DEF k
        <4>2. body[k] = r2[i]
          BY <4>1, <3>9
        <4> QED BY <4>2 DEF k
      <3>17. /\ body \in Seq(Bytes)
             /\ Len(body) = Len(r0) + Len(p) + Len(r1) + Len(q) + Len(r2)
        BY <3>9, <3>10, <3>11
      <3> QED
        BY <2>3, <3>12, <3>13, <3>14, <3>15, <3>16, <3>17
    <2> QED BY <1>6, <2>1, <2>5 DEF A, B
  <1>9. METAINT \in Nat \ {0} /\ A \in Nat \ {0} /\ B \in Nat \ {0}
    BY StreamAssumption, IcyAssumption, <1>3
  <1>10. /\ Played(0) = 0 /\ Played(1) = METAINT /\ Played(2) = METAINT + METAINT
         /\ RunStart(0, A, B) = 0 /\ RunStart(1, A, B) = METAINT + A
         /\ RunStart(2, A, B) = METAINT + A + METAINT + B
         /\ BlockSize(0, A, B) = A /\ BlockSize(1, A, B) = B
    BY <1>9 DEF Played, RunStart, BlockSize
  <1>11. Len(body) = RunStart(2, A, B) + METAINT
    BY <1>8, <1>10
  <1>12. ASSUME NEW j \in 0..2, NEW i \in 1..METAINT
         PROVE  body[RunStart(j, A, B) + i] = Audio(Played(j) + i)
    <2>1. CASE j = 0
      BY <2>1, <1>8, <1>9, <1>10
    <2>2. CASE j = 1
      BY <2>2, <1>8, <1>9, <1>10
    <2>3. CASE j = 2
      BY <2>3, <1>8, <1>9, <1>10
    <2> QED BY <2>1, <2>2, <2>3
  <1>13. ASSUME NEW j \in 0..1
         PROVE  /\ \A i \in 1..BlockSize(j, A, B) :
                        body[RunStart(j, A, B) + METAINT + i].is = "other"
                /\ body[RunStart(j, A, B) + METAINT + 1].val =
                       (IF BlockSize(j, A, B) = 1 THEN 0 ELSE 1)
    <2>1. CASE j = 0
      <3>1. \A i \in 1..A : body[METAINT + i].is = "other"
        BY <1>4, <1>8
      <3>2. body[METAINT + 1] = p[1]
        BY <1>8, <1>9
      <3> QED BY <2>1, <3>1, <3>2, <1>4, <1>9, <1>10, SMTT(40) DEF Other
    <2>2. CASE j = 1
      <3>1. \A i \in 1..B : body[METAINT + A + METAINT + i].is = "other"
        BY <1>4, <1>8
      <3>2. body[METAINT + A + METAINT + 1] = q[1]
        BY <1>8, <1>9
      <3>3. body[METAINT + A + METAINT + 1].val = (IF B = 1 THEN 0 ELSE 1)
        BY <3>2, <1>4 DEF Other
      <3>4. RunStart(j, A, B) + METAINT = METAINT + A + METAINT /\ BlockSize(j, A, B) = B
        BY <2>2, <1>10
      <3> QED BY <3>1, <3>3, <3>4
    <2> QED BY <2>1, <2>2
  <1>15. ASSUME NEW c \in Blocks \cup {<<>>}, NEW s, s = Block(c), Len(s) = Len(c) + 1,
                NEW from \in Nat, \A i \in 1..Len(s) : body[from + i] = s[i], Len(s) = 1 + UNIT
         PROVE  Filled(body, from + 1)
    <2>1. c \in Seq(0..CONT) /\ Len(c) = UNIT /\ UNIT \in Nat \ {0}
      BY <1>15, IcyAssumption, StreamAssumption, EmptySeq
    <2>2. c \in Blocks
      BY <2>1
    <2>3. ASSUME NEW i \in 1..UNIT PROVE body[(from + 1) + i].val = c[i]
      <3>1. Block(c)[1 + i] = Other(c[i])
        BY <2>1, BlockIs
      <3>2. 1 + i \in 1..Len(s) /\ from + (1 + i) = (from + 1) + i
        BY <1>15, <2>1
      <3>3. body[from + (1 + i)] = s[1 + i]
        BY <1>15, <3>2
      <3>4. body[(from + 1) + i] = Other(c[i])
        BY <1>15, <3>1, <3>2, <3>3
      <3> QED BY <3>4 DEF Other
    <2> QED BY <2>2, <2>3 DEF Filled
  <1>16. ASSUME NEW j \in 0..1, BlockSize(j, A, B) = 1 + UNIT
         PROVE  Filled(body, RunStart(j, A, B) + METAINT + 1)
    <2>1. CASE j = 0
      <3>1. Len(p) = Len(a) + 1 /\ Len(p) = 1 + UNIT /\ METAINT \in Nat
        BY <1>2, <1>9, <1>10, <1>16, <2>1 DEF A
      <3>2. \A i \in 1..Len(p) : body[METAINT + i] = p[i]
        BY <1>8 DEF A
      <3>3. Filled(body, METAINT + 1)
        BY <1>15, <3>1, <3>2 DEF p
      <3> QED BY <1>9, <1>10, <2>1, <3>3
    <2>2. CASE j = 1
      <3> DEFINE from == METAINT + A + METAINT
      <3>1. Len(q) = Len(b) + 1 /\ Len(q) = 1 + UNIT /\ from \in Nat
        BY <1>2, <1>9, <1>10, <1>16, <2>2 DEF B
      <3>2. \A i \in 1..Len(q) : body[from + i] = q[i]
        BY <1>8 DEF B
      <3>4. RunStart(j, A, B) + METAINT + 1 = from + 1
        BY <1>9, <1>10, <2>2
      <3> HIDE DEF from
      <3>3. Filled(body, from + 1)
        BY <1>15, <3>1, <3>2 DEF q
      <3> QED BY <3>3, <3>4
    <2> QED BY <2>1, <2>2
  <1>14. Laid(body, A, B)
    BY <1>11, <1>12, <1>13, <1>16 DEF Laid
  <1> QED
    BY <1>3, <1>14 DEF body

\* Every place of a laid-out body is in a run or in a block.
LEMMA LaidPlaces ==
    ASSUME NEW body, NEW A \in {1, 1 + UNIT}, NEW B \in {1, 1 + UNIT}, Laid(body, A, B),
           NEW k \in 1..Len(body)
    PROVE  \/ \E j \in 0..2 : \E i \in 1..METAINT : k = RunStart(j, A, B) + i
           \/ \E j \in 0..1 : \E i \in 1..BlockSize(j, A, B) :
                  k = RunStart(j, A, B) + METAINT + i
  <1>1. METAINT \in Nat \ {0} /\ A \in Nat \ {0} /\ B \in Nat \ {0}
    BY StreamAssumption, IcyAssumption
  <1>2. Len(body) = METAINT + A + METAINT + B + METAINT
    BY <1>1 DEF Laid, RunStart, Played
  <1>3. k \in Nat \ {0} /\ k <= METAINT + A + METAINT + B + METAINT
    BY <1>1, <1>2
  <1>4. CASE k <= METAINT
    <2>1. k \in 1..METAINT /\ k = RunStart(0, A, B) + k
      BY <1>1, <1>3, <1>4 DEF RunStart, Played
    <2> QED BY <2>1
  <1>5. CASE METAINT < k /\ k <= METAINT + A
    <2> DEFINE i == k - METAINT
    <2>1. i \in 1..BlockSize(0, A, B) /\ k = RunStart(0, A, B) + METAINT + i
      BY <1>1, <1>3, <1>5 DEF RunStart, Played, BlockSize
    <2> QED BY <2>1
  <1>6. CASE METAINT + A < k /\ k <= METAINT + A + METAINT
    <2> DEFINE i == k - METAINT - A
    <2>1. i \in 1..METAINT /\ k = RunStart(1, A, B) + i
      BY <1>1, <1>3, <1>6 DEF RunStart, Played
    <2> QED BY <2>1
  <1>7. CASE METAINT + A + METAINT < k /\ k <= METAINT + A + METAINT + B
    <2> DEFINE i == k - METAINT - A - METAINT
    <2>1. i \in 1..BlockSize(1, A, B) /\ k = RunStart(1, A, B) + METAINT + i
      BY <1>1, <1>3, <1>7 DEF RunStart, Played, BlockSize
    <2> QED BY <2>1
  <1>8. CASE METAINT + A + METAINT + B < k
    <2> DEFINE i == k - METAINT - A - METAINT - B
    <2>1. i \in 1..METAINT /\ k = RunStart(2, A, B) + i
      BY <1>1, <1>3, <1>8 DEF RunStart, Played
    <2> QED BY <2>1
  <1> QED
    BY <1>1, <1>3, <1>4, <1>5, <1>6, <1>7, <1>8

\* The places of the audio in it.
AudioPlaces(A, B) ==
    1..METAINT
    \cup (METAINT + A + 1)..(METAINT + A + METAINT)
    \cup (METAINT + A + METAINT + B + 1)..(METAINT + A + METAINT + B + METAINT)

\* The audio of a laid-out body is its three runs.
LEMMA AudioOfLaid ==
    ASSUME NEW body, NEW A \in {1, 1 + UNIT}, NEW B \in {1, 1 + UNIT}, Laid(body, A, B)
    PROVE  {k \in 1..Len(body) : body[k].is = "audio"} = AudioPlaces(A, B)
  <1>1. METAINT \in Nat \ {0} /\ A \in Nat \ {0} /\ B \in Nat \ {0}
    BY StreamAssumption, IcyAssumption
  <1>2. Len(body) = METAINT + A + METAINT + B + METAINT
    BY <1>1 DEF Laid, RunStart, Played
  <1> DEFINE Runs == 1..METAINT
               \cup (METAINT + A + 1)..(METAINT + A + METAINT)
               \cup (METAINT + A + METAINT + B + 1)..(METAINT + A + METAINT + B + METAINT)
  <1>3. ASSUME NEW k \in 1..Len(body), body[k].is = "audio" PROVE k \in Runs
    <2>1. ASSUME NEW j \in 0..1, NEW i \in 1..BlockSize(j, A, B),
                 k = RunStart(j, A, B) + METAINT + i
          PROVE  FALSE
      BY <1>3, <2>1 DEF Laid
    <2>2. PICK j \in 0..2 : \E i \in 1..METAINT : k = RunStart(j, A, B) + i
      BY <2>1, LaidPlaces
    <2>3. PICK i \in 1..METAINT : k = RunStart(j, A, B) + i
      BY <2>2
    <2>4. CASE j = 0
      BY <2>3, <2>4, <1>1 DEF RunStart, Played
    <2>5. CASE j = 1
      BY <2>3, <2>5, <1>1 DEF RunStart, Played
    <2>6. CASE j = 2
      BY <2>3, <2>6, <1>1 DEF RunStart, Played
    <2> QED BY <2>4, <2>5, <2>6
  <1>4. ASSUME NEW j \in 0..2, NEW i \in 1..METAINT
        PROVE  body[RunStart(j, A, B) + i].is = "audio"
    <2>1. body[RunStart(j, A, B) + i] = Audio(Played(j) + i)
      BY DEF Laid
    <2> QED BY <2>1 DEF Audio
  <1>5. ASSUME NEW k \in Runs PROVE k \in 1..Len(body) /\ body[k].is = "audio"
    <2>1. CASE k \in 1..METAINT
      <3>1. k = RunStart(0, A, B) + k /\ k \in 1..Len(body)
        BY <1>1, <1>2, <2>1 DEF RunStart, Played
      <3> QED BY <2>1, <3>1, <1>4
    <2>2. CASE k \in (METAINT + A + 1)..(METAINT + A + METAINT)
      <3> DEFINE i == k - METAINT - A
      <3>1. i \in 1..METAINT /\ k = RunStart(1, A, B) + i /\ k \in 1..Len(body)
        BY <1>1, <1>2, <2>2 DEF RunStart, Played
      <3> QED BY <3>1, <1>4
    <2>3. CASE k \in (METAINT + A + METAINT + B + 1)..(METAINT + A + METAINT + B + METAINT)
      <3> DEFINE i == k - METAINT - A - METAINT - B
      <3>1. i \in 1..METAINT /\ k = RunStart(2, A, B) + i /\ k \in 1..Len(body)
        BY <1>1, <1>2, <2>3 DEF RunStart, Played
      <3> QED BY <3>1, <1>4
    <2> QED BY <2>1, <2>2, <2>3
  <1> QED
    BY <1>3, <1>5 DEF AudioPlaces

\* The audio up to a place.
LEMMA RunsCounted ==
    ASSUME NEW A \in Nat \ {0}, NEW B \in Nat \ {0}, NEW n \in Nat
    PROVE  Cardinality({k \in AudioPlaces(A, B) : k <= n}) =
               IF n <= METAINT THEN n
               ELSE IF n <= METAINT + A THEN METAINT
               ELSE IF n <= METAINT + A + METAINT THEN n - A
               ELSE IF n <= METAINT + A + METAINT + B THEN METAINT + METAINT
               ELSE IF n <= METAINT + A + METAINT + B + METAINT THEN n - A - B
               ELSE METAINT + METAINT + METAINT
  <1>0. METAINT \in Nat \ {0}
    BY StreamAssumption
  <1> USE <1>0
  <1> DEFINE upTo == {k \in AudioPlaces(A, B) : k <= n}
             lesser(x, y) == IF x <= y THEN x ELSE y
             a == lesser(n, METAINT)
             b == lesser(n, METAINT + A + METAINT)
             c == lesser(n, METAINT + A + METAINT + B + METAINT)
  <1>1. a \in Nat /\ b \in Nat /\ c \in Nat
    OBVIOUS
  <1>2. upTo = 1..a \cup ((METAINT + A + 1)..b \cup (METAINT + A + METAINT + B + 1)..c)
    BY DEF AudioPlaces
  <1>3. /\ IsFiniteSet(1..a) /\ Cardinality(1..a) = a
        /\ IsFiniteSet((METAINT + A + 1)..b)
        /\ Cardinality((METAINT + A + 1)..b) =
               IF METAINT + A + 1 > b THEN 0 ELSE b - (METAINT + A)
        /\ IsFiniteSet((METAINT + A + METAINT + B + 1)..c)
        /\ Cardinality((METAINT + A + METAINT + B + 1)..c) =
               IF METAINT + A + METAINT + B + 1 > c THEN 0
               ELSE c - (METAINT + A + METAINT + B)
    <2>1. /\ 1 \in Int /\ a \in Int /\ b \in Int /\ c \in Int
          /\ METAINT + A + 1 \in Int /\ METAINT + A + METAINT + B + 1 \in Int
      BY <1>1
    <2> HIDE DEF a, b, c
    <2>2. IsFiniteSet(1..a) /\ Cardinality(1..a) = IF 1 > a THEN 0 ELSE a - 1 + 1
      BY <2>1, FS_Interval
    <2>3. /\ IsFiniteSet((METAINT + A + 1)..b)
          /\ Cardinality((METAINT + A + 1)..b) =
                 IF METAINT + A + 1 > b THEN 0 ELSE b - (METAINT + A + 1) + 1
      BY <2>1, FS_Interval
    <2>4. /\ IsFiniteSet((METAINT + A + METAINT + B + 1)..c)
          /\ Cardinality((METAINT + A + METAINT + B + 1)..c) =
                 IF METAINT + A + METAINT + B + 1 > c THEN 0
                 ELSE c - (METAINT + A + METAINT + B + 1) + 1
      BY <2>1, FS_Interval
    <2> QED BY <1>1, <2>2, <2>3, <2>4
  <1>4. ((METAINT + A + 1)..b) \cap ((METAINT + A + METAINT + B + 1)..c) = {}
    OBVIOUS
  <1>5. (1..a) \cap ((METAINT + A + 1)..b \cup (METAINT + A + METAINT + B + 1)..c) = {}
    OBVIOUS
  <1>6. Cardinality(upTo) =
            Cardinality(1..a) + Cardinality((METAINT + A + 1)..b)
            + Cardinality((METAINT + A + METAINT + B + 1)..c)
    <2> DEFINE X == 1..a
               Y == (METAINT + A + 1)..b
               Z == (METAINT + A + METAINT + B + 1)..c
    <2>1. /\ IsFiniteSet(X) /\ IsFiniteSet(Y) /\ IsFiniteSet(Z)
          /\ Y \cap Z = {} /\ X \cap (Y \cup Z) = {} /\ upTo = X \cup (Y \cup Z)
          /\ Cardinality(X) \in Int /\ Cardinality(Y) \in Int /\ Cardinality(Z) \in Int
      BY <1>1, <1>2, <1>3, <1>4, <1>5
    <2> HIDE DEF X, Y, Z, upTo
    <2>2. /\ IsFiniteSet(Y \cup Z)
          /\ Cardinality(Y \cup Z) = Cardinality(Y) + Cardinality(Z) - Cardinality({})
      BY <2>1, FS_Union
    <2>3. Cardinality(X \cup (Y \cup Z)) =
              Cardinality(X) + Cardinality(Y \cup Z) - Cardinality({})
      BY <2>1, <2>2, FS_Union
    <2>4. Cardinality({}) = 0
      BY FS_EmptySet
    <2>5. Cardinality(upTo) = Cardinality(X) + Cardinality(Y) + Cardinality(Z)
      BY <2>1, <2>2, <2>3, <2>4
    <2> QED BY <2>5 DEF X, Y, Z
  <1> QED
    BY <1>1, <1>3, <1>6

-----------------------------------------------------------------------------
(* The response                                                            *)

\* The response is one a server may give, and what has come of it a part of its body.
WireOk ==
    /\ pc \in Steps
    /\ resp \in Answers \cup {NoResponse} /\ code = resp.status
    /\ off \in 0..Len(resp.body) /\ hop \in 0..MAXREDIRS

\* Every step keeps it.
LEMMA WireStep ==
    ASSUME WireOk, [Next]_vars
    PROVE  WireOk'
  <1> USE DEF WireOk, Steps, wire, head, end, icyVars
  <1>1. CASE NoBundle
    BY <1>1 DEF NoBundle
  <1>2. CASE Perform
    BY <1>2 DEF Perform
  <1>3. CASE StatusLine
    <2>1. PICK r \in Answers : resp' = r /\ code' = r.status
      BY <1>3 DEF StatusLine
    <2>2. Len(r.body) \in Nat
      BY AnswersAre DEF Responses
    <2> QED BY <1>3, <2>1, <2>2 DEF StatusLine
  <1>4. CASE HeaderLine
    BY <1>4 DEF HeaderLine
  <1>5. CASE HeadersEnd
    BY <1>5 DEF HeadersEnd
  <1>6. CASE Deliver
    <2>1. Len(resp.body) \in Nat
      BY AnswersAre DEF Responses
    <2> QED BY <1>6, <2>1 DEF Deliver
  <1>7. CASE WriteCb
    BY <1>7 DEF WriteCb, WriteStopped, FirstPiece, LaterPiece, Took, Refused
  <1>8. CASE FeedAudio
    BY <1>8 DEF FeedAudio, PassAudio, Refused
  <1>9. CASE FeedMeta
    BY <1>9 DEF FeedMeta, ReadLen, ReadMeta
  <1>10. CASE Fed
    BY <1>10 DEF Fed, Took, Refused
  <1>11. CASE Follow
    BY <1>11, StreamAssumption DEF Follow
  <1>12. CASE TransferEnds
    BY <1>12 DEF TransferEnds
  <1>13. CASE Cancelled
    BY <1>13 DEF Cancelled
  <1>14. CASE Conclude
    BY <1>14 DEF Conclude, LastHeaders
  <1>15. CASE CloseRing
    BY <1>15 DEF CloseRing
  <1>16. CASE Finish
    BY <1>16 DEF Finish
  <1>17. CASE Abort \/ Stop
    BY <1>17 DEF Abort, Stop
  <1>18. CASE Joined \/ UNCHANGED vars
    BY <1>18 DEF Joined, vars
  <1> QED
    BY <1>1, <1>2, <1>3, <1>4, <1>5, <1>6, <1>7, <1>8, <1>9, <1>10,
       <1>11, <1>12, <1>13, <1>14, <1>15, <1>16, <1>17, <1>18 DEF Next, Worker

-----------------------------------------------------------------------------
(* Its headers                                                             *)

\* What header_cb holds of the lines that have come.
HeadOk ==
    /\ unread \subseteq {"meta", "type"} /\ got_body \in BOOLEAN
    /\ metaint_bad \in BOOLEAN
    /\ got_body \/ pc \in {"body", "write", "feed"} => unread = {}
    /\ "type" \in unread => resp.typed
    /\ metaint = IF "meta" \notin unread /\ resp.meta = "good" THEN METAINT ELSE 0
    /\ metaint_bad <=> "meta" \notin unread /\ resp.meta = "bad"
    /\ content_type = IF "type" \notin unread /\ resp.typed THEN resp.status ELSE 0

\* Every step keeps it.
LEMMA HeadStep ==
    ASSUME WireOk, HeadOk, [Next]_vars
    PROVE  HeadOk'
  <1> USE DEF HeadOk, wire, head, end, icyVars
  <1>1. CASE NoBundle
    BY <1>1 DEF NoBundle
  <1>2. CASE Perform
    BY <1>2 DEF Perform
  <1>3. CASE StatusLine
    <2>1. PICK r \in Answers :
              /\ resp' = r
              /\ unread' = (IF r.meta = "none" THEN {} ELSE {"meta"})
                           \cup (IF r.typed THEN {"type"} ELSE {})
      BY <1>3 DEF StatusLine
    <2>2. r.meta \in {"none", "good", "bad"} /\ r.typed \in BOOLEAN
      BY AnswersAre DEF Responses
    <2>3. /\ got_body' = FALSE /\ metaint' = 0 /\ metaint_bad' = FALSE
          /\ content_type' = 0 /\ pc' = "headers"
      BY <1>3 DEF StatusLine, Rearm
    <2> QED BY <2>1, <2>2, <2>3
  <1>4. CASE HeaderLine
    <2>1. PICK h \in unread :
              /\ unread' = unread \ {h}
              /\ IF h = "type"
                 THEN content_type' = resp.status /\ UNCHANGED <<metaint, metaint_bad>>
                 ELSE /\ metaint' = (IF resp.meta = "good" THEN METAINT ELSE 0)
                      /\ metaint_bad' = (metaint_bad \/ resp.meta = "bad")
                      /\ UNCHANGED content_type
      BY <1>4 DEF HeaderLine
    <2>2. pc = "headers" /\ UNCHANGED <<pc, resp, got_body>>
      BY <1>4 DEF HeaderLine
    <2>3. CASE h = "type"
      BY <2>1, <2>2, <2>3
    <2>4. CASE h = "meta"
      BY <2>1, <2>2, <2>4
    <2> QED BY <2>3, <2>4
  <1>5. CASE HeadersEnd
    BY <1>5 DEF HeadersEnd
  <1>6. CASE Deliver
    BY <1>6 DEF Deliver
  <1>7. CASE WriteCb
    BY <1>7 DEF WriteCb, WriteStopped, FirstPiece, LaterPiece, Took, Refused
  <1>8. CASE FeedAudio
    BY <1>8 DEF FeedAudio, PassAudio, Refused
  <1>9. CASE FeedMeta
    BY <1>9 DEF FeedMeta, ReadLen, ReadMeta
  <1>10. CASE Fed
    BY <1>10 DEF Fed, Took, Refused
  <1>11. CASE Follow
    BY <1>11 DEF Follow
  <1>12. CASE TransferEnds
    BY <1>12 DEF TransferEnds
  <1>13. CASE Cancelled
    BY <1>13 DEF Cancelled
  <1>14. CASE Conclude
    BY <1>14 DEF Conclude, LastHeaders
  <1>15. CASE CloseRing
    BY <1>15 DEF CloseRing
  <1>16. CASE Finish
    BY <1>16 DEF Finish
  <1>17. CASE Abort \/ Stop
    <2>1. UNCHANGED <<pc, resp, unread, metaint, metaint_bad, content_type, got_body>>
      BY <1>17 DEF Abort, Stop
    <2> QED BY <2>1
  <1>18. CASE Joined \/ UNCHANGED vars
    <2>1. UNCHANGED <<pc, resp, unread, metaint, metaint_bad, content_type, got_body>>
      BY <1>18 DEF Joined, vars
    <2> QED BY <2>1
  <1> QED
    BY <1>1, <1>2, <1>3, <1>4, <1>5, <1>6, <1>7, <1>8, <1>9, <1>10,
       <1>11, <1>12, <1>13, <1>14, <1>15, <1>16, <1>17, <1>18 DEF Next, Worker

-----------------------------------------------------------------------------
(* The parser's counters                                                   *)

\* The parser's counters are naturals.
IcyOk ==
    /\ icy = [metaint |-> icy.metaint, audio_left |-> icy.audio_left,
              meta_left |-> icy.meta_left, meta |-> icy.meta, state |-> icy.state,
              last_title |-> icy.last_title]
    /\ icy.metaint \in Nat /\ icy.audio_left \in Nat /\ icy.meta_left \in Nat
    /\ data \in Seq(Bytes)

\* The run handed to on_audio is a part of the bytes there are.
LEMMA AudioRunIs == ASSUME IcyOk PROVE AudioRun \in 0..Len(data)
  BY DEF IcyOk, AudioRun, Smaller

\* What is left of the bytes is a sequence of bytes.
LEMMA RestIs ==
    ASSUME data \in Seq(Bytes), NEW n \in 0..Len(data)
    PROVE  Rest(n) \in Seq(Bytes) /\ Len(Rest(n)) = Len(data) - n
  BY DEF Rest

\* A product of naturals is one.
LEMMA NatProduct == ASSUME NEW a \in Nat, NEW b \in Nat PROVE a * b \in Nat
  OBVIOUS

\* Every step keeps the counters.
LEMMA IcyStep ==
    ASSUME WireOk, HeadOk, IcyOk, [Next]_vars
    PROVE  IcyOk'
  <1> USE DEF wire, head, end, icyVars
  <1>1. CASE NoBundle
    BY <1>1 DEF NoBundle, IcyOk, Took, Refused
  <1>2. CASE Perform
    BY <1>2 DEF Perform, IcyOk, Took, Refused
  <1>3. CASE StatusLine
    BY <1>3 DEF StatusLine, IcyOk
  <1>4. CASE HeaderLine
    BY <1>4 DEF HeaderLine, IcyOk, Took, Refused
  <1>5. CASE HeadersEnd
    BY <1>5 DEF HeadersEnd, IcyOk, Took, Refused
  <1>6. CASE Deliver
    <2>1. PICK n \in 1..(Len(resp.body) - off) : data' = SubSeq(resp.body, off + 1, off + n)
      BY <1>6 DEF Deliver
    <2>2. resp.body \in Seq(Bytes) /\ off \in 0..Len(resp.body)
      BY AnswersAre DEF Responses, WireOk
    <2>3. data' \in Seq(Bytes)
      BY <2>1, <2>2
    <2> QED BY <1>6, <2>3 DEF Deliver, IcyOk
  <1>7. CASE WriteCb
    <2>1. data' = data \/ data' = <<>>
      BY <1>7 DEF WriteCb, WriteStopped, FirstPiece, LaterPiece
    <2>2. data' \in Seq(Bytes)
      BY <2>1, EmptySeq DEF IcyOk
    <2>3. icy' = icy \/ icy' = icy_init(metaint)
      BY <1>7 DEF WriteCb, WriteStopped, FirstPiece, LaterPiece
    <2>4. metaint \in Nat
      BY StreamAssumption DEF HeadOk
    <2> QED BY <2>2, <2>3, <2>4 DEF IcyOk, icy_init
  <1>8. CASE FeedAudio
    <2>1. CASE data' = <<>> /\ UNCHANGED icy
      BY <2>1, EmptySeq DEF IcyOk
    <2>2. CASE PassAudio
      <3>1. data' \in Seq(Bytes)
        BY <2>2, AudioRunIs, RestIs DEF PassAudio, IcyOk
      <3>2. CASE icy.metaint = 0
        BY <2>2, <3>1, <3>2 DEF PassAudio, IcyOk
      <3>3. CASE icy.metaint # 0
        <4>1. icy.audio_left - AudioRun \in Nat
          BY <3>3, AudioRunIs DEF IcyOk, AudioRun, Smaller
        <4> DEFINE left == icy.audio_left - AudioRun
                   state == IF icy.audio_left = AudioRun THEN "len" ELSE "audio"
        <4>2. icy' = [icy EXCEPT !.audio_left = left, !.state = state]
          BY <2>2, <3>3 DEF PassAudio
        <4> HIDE DEF left, state
        <4>3. left \in Nat
          BY <4>1 DEF left
        <4> QED BY <3>1, <4>2, <4>3 DEF IcyOk
      <3> QED BY <3>2, <3>3
    <2> QED BY <1>8, <2>1, <2>2 DEF FeedAudio
  <1>9. CASE FeedMeta
    <2>1. CASE ReadLen
      <3> DEFINE left == data[1].val * UNIT
                 audio == IF left = 0 THEN icy.metaint ELSE icy.audio_left
                 state == IF left = 0 THEN "audio" ELSE "meta"
      <3>1. icy' = [icy EXCEPT !.meta_left = left, !.meta = <<>>,
                               !.audio_left = audio, !.state = state]
        BY <2>1 DEF ReadLen
      <3>2. data[1].val \in Nat /\ UNIT \in Nat
        <4>1. data \in Seq(Bytes) /\ data # <<>>
          BY <1>9 DEF FeedMeta, IcyOk
        <4>2. data[1] \in Bytes
          BY <4>1
        <4> QED BY <4>2, IcyAssumption DEF Bytes, CONT
      <3>3. left \in Nat
        BY <3>2, NatProduct
      <3>4. audio \in Nat
        BY DEF IcyOk
      <3>5. data' \in Seq(Bytes)
        <4>1. data \in Seq(Bytes) /\ data # <<>>
          BY <1>9 DEF FeedMeta, IcyOk
        <4>2. 1 \in 0..Len(data)
          BY <4>1
        <4> QED BY <2>1, <4>1, <4>2, RestIs DEF ReadLen
      <3> HIDE DEF left, audio, state
      <3> QED BY <3>1, <3>3, <3>4, <3>5 DEF IcyOk
    <2>2. CASE ReadMeta
      <3> DEFINE n == Smaller(icy.meta_left, Len(data))
                 meta == MetaJoined(n)
                 title == icy_extract_title(meta)
                 left == icy.meta_left - n
                 audio == IF n = icy.meta_left THEN icy.metaint ELSE icy.audio_left
                 state == IF n = icy.meta_left THEN "audio" ELSE "meta"
                 last == IF n = icy.meta_left /\ Changed(title)
                         THEN title ELSE icy.last_title
      <3>1. icy' = [icy EXCEPT !.meta = meta, !.meta_left = left, !.audio_left = audio,
                               !.state = state, !.last_title = last]
        BY <2>2 DEF ReadMeta
      <3>2. n \in 0..Len(data) /\ left \in Nat /\ audio \in Nat
        BY DEF IcyOk, Smaller
      <3>3. data' = Rest(n)
        BY <2>2 DEF ReadMeta
      <3> HIDE DEF n, meta, title, left, audio, state, last
      <3>4. data' \in Seq(Bytes)
        BY <3>2, <3>3, RestIs DEF IcyOk
      <3> QED BY <3>1, <3>2, <3>4 DEF IcyOk
    <2> QED BY <1>9, <2>1, <2>2 DEF FeedMeta
  <1>10. CASE Fed
    BY <1>10 DEF Fed, IcyOk, Took, Refused
  <1>11. CASE Follow
    BY <1>11 DEF Follow, IcyOk, Took, Refused
  <1>12. CASE TransferEnds
    BY <1>12 DEF TransferEnds, IcyOk, Took, Refused
  <1>13. CASE Cancelled
    BY <1>13 DEF Cancelled, IcyOk, Took, Refused
  <1>14. CASE Conclude
    BY <1>14 DEF Conclude, IcyOk, Took, Refused
  <1>15. CASE CloseRing
    BY <1>15 DEF CloseRing, IcyOk, Took, Refused
  <1>16. CASE Finish
    BY <1>16 DEF Finish, IcyOk, Took, Refused
  <1>17. CASE Abort \/ Stop
    BY <1>17 DEF Abort, Stop, IcyOk
  <1>18. CASE Joined \/ UNCHANGED vars
    BY <1>18 DEF Joined, vars, IcyOk
  <1> QED
    BY <1>1, <1>2, <1>3, <1>4, <1>5, <1>6, <1>7, <1>8, <1>9, <1>10,
       <1>11, <1>12, <1>13, <1>14, <1>15, <1>16, <1>17, <1>18 DEF Next, Worker

-----------------------------------------------------------------------------
(* The ring, and who heard of it                                           *)

\* What has been written to the ring is a body's whose status is a stream's, all of
\* it is counted unless the writing was refused, and the latch says whether the
\* status is that of a body.
RingOk ==
    /\ ring \in Seq(Bytes) /\ audio_bytes \in 0..Len(ring)
    /\ rc # "failed" => audio_bytes = Len(ring)
    /\ got_body => http_status = code
    /\ ~got_body \/ pc \in {"start", "nobundle", "wait", "headers"} => ring = <<>>
    /\ ring # <<>> \/ pc = "feed" => got_body /\ status_is_streamable(code)
    /\ pc \in {"start", "nobundle"} => http_status = 0
    /\ pc \notin {"performed", "close", "finish", "finished"} => rc = "none"
    /\ pc \in {"start", "nobundle", "headers"} => ~got_body

\* Every step keeps it.
LEMMA RingStep ==
    ASSUME WireOk, IcyOk, HeadOk, RingOk, [Next]_vars
    PROVE  RingOk'
  <1> USE DEF RingOk, wire, head, end, icyVars
  <1>1. CASE NoBundle
    BY <1>1 DEF NoBundle
  <1>2. CASE Perform
    BY <1>2 DEF Perform
  <1>3. CASE StatusLine
    BY <1>3 DEF StatusLine, Rearm
  <1>4. CASE HeaderLine
    BY <1>4 DEF HeaderLine
  <1>5. CASE HeadersEnd
    BY <1>5 DEF HeadersEnd
  <1>6. CASE Deliver
    BY <1>6 DEF Deliver
  <1>7. CASE WriteCb
    <2>1. UNCHANGED <<ring, audio_bytes, code>> /\ pc = "write"
      BY <1>7 DEF WriteCb
    <2>2. CASE WriteStopped
      BY <1>7, <2>1, <2>2 DEF WriteStopped, Refused
    <2>3. CASE ~got_body /\ FirstPiece
      BY <1>7, <2>1, <2>3 DEF FirstPiece, Took, Refused
    <2>4. CASE got_body /\ LaterPiece
      BY <1>7, <2>1, <2>4 DEF LaterPiece, Took, Refused
    <2> QED BY <1>7, <2>2, <2>3, <2>4 DEF WriteCb
  <1>8. CASE FeedAudio
    <2>1. pc = "feed" /\ UNCHANGED <<got_body, http_status, code>> /\ data \in Seq(Bytes)
      BY <1>8 DEF FeedAudio, IcyOk
    <2>0. ring \in Seq(Bytes) /\ Len(ring) \in Nat /\ audio_bytes \in 0..Len(ring)
      OBVIOUS
    <2>2. CASE /\ ring' = ring \o SubSeq(data, 1, AudioRun)
               /\ audio_bytes' = audio_bytes + AudioRun
               /\ UNCHANGED <<pc, rc>>
      <3> DEFINE n == AudioRun
                 s == SubSeq(data, 1, n)
      <3>1. n \in 0..Len(data)
        BY AudioRunIs
      <3> HIDE DEF n
      <3>2. s \in Seq(Bytes) /\ Len(s) = n
        BY <2>1, <3>1
      <3> HIDE DEF s
      <3>3. ring \o s \in Seq(Bytes) /\ Len(ring \o s) = Len(ring) + n
        BY <2>0, <3>1, <3>2
      <3>4. ring' = ring \o s /\ audio_bytes' = audio_bytes + n
        BY <2>2 DEF n, s
      <3>5. /\ ring' \in Seq(Bytes) /\ audio_bytes' \in 0..Len(ring')
            /\ audio_bytes = Len(ring) => audio_bytes' = Len(ring')
        <4>1. ring' \in Seq(Bytes) /\ Len(ring') = Len(ring) + n
          BY <3>3, <3>4, Zenon
        <4>2. n \in Nat
          BY <3>1
        <4>3. Len(ring) \in Nat /\ audio_bytes \in 0..Len(ring) /\ audio_bytes' = audio_bytes + n
          BY <2>0, <3>4
        <4>4. \A l \in Nat : audio_bytes \in 0..l => audio_bytes + n \in 0..(l + n)
          BY <4>2
        <4> QED BY <4>1, <4>3, <4>4, Zenon
      <3> QED BY <2>1, <2>2, <3>5
    <2>3. CASE (\E k \in 0..(AudioRun - 1) : ring' = ring \o SubSeq(data, 1, k)) /\ Refused
               /\ UNCHANGED audio_bytes
      <3>1. PICK k \in 0..(AudioRun - 1) : ring' = ring \o SubSeq(data, 1, k)
        BY <2>3
      <3>2. k \in 0..Len(data)
        BY AudioRunIs
      <3> DEFINE s == SubSeq(data, 1, k)
      <3>3. s \in Seq(Bytes) /\ Len(s) = k
        BY <2>1, <3>2
      <3>4. ring' = ring \o s
        BY <3>1
      <3> HIDE DEF s
      <3>5. ring' \in Seq(Bytes) /\ Len(ring') = Len(ring) + k
        <4>1. ring \o s \in Seq(Bytes) /\ Len(ring \o s) = Len(ring) + k
          BY <2>0, <3>3
        <4> QED BY <3>4, <4>1, Zenon
      <3>6. audio_bytes' \in 0..Len(ring')
        BY <2>0, <2>3, <3>2, <3>5
      <3> QED BY <2>1, <2>3, <3>5, <3>6 DEF Refused
    <2> QED BY <1>8, <2>2, <2>3 DEF FeedAudio
  <1>9. CASE FeedMeta
    BY <1>9 DEF FeedMeta, ReadLen, ReadMeta
  <1>10. CASE Fed
    BY <1>10 DEF Fed, Took, Refused
  <1>11. CASE Follow
    <2>1. status_is_streamable(code) => ~resp.follow
      BY AnswersAre DEF WireOk, status_is_streamable
    <2> QED BY <1>11, <2>1 DEF Follow
  <1>12. CASE TransferEnds
    BY <1>12 DEF TransferEnds
  <1>13. CASE Cancelled
    BY <1>13 DEF Cancelled
  <1>14. CASE Conclude
    BY <1>14 DEF Conclude, LastHeaders
  <1>15. CASE CloseRing
    BY <1>15 DEF CloseRing
  <1>16. CASE Finish
    BY <1>16 DEF Finish
  <1>17. CASE Abort \/ Stop
    BY <1>17 DEF Abort, Stop
  <1>18. CASE Joined \/ UNCHANGED vars
    BY <1>18 DEF Joined, vars
  <1> QED
    BY <1>1, <1>2, <1>3, <1>4, <1>5, <1>6, <1>7, <1>8, <1>9, <1>10,
       <1>11, <1>12, <1>13, <1>14, <1>15, <1>16, <1>17, <1>18 DEF Next, Worker

\* on_headers is called once, for the response whose body is played.
ToldOk ==
    /\ got_body /\ ~Redirecting(code) =>
           announced = <<[type |-> content_type, status |-> code]>>
    /\ \/ announced = <<>>
       \/ pc \in {"close", "finish", "finished"}
       \/ /\ pc \notin {"start", "nobundle", "wait", "headers"}
          /\ got_body /\ ~Redirecting(http_status)

\* Every step keeps it.
LEMMA ToldStep ==
    ASSUME WireOk, HeadOk, RingOk, ToldOk, [Next]_vars
    PROVE  ToldOk'
  <1> USE DEF ToldOk, wire, head, end, icyVars
  <1>1. CASE NoBundle
    BY <1>1 DEF NoBundle
  <1>2. CASE Perform
    BY <1>2 DEF Perform, RingOk
  <1>3. CASE StatusLine
    BY <1>3 DEF StatusLine, Rearm, RingOk
  <1>4. CASE HeaderLine
    BY <1>4 DEF HeaderLine, RingOk
  <1>5. CASE HeadersEnd
    BY <1>5 DEF HeadersEnd
  <1>6. CASE Deliver
    BY <1>6 DEF Deliver
  <1>7. CASE WriteCb
    <2>1. UNCHANGED <<ring, code, content_type>> /\ pc = "write"
      BY <1>7 DEF WriteCb
    <2>2. CASE WriteStopped
      BY <1>7, <2>1, <2>2 DEF WriteStopped, Refused
    <2>3. CASE ~got_body /\ FirstPiece
      <3>1. announced = <<>> /\ ring = <<>>
        BY <2>1, <2>3 DEF RingOk
      <3>2. CASE Redirecting(code)
        BY <2>1, <2>3, <3>1, <3>2 DEF FirstPiece, Took
      <3>3. CASE ~Redirecting(code)
        <4>1. announced' = <<[type |-> content_type, status |-> code]>>
          BY <2>3, <3>1, <3>3 DEF FirstPiece, Announce
        <4>2. got_body' /\ http_status' = code /\ pc' \in {"feed", "performed"}
          BY <2>3, <3>3 DEF FirstPiece, Refused
        <4> QED BY <2>1, <3>3, <4>1, <4>2
      <3> QED BY <3>2, <3>3
    <2>4. CASE got_body /\ LaterPiece
      <3>1. UNCHANGED <<announced, got_body, http_status>> /\ pc' \in {"body", "feed", "performed"}
        BY <2>4 DEF LaterPiece, Took, Refused
      <3>2. http_status = code
        BY <2>4 DEF RingOk
      <3> QED BY <2>1, <2>4, <3>1, <3>2
    <2> QED BY <1>7, <2>2, <2>3, <2>4 DEF WriteCb
  <1>8. CASE FeedAudio
    BY <1>8 DEF FeedAudio, PassAudio, Refused
  <1>9. CASE FeedMeta
    BY <1>9 DEF FeedMeta, ReadLen, ReadMeta
  <1>10. CASE Fed
    BY <1>10 DEF Fed, Took, Refused
  <1>11. CASE Follow
    <2>1. got_body => Redirecting(http_status)
      BY <1>11, AnswersAre DEF WireOk, RingOk, Redirecting, Follow
    <2>2. ring = <<>>
      BY <1>11, AnswersAre DEF WireOk, RingOk, status_is_streamable, Follow
    <2> QED BY <1>11, <2>1, <2>2 DEF Follow
  <1>12. CASE TransferEnds
    BY <1>12 DEF TransferEnds
  <1>13. CASE Cancelled
    BY <1>13 DEF Cancelled
  <1>14. CASE Conclude
    BY <1>14 DEF Conclude, LastHeaders, RingOk
  <1>15. CASE CloseRing
    BY <1>15 DEF CloseRing
  <1>16. CASE Finish
    BY <1>16 DEF Finish
  <1>17. CASE Abort \/ Stop
    BY <1>17 DEF Abort, Stop
  <1>18. CASE Joined \/ UNCHANGED vars
    BY <1>18 DEF Joined, vars
  <1> QED
    BY <1>1, <1>2, <1>3, <1>4, <1>5, <1>6, <1>7, <1>8, <1>9, <1>10,
       <1>11, <1>12, <1>13, <1>14, <1>15, <1>16, <1>17, <1>18 DEF Next, Worker

-----------------------------------------------------------------------------
(* The verdict                                                             *)

\* The verdict, once it is there, is an honest one.
EndedOk ==
    /\ pc \in {"close", "finish", "finished"} /\ ~stop =>
           /\ result = "clean" <=> rc = "ok" /\ ring # <<>>
           /\ result = "status" <=> http_status > 0 /\ ~status_is_streamable(http_status)
           /\ result = "clean" => (notice <=> resp.meta = "bad")
    /\ pc \in {"finish", "finished"} => closed

\* Every step keeps it.
LEMMA EndedStep ==
    ASSUME WireOk, HeadOk, RingOk, EndedOk, [Next]_vars
    PROVE  EndedOk'
  <1> USE DEF EndedOk, wire, head, end, icyVars
  <1>1. CASE NoBundle
    BY <1>1 DEF NoBundle, RingOk, status_is_streamable
  <1>2. CASE Perform
    BY <1>2 DEF Perform
  <1>3. CASE StatusLine
    BY <1>3 DEF StatusLine, Rearm
  <1>4. CASE HeaderLine
    BY <1>4 DEF HeaderLine
  <1>5. CASE HeadersEnd
    BY <1>5 DEF HeadersEnd
  <1>6. CASE Deliver
    BY <1>6 DEF Deliver
  <1>7. CASE WriteCb
    BY <1>7 DEF WriteCb, WriteStopped, FirstPiece, LaterPiece, Took, Refused
  <1>8. CASE FeedAudio
    BY <1>8 DEF FeedAudio, PassAudio, Refused
  <1>9. CASE FeedMeta
    BY <1>9 DEF FeedMeta, ReadLen, ReadMeta
  <1>10. CASE Fed
    BY <1>10 DEF Fed, Took, Refused
  <1>11. CASE Follow
    BY <1>11 DEF Follow
  <1>12. CASE TransferEnds
    BY <1>12 DEF TransferEnds
  <1>13. CASE Cancelled
    BY <1>13 DEF Cancelled
  <1>14. CASE Conclude
    <2>1. pc' = "close" /\ UNCHANGED <<rc, ring, resp, stop>>
      BY <1>14 DEF Conclude
    <2>2. CASE ~stop
      <3>1. http_status' = code
        BY <1>14, <2>2 DEF Conclude, LastHeaders, RingOk
      <3>2. result' = Verdict(code)
        BY <1>14, <2>2, <3>1 DEF Conclude
      <3>3. notice' = (result' = "clean" /\ metaint_bad)
        BY <1>14 DEF Conclude
      <3>4. code \in Nat
        BY AnswersAre DEF WireOk, Responses, Statuses
      <3>5. rc # "failed" => (audio_bytes = 0 <=> ring = <<>>)
        BY DEF RingOk
      <3>6. ring # <<>> => status_is_streamable(code) /\ unread = {} /\ code > 0
        BY <3>4 DEF RingOk, HeadOk, status_is_streamable
      <3>7. result' = "clean" <=> rc = "ok" /\ ring # <<>>
        BY <3>2, <3>4, <3>5, <3>6 DEF Verdict
      <3>8. result' = "status" <=> code > 0 /\ ~status_is_streamable(code)
        BY <3>2 DEF Verdict
      <3>9. result' = "clean" => (metaint_bad <=> resp.meta = "bad")
        BY <3>6, <3>7 DEF HeadOk
      <3>10. result' = "clean" => (notice' <=> resp'.meta = "bad")
        BY <2>1, <3>3, <3>9
      <3> QED BY <2>1, <3>1, <3>7, <3>8, <3>10
    <2> QED BY <2>1, <2>2
  <1>15. CASE CloseRing
    BY <1>15 DEF CloseRing
  <1>16. CASE Finish
    BY <1>16 DEF Finish
  <1>17. CASE Abort \/ Stop
    BY <1>17 DEF Abort, Stop
  <1>18. CASE Joined \/ UNCHANGED vars
    BY <1>18 DEF Joined, vars
  <1> QED
    BY <1>1, <1>2, <1>3, <1>4, <1>5, <1>6, <1>7, <1>8, <1>9, <1>10,
       <1>11, <1>12, <1>13, <1>14, <1>15, <1>16, <1>17, <1>18 DEF Next, Worker

-----------------------------------------------------------------------------
(* What is to be heard of a response                                       *)

\* A station's body is laid out in runs and blocks; a stream without an
\* icy-metaint is all audio.
LEMMA StreamBodies ==
    ASSUME NEW r \in Answers \cup {NoResponse}, status_is_streamable(r.status)
    PROVE  /\ r.meta = "good" => \E A, B \in {1, 1 + UNIT} : Laid(r.body, A, B)
           /\ r.meta = "none" => \A k \in 1..Len(r.body) : r.body[k].is = "audio"
  <1>1. r.status = 200 /\ r \in Answers
    BY AnswersAre DEF Responses, Statuses, status_is_streamable, NoResponse
  <1>2. CASE r \in Shape({200}, {"good"}, TwoBlocks)
    <2>1. r.meta = "good" /\ r.body \in TwoBlocks
      BY <1>2 DEF Shape
    <2>2. PICK a \in Blocks \cup {<<>>}, b \in Blocks \cup {<<>>} : r.body = Station(a, b)
      BY <2>1 DEF TwoBlocks
    <2> QED BY <2>1, <2>2, StationLaid
  <1>3. CASE r \in Shape({200}, {"bad"}, OneBlock)
    BY <1>3 DEF Shape
  <1>4. CASE r \in Shape({200}, {"none"}, {<<>>, Run(0) \o Run(1)})
    <2>1. r.meta = "none" /\ (r.body = <<>> \/ r.body = Run(0) \o Run(1))
      BY <1>4 DEF Shape
    <2>2. CASE r.body = <<>>
      BY <2>1, <2>2
    <2>3. CASE r.body = Run(0) \o Run(1)
      <3>1. PICK r0, r1 : r0 = Run(0) /\ r1 = Run(1)
        OBVIOUS
      <3>2. /\ r0 \in Seq(Bytes) /\ r1 \in Seq(Bytes)
            /\ \A i \in 1..Len(r0) : r0[i].is = "audio"
            /\ \A i \in 1..Len(r1) : r1[i].is = "audio"
        <4>1. /\ r0 \in Seq(Bytes) /\ r1 \in Seq(Bytes)
              /\ Len(r0) = METAINT /\ Len(r1) = METAINT
          BY <3>1, RunBytes
        <4>2. ASSUME NEW i \in 1..METAINT
              PROVE  r0[i] = Audio(0 * METAINT + i) /\ r1[i] = Audio(1 * METAINT + i)
          BY <3>1 DEF Run
        <4>3. \A i \in 1..METAINT : r0[i].is = "audio" /\ r1[i].is = "audio"
          <5> SUFFICES ASSUME NEW i \in 1..METAINT
                       PROVE  r0[i].is = "audio" /\ r1[i].is = "audio"
            OBVIOUS
          <5>1. \A n : Audio(n).is = "audio"
            BY DEF Audio
          <5> QED BY <4>2, <5>1, Zenon
        <4> QED BY <4>1, <4>3
      <3>3. r.body = r0 \o r1
        BY <2>3, <3>1
      <3>4. /\ Len(r.body) = Len(r0) + Len(r1)
            /\ \A i \in 1..Len(r0) : r.body[i] = r0[i]
            /\ \A i \in 1..Len(r1) : r.body[Len(r0) + i] = r1[i]
        BY <3>2, <3>3, Joins
      <3>5. ASSUME NEW i \in 1..Len(r.body) PROVE r.body[i].is = "audio"
        <4>0. Len(r0) \in Nat /\ Len(r1) \in Nat
          BY <3>2
        <4>1. CASE i <= Len(r0)
          <5>1. i \in 1..Len(r0)
            BY <4>0, <4>1
          <5> QED BY <5>1, <3>2, <3>4
        <4>2. CASE i > Len(r0)
          <5> DEFINE n == i - Len(r0)
          <5>1. n \in 1..Len(r1) /\ i = Len(r0) + n
            BY <4>0, <4>2, <3>4
          <5> HIDE DEF n
          <5> QED BY <5>1, <3>2, <3>4
        <4> QED BY <4>0, <4>1, <4>2
      <3> QED BY <2>1, <3>5
    <2> QED BY <2>1, <2>2, <2>3
  <1>5. CASE r.status # 200
    BY <1>1, <1>5
  <1>6. \/ r \in Shape({200}, {"good"}, TwoBlocks)
        \/ r \in Shape({200}, {"bad"}, OneBlock)
        \/ r \in Shape({200}, {"none"}, {<<>>, Run(0) \o Run(1)})
        \/ r.status # 200
    <2>1. /\ r \in Shape({204}, {"none"}, {<<>>}) => r.status = 204
          /\ r \in Shape({404}, {"none", "good"}, {<<>>, Page}) => r.status = 404
      BY DEF Shape
    <2>2. r \in [status : {302}, meta : {"none", "good", "bad"}, typed : {TRUE},
                 follow : BOOLEAN, body : {<<>>, Page}] => r.status = 302
      OBVIOUS
    <2>3. \/ r \in Shape({200}, {"good"}, TwoBlocks)
          \/ r \in Shape({200}, {"bad"}, OneBlock)
          \/ r \in Shape({200}, {"none"}, {<<>>, Run(0) \o Run(1)})
          \/ r \in Shape({204}, {"none"}, {<<>>})
          \/ r \in Shape({404}, {"none", "good"}, {<<>>, Page})
          \/ r \in [status : {302}, meta : {"none", "good", "bad"}, typed : {TRUE},
                     follow : BOOLEAN, body : {<<>>, Page}]
      BY <1>1, AnswersByShape, ZenonT(40)
    <2>4. r.status \in {204, 404, 302} => r.status # 200
      OBVIOUS
    <2> QED BY <2>1, <2>2, <2>3, <2>4, ZenonT(30)
  <1> QED
    BY <1>2, <1>3, <1>4, <1>5, <1>6

\* The counts are naturals, and grow.
LEMMA HeardGrows ==
    ASSUME WireOk, NEW n \in Nat, NEW k \in Nat, n <= k
    PROVE  /\ HeardBy(n) \in Nat /\ HeardBy(k) \in Nat
           /\ HeardBy(n) <= HeardBy(k)
  <1> DEFINE N == {m \in ToHear : m <= n}  K == {m \in ToHear : m <= k}
  <1>1. IsFiniteSet(DOMAIN resp.body) /\ DOMAIN resp.body \subseteq Nat
    <2>1. resp.body \in Seq(Bytes)
      BY AnswersAre DEF WireOk, Responses
    <2>2. DOMAIN resp.body = 1..Len(resp.body) /\ Len(resp.body) \in Int
      BY <2>1
    <2>3. \A i \in Int : IsFiniteSet(1..i)
      BY FS_Interval
    <2> QED BY <2>2, <2>3
  <1>2. K \in SUBSET DOMAIN resp.body
    BY DEF ToHear
  <1>3. N \in SUBSET K
    <2>1. \A m \in ToHear : m \in Nat
      BY <1>1 DEF ToHear
    <2> QED BY <2>1
  <1> HIDE DEF N, K
  <1>4. IsFiniteSet(K)
    BY <1>1, <1>2, FS_Subset
  <1>5. IsFiniteSet(N) /\ Cardinality(N) <= Cardinality(K)
    BY <1>3, <1>4, FS_Subset
  <1>6. Cardinality(N) \in Nat /\ Cardinality(K) \in Nat
    BY <1>4, <1>5, FS_CardinalityType
  <1> QED
    BY <1>5, <1>6 DEF HeardBy, N, K

\* Nothing of a response that is no stream.
LEMMA NothingToHear ==
    ASSUME ~status_is_streamable(resp.status) PROVE ToHear = {} /\ \A n : HeardBy(n) = 0
  BY FS_EmptySet DEF ToHear, HeardBy

\* Nothing has been heard before the first byte.
LEMMA HeardAtFirst == ASSUME WireOk PROVE HeardBy(0) = 0
  <1>1. resp.body \in Seq(Bytes)
    BY AnswersAre DEF WireOk, Responses
  <1>2. {m \in ToHear : m <= 0} = {}
    BY <1>1 DEF ToHear
  <1> QED
    BY <1>2, FS_EmptySet DEF HeardBy

\* All of a stream whose blocks cannot be told, or that has none.
LEMMA HeardRaw ==
    ASSUME WireOk, status_is_streamable(resp.status), resp.meta # "good",
           NEW n \in 0..Len(resp.body)
    PROVE  HeardBy(n) = n /\ ToHear = 1..Len(resp.body)
  <1>1. resp.body \in Seq(Bytes) /\ resp.meta \in {"none", "good", "bad"}
    BY AnswersAre DEF WireOk, Responses
  <1>2. resp.meta = "bad" \/ \A k \in 1..Len(resp.body) : resp.body[k].is = "audio"
    BY <1>1, StreamBodies DEF WireOk
  <1>3. ToHear = 1..Len(resp.body)
    BY <1>1, <1>2 DEF ToHear
  <1>4. {m \in ToHear : m <= n} = 1..n
    BY <1>1, <1>3
  <1>5. Cardinality(1..n) = n
    <2>1. n \in Int /\ 1 \in Int /\ n \in Nat
      BY <1>1
    <2>2. Cardinality(1..n) = IF 1 > n THEN 0 ELSE n - 1 + 1
      BY <2>1, FS_Interval
    <2> QED BY <2>1, <2>2
  <1> QED
    BY <1>3, <1>4, <1>5 DEF HeardBy

\* Of a station: the first i bytes of run j, and no more of the block behind it.
LEMMA HeardLaid ==
    ASSUME WireOk, status_is_streamable(resp.status), resp.meta = "good",
           NEW A \in {1, 1 + UNIT}, NEW B \in {1, 1 + UNIT}, Laid(resp.body, A, B),
           NEW j \in 0..2
    PROVE  /\ \A i \in 0..METAINT : HeardBy(RunStart(j, A, B) + i) = Played(j) + i
           /\ j < 2 => \A i \in 0..BlockSize(j, A, B) :
                  HeardBy(RunStart(j, A, B) + METAINT + i) = Played(j) + METAINT
  <1>1. METAINT \in Nat \ {0} /\ A \in Nat \ {0} /\ B \in Nat \ {0}
    BY StreamAssumption, IcyAssumption
  <1>2. resp.body \in Seq(Bytes)
    BY AnswersAre DEF WireOk, Responses
  <1>3. ToHear = AudioPlaces(A, B)
    <2>1. ToHear = {k \in 1..Len(resp.body) : resp.body[k].is = "audio"}
      BY <1>2 DEF ToHear
    <2> QED BY <2>1, AudioOfLaid
  <1>4. ASSUME NEW n \in Nat
        PROVE  HeardBy(n) =
                   IF n <= METAINT THEN n
                   ELSE IF n <= METAINT + A THEN METAINT
                   ELSE IF n <= METAINT + A + METAINT THEN n - A
                   ELSE IF n <= METAINT + A + METAINT + B THEN METAINT + METAINT
                   ELSE IF n <= METAINT + A + METAINT + B + METAINT THEN n - A - B
                   ELSE METAINT + METAINT + METAINT
    <2>1. HeardBy(n) = Cardinality({k \in AudioPlaces(A, B) : k <= n})
      BY <1>3 DEF HeardBy
    <2>2. Cardinality({k \in AudioPlaces(A, B) : k <= n}) =
              IF n <= METAINT THEN n
              ELSE IF n <= METAINT + A THEN METAINT
              ELSE IF n <= METAINT + A + METAINT THEN n - A
              ELSE IF n <= METAINT + A + METAINT + B THEN METAINT + METAINT
              ELSE IF n <= METAINT + A + METAINT + B + METAINT THEN n - A - B
              ELSE METAINT + METAINT + METAINT
      BY <1>1, RunsCounted
    <2> QED BY <2>1, <2>2
  <1>5. /\ Played(0) = 0 /\ Played(1) = METAINT /\ Played(2) = METAINT + METAINT
        /\ RunStart(0, A, B) = 0 /\ RunStart(1, A, B) = METAINT + A
        /\ RunStart(2, A, B) = METAINT + A + METAINT + B
        /\ BlockSize(0, A, B) = A /\ BlockSize(1, A, B) = B
    BY <1>1 DEF Played, RunStart, BlockSize
  <1>6. ASSUME NEW i \in 0..METAINT
        PROVE  HeardBy(RunStart(j, A, B) + i) = Played(j) + i
    <2>1. CASE j = 0
      BY <2>1, <1>1, <1>4, <1>5
    <2>2. CASE j = 1
      BY <2>2, <1>1, <1>4, <1>5
    <2>3. CASE j = 2
      BY <2>3, <1>1, <1>4, <1>5
    <2> QED BY <2>1, <2>2, <2>3
  <1>7. ASSUME j < 2, NEW i \in 0..BlockSize(j, A, B)
        PROVE  HeardBy(RunStart(j, A, B) + METAINT + i) = Played(j) + METAINT
    <2>1. CASE j = 0
      BY <2>1, <1>1, <1>4, <1>5
    <2>2. CASE j = 1
      BY <2>2, <1>1, <1>4, <1>5
    <2> QED BY <2>1, <2>2, <1>7
  <1> QED
    BY <1>6, <1>7

-----------------------------------------------------------------------------
(* Where the parser stands in the body                                     *)

\* The bytes of the body the parser has read.
Consumed == off - Len(data)

\* The piece at hand is the body's next; the first one begins it.
DataOk ==
    /\ data \in Seq(Bytes) /\ Len(data) <= off
    /\ \A k \in 1..Len(data) : data[k] = resp.body[Consumed + k]
    /\ pc \notin {"write", "feed"} => data = <<>>
    /\ pc \in {"headers", "body", "write"} /\ ~got_body => Consumed = 0

\* A piece of a sequence.
LEMMA PieceIs ==
    ASSUME NEW s \in Seq(Bytes), NEW a \in Nat, NEW n \in Nat, a + n <= Len(s)
    PROVE  /\ SubSeq(s, a + 1, a + n) \in Seq(Bytes) /\ Len(SubSeq(s, a + 1, a + n)) = n
           /\ \A k \in 1..n : SubSeq(s, a + 1, a + n)[k] = s[a + k]
  OBVIOUS

\* The parser goes on by n bytes of the piece.
LEMMA Advances ==
    ASSUME WireOk, DataOk, NEW n \in 0..Len(data), data' = Rest(n), UNCHANGED <<off, resp>>
    PROVE  /\ data' \in Seq(Bytes) /\ Len(data') = Len(data) - n /\ Consumed' = Consumed + n
           /\ Len(data') <= off'
           /\ \A k \in 1..Len(data') : data'[k] = resp'.body[Consumed' + k]
  <1>1. /\ Rest(n) \in Seq(Bytes) /\ Len(Rest(n)) = Len(data) - n
        /\ \A k \in 1..(Len(data) - n) : Rest(n)[k] = data[n + k]
    BY DEF DataOk, Rest
  <1>2. Len(data) \in Nat /\ off \in Nat /\ Len(data) <= off
    <2>1. off \in 0..Len(resp.body) /\ data \in Seq(Bytes) /\ Len(data) <= off
      BY DEF WireOk, DataOk
    <2>2. resp.body \in Seq(Bytes)
      BY AnswersAre DEF WireOk, Responses
    <2> QED BY <2>1, <2>2
  <1>3. data' \in Seq(Bytes) /\ Len(data') = Len(data) - n /\ Consumed' = Consumed + n
    BY <1>1, <1>2 DEF Consumed
  <1>4. ASSUME NEW k \in 1..Len(data')
        PROVE  data'[k] = resp'.body[Consumed' + k]
    <2> DEFINE i == n + k
    <2>1. i \in 1..Len(data) /\ Consumed' + k = Consumed + i /\ Consumed \in Nat
      BY <1>2, <1>3 DEF Consumed
    <2>2. data'[k] = data[i]
      BY <1>1, <1>3
    <2> HIDE DEF i
    <2>3. data[i] = resp.body[Consumed + i]
      BY <2>1 DEF DataOk
    <2> QED BY <2>1, <2>2, <2>3
  <1> QED
    BY <1>2, <1>3, <1>4

\* Nothing is left of the piece.
LEMMA NoneLeft ==
    ASSUME WireOk, DataOk, data' = <<>>, UNCHANGED <<off, resp>>
    PROVE  /\ data' \in Seq(Bytes) /\ Len(data') = 0 /\ Len(data') <= off'
           /\ \A k \in 1..Len(data') : data'[k] = resp'.body[Consumed' + k]
  <1>1. off \in Nat
    <2>1. resp.body \in Seq(Bytes)
      BY AnswersAre DEF WireOk, Responses
    <2> QED BY <2>1 DEF WireOk
  <1> QED
    BY <1>1

\* Every step keeps it.
LEMMA DataStep ==
    ASSUME WireOk, HeadOk, IcyOk, RingOk, DataOk, [Next]_vars
    PROVE  DataOk'
  <1> USE DEF wire, head, end, icyVars
  <1>1. CASE NoBundle
    BY <1>1 DEF NoBundle, DataOk, Consumed
  <1>2. CASE Perform
    BY <1>2 DEF Perform, DataOk, Consumed
  <1>3. CASE StatusLine
    <2>1. data = <<>> /\ UNCHANGED data
      BY <1>3 DEF StatusLine, DataOk
    <2>2. Len(data') = 0 /\ off' = 0 /\ pc' = "headers" /\ data' \in Seq(Bytes)
      BY <1>3, <2>1 DEF StatusLine
    <2>3. Consumed' = 0
      BY <2>2 DEF Consumed
    <2> QED BY <2>1, <2>2, <2>3 DEF DataOk
  <1>4. CASE HeaderLine
    BY <1>4 DEF HeaderLine, DataOk, Consumed
  <1>5. CASE HeadersEnd
    BY <1>5 DEF HeadersEnd, DataOk, Consumed
  <1>6. CASE Deliver
    <2>1. PICK n \in 1..(Len(resp.body) - off) :
              data' = SubSeq(resp.body, off + 1, off + n) /\ off' = off + n
      BY <1>6 DEF Deliver
    <2>2. resp.body \in Seq(Bytes) /\ off \in 0..Len(resp.body) /\ Len(resp.body) \in Nat
      BY AnswersAre DEF Responses, WireOk
    <2>3. /\ data' \in Seq(Bytes) /\ Len(data') = n
          /\ \A k \in 1..n : data'[k] = resp.body[off + k]
      <3>1. off \in Nat /\ n \in Nat /\ off + n <= Len(resp.body)
        BY <2>1, <2>2
      <3> QED BY <2>1, <2>2, <3>1, PieceIs
    <2>4. Consumed' = off /\ Len(data') <= off'
      BY <2>1, <2>2, <2>3 DEF Consumed
    <2>5. data = <<>> /\ Consumed = off
      BY <1>6, <2>2 DEF Deliver, DataOk, Consumed
    <2>6. UNCHANGED <<resp, got_body>> /\ pc = "body" /\ pc' = "write"
      BY <1>6 DEF Deliver
    <2>7. \A k \in 1..Len(data') : data'[k] = resp'.body[Consumed' + k]
      BY <2>3, <2>4, <2>6
    <2>8. ~got_body => Consumed' = 0
      BY <2>4, <2>5, <2>6 DEF DataOk
    <2> QED BY <2>3, <2>4, <2>6, <2>7, <2>8 DEF DataOk
  <1>7. CASE WriteCb
    <2>1. UNCHANGED <<resp, off>> /\ pc = "write"
      BY <1>7 DEF WriteCb
    <2>2. CASE data' = <<>> /\ got_body'
      BY <2>1, <2>2, NoneLeft DEF DataOk
    <2>3. CASE UNCHANGED data /\ pc' = "feed"
      BY <2>1, <2>3 DEF DataOk, Consumed
    <2>4. CASE data' = <<>> /\ pc' = "performed"
      BY <2>1, <2>4, NoneLeft DEF DataOk
    <2>5. \/ data' = <<>> /\ got_body'
          \/ UNCHANGED data /\ pc' = "feed"
          \/ data' = <<>> /\ pc' = "performed"
      BY <1>7 DEF WriteCb, WriteStopped, FirstPiece, LaterPiece, Took, Refused
    <2> QED BY <2>2, <2>3, <2>4, <2>5
  <1>8. CASE FeedAudio
    <2>1. UNCHANGED <<resp, off, got_body>> /\ pc = "feed"
      BY <1>8 DEF FeedAudio
    <2>2. CASE PassAudio /\ UNCHANGED pc
      <3>1. data' = Rest(AudioRun) /\ AudioRun \in 0..Len(data)
        BY <2>2, AudioRunIs DEF PassAudio
      <3> QED BY <2>1, <2>2, <3>1, Advances DEF DataOk
    <2>3. CASE data' = <<>> /\ pc' = "performed"
      BY <2>1, <2>3, NoneLeft DEF DataOk
    <2> QED BY <1>8, <2>2, <2>3 DEF FeedAudio, Refused
  <1>9. CASE FeedMeta
    <2>1. UNCHANGED <<resp, off, got_body, pc>> /\ pc = "feed"
      BY <1>9 DEF FeedMeta
    <2>2. \E n \in 0..Len(data) : data' = Rest(n)
      <3>1. CASE ReadLen
        <4>1. 1 \in 0..Len(data)
          BY <1>9 DEF FeedMeta, DataOk
        <4> QED BY <3>1, <4>1 DEF ReadLen
      <3>2. CASE ReadMeta
        <4>1. Smaller(icy.meta_left, Len(data)) \in 0..Len(data)
          BY DEF IcyOk, Smaller
        <4> QED BY <3>2, <4>1 DEF ReadMeta
      <3> QED BY <1>9, <3>1, <3>2 DEF FeedMeta
    <2>3. PICK n \in 0..Len(data) : data' = Rest(n)
      BY <2>2
    <2> QED BY <2>1, <2>3, Advances DEF DataOk
  <1>10. CASE Fed
    <2>1. data = <<>> /\ UNCHANGED <<data, off, resp, got_body>> /\ got_body
      BY <1>10 DEF Fed, RingOk
    <2> QED BY <2>1 DEF DataOk, Consumed
  <1>11. CASE Follow
    BY <1>11 DEF Follow, DataOk, Consumed
  <1>12. CASE TransferEnds
    BY <1>12 DEF TransferEnds, DataOk, Consumed
  <1>13. CASE Cancelled
    BY <1>13 DEF Cancelled, DataOk, Consumed
  <1>14. CASE Conclude
    BY <1>14 DEF Conclude, LastHeaders, DataOk, Consumed
  <1>15. CASE CloseRing
    BY <1>15 DEF CloseRing, DataOk, Consumed
  <1>16. CASE Finish
    BY <1>16 DEF Finish, DataOk, Consumed
  <1>17. CASE Abort \/ Stop
    BY <1>17 DEF Abort, Stop, DataOk, Consumed
  <1>18. CASE Joined \/ UNCHANGED vars
    BY <1>18 DEF Joined, vars, DataOk, Consumed
  <1> QED
    BY <1>1, <1>2, <1>3, <1>4, <1>5, <1>6, <1>7, <1>8, <1>9, <1>10,
       <1>11, <1>12, <1>13, <1>14, <1>15, <1>16, <1>17, <1>18 DEF Next, Worker

\* The parser is in run j of the audio, before the length byte behind it, or in the
\* block behind it; what it counts says so, and all audio before is in the ring.
InRun(j, A, B) ==
    LET at == Consumed - RunStart(j, A, B)
    IN  /\ icy.state = "audio" /\ at \in 0..(METAINT - 1)
        /\ icy.audio_left = METAINT - at /\ Len(ring) = Played(j) + at

AtLen(j, A, B) ==
    /\ icy.state = "len" /\ Consumed = RunStart(j, A, B) + METAINT
    /\ icy.audio_left = 0 /\ Len(ring) = Played(j) + METAINT

InBlock(j, A, B) ==
    LET at == Consumed - RunStart(j, A, B) - METAINT - 1
    IN  /\ icy.state = "meta" /\ j < 2 /\ BlockSize(j, A, B) = 1 + UNIT
        /\ at \in 0..(UNIT - 1) /\ icy.meta_left = UNIT - at
        /\ Len(ring) = Played(j) + METAINT

Placed(A, B) ==
    \E j \in 0..2 : InRun(j, A, B) \/ AtLen(j, A, B) \/ InBlock(j, A, B)

\* While a stream is received.
Receiving == got_body /\ status_is_streamable(code) /\ pc \in {"body", "write", "feed"}

\* The parser stands somewhere in the layout, and its block size is the response's.
PlacedOk ==
    Receiving =>
        IF resp.meta = "good"
        THEN /\ icy.metaint = METAINT
             /\ \E A, B \in {1, 1 + UNIT} : Laid(resp.body, A, B) /\ Placed(A, B)
        ELSE icy.metaint = 0 /\ Len(ring) = Consumed

\* The numbers of a laid-out body.
LEMMA LaidNumbers ==
    ASSUME NEW A \in {1, 1 + UNIT}, NEW B \in {1, 1 + UNIT}, NEW j \in 0..2
    PROVE  /\ METAINT \in Nat \ {0} /\ UNIT \in Nat \ {0}
           /\ RunStart(j, A, B) \in Nat /\ Played(j) \in Nat
           /\ BlockSize(j, A, B) \in {1, 1 + UNIT}
  <1>1. METAINT \in Nat \ {0} /\ A \in Nat \ {0} /\ B \in Nat \ {0} /\ UNIT \in Nat \ {0}
    BY StreamAssumption, IcyAssumption
  <1>2. j = 0 \/ j = 1 \/ j = 2
    OBVIOUS
  <1> QED
    BY <1>1, <1>2 DEF RunStart, Played, BlockSize

\* The first run begins at 0, and each of the others behind the block before it.
LEMMA NextRun ==
    ASSUME NEW A \in {1, 1 + UNIT}, NEW B \in {1, 1 + UNIT}
    PROVE  /\ RunStart(0, A, B) = 0 /\ Played(0) = 0
           /\ \A j \in 0..1 : /\ Played(j + 1) = Played(j) + METAINT
                              /\ RunStart(j + 1, A, B) =
                                     RunStart(j, A, B) + METAINT + BlockSize(j, A, B)
  <1>1. METAINT \in Nat \ {0} /\ A \in Nat \ {0} /\ B \in Nat \ {0}
    BY StreamAssumption, IcyAssumption
  <1>2. \A j \in 0..1 : j = 0 \/ j = 1
    OBVIOUS
  <1> QED
    BY <1>1, <1>2 DEF RunStart, Played, BlockSize

\* What the parser has read is a place in the body.
LEMMA ConsumedIs ==
    ASSUME WireOk, DataOk
    PROVE  /\ Consumed \in 0..off /\ off = Consumed + Len(data) /\ off \in 0..Len(resp.body)
           /\ Len(data) \in Nat /\ Len(resp.body) \in Nat /\ Consumed \in Nat
  <1>1. data \in Seq(Bytes) /\ Len(data) <= off
    BY DEF DataOk
  <1>2. off \in 0..Len(resp.body) /\ resp.body \in Seq(Bytes)
    BY AnswersAre DEF WireOk, Responses
  <1> QED
    BY <1>1, <1>2 DEF Consumed

\* All that is to be heard of what the parser has read is in the ring.
LEMMA PlacedHeard ==
    ASSUME WireOk, DataOk, PlacedOk, Receiving
    PROVE  Len(ring) = HeardBy(Consumed)
  <1>1. status_is_streamable(resp.status) /\ Consumed \in 0..Len(resp.body)
    BY ConsumedIs DEF Receiving, WireOk
  <1>2. CASE resp.meta # "good"
    BY <1>1, <1>2, HeardRaw DEF PlacedOk
  <1>3. CASE resp.meta = "good"
    <2>1. \E A, B \in {1, 1 + UNIT} : Laid(resp.body, A, B) /\ Placed(A, B)
      BY <1>3 DEF PlacedOk
    <2>2. PICK A \in {1, 1 + UNIT} :
              \E B \in {1, 1 + UNIT} : Laid(resp.body, A, B) /\ Placed(A, B)
      BY <2>1
    <2>3. PICK B \in {1, 1 + UNIT} : Laid(resp.body, A, B) /\ Placed(A, B)
      BY <2>2
    <2>4. PICK j \in 0..2 : InRun(j, A, B) \/ AtLen(j, A, B) \/ InBlock(j, A, B)
      BY <2>3 DEF Placed
    <2>5. /\ METAINT \in Nat \ {0} /\ UNIT \in Nat \ {0}
          /\ RunStart(j, A, B) \in Nat /\ Consumed \in Nat
      BY ConsumedIs, LaidNumbers
    <2>6. /\ \A i \in 0..METAINT : HeardBy(RunStart(j, A, B) + i) = Played(j) + i
          /\ j < 2 => \A i \in 0..BlockSize(j, A, B) :
                 HeardBy(RunStart(j, A, B) + METAINT + i) = Played(j) + METAINT
      BY <1>1, <1>3, <2>3, HeardLaid
    <2>7. CASE InRun(j, A, B)
      <3> DEFINE i == Consumed - RunStart(j, A, B)
      <3>1. i \in 0..METAINT /\ Consumed = RunStart(j, A, B) + i /\ Len(ring) = Played(j) + i
        BY <2>5, <2>7, SMTT(40) DEF InRun
      <3> HIDE DEF i
      <3> QED BY <2>6, <3>1
    <2>8. CASE AtLen(j, A, B)
      <3>1. METAINT \in 0..METAINT
        BY <2>5
      <3> QED BY <2>6, <2>8, <3>1 DEF AtLen
    <2>9. CASE InBlock(j, A, B)
      <3> DEFINE i == Consumed - RunStart(j, A, B) - METAINT
      <3>1. /\ i \in 0..BlockSize(j, A, B) /\ Consumed = RunStart(j, A, B) + METAINT + i
            /\ Len(ring) = Played(j) + METAINT /\ j < 2
        BY <2>5, <2>9, SMTT(30) DEF InBlock
      <3> HIDE DEF i
      <3> QED BY <2>6, <3>1
    <2> QED BY <2>4, <2>7, <2>8, <2>9
  <1> QED
    BY <1>2, <1>3

\* A redirect's status is not a stream's.
LEMMA CodeIs ==
    ASSUME WireOk
    PROVE  code \in Statuses /\ (Redirecting(code) => ~status_is_streamable(code))
  <1>1. code \in Statuses
    BY AnswersAre DEF WireOk, Responses
  <1> QED
    BY <1>1 DEF Statuses, Redirecting, status_is_streamable

\* A step that leaves the parser, the ring and what is read alone keeps it.
LEMMA PlacedKept ==
    ASSUME PlacedOk, UNCHANGED <<resp, code, icy, ring, got_body>>, Consumed' = Consumed,
           Receiving' => Receiving
    PROVE  PlacedOk'
  BY DEF PlacedOk, Placed, InRun, AtLen, InBlock

\* A run of audio that is passed on.
LEMMA PlacedByAudio ==
    ASSUME WireOk, IcyOk, RingOk, DataOk, PlacedOk, FeedAudio, PassAudio, UNCHANGED pc,
           ring' = ring \o SubSeq(data, 1, AudioRun)
    PROVE  PlacedOk'
  <1>1. Receiving /\ UNCHANGED <<resp, code, off>>
    BY DEF FeedAudio, RingOk, Receiving, wire
  <1>2. AudioRun \in 0..Len(data) /\ Len(data) \in Nat \ {0} /\ Consumed \in Nat
    BY AudioRunIs, ConsumedIs DEF FeedAudio, DataOk
  <1>3. Consumed' = Consumed + AudioRun
    BY <1>1, <1>2, Advances DEF PassAudio
  <1>4. Len(ring') = Len(ring) + AudioRun /\ Len(ring) \in Nat
    <2>1. SubSeq(data, 1, AudioRun) \in Seq(Bytes) /\ Len(SubSeq(data, 1, AudioRun)) = AudioRun
      BY <1>2 DEF DataOk
    <2> DEFINE run == SubSeq(data, 1, AudioRun)
    <2>2. ring \in Seq(Bytes) /\ run \in Seq(Bytes) /\ Len(run) = AudioRun /\ ring' = ring \o run
      BY <2>1 DEF RingOk
    <2> HIDE DEF run
    <2> QED BY <2>2
  <1>5. CASE resp.meta # "good"
    <2>1. icy' = icy /\ Len(ring') = Consumed' /\ icy.metaint = 0
      BY <1>1, <1>2, <1>3, <1>4, <1>5 DEF PassAudio, PlacedOk
    <2> QED BY <1>1, <1>5, <2>1 DEF PlacedOk
  <1>6. CASE resp.meta = "good"
    <2>0. icy.metaint = METAINT /\ icy.metaint # 0
      BY <1>1, <1>6, StreamAssumption DEF PlacedOk
    <2>1. \E A, B \in {1, 1 + UNIT} : Laid(resp.body, A, B) /\ Placed(A, B)
      BY <1>1, <1>6 DEF PlacedOk
    <2>2. PICK A \in {1, 1 + UNIT} :
              \E B \in {1, 1 + UNIT} : Laid(resp.body, A, B) /\ Placed(A, B)
      BY <2>1
    <2>3. PICK B \in {1, 1 + UNIT} : Laid(resp.body, A, B) /\ Placed(A, B)
      BY <2>2
    <2>4. PICK j \in 0..2 : InRun(j, A, B) \/ AtLen(j, A, B) \/ InBlock(j, A, B)
      BY <2>3 DEF Placed
    <2>5. /\ METAINT \in Nat \ {0} /\ RunStart(j, A, B) \in Nat /\ Played(j) \in Nat
      BY LaidNumbers
    <2>6. InRun(j, A, B)
      BY <2>0, <2>4 DEF FeedAudio, InAudio, AtLen, InBlock
    <2> DEFINE at == Consumed - RunStart(j, A, B)
    <2>7. /\ at \in 0..(METAINT - 1) /\ icy.audio_left = METAINT - at
          /\ Len(ring) = Played(j) + at
      BY <2>6 DEF InRun
    <2>12. Consumed = RunStart(j, A, B) + at /\ AudioRun \in Nat
      BY <1>2, <2>5
    <2> HIDE DEF at
    <2>8. /\ icy'.metaint = METAINT /\ icy'.audio_left = icy.audio_left - AudioRun
          /\ icy'.state = IF icy.audio_left = AudioRun THEN "len" ELSE "audio"
      BY <2>0 DEF PassAudio, IcyOk
    <2>9. AudioRun <= METAINT - at
      BY <1>2, <2>0, <2>5, <2>7, <2>12 DEF AudioRun, Smaller
    <2>10. CASE AudioRun = icy.audio_left
      <3>1. Consumed' = RunStart(j, A, B) + METAINT /\ Len(ring') = Played(j) + METAINT
        BY <1>3, <1>4, <2>5, <2>7, <2>10, <2>12, SMTT(30)
      <3>2. icy'.state = "len" /\ icy'.audio_left = 0
        BY <2>5, <2>7, <2>8, <2>10, <2>12
      <3>3. AtLen(j, A, B)'
        BY <3>1, <3>2 DEF AtLen
      <3> QED BY <1>1, <2>0, <2>3, <2>8, <3>3, <1>6 DEF PlacedOk, Placed
    <2>11. CASE AudioRun # icy.audio_left
      <3> DEFINE to == at + AudioRun
      <3>1. /\ to \in 0..(METAINT - 1) /\ to = Consumed' - RunStart(j, A, B)
            /\ Len(ring') = Played(j) + to
        <4>1. at \in Int /\ AudioRun < METAINT - at /\ 0 <= at
          BY <2>5, <2>7, <2>9, <2>11, <2>12
        <4>2. to \in 0..(METAINT - 1)
          BY <2>5, <2>12, <4>1
        <4>3. Consumed' = RunStart(j, A, B) + to
          BY <1>3, <2>5, <2>12, <4>1
        <4>4. Len(ring') = Played(j) + to
          BY <1>4, <2>5, <2>7, <2>12, <4>1, SMTT(40)
        <4> QED BY <4>2, <4>3, <4>4, <2>5, <2>12
      <3>2. icy'.state = "audio" /\ icy'.audio_left = METAINT - to
        BY <2>5, <2>7, <2>8, <2>11, <2>12
      <3> HIDE DEF to
      <3>3. InRun(j, A, B)'
        BY <3>1, <3>2 DEF InRun
      <3> QED BY <1>1, <2>0, <2>3, <2>8, <3>3, <1>6 DEF PlacedOk, Placed
    <2> QED BY <2>10, <2>11
  <1> QED
    BY <1>5, <1>6

\* The length byte of a block.
LEMMA PlacedByLen ==
    ASSUME WireOk, IcyOk, RingOk, DataOk, PlacedOk, FeedMeta, ReadLen
    PROVE  PlacedOk' /\ data[1].val \in {0, 1}
  <1>1. Receiving /\ UNCHANGED <<resp, code, off, ring, got_body, pc>>
    BY DEF FeedMeta, RingOk, Receiving, wire
  <1>2. Len(data) \in Nat \ {0} /\ Consumed \in Nat /\ 1 \in 1..Len(data) /\ 1 \in 0..Len(data)
    BY ConsumedIs DEF FeedMeta, DataOk
  <1>3. Consumed' = Consumed + 1
    BY <1>1, <1>2, Advances DEF ReadLen
  <1>4. resp.meta = "good" /\ icy.metaint = METAINT
    BY <1>1 DEF ReadLen, PlacedOk
  <1>5. \E A, B \in {1, 1 + UNIT} : Laid(resp.body, A, B) /\ Placed(A, B)
    BY <1>1, <1>4 DEF PlacedOk
  <1>6. PICK A \in {1, 1 + UNIT} :
            \E B \in {1, 1 + UNIT} : Laid(resp.body, A, B) /\ Placed(A, B)
    BY <1>5
  <1>7. PICK B \in {1, 1 + UNIT} : Laid(resp.body, A, B) /\ Placed(A, B)
    BY <1>6
  <1>8. PICK j \in 0..2 : InRun(j, A, B) \/ AtLen(j, A, B) \/ InBlock(j, A, B)
    BY <1>7 DEF Placed
  <1>9. /\ METAINT \in Nat \ {0} /\ UNIT \in Nat \ {0}
        /\ RunStart(j, A, B) \in Nat /\ Played(j) \in Nat
        /\ BlockSize(j, A, B) \in {1, 1 + UNIT}
    BY LaidNumbers
  <1>10. /\ icy.audio_left = 0 /\ Consumed = RunStart(j, A, B) + METAINT
         /\ Len(ring) = Played(j) + METAINT
    BY <1>8 DEF ReadLen, InRun, AtLen, InBlock
  <1>11. j < 2
    <2>1. Consumed < Len(resp.body)
      BY <1>2, ConsumedIs
    <2>2. j # 2
      BY <1>7, <1>9, <1>10, <2>1 DEF Laid
    <2> QED BY <2>2
  <1>12. data[1].val = IF BlockSize(j, A, B) = 1 THEN 0 ELSE 1
    <2>1. data[1] = resp.body[RunStart(j, A, B) + METAINT + 1]
      BY <1>2, <1>10 DEF DataOk
    <2>2. j \in 0..1
      BY <1>11
    <2> QED BY <1>7, <2>1, <2>2 DEF Laid
  <1>13. CASE BlockSize(j, A, B) = 1
    <2>1. data[1].val = 0 /\ data[1].val * UNIT = 0
      BY <1>9, <1>12, <1>13
    <2>2. /\ icy'.metaint = METAINT /\ icy'.audio_left = METAINT /\ icy'.state = "audio"
      BY <1>4, <2>1 DEF ReadLen, IcyOk
    <2> DEFINE k == j + 1
    <2>3. k \in 0..2 /\ Consumed' = RunStart(k, A, B) /\ Len(ring') = Played(k)
      <3>1. j \in 0..1 /\ k = j + 1
        BY <1>11
      <3>2. /\ Played(j + 1) = Played(j) + METAINT
            /\ RunStart(j + 1, A, B) = RunStart(j, A, B) + METAINT + BlockSize(j, A, B)
        BY <3>1, NextRun
      <3> QED BY <1>1, <1>3, <1>9, <1>10, <1>11, <1>13, <3>1, <3>2
    <2> HIDE DEF k
    <2>4. RunStart(k, A, B) \in Nat /\ Played(k) \in Nat
      BY <2>3, LaidNumbers
    <2>5. InRun(k, A, B)'
      BY <1>9, <2>2, <2>3, <2>4 DEF InRun
    <2> QED BY <1>1, <1>4, <1>7, <2>1, <2>2, <2>3, <2>5 DEF PlacedOk, Placed
  <1>14. CASE BlockSize(j, A, B) # 1
    <2>1. data[1].val = 1 /\ data[1].val * UNIT = UNIT /\ BlockSize(j, A, B) = 1 + UNIT
      BY <1>9, <1>12, <1>14
    <2>2. /\ icy'.metaint = METAINT /\ icy'.meta_left = UNIT /\ icy'.state = "meta"
      BY <1>4, <1>9, <2>1 DEF ReadLen, IcyOk
    <2>3. InBlock(j, A, B)'
      BY <1>1, <1>3, <1>9, <1>10, <1>11, <2>1, <2>2, SMTT(40) DEF InBlock
    <2> QED BY <1>1, <1>4, <1>7, <2>1, <2>2, <2>3 DEF PlacedOk, Placed
  <1> QED
    BY <1>13, <1>14

\* A part of a block.
LEMMA PlacedByMeta ==
    ASSUME WireOk, IcyOk, RingOk, DataOk, PlacedOk, FeedMeta, ReadMeta
    PROVE  PlacedOk'
  <1>1. Receiving /\ UNCHANGED <<resp, code, off, ring, got_body, pc>>
    BY DEF FeedMeta, RingOk, Receiving, wire
  <1> DEFINE n == Smaller(icy.meta_left, Len(data))
  <1>2. /\ Len(data) \in Nat \ {0} /\ Consumed \in Nat /\ n \in 0..Len(data)
        /\ icy.meta_left \in Nat /\ n <= icy.meta_left
    BY ConsumedIs DEF FeedMeta, DataOk, IcyOk, Smaller
  <1>3. Consumed' = Consumed + n
    <2>1. data' = Rest(n)
      BY DEF ReadMeta
    <2> HIDE DEF n
    <2> QED BY <1>1, <1>2, <2>1, Advances
  <1>4. resp.meta = "good" /\ icy.metaint = METAINT
    BY <1>1 DEF ReadMeta, PlacedOk
  <1>5. \E A, B \in {1, 1 + UNIT} : Laid(resp.body, A, B) /\ Placed(A, B)
    BY <1>1, <1>4 DEF PlacedOk
  <1>6. PICK A \in {1, 1 + UNIT} :
            \E B \in {1, 1 + UNIT} : Laid(resp.body, A, B) /\ Placed(A, B)
    BY <1>5
  <1>7. PICK B \in {1, 1 + UNIT} : Laid(resp.body, A, B) /\ Placed(A, B)
    BY <1>6
  <1>8. PICK j \in 0..2 : InRun(j, A, B) \/ AtLen(j, A, B) \/ InBlock(j, A, B)
    BY <1>7 DEF Placed
  <1>9. /\ METAINT \in Nat \ {0} /\ UNIT \in Nat \ {0}
        /\ RunStart(j, A, B) \in Nat /\ Played(j) \in Nat
    BY LaidNumbers
  <1>10. InBlock(j, A, B)
    BY <1>8 DEF ReadMeta, InRun, AtLen
  <1> DEFINE at == Consumed - RunStart(j, A, B) - METAINT - 1
  <1>11. /\ j < 2 /\ BlockSize(j, A, B) = 1 + UNIT /\ at \in 0..(UNIT - 1)
         /\ icy.meta_left = UNIT - at /\ Len(ring) = Played(j) + METAINT
    BY <1>10 DEF InBlock
  <1>15. Consumed = RunStart(j, A, B) + METAINT + 1 + at /\ n \in Nat /\ at \in Nat
    <2>1. n \in Nat /\ at \in Nat
      BY <1>2, <1>9, <1>11
    <2>2. RunStart(j, A, B) \in Nat /\ Consumed \in Nat /\ METAINT \in Nat
      BY <1>2, <1>9
    <2> QED BY <2>1, <2>2, SMTT(40)
  <1> HIDE DEF at
  <1> DEFINE meta == MetaJoined(n)
             title == icy_extract_title(meta)
             left == icy.meta_left - n
             audio == IF n = icy.meta_left THEN icy.metaint ELSE icy.audio_left
             state == IF n = icy.meta_left THEN "audio" ELSE "meta"
             last == IF n = icy.meta_left /\ Changed(title) THEN title ELSE icy.last_title
  <1>12. icy'.metaint = icy.metaint /\ icy'.meta_left = left /\ icy'.audio_left = audio
         /\ icy'.state = state
    <2>1. icy' = [icy EXCEPT !.meta = meta, !.meta_left = left, !.audio_left = audio,
                             !.state = state, !.last_title = last]
      BY DEF ReadMeta
    <2> HIDE DEF n, meta, title, left, audio, state, last
    <2> QED BY <2>1 DEF IcyOk
  <1> HIDE DEF n, meta, title, last
  <1>13. CASE n = icy.meta_left
    <2>1. /\ icy'.metaint = METAINT /\ icy'.audio_left = METAINT /\ icy'.state = "audio"
      BY <1>4, <1>12, <1>13
    <2> DEFINE k == j + 1
    <2>2. k \in 0..2 /\ Consumed' = RunStart(k, A, B) /\ Len(ring') = Played(k)
      <3>1. j \in 0..1 /\ k = j + 1
        BY <1>11
      <3>2. /\ Played(j + 1) = Played(j) + METAINT
            /\ RunStart(j + 1, A, B) = RunStart(j, A, B) + METAINT + BlockSize(j, A, B)
        BY <3>1, NextRun
      <3>3. n = UNIT - at
        BY <1>11, <1>13
      <3>4. Consumed' = RunStart(j + 1, A, B)
        <4>1. Consumed' = RunStart(j, A, B) + METAINT + 1 + at + (UNIT - at)
          BY <1>3, <1>15, <3>3
        <4>2. Consumed' = RunStart(j, A, B) + METAINT + (1 + UNIT)
          BY <1>9, <1>15, <4>1
        <4> QED BY <1>11, <3>2, <4>2
      <3> QED BY <1>1, <1>11, <3>1, <3>2, <3>4
    <2> HIDE DEF k
    <2>3. RunStart(k, A, B) \in Nat /\ Played(k) \in Nat
      BY <2>2, LaidNumbers
    <2>4. InRun(k, A, B)'
      BY <1>9, <2>1, <2>2, <2>3 DEF InRun
    <2> QED BY <1>1, <1>4, <1>7, <2>1, <2>2, <2>4 DEF PlacedOk, Placed
  <1>14. CASE n # icy.meta_left
    <2>1. /\ icy'.metaint = METAINT /\ icy'.meta_left = icy.meta_left - n
          /\ icy'.state = "meta"
      BY <1>4, <1>12, <1>14
    <2> DEFINE to == at + n
    <2>2. to \in 0..(UNIT - 1) /\ to = Consumed' - RunStart(j, A, B) - METAINT - 1
      <3>1. n < UNIT - at
        BY <1>2, <1>9, <1>11, <1>14, <1>15
      <3>2. to \in 0..(UNIT - 1)
        BY <1>9, <1>15, <3>1
      <3>3. Consumed' = RunStart(j, A, B) + METAINT + 1 + to
        BY <1>3, <1>9, <1>15
      <3>4. to \in Int /\ RunStart(j, A, B) \in Int /\ METAINT \in Int
        BY <1>9, <1>15
      <3> HIDE DEF to
      <3> QED BY <3>2, <3>3, <3>4
    <2>3. icy'.meta_left = UNIT - to
      BY <1>9, <1>11, <1>15, <2>1
    <2> HIDE DEF to
    <2>4. InBlock(j, A, B)'
      BY <1>1, <1>11, <2>1, <2>2, <2>3 DEF InBlock
    <2> QED BY <1>1, <1>4, <1>7, <2>1, <2>4 DEF PlacedOk, Placed
  <1> QED
    BY <1>13, <1>14

\* Every step keeps it.
LEMMA PlacedStep ==
    ASSUME WireOk, HeadOk, IcyOk, RingOk, DataOk, PlacedOk, [Next]_vars
    PROVE  PlacedOk'
  <1> USE DEF wire, head, end, icyVars
  <1>1. CASE NoBundle
    <2>1. ~Receiving'
      BY <1>1 DEF NoBundle, Receiving
    <2> QED BY <2>1 DEF PlacedOk
  <1>2. CASE Perform
    <2>1. ~Receiving'
      BY <1>2 DEF Perform, Receiving
    <2> QED BY <2>1 DEF PlacedOk
  <1>3. CASE StatusLine
    <2>1. ~Receiving'
      BY <1>3 DEF StatusLine, Receiving
    <2> QED BY <2>1 DEF PlacedOk
  <1>4. CASE HeaderLine
    <2>1. ~Receiving'
      BY <1>4 DEF HeaderLine, Receiving
    <2> QED BY <2>1 DEF PlacedOk
  <1>5. CASE HeadersEnd
    <2>1. ~Receiving'
      BY <1>5 DEF HeadersEnd, RingOk, Receiving
    <2> QED BY <2>1 DEF PlacedOk
  <1>6. CASE Deliver
    <2>1. Consumed' = Consumed
      <3>1. PICK n \in 1..(Len(resp.body) - off) :
                data' = SubSeq(resp.body, off + 1, off + n) /\ off' = off + n
        BY <1>6 DEF Deliver
      <3>2. off \in Nat /\ n \in Nat /\ off + n <= Len(resp.body) /\ resp.body \in Seq(Bytes)
        BY ConsumedIs, AnswersAre DEF WireOk, Responses
      <3>3. Len(data') = n
        BY <3>1, <3>2, PieceIs
      <3>4. data = <<>>
        BY <1>6 DEF Deliver, DataOk
      <3> QED BY <3>1, <3>2, <3>3, <3>4 DEF Consumed
    <2>2. Receiving' => Receiving
      BY <1>6 DEF Deliver, Receiving
    <2> QED BY <1>6, <2>1, <2>2, PlacedKept DEF Deliver
  <1>7. CASE WriteCb
    <2>1. UNCHANGED <<resp, code, off, ring, metaint>> /\ pc = "write"
      BY <1>7 DEF WriteCb
    <2>2. CASE WriteStopped
      BY <2>2 DEF WriteStopped, Refused, PlacedOk, Receiving
    <2>3. CASE ~got_body /\ FirstPiece
      <3>1. CASE Redirecting(code) \/ ~status_is_streamable(code)
        BY <2>1, <3>1, CodeIs DEF PlacedOk, Receiving
      <3>2. CASE ~Redirecting(code) /\ status_is_streamable(code)
        <4>1. icy' = icy_init(metaint) /\ UNCHANGED data
          BY <2>3, <3>2 DEF FirstPiece
        <4>2. Consumed' = 0 /\ ring = <<>> /\ Len(ring') = 0
          BY <2>1, <2>3, <4>1 DEF DataOk, Consumed, RingOk
        <4>3. metaint = IF resp.meta = "good" THEN METAINT ELSE 0
          BY <2>1 DEF HeadOk
        <4>4. /\ icy'.metaint = metaint /\ icy'.audio_left = metaint /\ icy'.state = "audio"
          BY <4>1 DEF icy_init
        <4>5. CASE resp.meta # "good"
          BY <2>1, <4>2, <4>3, <4>4, <4>5 DEF PlacedOk
        <4>6. CASE resp.meta = "good"
          <5>1. \E A, B \in {1, 1 + UNIT} : Laid(resp.body, A, B)
            BY <3>2, <4>6, StreamBodies DEF WireOk
          <5>2. PICK A \in {1, 1 + UNIT} : \E B \in {1, 1 + UNIT} : Laid(resp.body, A, B)
            BY <5>1
          <5>3. PICK B \in {1, 1 + UNIT} : Laid(resp.body, A, B)
            BY <5>2
          <5>4. 0 \in 0..2 /\ RunStart(0, A, B) = 0 /\ Played(0) = 0 /\ METAINT \in Nat \ {0}
            BY NextRun, StreamAssumption
          <5>5. InRun(0, A, B)'
            BY <4>2, <4>3, <4>4, <4>6, <5>4 DEF InRun
          <5> QED BY <2>1, <4>3, <4>4, <4>6, <5>3, <5>4, <5>5 DEF PlacedOk, Placed
        <4> QED BY <4>5, <4>6
      <3> QED BY <3>1, <3>2
    <2>4. CASE got_body /\ LaterPiece
      <3>1. CASE Redirecting(http_status) \/ ~status_is_streamable(http_status)
        <4>1. http_status = code
          BY <2>4 DEF RingOk
        <4> QED BY <2>1, <3>1, <4>1, CodeIs DEF PlacedOk, Receiving
      <3>2. CASE ~Redirecting(http_status) /\ status_is_streamable(http_status)
        <4>1. UNCHANGED <<data, icy, got_body>> /\ Consumed' = Consumed
          BY <2>1, <2>4, <3>2 DEF LaterPiece, Consumed
        <4>2. Receiving' => Receiving
          BY <2>1, <4>1 DEF Receiving
        <4> QED BY <2>1, <4>1, <4>2, PlacedKept
      <3> QED BY <3>1, <3>2
    <2> QED BY <1>7, <2>2, <2>3, <2>4 DEF WriteCb
  <1>8. CASE FeedAudio
    <2>1. CASE PassAudio /\ UNCHANGED pc /\ ring' = ring \o SubSeq(data, 1, AudioRun)
      BY <1>8, <2>1, PlacedByAudio
    <2>2. CASE pc' = "performed"
      BY <2>2 DEF PlacedOk, Receiving
    <2> QED BY <1>8, <2>1, <2>2 DEF FeedAudio, Refused
  <1>9. CASE FeedMeta
    BY <1>9, PlacedByLen, PlacedByMeta DEF FeedMeta
  <1>10. CASE Fed
    <2>1. UNCHANGED <<resp, code, icy, ring, got_body, data, off>> /\ pc = "feed"
      BY <1>10 DEF Fed
    <2>2. Consumed' = Consumed /\ (Receiving' => Receiving)
      BY <2>1 DEF Consumed, Receiving
    <2> QED BY <2>1, <2>2, PlacedKept
  <1>11. CASE Follow
    <2>1. ~Receiving'
      BY <1>11 DEF Follow, Receiving
    <2> QED BY <2>1 DEF PlacedOk
  <1>12. CASE TransferEnds
    <2>1. ~Receiving'
      BY <1>12 DEF TransferEnds, Receiving
    <2> QED BY <2>1 DEF PlacedOk
  <1>13. CASE Cancelled
    <2>1. ~Receiving'
      BY <1>13 DEF Cancelled, Receiving
    <2> QED BY <2>1 DEF PlacedOk
  <1>14. CASE Conclude
    <2>1. ~Receiving'
      BY <1>14 DEF Conclude, Receiving
    <2> QED BY <2>1 DEF PlacedOk
  <1>15. CASE CloseRing
    <2>1. ~Receiving'
      BY <1>15 DEF CloseRing, Receiving
    <2> QED BY <2>1 DEF PlacedOk
  <1>16. CASE Finish
    <2>1. ~Receiving'
      BY <1>16 DEF Finish, Receiving
    <2> QED BY <2>1 DEF PlacedOk
  <1>17. CASE Abort \/ Stop
    <2>1. UNCHANGED <<resp, code, icy, ring, got_body, data, off, pc>>
      BY <1>17 DEF Abort, Stop
    <2>2. Consumed' = Consumed /\ (Receiving' => Receiving)
      BY <2>1 DEF Consumed, Receiving
    <2> QED BY <2>1, <2>2, PlacedKept
  <1>18. CASE Joined \/ UNCHANGED vars
    <2>1. UNCHANGED <<resp, code, icy, ring, got_body, data, off, pc>>
      BY <1>18 DEF Joined, vars
    <2>2. Consumed' = Consumed /\ (Receiving' => Receiving)
      BY <2>1 DEF Consumed, Receiving
    <2> QED BY <2>1, <2>2, PlacedKept
  <1> QED
    BY <1>1, <1>2, <1>3, <1>4, <1>5, <1>6, <1>7, <1>8, <1>9, <1>10,
       <1>11, <1>12, <1>13, <1>14, <1>15, <1>16, <1>17, <1>18 DEF Next, Worker

-----------------------------------------------------------------------------
(* What is in the ring                                                     *)

\* The ring holds the bytes to be heard, from the first one on.
Hearing(i) == IF resp.meta = "good" THEN Audio(i) ELSE resp.body[i]

\* They are among those that have come.
HeardOk ==
    /\ \A i \in 1..Len(ring) : ring[i] = Hearing(i)
    /\ Len(ring) <= HeardBy(off)

\* The next bytes of a run are the next ones to be heard.
LEMMA AudioHeard ==
    ASSUME WireOk, IcyOk, RingOk, DataOk, PlacedOk, pc = "feed", InAudio,
           NEW k \in 1..AudioRun
    PROVE  data[k] = Hearing(Len(ring) + k) /\ HeardBy(Consumed + k) = Len(ring) + k
  <1>1. Receiving /\ status_is_streamable(resp.status)
    BY DEF RingOk, Receiving, WireOk
  <1>2. AudioRun \in 0..Len(data) /\ Len(data) \in Nat
    BY AudioRunIs, ConsumedIs
  <1>3. k \in 1..Len(data) /\ k \in Nat /\ k <= AudioRun /\ k >= 1
    BY <1>2
  <1>4. data[k] = resp.body[Consumed + k]
    BY <1>3 DEF DataOk
  <1>5. Consumed \in Nat /\ Consumed + k \in 0..Len(resp.body)
    <2>1. /\ Consumed \in Nat /\ off = Consumed + Len(data) /\ off \in 0..Len(resp.body)
          /\ Len(resp.body) \in Nat
      BY ConsumedIs
    <2>2. off \in Nat /\ off <= Len(resp.body) /\ Consumed + k <= off
      BY <1>2, <1>3, <2>1
    <2> QED BY <1>3, <2>1, <2>2
  <1>6. CASE resp.meta # "good"
    <2>1. Len(ring) = Consumed
      BY <1>1, <1>6 DEF PlacedOk
    <2>2. HeardBy(Consumed + k) = Consumed + k
      BY <1>1, <1>5, <1>6, HeardRaw
    <2> QED BY <1>4, <1>6, <2>1, <2>2 DEF Hearing
  <1>7. CASE resp.meta = "good"
    <2>0. icy.metaint = METAINT /\ icy.metaint # 0
      BY <1>1, <1>7, StreamAssumption DEF PlacedOk
    <2>1. \E A, B \in {1, 1 + UNIT} : Laid(resp.body, A, B) /\ Placed(A, B)
      BY <1>1, <1>7 DEF PlacedOk
    <2>2. PICK A \in {1, 1 + UNIT} :
              \E B \in {1, 1 + UNIT} : Laid(resp.body, A, B) /\ Placed(A, B)
      BY <2>1
    <2>3. PICK B \in {1, 1 + UNIT} : Laid(resp.body, A, B) /\ Placed(A, B)
      BY <2>2
    <2>4. PICK j \in 0..2 : InRun(j, A, B) \/ AtLen(j, A, B) \/ InBlock(j, A, B)
      BY <2>3 DEF Placed
    <2>5. /\ METAINT \in Nat \ {0} /\ RunStart(j, A, B) \in Nat /\ Played(j) \in Nat
      BY LaidNumbers
    <2>6. InRun(j, A, B)
      BY <2>0, <2>4 DEF InAudio, AtLen, InBlock
    <2> DEFINE at == Consumed - RunStart(j, A, B)
    <2>7. /\ at \in 0..(METAINT - 1) /\ icy.audio_left = METAINT - at
          /\ Len(ring) = Played(j) + at
      BY <2>6 DEF InRun
    <2>8. Consumed = RunStart(j, A, B) + at /\ AudioRun \in Nat
      BY <1>2, <1>5, <2>5
    <2> HIDE DEF at
    <2>9. AudioRun <= METAINT - at
      BY <1>2, <2>0, <2>5, <2>7, <2>8 DEF AudioRun, Smaller
    <2> DEFINE i == at + k
    <2>10. i \in 1..METAINT /\ i \in 0..METAINT
      BY <1>3, <2>5, <2>7, <2>8, <2>9
    <2>11. Consumed + k = RunStart(j, A, B) + i /\ Len(ring) + k = Played(j) + i
      BY <1>3, <2>5, <2>7, <2>8, SMTT(30)
    <2> HIDE DEF i
    <2>12. resp.body[RunStart(j, A, B) + i] = Audio(Played(j) + i)
      BY <2>3, <2>10 DEF Laid
    <2>13. HeardBy(RunStart(j, A, B) + i) = Played(j) + i
      BY <1>1, <1>7, <2>3, <2>10, HeardLaid
    <2> QED BY <1>4, <1>7, <2>11, <2>12, <2>13 DEF Hearing
  <1> QED
    BY <1>6, <1>7

\* A step that leaves the ring and the response alone keeps it.
LEMMA HeardKept ==
    ASSUME WireOk, HeardOk, UNCHANGED <<ring, resp>>, off \in Nat, off' \in Nat, off <= off',
           Len(ring) \in Nat
    PROVE  HeardOk'
  <1>1. PICK o \in Nat : o = off'
    OBVIOUS
  <1>2. HeardBy(off) \in Nat /\ HeardBy(o) \in Nat /\ HeardBy(off) <= HeardBy(o)
    BY <1>1, HeardGrows
  <1>3. HeardBy(off)' = HeardBy(o)
    BY <1>1 DEF HeardBy, ToHear
  <1> QED
    BY <1>2, <1>3 DEF HeardOk, Hearing

\* So does one that writes a run, or a part of one.
LEMMA HeardMore ==
    ASSUME WireOk, IcyOk, RingOk, DataOk, PlacedOk, HeardOk, pc = "feed", InAudio,
           NEW r \in 0..AudioRun, ring' = ring \o SubSeq(data, 1, r), UNCHANGED <<resp, off>>
    PROVE  HeardOk'
  <1>1. AudioRun \in 0..Len(data) /\ Len(data) \in Nat /\ r \in Nat /\ r <= Len(data)
    <2>1. AudioRun \in 0..Len(data) /\ Len(data) \in Nat
      BY AudioRunIs, ConsumedIs
    <2> QED BY <2>1
  <1>2. PICK run : run = SubSeq(data, 1, r)
    OBVIOUS
  <1>3. run \in Seq(Bytes) /\ Len(run) = r /\ \A k \in 1..r : run[k] = data[k]
    BY <1>1, <1>2 DEF DataOk
  <1>4. /\ ring \in Seq(Bytes) /\ ring' = ring \o run /\ Len(ring) \in Nat
    BY <1>2 DEF RingOk
  <1>5. /\ Len(ring') = Len(ring) + Len(run)
        /\ \A i \in 1..Len(ring) : ring'[i] = ring[i]
        /\ \A i \in 1..Len(run) : ring'[Len(ring) + i] = run[i]
    BY <1>3, <1>4, Joins
  <1>6. ASSUME NEW i \in 1..Len(ring') PROVE ring'[i] = Hearing(i)
    <2>1. CASE i <= Len(ring)
      <3>1. i \in 1..Len(ring)
        BY <1>4, <2>1
      <3> QED BY <3>1, <1>5 DEF HeardOk
    <2>2. CASE i > Len(ring)
      <3> DEFINE k == i - Len(ring)
      <3>1. k \in 1..r /\ i = Len(ring) + k
        BY <1>1, <1>3, <1>4, <1>5, <2>2
      <3> HIDE DEF k
      <3>2. k \in 1..AudioRun
        BY <1>1, <3>1
      <3>3. data[k] = Hearing(Len(ring) + k)
        BY <3>2, AudioHeard
      <3> QED BY <1>3, <1>5, <3>1, <3>3
    <2> QED BY <1>1, <1>3, <1>4, <1>5, <2>1, <2>2
  <1>7. Len(ring') <= HeardBy(off)
    <2>1. CASE r = 0
      BY <1>3, <1>4, <1>5, <2>1 DEF HeardOk
    <2>2. CASE r # 0
      <3>1. r \in 1..AudioRun
        BY <1>1, <2>2
      <3>2. HeardBy(Consumed + r) = Len(ring) + r
        BY <3>1, AudioHeard
      <3>3. Consumed + r \in Nat /\ off \in Nat /\ Consumed + r <= off
        <4>1. /\ Consumed \in Nat /\ off = Consumed + Len(data)
          BY ConsumedIs
        <4> QED BY <1>1, <4>1
      <3>4. PICK c \in Nat : c = Consumed + r
        BY <3>3
      <3>5. HeardBy(c) <= HeardBy(off)
        BY <3>3, <3>4, HeardGrows
      <3> QED BY <1>3, <1>5, <3>2, <3>4, <3>5
    <2> QED BY <2>1, <2>2
  <1>8. HeardBy(off)' = HeardBy(off)
    BY DEF HeardBy, ToHear
  <1> QED
    BY <1>6, <1>7, <1>8 DEF HeardOk, Hearing

\* Nothing has been heard of a new response.
LEMMA HeardAnew == (WireOk => HeardBy(0) = 0)'
  BY HeardAtFirst, PTL

\* Every step keeps it.
LEMMA HeardStep ==
    ASSUME WireOk, HeadOk, IcyOk, RingOk, DataOk, PlacedOk, HeardOk, [Next]_vars
    PROVE  HeardOk'
  <1>0. off \in Nat /\ off <= off /\ Len(ring) \in Nat /\ Len(resp.body) \in Nat
    <2>1. off \in 0..Len(resp.body) /\ Len(resp.body) \in Nat
      BY ConsumedIs
    <2> QED BY <2>1 DEF RingOk
  <1> USE DEF wire, head, end, icyVars
  <1>1. CASE NoBundle
    <2>1. UNCHANGED <<ring, resp, off>>
      BY <1>1 DEF NoBundle
    <2> QED BY <1>0, <2>1, HeardKept
  <1>2. CASE Perform
    <2>1. UNCHANGED <<ring, resp, off>>
      BY <1>2 DEF Perform
    <2> QED BY <1>0, <2>1, HeardKept
  <1>3. CASE StatusLine
    <2>1. ring' = <<>> /\ off' = 0
      BY <1>3 DEF StatusLine, RingOk
    <2>2. HeardBy(0)' = 0
      BY WireStep, HeardAnew
    <2>3. HeardBy(off)' = HeardBy(0)'
      BY <2>1 DEF HeardBy, ToHear
    <2> QED BY <2>1, <2>2, <2>3 DEF HeardOk
  <1>4. CASE HeaderLine
    <2>1. UNCHANGED <<ring, resp, off>>
      BY <1>4 DEF HeaderLine
    <2> QED BY <1>0, <2>1, HeardKept
  <1>5. CASE HeadersEnd
    <2>1. UNCHANGED <<ring, resp, off>>
      BY <1>5 DEF HeadersEnd
    <2> QED BY <1>0, <2>1, HeardKept
  <1>6. CASE Deliver
    <2>1. UNCHANGED <<ring, resp>> /\ off' \in Nat /\ off <= off'
      <3>1. PICK n \in 1..(Len(resp.body) - off) : off' = off + n
        BY <1>6 DEF Deliver
      <3>2. n \in Nat
        BY <1>0
      <3> QED BY <1>6, <1>0, <3>1, <3>2 DEF Deliver
    <2> QED BY <1>0, <2>1, HeardKept
  <1>7. CASE WriteCb
    <2>1. UNCHANGED <<ring, resp, off>>
      BY <1>7 DEF WriteCb
    <2> QED BY <1>0, <2>1, HeardKept
  <1>8. CASE FeedAudio
    <2>1. UNCHANGED <<resp, off>> /\ pc = "feed" /\ InAudio
      BY <1>8 DEF FeedAudio
    <2>2. AudioRun \in Nat
      BY AudioRunIs, ConsumedIs
    <2>3. \E r \in 0..AudioRun : ring' = ring \o SubSeq(data, 1, r)
      <3>1. CASE ring' = ring \o SubSeq(data, 1, AudioRun)
        BY <2>2, <3>1
      <3>2. CASE \E r \in 0..(AudioRun - 1) : ring' = ring \o SubSeq(data, 1, r)
        BY <2>2, <3>2
      <3> QED BY <1>8, <3>1, <3>2 DEF FeedAudio
    <2>4. PICK r \in 0..AudioRun : ring' = ring \o SubSeq(data, 1, r)
      BY <2>3
    <2> QED BY <2>1, <2>4, HeardMore
  <1>9. CASE FeedMeta
    <2>1. UNCHANGED <<ring, resp, off>>
      BY <1>9 DEF FeedMeta
    <2> QED BY <1>0, <2>1, HeardKept
  <1>10. CASE Fed
    <2>1. UNCHANGED <<ring, resp, off>>
      BY <1>10 DEF Fed
    <2> QED BY <1>0, <2>1, HeardKept
  <1>11. CASE Follow
    <2>1. UNCHANGED <<ring, resp, off>>
      BY <1>11 DEF Follow
    <2> QED BY <1>0, <2>1, HeardKept
  <1>12. CASE TransferEnds
    <2>1. UNCHANGED <<ring, resp, off>>
      BY <1>12 DEF TransferEnds
    <2> QED BY <1>0, <2>1, HeardKept
  <1>13. CASE Cancelled
    <2>1. UNCHANGED <<ring, resp, off>>
      BY <1>13 DEF Cancelled
    <2> QED BY <1>0, <2>1, HeardKept
  <1>14. CASE Conclude
    <2>1. UNCHANGED <<ring, resp, off>>
      BY <1>14 DEF Conclude
    <2> QED BY <1>0, <2>1, HeardKept
  <1>15. CASE CloseRing
    <2>1. UNCHANGED <<ring, resp, off>>
      BY <1>15 DEF CloseRing
    <2> QED BY <1>0, <2>1, HeardKept
  <1>16. CASE Finish
    <2>1. UNCHANGED <<ring, resp, off>>
      BY <1>16 DEF Finish
    <2> QED BY <1>0, <2>1, HeardKept
  <1>17. CASE Abort \/ Stop
    <2>1. UNCHANGED <<ring, resp, off>>
      BY <1>17 DEF Abort, Stop
    <2> QED BY <1>0, <2>1, HeardKept
  <1>18. CASE Joined \/ UNCHANGED vars
    <2>1. UNCHANGED <<ring, resp, off>>
      BY <1>18 DEF Joined, vars
    <2> QED BY <1>0, <2>1, HeardKept
  <1> QED
    BY <1>1, <1>2, <1>3, <1>4, <1>5, <1>6, <1>7, <1>8, <1>9, <1>10,
       <1>11, <1>12, <1>13, <1>14, <1>15, <1>16, <1>17, <1>18 DEF Next, Worker

-----------------------------------------------------------------------------
(* Titles fit                                                              *)

\* A place is found, the end of the text if no other.
LEMMA FirstAtIs ==
    ASSUME NEW s \in Seq(0..CONT), NEW i \in 1..(Len(s) + 1), NEW v
    PROVE  /\ FirstAt(s, i, v) \in i..(Len(s) + 1)
           /\ FirstAt(s, i, v) <= Len(s) => s[FirstAt(s, i, v)] = v
  <1> DEFINE S == {k \in i..(Len(s) + 1) : k <= Len(s) => s[k] = v}
  <1>1. Len(s) \in Nat /\ i \in Nat /\ i >= 1
    OBVIOUS
  <1>2. S \in SUBSET Nat /\ Len(s) + 1 \in S
    BY <1>1
  <1>3. \E n \in S : \A m \in S : n <= m
    <2> HIDE DEF S
    <2> QED BY <1>2, Least
  <1>4. PICK n \in S : \A m \in S : n <= m
    BY <1>3
  <1>5. n \in i..(Len(s) + 1) /\ (n <= Len(s) => s[n] = v)
    BY <1>4
  <1>6. \A j \in i..(n - 1) : s[j] # v
    <2> SUFFICES ASSUME NEW j \in i..(n - 1), s[j] = v PROVE FALSE
      OBVIOUS
    <2>1. n \in Nat
      BY <1>1, <1>5
    <2>2. j \in i..(Len(s) + 1) /\ j < n
      BY <1>1, <1>5, <2>1
    <2>3. j \in S
      BY <2>2
    <2>4. n <= j
      BY <1>4, <2>3
    <2> QED BY <1>1, <2>1, <2>2, <2>4
  <1>7. \E k \in i..(Len(s) + 1) : (k <= Len(s) => s[k] = v) /\ \A j \in i..(k - 1) : s[j] # v
    BY <1>5, <1>6
  <1> QED
    BY <1>7 DEF FirstAt

\* A part of a text is a text.
LEMMA PartIs ==
    ASSUME NEW s \in Seq(0..CONT), NEW m \in Nat, NEW n \in Int,
           1 <= m, m <= n + 1, n <= Len(s)
    PROVE  SubSeq(s, m, n) \in Seq(0..CONT)
  <1> DEFINE S == 0..CONT
  <1>1. s \in Seq(S)
    OBVIOUS
  <1> HIDE DEF S
  <1>2. Len(s) \in Nat
    BY <1>1
  <1>3. SubSeq(s, m, n) \in Seq(S)
    BY <1>1, <1>2
  <1> QED
    BY <1>3 DEF S

\* A part of a part is a part.
LEMMA PartOfPart ==
    ASSUME NEW s \in Seq(0..CONT), NEW z \in Nat, z <= Len(s),
           NEW m \in Nat, NEW n \in Int, 1 <= m, m <= n + 1, n <= z
    PROVE  SubSeq(SubSeq(s, 1, z), m, n) = SubSeq(s, m, n)
  <1> DEFINE S == 0..CONT
  <1>1. s \in Seq(S)
    OBVIOUS
  <1> HIDE DEF S
  <1>2. SubSeq(s, 1, z) \in Seq(S) /\ Len(SubSeq(s, 1, z)) = z
    BY <1>1
  <1>3. \A i \in 1..z : SubSeq(s, 1, z)[i] = s[i]
    BY <1>1
  <1>4. PICK t : t = SubSeq(s, 1, z)
    OBVIOUS
  <1>5. /\ SubSeq(t, m, n) \in Seq(S) /\ Len(SubSeq(t, m, n)) = n - m + 1
        /\ SubSeq(s, m, n) \in Seq(S) /\ Len(SubSeq(s, m, n)) = n - m + 1
    BY <1>1, <1>2, <1>4
  <1>6. ASSUME NEW i \in 1..(n - m + 1) PROVE SubSeq(t, m, n)[i] = SubSeq(s, m, n)[i]
    BY <1>1, <1>2, <1>3, <1>4
  <1> QED
    BY <1>4, <1>5, <1>6, SeqEqual

\* A title that is cut is cut to its buffer, and not before the rest of a character.
LEMMA TruncatedIs ==
    ASSUME NEW value \in Seq(0..CONT)
    PROVE  \E cut \in 0..Len(value) :
               /\ cut <= TITLE_MAX /\ Truncated(value) = SubSeq(value, 1, cut)
               /\ 0 < cut /\ cut < Len(value) => value[cut + 1] # CONT
  <1>1. TITLE_MAX \in Nat /\ Len(value) \in Nat
    BY IcyAssumption
  <1>2. CASE Len(value) <= TITLE_MAX
    <2>1. Truncated(value) = value /\ value = SubSeq(value, 1, Len(value))
      BY <1>2 DEF Truncated
    <2> DEFINE cut == Len(value)
    <2>2. /\ cut \in 0..Len(value) /\ cut <= TITLE_MAX /\ ~(cut < Len(value))
          /\ Truncated(value) = SubSeq(value, 1, cut)
      BY <1>1, <1>2, <2>1
    <2> HIDE DEF cut
    <2> QED BY <2>2
  <1>3. CASE Len(value) > TITLE_MAX
    <2> DEFINE S == {n \in 0..TITLE_MAX : \A m \in (n + 1)..TITLE_MAX : value[m + 1] = CONT}
    <2>1. S \in SUBSET Nat /\ TITLE_MAX \in S
      BY <1>1
    <2>2. \E n \in S : \A m \in S : n <= m
      <3> HIDE DEF S
      <3> QED BY <2>1, Least
    <2>3. PICK n \in S : \A m \in S : n <= m
      BY <2>2
    <2>4. n \in 0..TITLE_MAX /\ \A m \in (n + 1)..TITLE_MAX : value[m + 1] = CONT
      BY <2>3
    <2>5. n > 0 => value[n + 1] # CONT
      <3> SUFFICES ASSUME n > 0, value[n + 1] = CONT PROVE FALSE
        OBVIOUS
      <3> DEFINE l == n - 1
      <3>1. l \in 0..TITLE_MAX /\ n \in Nat /\ l < n
        BY <1>1, <2>4
      <3>2. \A m \in (l + 1)..TITLE_MAX : m = n \/ m \in (n + 1)..TITLE_MAX
        BY <1>1, <2>4
      <3>3. \A m \in (l + 1)..TITLE_MAX : value[m + 1] = CONT
        BY <2>4, <3>2
      <3> HIDE DEF l
      <3>4. l \in S
        BY <3>1, <3>3
      <3>5. n <= l
        BY <2>3, <3>4
      <3> QED BY <1>1, <3>1, <3>5
    <2> DEFINE cut == CHOOSE c \in 0..TITLE_MAX :
                          /\ c > 0 => value[c + 1] # CONT
                          /\ \A m \in (c + 1)..TITLE_MAX : value[m + 1] = CONT
    <2>6. cut \in 0..TITLE_MAX /\ (cut > 0 => value[cut + 1] # CONT)
      <3>1. \E c \in 0..TITLE_MAX :
                /\ c > 0 => value[c + 1] # CONT
                /\ \A m \in (c + 1)..TITLE_MAX : value[m + 1] = CONT
        BY <2>4, <2>5
      <3> QED BY <3>1, Zenon
    <2>7. Truncated(value) = SubSeq(value, 1, cut)
      <3>1. ~(Len(value) <= TITLE_MAX)
        BY <1>1, <1>3
      <3> QED BY <3>1, Zenon DEF Truncated
    <2> HIDE DEF cut
    <2> QED BY <1>1, <1>3, <2>6, <2>7
  <1> QED
    BY <1>1, <1>2, <1>3

\* A title is the text of its block up to a terminator, cut if it must be.
LEMMA TitleIs ==
    ASSUME NEW meta \in Seq(0..CONT)
    PROVE  \/ icy_extract_title(meta) = <<>>
           \/ \E start \in 1..Len(meta) : \E last \in start..Len(meta) :
                  /\ meta[last] = END
                  /\ SubSeq(meta, start, last - 1) \in Seq(0..CONT)
                  /\ icy_extract_title(meta) = Truncated(SubSeq(meta, start, last - 1))
  <1> DEFINE z == FirstAt(meta, 1, NUL) - 1
             text == SubSeq(meta, 1, z)
             key == FirstAt(text, 1, KEY)
             start == key + 1
             from == Smaller(start, Len(text) + 1)
             last == FirstAt(text, from, END)
  <1>1. z \in 0..Len(meta) /\ z \in Nat
    <2>1. Len(meta) \in Nat
      OBVIOUS
    <2>2. FirstAt(meta, 1, NUL) \in 1..(Len(meta) + 1)
      BY <2>1, FirstAtIs
    <2> QED BY <2>1, <2>2
  <1>2. text \in Seq(0..CONT) /\ Len(text) = z /\ \A i \in 1..z : text[i] = meta[i]
    <2> HIDE DEF z
    <2>1. z \in Int /\ 1 <= z + 1 /\ z <= Len(meta) /\ 1 \in Nat /\ 1 <= 1
      BY <1>1
    <2>2. SubSeq(meta, 1, z) \in Seq(0..CONT)
      BY <2>1, PartIs
    <2>3. Len(SubSeq(meta, 1, z)) = z /\ \A i \in 1..z : SubSeq(meta, 1, z)[i] = meta[i]
      BY <1>1
    <2> QED BY <2>2, <2>3
  <1>3. icy_extract_title(meta) =
            IF start > Len(text) \/ last > Len(text) THEN <<>>
            ELSE Truncated(SubSeq(text, start, last - 1))
    BY DEF icy_extract_title
  <1>4. Len(text) \in Nat /\ 1 \in 1..(Len(text) + 1)
    BY <1>2
  <1>5. key \in 1..(Len(text) + 1)
    <2> HIDE DEF text
    <2> QED BY <1>2, <1>4, FirstAtIs
  <1>6. start \in Nat /\ start >= 1 /\ from \in 1..(Len(text) + 1)
    <2> HIDE DEF text, key
    <2> QED BY <1>4, <1>5 DEF Smaller
  <1>7. last \in from..(Len(text) + 1) /\ (last <= Len(text) => text[last] = END)
    <2> HIDE DEF from, text, key
    <2> QED BY <1>2, <1>6, FirstAtIs
  <1>8. CASE start > Len(text) \/ last > Len(text)
    BY <1>3, <1>8, Zenon
  <1>9. CASE ~(start > Len(text) \/ last > Len(text))
    <2>1. icy_extract_title(meta) = Truncated(SubSeq(text, start, last - 1))
      BY <1>3, <1>9, Zenon
    <2>2. from = start
      <3> HIDE DEF start, text
      <3> QED BY <1>4, <1>6, <1>9 DEF Smaller
    <2>3. PICK m, l : m = start /\ l = last
      OBVIOUS
    <2>4. PICK t : t = text
      OBVIOUS
    <2>5. /\ icy_extract_title(meta) = Truncated(SubSeq(t, m, l - 1))
          /\ t = SubSeq(meta, 1, z) /\ Len(t) = z /\ \A i \in 1..z : t[i] = meta[i]
          /\ m \in Nat /\ m >= 1 /\ m <= Len(t) /\ l \in m..(Len(t) + 1) /\ l <= Len(t)
          /\ t[l] = END
      <3> HIDE DEF z, text, start, from, last
      <3>1. m \in Nat /\ m >= 1 /\ l \in m..(Len(t) + 1) /\ Len(t) \in Nat
        BY <1>4, <1>6, <1>7, <2>2, <2>3, <2>4
      <3>2. m <= Len(t) /\ l <= Len(t)
        BY <1>9, <2>3, <2>4, <3>1
      <3>3. t = SubSeq(meta, 1, z)
        BY <2>4 DEF text
      <3> QED BY <1>2, <1>7, <2>1, <2>3, <2>4, <3>1, <3>2, <3>3
    <2> HIDE DEF z, text, start, from, last
    <2>6. m \in 1..Len(meta) /\ l \in m..Len(meta) /\ meta[l] = END
      BY <1>1, <2>5
    <2> DEFINE n == l - 1
    <2>7. n \in Int /\ 1 <= m /\ m <= n + 1 /\ n <= z /\ n <= Len(meta) /\ z <= Len(meta)
      BY <1>1, <2>5
    <2>8. l - 1 = n
      OBVIOUS
    <2> HIDE DEF n
    <2>9. SubSeq(t, m, n) = SubSeq(meta, m, n)
      BY <1>1, <2>5, <2>7, PartOfPart
    <2>10. SubSeq(meta, m, n) \in Seq(0..CONT)
      BY <2>5, <2>7, PartIs
    <2> QED BY <2>5, <2>6, <2>8, <2>9, <2>10
  <1> QED
    BY <1>8, <1>9

\* The title of any block fits into its buffer.
LEMMA TitleFits ==
    ASSUME NEW meta \in Seq(0..CONT)
    PROVE  Len(icy_extract_title(meta)) <= TITLE_MAX
  <1>1. TITLE_MAX \in Nat
    BY IcyAssumption
  <1>2. CASE icy_extract_title(meta) = <<>>
    BY <1>1, <1>2
  <1>3. CASE icy_extract_title(meta) # <<>>
    <2>1. PICK value \in Seq(0..CONT) : icy_extract_title(meta) = Truncated(value)
      BY <1>3, TitleIs
    <2>2. PICK cut \in 0..Len(value) :
              cut <= TITLE_MAX /\ Truncated(value) = SubSeq(value, 1, cut)
      BY TruncatedIs
    <2>3. Len(SubSeq(value, 1, cut)) = cut
      OBVIOUS
    <2> QED BY <2>1, <2>2, <2>3
  <1> QED
    BY <1>2, <1>3

\* A text that goes up to no half character of a block.
WholePart(t) ==
    \E b \in Blocks : \E i \in DOMAIN b :
        /\ i + Len(t) <= Len(b) /\ t = SubSeq(b, i, i + Len(t) - 1)
        /\ b[i + Len(t)] # CONT

\* The title of a block is one, if it has any.
LEMMA TitleWhole ==
    ASSUME NEW b \in Blocks, icy_extract_title(b) # <<>>
    PROVE  icy_extract_title(b) \in Seq(0..CONT) /\ WholePart(icy_extract_title(b))
  <1>1. b \in Seq(0..CONT) /\ Len(b) \in Nat /\ END # CONT
    BY StreamAssumption DEF END, CONT
  <1>0. PICK start \in 1..Len(b) : \E l \in start..Len(b) :
            /\ b[l] = END
            /\ SubSeq(b, start, l - 1) \in Seq(0..CONT)
            /\ icy_extract_title(b) = Truncated(SubSeq(b, start, l - 1))
    BY <1>1, TitleIs
  <1>2. PICK last \in start..Len(b) :
            /\ b[last] = END
            /\ SubSeq(b, start, last - 1) \in Seq(0..CONT)
            /\ icy_extract_title(b) = Truncated(SubSeq(b, start, last - 1))
    BY <1>0
  <1>3. PICK value : value = SubSeq(b, start, last - 1)
    OBVIOUS
  <1>4. /\ value \in Seq(0..CONT) /\ Len(value) = last - start
        /\ \A k \in 1..(last - start) : value[k] = b[start + k - 1]
    BY <1>1, <1>2, <1>3
  <1>5. PICK cut \in 0..Len(value) :
            /\ Truncated(value) = SubSeq(value, 1, cut)
            /\ 0 < cut /\ cut < Len(value) => value[cut + 1] # CONT
    BY <1>4, TruncatedIs
  <1> DEFINE t == SubSeq(value, 1, cut)
  <1>6. icy_extract_title(b) = t
    BY <1>2, <1>3, <1>5
  <1>7. t \in Seq(0..CONT) /\ Len(t) = cut
    <2> DEFINE S == 0..CONT
    <2>1. value \in Seq(S) /\ cut \in 0..Len(value)
      BY <1>4
    <2> HIDE DEF S
    <2>2. SubSeq(value, 1, cut) \in Seq(S) /\ Len(SubSeq(value, 1, cut)) = cut
      BY <2>1
    <2> QED BY <2>2 DEF S
  <1>8. cut > 0
    <2>1. cut # 0
      BY <1>6, <1>7
    <2> QED BY <1>4, <2>1
  <1>9. start + cut <= last /\ start + cut <= Len(b) /\ start + cut \in 1..Len(b)
    BY <1>1, <1>4
  <1>10. b[start + cut] # CONT
    <2>1. CASE start + cut = last
      BY <1>1, <1>2, <2>1
    <2>2. CASE start + cut # last
      <3>1. cut < Len(value) /\ cut + 1 \in 1..(last - start)
        BY <1>4, <1>9, <2>2
      <3>2. value[cut + 1] = b[start + (cut + 1) - 1]
        BY <1>4, <3>1
      <3>3. start + (cut + 1) - 1 = start + cut
        BY <1>1
      <3> QED BY <1>5, <1>8, <3>1, <3>2, <3>3
    <2> QED BY <2>1, <2>2
  <1>11. t = SubSeq(b, start, start + cut - 1)
    <2> DEFINE S == 0..CONT
    <2>1. /\ b \in Seq(S) /\ value \in Seq(S) /\ start + cut - 1 <= Len(b)
          /\ start + cut - 1 \in Int
      BY <1>1, <1>4, <1>9
    <2> HIDE DEF S
    <2>2. SubSeq(b, start, start + cut - 1) \in Seq(S)
          /\ Len(SubSeq(b, start, start + cut - 1)) = cut
      BY <1>8, <1>9, <2>1
    <2>3. \A k \in 1..cut : SubSeq(b, start, start + cut - 1)[k] = b[start + k - 1]
      BY <1>8, <1>9, <2>1
    <2>4. \A k \in 1..cut : t[k] = value[k] /\ value[k] = b[start + k - 1]
      BY <1>4, <1>9, <2>1, SMTT(40)
    <2>5. t \in Seq(S)
      BY <1>7 DEF S
    <2> HIDE DEF t
    <2> QED BY <1>7, <2>2, <2>3, <2>4, <2>5, SeqEqual
  <1> HIDE DEF t
  <1>12. start \in DOMAIN b
    BY <1>1
  <1> QED
    BY <1>6, <1>7, <1>9, <1>10, <1>11, <1>12 DEF WholePart

-----------------------------------------------------------------------------
(* The types of the rest                                                   *)

\* The flags, the verdict and what on_headers was told.
FlagsOk ==
    /\ stop \in BOOLEAN /\ notice \in BOOLEAN /\ aborted \in BOOLEAN /\ closed \in BOOLEAN
    /\ rc \in {"none", "ok", "failed"}
    /\ result \in {"none", "clean", "failed", "status"}
    /\ http_status \in Statuses
    /\ announced \in Seq([type : Statuses, status : Statuses])

\* Every step keeps it.
LEMMA FlagsStep ==
    ASSUME WireOk, HeadOk, FlagsOk, [Next]_vars
    PROVE  FlagsOk'
  <1>0. /\ code \in Statuses /\ content_type \in Statuses
        /\ [type |-> content_type, status |-> code] \in [type : Statuses, status : Statuses]
    <2>1. resp.status \in Statuses /\ 0 \in Statuses
      BY AnswersAre DEF WireOk, Responses, Statuses
    <2>2. code \in Statuses /\ content_type \in Statuses
      BY <2>1 DEF WireOk, HeadOk
    <2> QED BY <2>2
  <1> USE DEF FlagsOk, wire, head, end, icyVars
  <1>1. CASE NoBundle
    BY <1>1 DEF NoBundle
  <1>2. CASE Perform
    BY <1>2 DEF Perform
  <1>3. CASE StatusLine
    BY <1>3 DEF StatusLine, Rearm
  <1>4. CASE HeaderLine
    BY <1>4 DEF HeaderLine
  <1>5. CASE HeadersEnd
    BY <1>5 DEF HeadersEnd
  <1>6. CASE Deliver
    BY <1>6 DEF Deliver
  <1>7. CASE WriteCb
    <2>1. UNCHANGED <<stop, notice, aborted, closed, result>>
      BY <1>7 DEF WriteCb
    <2>2. rc' \in {"none", "ok", "failed"} /\ http_status' \in Statuses
      BY <1>7, <1>0 DEF WriteCb, WriteStopped, FirstPiece, LaterPiece, Took, Refused
    <2>3. \/ announced' = announced
          \/ announced' = Append(announced, [type |-> content_type, status |-> code])
      BY <1>7 DEF WriteCb, WriteStopped, FirstPiece, LaterPiece, Announce
    <2>5. announced' \in Seq([type : Statuses, status : Statuses])
      <3> DEFINE S == [type : Statuses, status : Statuses]
                 e == [type |-> content_type, status |-> code]
      <3>1. /\ e \in S /\ announced \in Seq(S)
            /\ announced' = announced \/ announced' = Append(announced, e)
        BY <1>0, <2>3
      <3> HIDE DEF S, e
      <3>2. announced' \in Seq(S)
        BY <3>1
      <3> QED BY <3>2 DEF S
    <2> QED BY <1>0, <2>1, <2>2, <2>3, <2>5
  <1>8. CASE FeedAudio
    BY <1>8 DEF FeedAudio, PassAudio, Refused
  <1>9. CASE FeedMeta
    BY <1>9 DEF FeedMeta, ReadLen, ReadMeta
  <1>10. CASE Fed
    BY <1>10 DEF Fed, Took, Refused
  <1>11. CASE Follow
    BY <1>11 DEF Follow
  <1>12. CASE TransferEnds
    BY <1>12 DEF TransferEnds
  <1>13. CASE Cancelled
    BY <1>13 DEF Cancelled
  <1>14. CASE Conclude
    <2>1. UNCHANGED <<stop, aborted, closed, rc>>
      BY <1>14 DEF Conclude
    <2>2. result' \in {"none", "clean", "failed", "status"} /\ http_status' \in Statuses
      BY <1>14, <1>0 DEF Conclude, LastHeaders, Verdict
    <2>3. notice' \in BOOLEAN
      <3>1. notice' = (result' = "clean" /\ metaint_bad)
        BY <1>14 DEF Conclude
      <3> QED BY <3>1 DEF HeadOk
    <2>4. \/ announced' = announced
          \/ announced' = Append(announced, [type |-> content_type, status |-> code])
      BY <1>14 DEF Conclude, LastHeaders, Announce
    <2>5. announced' \in Seq([type : Statuses, status : Statuses])
      <3> DEFINE S == [type : Statuses, status : Statuses]
                 e == [type |-> content_type, status |-> code]
      <3>1. /\ e \in S /\ announced \in Seq(S)
            /\ announced' = announced \/ announced' = Append(announced, e)
        BY <1>0, <2>4
      <3> HIDE DEF S, e
      <3>2. announced' \in Seq(S)
        BY <3>1
      <3> QED BY <3>2 DEF S
    <2> QED BY <1>0, <2>1, <2>2, <2>3, <2>4, <2>5
  <1>15. CASE CloseRing
    BY <1>15 DEF CloseRing
  <1>16. CASE Finish
    BY <1>16 DEF Finish
  <1>17. CASE Abort \/ Stop
    BY <1>17 DEF Abort, Stop
  <1>18. CASE Joined \/ UNCHANGED vars
    BY <1>18 DEF Joined, vars
  <1> QED
    BY <1>1, <1>2, <1>3, <1>4, <1>5, <1>6, <1>7, <1>8, <1>9, <1>10,
       <1>11, <1>12, <1>13, <1>14, <1>15, <1>16, <1>17, <1>18 DEF Next, Worker

\* The parser's counters stay within the block they count.
IcyTyped ==
    /\ icy.state \in {"audio", "len", "meta"} /\ icy.metaint \in {0, METAINT}
    /\ icy.audio_left \in 0..METAINT /\ icy.meta_left \in 0..UNIT
    /\ icy.meta \in Seq(0..CONT) /\ Len(icy.meta) + icy.meta_left \in {0, UNIT}
    /\ Len(icy.last_title) <= TITLE_MAX

\* Every step keeps it.
LEMMA IcyTypedStep ==
    ASSUME WireOk, HeadOk, IcyOk, RingOk, DataOk, PlacedOk, IcyTyped, [Next]_vars
    PROVE  IcyTyped'
  <1> USE DEF wire, head, end, icyVars
  <1>1. CASE NoBundle
    BY <1>1 DEF NoBundle, IcyTyped
  <1>2. CASE Perform
    BY <1>2 DEF Perform, IcyTyped
  <1>3. CASE StatusLine
    BY <1>3 DEF StatusLine, IcyTyped
  <1>4. CASE HeaderLine
    BY <1>4 DEF HeaderLine, IcyTyped
  <1>5. CASE HeadersEnd
    BY <1>5 DEF HeadersEnd, IcyTyped
  <1>6. CASE Deliver
    BY <1>6 DEF Deliver, IcyTyped
  <1>7. CASE WriteCb
    <2>1. icy' = icy \/ icy' = icy_init(metaint)
      BY <1>7 DEF WriteCb, WriteStopped, FirstPiece, LaterPiece
    <2>2. metaint \in {0, METAINT} /\ METAINT \in Nat /\ UNIT \in Nat /\ TITLE_MAX \in Nat
      BY StreamAssumption, IcyAssumption DEF HeadOk
    <2>3. CASE icy' = icy_init(metaint)
      BY <2>2, <2>3 DEF icy_init, IcyTyped
    <2>4. CASE icy' = icy
      BY <2>4 DEF IcyTyped
    <2> QED BY <2>1, <2>3, <2>4
  <1>8. CASE FeedAudio
    <2>1. CASE icy' = icy
      BY <2>1 DEF IcyTyped
    <2>2. CASE PassAudio /\ icy.metaint # 0
      <3> DEFINE left == icy.audio_left - AudioRun
                 state == IF icy.audio_left = AudioRun THEN "len" ELSE "audio"
      <3>1. left \in 0..METAINT
        <4>1. AudioRun \in Nat /\ AudioRun <= icy.audio_left
          <5>1. Len(data) \in Nat /\ icy.audio_left \in Nat
            BY DEF IcyOk
          <5> QED BY <2>2, <5>1 DEF AudioRun, Smaller
        <4>2. icy.audio_left \in 0..METAINT /\ METAINT \in Nat
          BY StreamAssumption DEF IcyTyped
        <4> QED BY <4>1, <4>2
      <3>2. icy' = [icy EXCEPT !.audio_left = left, !.state = state]
        BY <2>2 DEF PassAudio
      <3>3. state \in {"audio", "len", "meta"}
        OBVIOUS
      <3> HIDE DEF left, state
      <3>4. /\ icy'.metaint = icy.metaint /\ icy'.audio_left = left /\ icy'.state = state
            /\ icy'.meta_left = icy.meta_left /\ icy'.meta = icy.meta
            /\ icy'.last_title = icy.last_title
        BY <3>2 DEF IcyOk
      <3> QED BY <3>1, <3>3, <3>4 DEF IcyTyped
    <2> QED BY <1>8, <2>1, <2>2 DEF FeedAudio, PassAudio
  <1>9. CASE FeedMeta
    <2>0. METAINT \in Nat /\ UNIT \in Nat /\ icy.metaint \in {0, METAINT}
      BY StreamAssumption, IcyAssumption DEF IcyTyped
    <2>1. CASE ReadLen
      <3> DEFINE left == data[1].val * UNIT
                 audio == IF left = 0 THEN icy.metaint ELSE icy.audio_left
                 state == IF left = 0 THEN "audio" ELSE "meta"
      <3>1. icy' = [icy EXCEPT !.meta_left = left, !.meta = <<>>,
                               !.audio_left = audio, !.state = state]
        BY <2>1 DEF ReadLen
      <3>2. left \in {0, UNIT}
        <4>1. data[1].val \in {0, 1}
          BY <1>9, <2>1, PlacedByLen
        <4>2. 0 * UNIT = 0 /\ 1 * UNIT = UNIT
          BY <2>0
        <4> QED BY <4>1, <4>2
      <3>3. audio \in 0..METAINT /\ state \in {"audio", "len", "meta"}
        BY <2>0 DEF IcyTyped
      <3> HIDE DEF left, audio, state
      <3>4. /\ icy'.metaint = icy.metaint /\ icy'.audio_left = audio /\ icy'.state = state
            /\ icy'.meta_left = left /\ icy'.meta = <<>> /\ icy'.last_title = icy.last_title
        BY <3>1 DEF IcyOk
      <3> QED BY <2>0, <3>2, <3>3, <3>4 DEF IcyTyped
    <2>2. CASE ReadMeta
      <3> DEFINE n == Smaller(icy.meta_left, Len(data))
                 meta == MetaJoined(n)
                 title == icy_extract_title(meta)
                 left == icy.meta_left - n
                 audio == IF n = icy.meta_left THEN icy.metaint ELSE icy.audio_left
                 state == IF n = icy.meta_left THEN "audio" ELSE "meta"
                 last == IF n = icy.meta_left /\ Changed(title)
                         THEN title ELSE icy.last_title
      <3>1. icy' = [icy EXCEPT !.meta = meta, !.meta_left = left, !.audio_left = audio,
                               !.state = state, !.last_title = last]
        BY <2>2 DEF ReadMeta
      <3>2. /\ n \in 0..Len(data) /\ n \in Nat /\ icy.meta_left \in Nat /\ left \in Nat
            /\ left <= icy.meta_left
        BY DEF IcyOk, Smaller
      <3> HIDE DEF n
      <3>3. meta \in Seq(0..CONT) /\ Len(meta) = Len(icy.meta) + n
        <4> DEFINE s == [k \in 1..n |-> data[k].val]
        <4>1. \A k \in 1..n : data[k].val \in 0..CONT
          <5> SUFFICES ASSUME NEW k \in 1..n PROVE data[k].val \in 0..CONT
            OBVIOUS
          <5>1. data \in Seq(Bytes) /\ k \in 1..Len(data)
            BY <3>2 DEF IcyOk
          <5>2. data[k] \in Bytes
            BY <5>1
          <5> QED BY <5>2 DEF Bytes
        <4>2. s \in Seq(0..CONT) /\ Len(s) = n
          BY <3>2, <4>1
        <4>3. icy.meta \in Seq(0..CONT) /\ meta = icy.meta \o s
          BY DEF IcyTyped, MetaJoined
        <4> DEFINE S == 0..CONT
        <4>4. s \in Seq(S) /\ icy.meta \in Seq(S)
          BY <4>2, <4>3
        <4> HIDE DEF s, meta, S
        <4>5. PICK m : m = icy.meta
          OBVIOUS
        <4>6. m \o s \in Seq(S) /\ Len(m \o s) = Len(m) + Len(s)
          BY <4>4, <4>5, Joins
        <4>7. meta \in Seq(S)
          BY <4>3, <4>5, <4>6
        <4> QED BY <4>2, <4>3, <4>5, <4>6, <4>7 DEF S
      <3>4. audio \in 0..METAINT /\ state \in {"audio", "len", "meta"}
        BY <2>0 DEF IcyTyped
      <3>5. Len(last) <= TITLE_MAX
        <4> HIDE DEF meta
        <4>1. Len(title) <= TITLE_MAX
          BY <3>3, TitleFits
        <4> HIDE DEF title
        <4> QED BY <4>1 DEF IcyTyped
      <3>6. left \in 0..UNIT /\ Len(meta) + left \in {0, UNIT}
        <4>1. Len(icy.meta) \in Nat /\ Len(icy.meta) + icy.meta_left \in {0, UNIT}
          BY DEF IcyTyped
        <4>2. icy.meta_left \in 0..UNIT
          BY DEF IcyTyped
        <4> HIDE DEF meta
        <4> QED BY <2>0, <3>2, <3>3, <4>1, <4>2, SMTT(40)
      <3> HIDE DEF meta, title, left, audio, state, last
      <3>7. /\ icy'.metaint = icy.metaint /\ icy'.audio_left = audio /\ icy'.state = state
            /\ icy'.meta_left = left /\ icy'.meta = meta /\ icy'.last_title = last
        BY <3>1 DEF IcyOk
      <3> QED BY <3>3, <3>4, <3>5, <3>6, <3>7 DEF IcyTyped
    <2> QED BY <1>9, <2>1, <2>2 DEF FeedMeta
  <1>10. CASE Fed
    BY <1>10 DEF Fed, IcyTyped
  <1>11. CASE Follow
    BY <1>11 DEF Follow, IcyTyped
  <1>12. CASE TransferEnds
    BY <1>12 DEF TransferEnds, IcyTyped
  <1>13. CASE Cancelled
    BY <1>13 DEF Cancelled, IcyTyped
  <1>14. CASE Conclude
    BY <1>14 DEF Conclude, IcyTyped
  <1>15. CASE CloseRing
    BY <1>15 DEF CloseRing, IcyTyped
  <1>16. CASE Finish
    BY <1>16 DEF Finish, IcyTyped
  <1>17. CASE Abort \/ Stop
    BY <1>17 DEF Abort, Stop, IcyTyped
  <1>18. CASE Joined \/ UNCHANGED vars
    BY <1>18 DEF Joined, vars, IcyTyped
  <1> QED
    BY <1>1, <1>2, <1>3, <1>4, <1>5, <1>6, <1>7, <1>8, <1>9, <1>10,
       <1>11, <1>12, <1>13, <1>14, <1>15, <1>16, <1>17, <1>18 DEF Next, Worker

-----------------------------------------------------------------------------
(* Where the blocks of a body end                                          *)

\* The ends of the blocks among the first c bytes of a body.
Ends(body, c) ==
    {n \in 1..c : body[n].is = "other" /\ (n < Len(body) => body[n + 1].is = "audio")}

\* Each run begins behind the one before it and its block.
LEMMA RunsAscend ==
    ASSUME NEW A \in {1, 1 + UNIT}, NEW B \in {1, 1 + UNIT}, NEW i \in 0..2, NEW j \in 0..2
    PROVE  /\ i < j => RunStart(i, A, B) + METAINT < RunStart(j, A, B)
           /\ i <= j => RunStart(i, A, B) <= RunStart(j, A, B)
  <1>1. METAINT \in Nat \ {0} /\ A \in Nat \ {0} /\ B \in Nat \ {0}
    BY StreamAssumption, IcyAssumption
  <1>2. /\ RunStart(0, A, B) = 0 /\ RunStart(1, A, B) = METAINT + A
        /\ RunStart(2, A, B) = METAINT + METAINT + A + B
    BY <1>1 DEF RunStart, Played
  <1>3. (i = 0 \/ i = 1 \/ i = 2) /\ (j = 0 \/ j = 1 \/ j = 2)
    OBVIOUS
  <1> QED
    BY <1>1, <1>2, <1>3

\* The numbers of a block.
LEMMA BlockNumbers ==
    ASSUME NEW A \in {1, 1 + UNIT}, NEW B \in {1, 1 + UNIT}, NEW j \in 0..1
    PROVE  /\ METAINT \in Nat \ {0} /\ UNIT \in Nat \ {0} /\ j \in 0..2 /\ j + 1 \in 0..2
           /\ RunStart(j, A, B) \in Nat /\ RunStart(j + 1, A, B) \in Nat
           /\ BlockSize(j, A, B) \in Nat \ {0} /\ BlockSize(j, A, B) \in {1, 1 + UNIT}
           /\ RunStart(j + 1, A, B) = RunStart(j, A, B) + METAINT + BlockSize(j, A, B)
  <1>1. j \in 0..2 /\ j + 1 \in 0..2
    OBVIOUS
  <1>2. /\ METAINT \in Nat \ {0} /\ UNIT \in Nat \ {0}
        /\ RunStart(j, A, B) \in Nat /\ RunStart(j + 1, A, B) \in Nat
        /\ BlockSize(j, A, B) \in {1, 1 + UNIT}
    BY <1>1, LaidNumbers
  <1>3. RunStart(j + 1, A, B) = RunStart(j, A, B) + METAINT + BlockSize(j, A, B)
    BY NextRun
  <1> QED
    BY <1>1, <1>2, <1>3

\* The length of a laid-out body, and its audio.
LEMMA LaidAudio ==
    ASSUME NEW body, NEW A \in {1, 1 + UNIT}, NEW B \in {1, 1 + UNIT}, Laid(body, A, B)
    PROVE  /\ METAINT \in Nat \ {0} /\ RunStart(2, A, B) \in Nat
           /\ Len(body) = RunStart(2, A, B) + METAINT /\ Len(body) \in Nat
           /\ \A j \in 0..2 : \A i \in 1..METAINT : body[RunStart(j, A, B) + i].is = "audio"
  <1>1. 2 \in 0..2
    OBVIOUS
  <1>2. METAINT \in Nat \ {0} /\ RunStart(2, A, B) \in Nat
    BY <1>1, LaidNumbers
  <1>3. Len(body) = RunStart(2, A, B) + METAINT
    BY DEF Laid
  <1>4. \A j \in 0..2 : \A i \in 1..METAINT : body[RunStart(j, A, B) + i] = Audio(Played(j) + i)
    BY DEF Laid
  <1>5. \A n : Audio(n).is = "audio"
    BY DEF Audio
  <1> QED
    BY <1>2, <1>3, <1>4, <1>5, SMTT(40)

\* A block ends where the next run begins.
LEMMA EndsAre ==
    ASSUME NEW body, NEW A \in {1, 1 + UNIT}, NEW B \in {1, 1 + UNIT}, Laid(body, A, B),
           NEW c \in Nat, c <= Len(body)
    PROVE  \A n : n \in Ends(body, c) <=>
                      n \in 1..c /\ \E j \in 0..1 : n = RunStart(j + 1, A, B)
  <1>0. Len(body) \in Nat
    BY LaidAudio
  <1>1. ASSUME NEW n \in Ends(body, c)
        PROVE  \E j \in 0..1 : n = RunStart(j + 1, A, B)
    <2>1. n \in 1..Len(body) /\ body[n].is = "other"
      BY <1>0 DEF Ends
    <2>2. PICK j \in 0..1 : \E i \in 1..BlockSize(j, A, B) : n = RunStart(j, A, B) + METAINT + i
      <3>1. \A j \in 0..2 : \A i \in 1..METAINT : body[RunStart(j, A, B) + i].is = "audio"
        BY LaidAudio, ZenonT(40)
      <3> QED BY <2>1, <3>1, LaidPlaces, SMTT(40)
    <2>3. PICK i \in 1..BlockSize(j, A, B) : n = RunStart(j, A, B) + METAINT + i
      BY <2>2
    <2>4. /\ METAINT \in Nat /\ RunStart(j, A, B) \in Nat /\ BlockSize(j, A, B) \in Nat
          /\ RunStart(j + 1, A, B) = RunStart(j, A, B) + METAINT + BlockSize(j, A, B)
      BY BlockNumbers
    <2>5. i = BlockSize(j, A, B)
      <3> SUFFICES ASSUME i # BlockSize(j, A, B) PROVE FALSE
        OBVIOUS
      <3> DEFINE h == i + 1
      <3>1. h \in 1..BlockSize(j, A, B) /\ n + 1 = RunStart(j, A, B) + METAINT + h
        BY <2>3, <2>4, SMTT(40)
      <3> HIDE DEF h
      <3>2. body[n + 1].is = "other"
        BY <3>1 DEF Laid
      <3>3. RunStart(j + 1, A, B) <= RunStart(2, A, B)
        BY RunsAscend
      <3>4. n < Len(body)
        <4>1. n < RunStart(j + 1, A, B)
          BY <2>3, <2>4, <3>1, SMTT(40)
        <4>2. Len(body) = RunStart(2, A, B) + METAINT /\ RunStart(2, A, B) \in Nat
          BY LaidAudio
        <4> QED BY <2>1, <2>4, <3>3, <4>1, <4>2, SMTT(40)
      <3> QED BY <3>2, <3>4 DEF Ends
    <2> QED BY <2>3, <2>4, <2>5
  <1>2. ASSUME NEW n \in 1..c, NEW j \in 0..1, n = RunStart(j + 1, A, B)
        PROVE  n \in Ends(body, c)
    <2>1. /\ METAINT \in Nat \ {0} /\ RunStart(j, A, B) \in Nat
          /\ BlockSize(j, A, B) \in Nat \ {0}
          /\ RunStart(j + 1, A, B) = RunStart(j, A, B) + METAINT + BlockSize(j, A, B)
      BY BlockNumbers
    <2>2. BlockSize(j, A, B) \in 1..BlockSize(j, A, B)
      BY <2>1
    <2>3. body[n].is = "other"
      BY <1>2, <2>1, <2>2 DEF Laid
    <2>4. j + 1 \in 0..2 /\ 1 \in 1..METAINT
      BY <2>1
    <2>5. body[n + 1].is = "audio"
      <3>1. \A k \in 0..2 : \A i \in 1..METAINT : body[RunStart(k, A, B) + i].is = "audio"
        BY LaidAudio, ZenonT(40)
      <3>2. body[RunStart(j + 1, A, B) + 1].is = "audio"
        BY <2>4, <3>1
      <3> QED BY <1>2, <3>2
    <2> QED BY <2>3, <2>5 DEF Ends
  <1>3. \A n \in Ends(body, c) : n \in 1..c
    BY DEF Ends
  <1> QED
    BY <1>1, <1>2, <1>3

\* No block ends within a run and up to the last byte but one of its block.
LEMMA NoEnd ==
    ASSUME NEW body, NEW A \in {1, 1 + UNIT}, NEW B \in {1, 1 + UNIT}, Laid(body, A, B),
           NEW c \in Nat, NEW d \in Nat, c <= d, d <= Len(body),
           NEW j \in 0..2, RunStart(j, A, B) <= c, j < 2 => d < RunStart(j + 1, A, B)
    PROVE  Ends(body, d) = Ends(body, c)
  <1>0. Len(body) \in Nat /\ c <= Len(body)
    BY LaidAudio
  <1>1. ASSUME NEW i \in 0..1, RunStart(i + 1, A, B) \in 1..d
        PROVE  RunStart(i + 1, A, B) \in 1..c
    <2>1. CASE i + 1 <= j
      <3>1. i + 1 \in 0..2
        OBVIOUS
      <3>2. RunStart(i + 1, A, B) <= RunStart(j, A, B) /\ RunStart(j, A, B) \in Nat
        BY <2>1, <3>1, RunsAscend, LaidNumbers
      <3> QED BY <1>1, <3>2
    <2>2. CASE i + 1 > j
      <3>1. j < 2 /\ j + 1 \in 0..2 /\ i + 1 \in 0..2 /\ j + 1 <= i + 1
        BY <2>2
      <3>2. RunStart(j + 1, A, B) <= RunStart(i + 1, A, B) /\ RunStart(j + 1, A, B) \in Nat
        BY <3>1, RunsAscend, LaidNumbers
      <3> QED BY <1>1, <3>1, <3>2
    <2> QED BY <2>1, <2>2
  <1>2. \A n \in 1..c : n \in 1..d
    OBVIOUS
  <1>3. \A n : n \in Ends(body, d) <=> n \in Ends(body, c)
    BY <1>0, <1>1, <1>2, EndsAre, SMTT(40)
  <1> QED
    BY <1>3

\* With the last byte of a block it ends, and no other does.
LEMMA OneEnd ==
    ASSUME NEW body, NEW A \in {1, 1 + UNIT}, NEW B \in {1, 1 + UNIT}, Laid(body, A, B),
           NEW c \in Nat, NEW j \in 0..1, NEW d, d = RunStart(j + 1, A, B),
           RunStart(j, A, B) <= c, c < d
    PROVE  /\ d \in Nat /\ Ends(body, d) = Ends(body, c) \cup {d}
           /\ \A n \in Ends(body, c) : n \in Nat /\ n < d
  <1>0. /\ Len(body) \in Nat /\ d \in Nat \ {0} /\ d <= Len(body) /\ c <= Len(body)
        /\ METAINT \in Nat /\ j + 1 \in 0..2 /\ RunStart(2, A, B) \in Nat
    <2>1. /\ METAINT \in Nat /\ RunStart(2, A, B) \in Nat
          /\ Len(body) = RunStart(2, A, B) + METAINT
      BY LaidAudio
    <2>2. /\ j + 1 \in 0..2 /\ METAINT \in Nat \ {0} /\ d \in Nat
          /\ RunStart(j, A, B) \in Nat /\ BlockSize(j, A, B) \in Nat
          /\ d = RunStart(j, A, B) + METAINT + BlockSize(j, A, B)
      BY BlockNumbers
    <2>3. 2 \in 0..2 /\ j + 1 <= 2
      OBVIOUS
    <2>4. d <= RunStart(2, A, B)
      BY <2>2, <2>3, RunsAscend
    <2>5. d # 0 /\ d <= Len(body) /\ c <= Len(body)
      <3> DEFINE r == RunStart(2, A, B)
      <3>1. d \in Nat /\ r \in Nat /\ METAINT \in Nat /\ d <= r /\ Len(body) = r + METAINT
        BY <2>1, <2>2, <2>4
      <3> HIDE DEF r
      <3>2. d <= Len(body) /\ Len(body) \in Nat
        BY <3>1
      <3> QED BY <3>1, <3>2
    <2> QED BY <2>1, <2>2, <2>5
  <1> DEFINE e == d - 1
  <1>1. e \in Nat /\ c <= e /\ e <= Len(body) /\ e < d /\ d = e + 1
    BY <1>0
  <1> HIDE DEF e
  <1>2. Ends(body, e) = Ends(body, c)
    BY <1>1, NoEnd
  <1>3. \A n : n \in Ends(body, d) <=> n \in Ends(body, e) \/ n = d
    <2>1. \A n : n \in Ends(body, d) <=>
                     n \in 1..d /\ \E i \in 0..1 : n = RunStart(i + 1, A, B)
      BY <1>0, EndsAre
    <2>2. \A n : n \in Ends(body, e) <=>
                     n \in 1..e /\ \E i \in 0..1 : n = RunStart(i + 1, A, B)
      BY <1>1, EndsAre
    <2>3. \A n : n \in 1..d <=> n \in 1..e \/ n = d
      BY <1>0, <1>1
    <2> QED BY <2>1, <2>2, <2>3
  <1>4. \A n \in Ends(body, c) : n \in Nat /\ n < d
    BY <1>0, <1>1 DEF Ends
  <1> QED
    BY <1>0, <1>2, <1>3, <1>4

\* A block begins behind its run; its title is that of what follows its length byte.
LEMMA TitleOfBlock ==
    ASSUME NEW A \in {1, 1 + UNIT}, NEW B \in {1, 1 + UNIT}, Laid(resp.body, A, B),
           NEW j \in 0..1
    PROVE  TitleAt(RunStart(j + 1, A, B)) =
               icy_extract_title([k \in 1..(BlockSize(j, A, B) - 1) |->
                                      resp.body[RunStart(j, A, B) + METAINT + 1 + k].val])
  <1> DEFINE n == RunStart(j + 1, A, B)
             w == RunStart(j, A, B) + METAINT
             Good(m) == /\ resp.body[m].is = "audio" \/ m = 1
                        /\ \A k \in (m + 1)..n : resp.body[k].is = "other"
  <1>1. /\ METAINT \in Nat \ {0} /\ RunStart(j, A, B) \in Nat
        /\ BlockSize(j, A, B) \in Nat \ {0} /\ n = w + BlockSize(j, A, B)
    BY BlockNumbers
  <1>2. w \in 1..n /\ n \in Nat /\ n - w - 1 = BlockSize(j, A, B) - 1
    BY <1>1
  <1>3. resp.body[w].is = "audio"
    <2>1. METAINT \in 1..METAINT /\ j \in 0..2
      BY <1>1
    <2> QED BY <2>1, LaidAudio, SMTT(40)
  <1>4. ASSUME NEW k \in (w + 1)..n PROVE resp.body[k].is = "other"
    <2> DEFINE i == k - w
    <2>1. i \in 1..BlockSize(j, A, B) /\ k = w + i
      BY <1>1
    <2> HIDE DEF i
    <2> QED BY <2>1 DEF Laid
  <1>5. Good(w)
    BY <1>3, <1>4
  <1>6. ASSUME NEW m \in 1..n, Good(m) PROVE m = w
    <2>1. ~(m < w)
      <3> SUFFICES ASSUME m < w PROVE FALSE
        OBVIOUS
      <3>1. w \in (m + 1)..n
        BY <1>2
      <3> QED BY <1>3, <1>6, <3>1
    <2>2. ~(m > w)
      <3> SUFFICES ASSUME m > w PROVE FALSE
        OBVIOUS
      <3>1. m \in (w + 1)..n /\ m # 1
        BY <1>2
      <3> QED BY <1>4, <1>6, <3>1
    <2> QED BY <1>2, <2>1, <2>2
  <1>7. Begins(n) = w
    <2>1. Begins(n) = CHOOSE m \in 1..n : Good(m)
      BY DEF Begins
    <2> HIDE DEF n, w, Good
    <2>2. \E m \in 1..n : Good(m)
      BY <1>2, <1>5
    <2>3. Begins(n) \in 1..n /\ Good(Begins(n))
      BY <2>1, <2>2
    <2> QED BY <1>6, <2>3
  <1>8. TitleAt(n) = icy_extract_title([k \in 1..(n - w - 1) |-> resp.body[w + 1 + k].val])
    BY <1>7 DEF TitleAt
  <1> QED
    BY <1>2, <1>8

\* A block without text has no title.
LEMMA NoTitle == icy_extract_title(<<>>) = <<>>
  <1>1. <<>> \in Seq(0..CONT) /\ Len(<<>>) = 0
    OBVIOUS
  <1> QED
    <2>1. ~\E start \in 1..Len(<<>>) : TRUE
      BY <1>1
    <2> QED BY <1>1, <2>1, TitleIs

-----------------------------------------------------------------------------
(* The titles handed on                                                    *)

\* What can be handed on.
Wholes == {t \in Seq(0..CONT) : WholePart(t)}

\* The title last handed on is that of the last block that has one.
LastTold ==
    IF icy.last_title = <<>> THEN \A m \in BlocksRead : TitleAt(m) = <<>>
    ELSE \E m \in BlocksRead : /\ TitleAt(m) = icy.last_title
                               /\ \A k \in BlocksRead : k > m => TitleAt(k) = <<>>

\* One title for each block that has news, in their order.
TitlesTold ==
    /\ Len(titles) = Cardinality(News)
    /\ \A n \in News : titles[NewsBy(n)] = TitleAt(n)
    /\ LastTold

\* What has been put together of a block is what has come of it.
MetaOk ==
    icy.state = "meta" =>
        \A k \in 1..Len(icy.meta) : icy.meta[k] = resp.body[Consumed - Len(icy.meta) + k].val

\* Titles are texts of blocks; there are none but of a stream, and as many as news.
TitlesOk ==
    /\ titles \in Seq(Wholes)
    /\ \/ ~got_body \/ ~status_is_streamable(code)
       \/ pc \in {"start", "nobundle", "wait", "headers"}
       => titles = <<>>
    /\ Receiving /\ resp.meta = "good" => TitlesTold /\ MetaOk

\* The blocks read are those that end among the bytes read.
LEMMA BlocksReadAre == BlocksRead = Ends(resp.body, Consumed)
  BY DEF BlocksRead, Ends, Consumed

\* Titles depend on the body only.
LEMMA TitleSame == ASSUME UNCHANGED resp PROVE \A n : TitleAt(n)' = TitleAt(n)
  BY DEF TitleAt, Begins

\* The blocks with news are finitely many, and each has its place among them.
LEMMA NewsCounted ==
    ASSUME WireOk, DataOk
    PROVE  /\ IsFiniteSet(News) /\ Cardinality(News) \in Nat
           /\ \A n \in News : n \in Nat /\ NewsBy(n) \in 1..Cardinality(News)
  <1>1. Consumed \in Nat
    BY ConsumedIs
  <1>2. News \subseteq BlocksRead /\ BlocksRead \subseteq 1..Consumed
    BY BlocksReadAre DEF News, Ends
  <1>3. IsFiniteSet(1..Consumed)
    BY <1>1, FS_Interval
  <1>4. IsFiniteSet(News)
    BY <1>2, <1>3, FS_Subset
  <1>5. Cardinality(News) \in Nat
    BY <1>4, FS_CardinalityType
  <1>6. ASSUME NEW n \in News PROVE n \in Nat /\ NewsBy(n) \in 1..Cardinality(News)
    <2> DEFINE S == {m \in News : m <= n}
    <2>1. n \in Nat
      BY <1>1, <1>2
    <2>2. S \in SUBSET News /\ n \in S
      BY <2>1
    <2> HIDE DEF S
    <2>3. IsFiniteSet(S) /\ Cardinality(S) <= Cardinality(News)
      BY <1>4, <2>2, FS_Subset
    <2>4. Cardinality(S) \in Nat /\ Cardinality(S) # 0
      BY <2>2, <2>3, FS_CardinalityType, FS_EmptySet
    <2>5. Cardinality(S) \in 1..Cardinality(News)
      BY <1>5, <2>3, <2>4
    <2>6. NewsBy(n) = Cardinality(S)
      BY DEF NewsBy, S
    <2> QED BY <2>1, <2>5, <2>6
  <1> QED
    BY <1>4, <1>5, <1>6

\* Nothing was read to its end.
LEMMA ToldSame ==
    ASSUME TitlesTold, BlocksRead' = BlocksRead, UNCHANGED <<resp, titles>>,
           icy'.last_title = icy.last_title
    PROVE  TitlesTold'
  <1>1. \A n : TitleAt(n)' = TitleAt(n)
    BY TitleSame
  <1>2. News' = News
    BY <1>1 DEF News
  <1>3. \A n : NewsBy(n)' = NewsBy(n)
    BY <1>2 DEF NewsBy
  <1>4. LastTold'
    BY <1>1 DEF TitlesTold, LastTold
  <1> QED
    BY <1>1, <1>2, <1>3, <1>4 DEF TitlesTold

\* A block that ends at n has news exactly if its title is not the last one handed on.
LEMMA NewsMore ==
    ASSUME LastTold, NEW n \in Nat, \A m \in BlocksRead : m \in Nat /\ m < n,
           BlocksRead' = BlocksRead \cup {n}, UNCHANGED resp
    PROVE  News' = IF Changed(TitleAt(n)) THEN News \cup {n} ELSE News
  <1>1. \A m : TitleAt(m)' = TitleAt(m)
    BY TitleSame
  <1>2. ASSUME NEW m \in BlocksRead PROVE m \in News' <=> m \in News
    <2>1. m < n /\ m \in Nat
      BY <1>2
    <2>2. \A k \in BlocksRead' : k < m => k \in BlocksRead
      BY <2>1
    <2>3. m \in BlocksRead'
      BY <1>2
    <2> QED BY <1>1, <1>2, <2>1, <2>2, <2>3 DEF News
  <1>3. ASSUME NEW m \in BlocksRead
        PROVE  m \in BlocksRead' /\ m < n /\ m # n /\ (\A k \in BlocksRead' : k < n => k \in BlocksRead)
    OBVIOUS
  <1>4. CASE Changed(TitleAt(n))
    <2>1. TitleAt(n) # <<>> /\ TitleAt(n) # icy.last_title
      BY <1>4 DEF Changed
    <2>2. ASSUME NEW m \in BlocksRead', m < n, TitleAt(m) # <<>>,
                 \A k \in BlocksRead' : m < k /\ k < n => TitleAt(k) = <<>>
          PROVE  TitleAt(m) # TitleAt(n)
      <3>1. m \in BlocksRead /\ m \in Nat
        BY <2>2
      <3>2. icy.last_title # <<>>
        BY <2>2, <3>1 DEF LastTold
      <3>3. PICK l \in BlocksRead : /\ TitleAt(l) = icy.last_title
                                    /\ \A k \in BlocksRead : k > l => TitleAt(k) = <<>>
        BY <3>2 DEF LastTold
      <3>4. l \in Nat /\ l < n /\ l \in BlocksRead'
        OBVIOUS
      <3>5. ~(m > l)
        BY <2>2, <3>1, <3>3
      <3>6. ~(m < l)
        BY <2>2, <3>2, <3>3, <3>4
      <3>7. m = l
        BY <3>1, <3>4, <3>5, <3>6
      <3> QED BY <2>1, <3>3, <3>7
    <2>3. n \in News'
      BY <1>1, <2>1, <2>2 DEF News
    <2>4. \A m \in News' : m \in BlocksRead \/ m = n
      BY DEF News
    <2>5. \A m \in News : m \in BlocksRead
      BY DEF News
    <2> QED BY <1>2, <1>4, <2>3, <2>4, <2>5
  <1>5. CASE ~Changed(TitleAt(n))
    <2>1. n \notin News'
      <3>1. CASE TitleAt(n) = <<>>
        BY <1>1, <3>1 DEF News
      <3>2. CASE TitleAt(n) # <<>>
        <4>1. TitleAt(n) = icy.last_title
          BY <1>5, <3>2 DEF Changed
        <4>2. PICK l \in BlocksRead : /\ TitleAt(l) = TitleAt(n)
                                      /\ \A k \in BlocksRead : k > l => TitleAt(k) = <<>>
          BY <3>2, <4>1 DEF LastTold
        <4>3. l < n /\ l \in BlocksRead' /\ l \in Nat
          OBVIOUS
        <4>4. \A k \in BlocksRead' : l < k /\ k < n => TitleAt(k) = <<>>
          <5> SUFFICES ASSUME NEW k \in BlocksRead', l < k, k < n PROVE TitleAt(k) = <<>>
            OBVIOUS
          <5>1. k \in BlocksRead /\ k \in Nat
            OBVIOUS
          <5> QED BY <4>2, <4>3, <5>1
        <4> QED BY <1>1, <3>2, <4>2, <4>3, <4>4 DEF News
      <3> QED BY <3>1, <3>2
    <2>2. \A m \in News' : m \in BlocksRead \/ m = n
      BY DEF News
    <2>3. \A m \in News : m \in BlocksRead
      BY DEF News
    <2> QED BY <1>2, <1>5, <2>1, <2>2, <2>3
  <1> QED
    BY <1>4, <1>5

\* A block has ended: its title is handed on if it is not the last one.
LEMMA ToldMore ==
    ASSUME WireOk, DataOk, TitlesTold, titles \in Seq(Wholes),
           NEW n \in Nat, \A m \in BlocksRead : m \in Nat /\ m < n,
           BlocksRead' = BlocksRead \cup {n}, UNCHANGED resp,
           IF Changed(TitleAt(n))
           THEN titles' = Append(titles, TitleAt(n)) /\ icy'.last_title = TitleAt(n)
           ELSE titles' = titles /\ icy'.last_title = icy.last_title
    PROVE  TitlesTold'
  <1>1. \A m : TitleAt(m)' = TitleAt(m)
    BY TitleSame
  <1>2. News' = IF Changed(TitleAt(n)) THEN News \cup {n} ELSE News
    BY NewsMore DEF TitlesTold
  <1>3. /\ IsFiniteSet(News) /\ Cardinality(News) \in Nat
        /\ \A m \in News : m \in Nat /\ NewsBy(m) \in 1..Cardinality(News)
    BY NewsCounted
  <1>4. \A m \in News : m \in BlocksRead /\ m < n /\ m # n
    BY DEF News
  <1>5. n \in BlocksRead'
    OBVIOUS
  <1>6. CASE Changed(TitleAt(n))
    <2>1. /\ titles' = Append(titles, TitleAt(n)) /\ icy'.last_title = TitleAt(n)
          /\ News' = News \cup {n} /\ TitleAt(n) # <<>>
      BY <1>2, <1>6 DEF Changed
    <2>2. Cardinality(News') = Cardinality(News) + 1
      BY <1>3, <1>4, <2>1, FS_AddElement
    <2>3. Len(titles) = Cardinality(News)
      BY DEF TitlesTold
    <2>4. /\ Len(titles') = Len(titles) + 1
          /\ \A i \in 1..Len(titles) : titles'[i] = titles[i]
          /\ titles'[Len(titles) + 1] = TitleAt(n)
      BY <2>1
    <2>5. ASSUME NEW m \in News PROVE NewsBy(m)' = NewsBy(m)
      <3>1. {k \in News' : k <= m} = {k \in News : k <= m}
        BY <1>3, <1>4, <2>1
      <3> QED BY <3>1 DEF NewsBy
    <2>6. NewsBy(n)' = Cardinality(News')
      <3>1. {k \in News' : k <= n} = News'
        BY <1>3, <1>4, <2>1
      <3> QED BY <3>1 DEF NewsBy
    <2>7. ASSUME NEW m \in News' PROVE titles'[NewsBy(m)'] = TitleAt(m)'
      <3>1. CASE m = n
        BY <1>1, <2>2, <2>3, <2>4, <2>6, <3>1
      <3>2. CASE m \in News
        <4>1. NewsBy(m) \in 1..Len(titles) /\ titles[NewsBy(m)] = TitleAt(m)
          BY <1>3, <2>3, <3>2 DEF TitlesTold
        <4> QED BY <1>1, <2>4, <2>5, <3>2, <4>1
      <3> QED BY <2>1, <3>1, <3>2
    <2>8. LastTold'
      <3>1. \A k \in BlocksRead' : ~(k > n)
        OBVIOUS
      <3> QED BY <1>1, <1>5, <2>1, <3>1 DEF LastTold
    <2> QED BY <2>2, <2>3, <2>4, <2>7, <2>8 DEF TitlesTold
  <1>7. CASE ~Changed(TitleAt(n))
    <2>1. /\ titles' = titles /\ icy'.last_title = icy.last_title /\ News' = News
      BY <1>2, <1>7
    <2>2. \A m : NewsBy(m)' = NewsBy(m)
      BY <2>1 DEF NewsBy
    <2>3. LastTold'
      <3>0. LastTold
        BY DEF TitlesTold
      <3>1. CASE icy.last_title = <<>>
        <4>1. TitleAt(n) = <<>>
          BY <1>7, <3>1 DEF Changed
        <4>2. \A m \in BlocksRead' : TitleAt(m)' = <<>>
          BY <1>1, <3>0, <3>1, <4>1 DEF LastTold
        <4> QED BY <2>1, <3>1, <4>2 DEF LastTold
      <3>2. CASE icy.last_title # <<>>
        <4>1. PICK l \in BlocksRead : /\ TitleAt(l) = icy.last_title
                                      /\ \A k \in BlocksRead : k > l => TitleAt(k) = <<>>
          BY <3>0, <3>2 DEF LastTold
        <4>2. CASE TitleAt(n) = <<>>
          <5>1. l \in BlocksRead' /\ \A k \in BlocksRead' : k > l => TitleAt(k) = <<>>
            BY <4>1, <4>2
          <5> QED BY <1>1, <2>1, <3>2, <4>1, <5>1 DEF LastTold
        <4>3. CASE TitleAt(n) # <<>>
          <5>1. TitleAt(n) = icy.last_title
            BY <1>7, <4>3 DEF Changed
          <5>2. \A k \in BlocksRead' : ~(k > n)
            OBVIOUS
          <5> QED BY <1>1, <1>5, <2>1, <3>2, <5>1, <5>2 DEF LastTold
        <4> QED BY <4>2, <4>3
      <3> QED BY <3>1, <3>2
    <2> QED BY <1>1, <2>1, <2>2, <2>3 DEF TitlesTold
  <1> QED
    BY <1>6, <1>7

\* The bytes of a block so far, and what of the piece joins them, are the body's.
LEMMA MetaIs ==
    ASSUME WireOk, DataOk, IcyTyped, MetaOk, icy.state = "meta", NEW n \in 0..Len(data)
    PROVE  /\ MetaJoined(n) \in Seq(0..CONT) /\ Len(MetaJoined(n)) = Len(icy.meta) + n
           /\ Len(icy.meta) \in Nat
           /\ \A k \in 1..(Len(icy.meta) + n) :
                  MetaJoined(n)[k] = resp.body[Consumed - Len(icy.meta) + k].val
  <1> DEFINE s == [k \in 1..n |-> data[k].val]
             S == 0..CONT
  <1>1. Len(data) \in Nat /\ Consumed \in Nat /\ n \in Nat /\ data \in Seq(Bytes)
    BY ConsumedIs DEF DataOk
  <1>2. \A k \in 1..n : data[k].val \in 0..CONT /\ data[k].val = resp.body[Consumed + k].val
    <2> SUFFICES ASSUME NEW k \in 1..n
                 PROVE  data[k].val \in 0..CONT /\ data[k].val = resp.body[Consumed + k].val
      OBVIOUS
    <2>1. k \in 1..Len(data)
      BY <1>1
    <2>2. data[k] \in Bytes /\ data[k] = resp.body[Consumed + k]
      BY <1>1, <2>1 DEF DataOk
    <2> QED BY <2>2 DEF Bytes
  <1>3. PICK m : m = icy.meta
    OBVIOUS
  <1>4. s \in Seq(S) /\ Len(s) = n /\ m \in Seq(S) /\ MetaJoined(n) = m \o s
    BY <1>1, <1>2, <1>3 DEF IcyTyped, MetaJoined
  <1>5. \A k \in 1..n : s[k] = resp.body[Consumed + k].val
    BY <1>2
  <1> HIDE DEF s, S
  <1>6. /\ m \o s \in Seq(S) /\ Len(m \o s) = Len(m) + n /\ Len(m) \in Nat
        /\ \A i \in 1..Len(m) : (m \o s)[i] = m[i]
        /\ \A i \in 1..n : (m \o s)[Len(m) + i] = s[i]
    <2>1. PICK r, T : r = s /\ T = S
      OBVIOUS
    <2>2. r \in Seq(T) /\ m \in Seq(T) /\ Len(r) = n
      BY <1>4, <2>1
    <2>3. m \o r \in Seq(T) /\ Len(m \o r) = Len(m) + n /\ Len(m) \in Nat
      BY <2>2
    <2>4. \A i \in 1..Len(m) : (m \o r)[i] = m[i]
      BY <2>2
    <2>5. \A i \in 1..n : (m \o r)[Len(m) + i] = r[i]
      BY <2>2
    <2> QED BY <2>1, <2>3, <2>4, <2>5
  <1>7. ASSUME NEW k \in 1..(Len(m) + n)
        PROVE  (m \o s)[k] = resp.body[Consumed - Len(m) + k].val
    <2>1. CASE k <= Len(m)
      <3>1. k \in 1..Len(m)
        BY <1>1, <1>6, <2>1
      <3> QED BY <1>3, <1>6, <3>1 DEF MetaOk
    <2>2. CASE k > Len(m)
      <3> DEFINE i == k - Len(m)
      <3>1. i \in 1..n /\ k = Len(m) + i /\ Consumed - Len(m) + k = Consumed + i
        BY <1>1, <1>6, <2>2
      <3> HIDE DEF i
      <3>2. (m \o s)[k] = s[i]
        BY <1>6, <3>1
      <3> QED BY <1>5, <3>1, <3>2
    <2> QED BY <1>6, <2>1, <2>2
  <1> QED
    BY <1>3, <1>4, <1>6, <1>7 DEF S

\* A step of the worker that leaves the parser and what is read alone keeps it.
LEMMA TitlesKept ==
    ASSUME TitlesOk, UNCHANGED <<resp, code, icy, titles, got_body>>, Consumed' = Consumed,
           Receiving' => Receiving,
           pc' \in {"start", "nobundle", "wait", "headers"} => titles = <<>>
    PROVE  TitlesOk'
  <1>1. BlocksRead' = BlocksRead
    BY BlocksReadAre DEF BlocksRead, Consumed
  <1>2. Receiving /\ resp.meta = "good" => TitlesTold'
    BY <1>1, ToldSame DEF TitlesOk
  <1>3. Receiving /\ resp.meta = "good" => MetaOk'
    BY DEF TitlesOk, MetaOk
  <1> QED
    BY <1>2, <1>3 DEF TitlesOk

\* Outside a stream that is received only what was handed on counts.
LEMMA TitlesAside ==
    ASSUME TitlesOk, UNCHANGED titles, ~Receiving',
           \/ ~got_body' \/ ~status_is_streamable(code')
           \/ pc' \in {"start", "nobundle", "wait", "headers"}
           => titles = <<>>
    PROVE  TitlesOk'
  BY DEF TitlesOk

\* The layout of the body and the run the parser is in or behind.
LEMMA WhereIs ==
    ASSUME PlacedOk, Receiving, resp.meta = "good"
    PROVE  \E A, B \in {1, 1 + UNIT} : \E j \in 0..2 :
               /\ Laid(resp.body, A, B)
               /\ InRun(j, A, B) \/ AtLen(j, A, B) \/ InBlock(j, A, B)
  BY DEF PlacedOk, Placed

\* A run of audio that is passed on.
LEMMA TitlesByAudio ==
    ASSUME WireOk, IcyOk, RingOk, DataOk, PlacedOk, TitlesOk, FeedAudio, PassAudio,
           UNCHANGED pc
    PROVE  TitlesOk'
  <1>1. Receiving /\ UNCHANGED <<resp, code, off, got_body, titles>>
    BY DEF FeedAudio, PassAudio, RingOk, Receiving, wire
  <1>2. AudioRun \in 0..Len(data) /\ Len(data) \in Nat \ {0} /\ Consumed \in Nat
    BY AudioRunIs, ConsumedIs DEF FeedAudio, DataOk
  <1>3. Consumed' = Consumed + AudioRun
    BY <1>1, <1>2, Advances DEF PassAudio
  <1>4. CASE resp.meta # "good"
    <2>1. UNCHANGED <<got_body, code, pc, titles, resp>>
      BY <1>1
    <2> QED BY <1>4, <2>1 DEF TitlesOk
  <1>5. CASE resp.meta = "good"
    <2>0. icy.metaint = METAINT /\ icy.metaint # 0
      BY <1>1, <1>5, StreamAssumption DEF PlacedOk
    <2>1. PICK A \in {1, 1 + UNIT} : \E B \in {1, 1 + UNIT} : \E j \in 0..2 :
              /\ Laid(resp.body, A, B)
              /\ InRun(j, A, B) \/ AtLen(j, A, B) \/ InBlock(j, A, B)
      BY <1>1, <1>5, WhereIs
    <2>2. PICK B \in {1, 1 + UNIT} : \E j \in 0..2 :
              /\ Laid(resp.body, A, B)
              /\ InRun(j, A, B) \/ AtLen(j, A, B) \/ InBlock(j, A, B)
      BY <2>1
    <2>3. PICK j \in 0..2 : /\ Laid(resp.body, A, B)
                            /\ InRun(j, A, B) \/ AtLen(j, A, B) \/ InBlock(j, A, B)
      BY <2>2
    <2>4. METAINT \in Nat \ {0} /\ RunStart(j, A, B) \in Nat
      BY LaidNumbers
    <2>5. InRun(j, A, B)
      BY <2>0, <2>3 DEF FeedAudio, InAudio, AtLen, InBlock
    <2> DEFINE at == Consumed - RunStart(j, A, B)
    <2>6. at \in 0..(METAINT - 1) /\ icy.audio_left = METAINT - at
      BY <2>5 DEF InRun
    <2>7. Consumed = RunStart(j, A, B) + at /\ AudioRun \in Nat
      BY <1>2, <2>4
    <2> HIDE DEF at
    <2>8. AudioRun <= METAINT - at
      BY <1>2, <2>0, <2>4, <2>6, <2>7 DEF AudioRun, Smaller
    <2>9. RunStart(j, A, B) <= Consumed /\ Consumed' <= RunStart(j, A, B) + METAINT
      <3>1. at \in Nat
        BY <2>4, <2>6
      <3> QED BY <1>3, <2>4, <2>7, <2>8, <3>1
    <2>10. j < 2 => Consumed' < RunStart(j + 1, A, B)
      <3> SUFFICES ASSUME j < 2 PROVE Consumed' < RunStart(j + 1, A, B)
        OBVIOUS
      <3>1. j \in 0..1
        OBVIOUS
      <3>2. /\ RunStart(j + 1, A, B) = RunStart(j, A, B) + METAINT + BlockSize(j, A, B)
            /\ BlockSize(j, A, B) \in Nat \ {0}
        BY <3>1, BlockNumbers
      <3>3. Consumed' \in Nat
        BY <1>2, <1>3
      <3> QED BY <2>4, <2>9, <3>2, <3>3
    <2>11. BlocksRead' = BlocksRead
      <3>1. Consumed' \in Nat /\ Consumed <= Consumed' /\ Consumed' <= Len(resp.body)
        BY <1>2, <1>3, ConsumedIs
      <3>2. Ends(resp.body, Consumed') = Ends(resp.body, Consumed)
        BY <1>2, <2>3, <2>9, <2>10, <3>1, NoEnd
      <3> QED BY <1>1, <3>2 DEF BlocksRead, Ends, Consumed
    <2>12. icy'.last_title = icy.last_title /\ icy'.state # "meta"
      BY <2>0 DEF PassAudio, IcyOk
    <2>13. TitlesTold'
      BY <1>1, <1>5, <2>11, <2>12, ToldSame DEF TitlesOk
    <2>14. MetaOk'
      BY <2>12 DEF MetaOk
    <2> QED BY <1>1, <2>13, <2>14 DEF TitlesOk
  <1> QED
    BY <1>4, <1>5

\* The length byte of a block, which ends a block of 0 bytes.
LEMMA TitlesByLen ==
    ASSUME WireOk, IcyOk, RingOk, DataOk, PlacedOk, TitlesOk, FeedMeta, ReadLen
    PROVE  TitlesOk'
  <1>1. Receiving /\ UNCHANGED <<resp, code, off, titles, got_body, pc>>
    BY DEF FeedMeta, ReadLen, RingOk, Receiving, wire
  <1>2. Len(data) \in Nat \ {0} /\ Consumed \in Nat /\ 1 \in 0..Len(data)
    BY ConsumedIs DEF FeedMeta, DataOk
  <1>3. Consumed' = Consumed + 1
    BY <1>1, <1>2, Advances DEF ReadLen
  <1>4. resp.meta = "good" /\ icy.metaint = METAINT
    BY <1>1 DEF ReadLen, PlacedOk
  <1>5. PICK A \in {1, 1 + UNIT} : \E B \in {1, 1 + UNIT} : \E j \in 0..2 :
            /\ Laid(resp.body, A, B)
            /\ InRun(j, A, B) \/ AtLen(j, A, B) \/ InBlock(j, A, B)
    BY <1>1, <1>4, WhereIs
  <1>6. PICK B \in {1, 1 + UNIT} : \E j \in 0..2 :
            /\ Laid(resp.body, A, B)
            /\ InRun(j, A, B) \/ AtLen(j, A, B) \/ InBlock(j, A, B)
    BY <1>5
  <1>7. PICK j \in 0..2 : /\ Laid(resp.body, A, B)
                          /\ InRun(j, A, B) \/ AtLen(j, A, B) \/ InBlock(j, A, B)
    BY <1>6
  <1>8. Consumed = RunStart(j, A, B) + METAINT
    BY <1>7 DEF ReadLen, InRun, AtLen, InBlock
  <1>9. j \in 0..1
    <2>1. Consumed < Len(resp.body)
      BY <1>2, ConsumedIs
    <2>2. Len(resp.body) = RunStart(2, A, B) + METAINT
      BY <1>7, LaidAudio
    <2>3. j # 2
      BY <1>2, <1>8, <2>1, <2>2
    <2> QED BY <2>3
  <1>10. /\ METAINT \in Nat \ {0} /\ RunStart(j, A, B) \in Nat
         /\ BlockSize(j, A, B) \in Nat \ {0}
         /\ RunStart(j + 1, A, B) = RunStart(j, A, B) + METAINT + BlockSize(j, A, B)
    BY <1>9, BlockNumbers
  <1>11. /\ icy'.last_title = icy.last_title /\ icy'.meta = <<>>
    BY DEF ReadLen, IcyOk
  <1>12. MetaOk'
    <2>1. Len(icy'.meta) = 0
      BY <1>11
    <2> QED BY <2>1 DEF MetaOk
  <1>13. TitlesTold
    BY <1>1, <1>4 DEF TitlesOk
  <1>14. CASE BlockSize(j, A, B) = 1
    <2> DEFINE n == RunStart(j + 1, A, B)
    <2>1. n = Consumed + 1 /\ Consumed < n /\ RunStart(j, A, B) <= Consumed
      BY <1>2, <1>8, <1>10, <1>14
    <2>2. /\ n \in Nat /\ Ends(resp.body, n) = Ends(resp.body, Consumed) \cup {n}
          /\ \A m \in Ends(resp.body, Consumed) : m \in Nat /\ m < n
      BY <1>2, <1>7, <1>9, <2>1, OneEnd
    <2>3. TitleAt(n) = <<>>
      <3>1. TitleAt(n) = icy_extract_title([k \in 1..(BlockSize(j, A, B) - 1) |->
                             resp.body[RunStart(j, A, B) + METAINT + 1 + k].val])
        BY <1>7, <1>9, TitleOfBlock
      <3> DEFINE e == [k \in 1..(BlockSize(j, A, B) - 1) |->
                          resp.body[RunStart(j, A, B) + METAINT + 1 + k].val]
      <3>2. 1..(BlockSize(j, A, B) - 1) = {}
        BY <1>14
      <3>3. e = <<>>
        BY <3>2
      <3> QED BY <3>1, <3>3, NoTitle
    <2>4. ~Changed(TitleAt(n))
      BY <2>3 DEF Changed
    <2>5. BlocksRead' = BlocksRead \cup {n}
      <3>1. BlocksRead' = Ends(resp.body, n)
        BY <1>1, <1>3, <2>1 DEF BlocksRead, Ends, Consumed
      <3> QED BY <2>2, <3>1, BlocksReadAre
    <2>6. \A m \in BlocksRead : m \in Nat /\ m < n
      BY <2>2, BlocksReadAre
    <2> HIDE DEF n
    <2>7. TitlesTold'
      BY <1>1, <1>11, <1>13, <2>2, <2>4, <2>5, <2>6, ToldMore DEF TitlesOk
    <2> QED BY <1>1, <1>12, <2>7 DEF TitlesOk
  <1>15. CASE BlockSize(j, A, B) # 1
    <2>1. Consumed' < RunStart(j + 1, A, B) /\ RunStart(j, A, B) <= Consumed
      <3>1. BlockSize(j, A, B) > 1
        BY <1>10, <1>15
      <3>2. RunStart(j, A, B) <= Consumed
        BY <1>8, <1>10
      <3>3. RunStart(j + 1, A, B) = Consumed + BlockSize(j, A, B)
        BY <1>8, <1>10
      <3>4. BlockSize(j, A, B) \in Nat /\ Consumed \in Nat
        BY <1>2, <1>10
      <3>5. Consumed + 1 < RunStart(j + 1, A, B)
        BY <3>1, <3>3, <3>4
      <3> QED BY <1>3, <3>2, <3>5
    <2>2. Consumed' \in Nat /\ Consumed <= Consumed' /\ Consumed' <= Len(resp.body)
      BY <1>2, <1>3, ConsumedIs
    <2>3. Ends(resp.body, Consumed') = Ends(resp.body, Consumed)
      <3>1. j \in 0..2
        BY <1>9
      <3> QED BY <1>2, <1>7, <2>1, <2>2, <3>1, NoEnd
    <2>4. BlocksRead' = BlocksRead
      BY <1>1, <2>3 DEF BlocksRead, Ends, Consumed
    <2>5. TitlesTold'
      BY <1>1, <1>11, <1>13, <2>4, ToldSame
    <2> QED BY <1>1, <1>12, <2>5 DEF TitlesOk
  <1> QED
    BY <1>14, <1>15

\* A part of a block, the last one or another.
LEMMA TitlesByMeta ==
    ASSUME WireOk, IcyOk, RingOk, DataOk, PlacedOk, IcyTyped, TitlesOk, FeedMeta, ReadMeta
    PROVE  TitlesOk'
  <1>1. Receiving /\ UNCHANGED <<resp, code, off, got_body, pc>> /\ icy.state = "meta"
    BY DEF FeedMeta, ReadMeta, RingOk, Receiving, wire
  <1> DEFINE n == Smaller(icy.meta_left, Len(data))
  <1>2. /\ Len(data) \in Nat \ {0} /\ Consumed \in Nat /\ n \in 0..Len(data) /\ n \in Nat
        /\ icy.meta_left \in Nat /\ n <= icy.meta_left
    BY ConsumedIs DEF FeedMeta, DataOk, IcyOk, Smaller
  <1>3. Consumed' = Consumed + n
    <2>1. data' = Rest(n)
      BY DEF ReadMeta
    <2> HIDE DEF n
    <2> QED BY <1>1, <1>2, <2>1, Advances
  <1>4. resp.meta = "good" /\ icy.metaint = METAINT
    BY <1>1 DEF ReadMeta, PlacedOk
  <1>5. TitlesTold /\ MetaOk /\ titles \in Seq(Wholes)
    BY <1>1, <1>4 DEF TitlesOk
  <1>6. PICK A \in {1, 1 + UNIT} : \E B \in {1, 1 + UNIT} : \E i \in 0..2 :
            /\ Laid(resp.body, A, B)
            /\ InRun(i, A, B) \/ AtLen(i, A, B) \/ InBlock(i, A, B)
    BY <1>1, <1>4, WhereIs
  <1>7. PICK B \in {1, 1 + UNIT} : \E i \in 0..2 :
            /\ Laid(resp.body, A, B)
            /\ InRun(i, A, B) \/ AtLen(i, A, B) \/ InBlock(i, A, B)
    BY <1>6
  <1>8. PICK j \in 0..2 : /\ Laid(resp.body, A, B)
                          /\ InRun(j, A, B) \/ AtLen(j, A, B) \/ InBlock(j, A, B)
    BY <1>7
  <1>9. InBlock(j, A, B)
    BY <1>1, <1>8 DEF InRun, AtLen
  <1>10. j \in 0..1 /\ BlockSize(j, A, B) = 1 + UNIT
    BY <1>9 DEF InBlock
  <1>11. /\ METAINT \in Nat \ {0} /\ UNIT \in Nat \ {0} /\ RunStart(j, A, B) \in Nat
         /\ RunStart(j + 1, A, B) = RunStart(j, A, B) + METAINT + BlockSize(j, A, B)
    BY <1>10, BlockNumbers
  <1> DEFINE at == Len(icy.meta)
             base == RunStart(j, A, B) + METAINT + 1
  <1>12. /\ at \in 0..(UNIT - 1) /\ icy.meta_left = UNIT - at /\ Consumed = base + at
         /\ at \in Nat /\ base \in Nat /\ base + UNIT = RunStart(j + 1, A, B)
    <2> DEFINE l == Consumed - RunStart(j, A, B) - METAINT - 1
    <2>1. l \in 0..(UNIT - 1) /\ icy.meta_left = UNIT - l
      BY <1>9 DEF InBlock
    <2>2. at \in Nat /\ at + icy.meta_left \in {0, UNIT}
      BY DEF IcyTyped
    <2>3. Consumed = base + l /\ base \in Nat
      BY <1>2, <1>11, SMTT(40)
    <2> HIDE DEF at, l
    <2>4. at = l
      BY <1>11, <2>1, <2>2
    <2> HIDE DEF base
    <2>5. base + UNIT = RunStart(j + 1, A, B)
      BY <1>10, <1>11 DEF base
    <2> QED BY <2>1, <2>2, <2>3, <2>4, <2>5
  <1> HIDE DEF n
  <1> DEFINE meta == MetaJoined(n)
  <1>13. /\ meta \in Seq(0..CONT) /\ Len(meta) = at + n
         /\ \A k \in 1..(at + n) : meta[k] = resp.body[base + k].val
    <2>1. /\ meta \in Seq(0..CONT) /\ Len(meta) = at + n
          /\ \A k \in 1..(at + n) : meta[k] = resp.body[Consumed - at + k].val
      BY <1>1, <1>2, <1>5, MetaIs
    <2>2. Consumed - at = base
      <3> HIDE DEF at, base
      <3> QED BY <1>12
    <2> QED BY <2>1, <2>2
  <1> HIDE DEF at, base, meta
  <1> DEFINE title == icy_extract_title(meta)
             left == icy.meta_left - n
             audio == IF n = icy.meta_left THEN icy.metaint ELSE icy.audio_left
             state == IF n = icy.meta_left THEN "audio" ELSE "meta"
             last == IF n = icy.meta_left /\ Changed(title) THEN title ELSE icy.last_title
  <1>14. /\ icy'.meta = meta /\ icy'.state = state /\ icy'.last_title = last
         /\ titles' = IF n = icy.meta_left /\ Changed(title) THEN Append(titles, title)
                      ELSE titles
    <2>1. /\ icy' = [icy EXCEPT !.meta = meta, !.meta_left = left, !.audio_left = audio,
                                !.state = state, !.last_title = last]
          /\ titles' = IF n = icy.meta_left /\ Changed(title) THEN Append(titles, title)
                       ELSE titles
      BY DEF ReadMeta, n, meta
    <2> HIDE DEF title, left, audio, state, last
    <2> QED BY <2>1 DEF IcyOk
  <1> HIDE DEF title, left, audio
  <1>15. RunStart(j, A, B) <= Consumed
    BY <1>11, <1>12 DEF base
  <1>16. CASE n = icy.meta_left
    <2> DEFINE e == RunStart(j + 1, A, B)
    <2>1. at + n = UNIT /\ Consumed' = e /\ Consumed < e
      BY <1>2, <1>3, <1>11, <1>12, <1>16
    <2>2. /\ e \in Nat /\ Ends(resp.body, e) = Ends(resp.body, Consumed) \cup {e}
          /\ \A m \in Ends(resp.body, Consumed) : m \in Nat /\ m < e
      BY <1>2, <1>8, <1>10, <1>15, <2>1, OneEnd
    <2>3. title = TitleAt(e)
      <3>1. TitleAt(e) = icy_extract_title([k \in 1..(BlockSize(j, A, B) - 1) |->
                             resp.body[RunStart(j, A, B) + METAINT + 1 + k].val])
        BY <1>8, <1>10, TitleOfBlock
      <3>2. BlockSize(j, A, B) - 1 = UNIT
        BY <1>10, <1>11
      <3>3. meta = [k \in 1..UNIT |-> meta[k]]
        BY <1>13, <2>1
      <3>4. \A k \in 1..UNIT : meta[k] = resp.body[base + k].val
        BY <1>13, <2>1
      <3>5. [k \in 1..UNIT |-> meta[k]] = [k \in 1..UNIT |-> resp.body[base + k].val]
        BY <3>4
      <3> QED BY <3>1, <3>2, <3>3, <3>5 DEF title, base
    <2>4. title # <<>> => title \in Wholes
      <3>1. PICK b \in Blocks : \A i \in 1..UNIT : resp.body[base + i].val = b[i]
        <4>1. Filled(resp.body, base)
          BY <1>8, <1>10 DEF Laid, base
        <4> QED BY <4>1 DEF Filled
      <3>2. b \in Seq(0..CONT) /\ Len(b) = UNIT
        BY StreamAssumption
      <3>3. meta \in Seq(0..CONT) /\ Len(meta) = UNIT /\ \A k \in 1..UNIT : meta[k] = b[k]
        BY <1>13, <2>1, <3>1
      <3>4. meta = b
        BY <3>2, <3>3, SeqEqual
      <3> QED BY <3>4, TitleWhole DEF title, Wholes
    <2>5. BlocksRead' = BlocksRead \cup {e}
      <3>1. BlocksRead' = Ends(resp.body, e)
        BY <1>1, <2>1 DEF BlocksRead, Ends, Consumed
      <3> QED BY <2>2, <3>1, BlocksReadAre
    <2>6. \A m \in BlocksRead : m \in Nat /\ m < e
      BY <2>2, BlocksReadAre
    <2> HIDE DEF e
    <2>7. IF Changed(TitleAt(e))
          THEN titles' = Append(titles, TitleAt(e)) /\ icy'.last_title = TitleAt(e)
          ELSE titles' = titles /\ icy'.last_title = icy.last_title
      BY <1>14, <1>16, <2>3
    <2>8. TitlesTold'
      BY <1>1, <1>5, <2>2, <2>5, <2>6, <2>7, ToldMore
    <2>9. titles' \in Seq(Wholes)
      <3>1. CASE Changed(title)
        <4>1. title \in Wholes /\ titles' = Append(titles, title)
          BY <1>14, <1>16, <2>4, <3>1 DEF Changed
        <4> QED BY <1>5, <4>1
      <3>2. CASE ~Changed(title)
        BY <1>5, <1>14, <3>2
      <3> QED BY <3>1, <3>2
    <2>10. MetaOk'
      BY <1>14, <1>16 DEF MetaOk
    <2> QED BY <1>1, <2>8, <2>9, <2>10 DEF TitlesOk, Receiving
  <1>17. CASE n # icy.meta_left
    <2>1. Consumed' < RunStart(j + 1, A, B)
      <3>1. at + n < UNIT
        BY <1>2, <1>11, <1>12, <1>17
      <3>2. Consumed' = base + (at + n)
        BY <1>2, <1>3, <1>12
      <3> QED BY <1>2, <1>11, <1>12, <3>1, <3>2
    <2>2. Consumed' \in Nat /\ Consumed <= Consumed' /\ Consumed' <= Len(resp.body)
      BY <1>2, <1>3, ConsumedIs
    <2>3. Ends(resp.body, Consumed') = Ends(resp.body, Consumed)
      BY <1>2, <1>8, <1>15, <2>1, <2>2, NoEnd
    <2>4. BlocksRead' = BlocksRead
      BY <1>1, <2>3 DEF BlocksRead, Ends, Consumed
    <2>5. titles' = titles /\ icy'.last_title = icy.last_title /\ icy'.meta = meta
      BY <1>14, <1>17
    <2>6. TitlesTold'
      BY <1>1, <1>5, <2>4, <2>5, ToldSame
    <2>7. MetaOk'
      <3>1. Consumed' - Len(meta) = base
        BY <1>2, <1>3, <1>12, <1>13
      <3>2. \A k \in 1..Len(meta) : meta[k] = resp'.body[Consumed' - Len(meta) + k].val
        BY <1>1, <1>13, <3>1
      <3> QED BY <2>5, <3>2 DEF MetaOk
    <2> QED BY <1>1, <1>5, <2>5, <2>6, <2>7 DEF TitlesOk, Receiving
  <1> QED
    BY <1>16, <1>17

\* Every step keeps what was handed on the titles of the blocks that were read.
LEMMA TitlesStep ==
    ASSUME WireOk, HeadOk, IcyOk, RingOk, DataOk, PlacedOk, IcyTyped, TitlesOk, [Next]_vars
    PROVE  TitlesOk'
  <1> USE DEF wire, head, end, icyVars
  <1>0. ~got_body \/ ~status_is_streamable(code)
        \/ pc \in {"start", "nobundle", "wait", "headers"} => titles = <<>>
    BY DEF TitlesOk
  <1>1. CASE NoBundle
    BY <1>0, <1>1, TitlesAside DEF NoBundle, Receiving
  <1>2. CASE Perform
    BY <1>0, <1>2, TitlesAside DEF Perform, Receiving
  <1>3. CASE StatusLine
    BY <1>0, <1>3, TitlesAside DEF StatusLine, Receiving
  <1>4. CASE HeaderLine
    BY <1>0, <1>4, TitlesAside DEF HeaderLine, Receiving
  <1>5. CASE HeadersEnd
    <2>1. ~Receiving' /\ UNCHANGED titles /\ titles = <<>>
      BY <1>0, <1>5 DEF HeadersEnd, RingOk, Receiving
    <2> QED BY <2>1, TitlesAside
  <1>6. CASE Deliver
    <2>1. Consumed' = Consumed
      <3>1. PICK n \in 1..(Len(resp.body) - off) :
                data' = SubSeq(resp.body, off + 1, off + n) /\ off' = off + n
        BY <1>6 DEF Deliver
      <3>2. off \in Nat /\ n \in Nat /\ off + n <= Len(resp.body) /\ resp.body \in Seq(Bytes)
        BY ConsumedIs, AnswersAre DEF WireOk, Responses
      <3>3. Len(data') = n
        BY <3>1, <3>2, PieceIs
      <3>4. data = <<>>
        BY <1>6 DEF Deliver, DataOk
      <3> QED BY <3>1, <3>2, <3>3, <3>4 DEF Consumed
    <2>2. /\ Receiving' => Receiving
          /\ UNCHANGED <<resp, code, icy, titles, got_body>> /\ pc' = "write"
      BY <1>6 DEF Deliver, Receiving
    <2> QED BY <2>1, <2>2, TitlesKept
  <1>7. CASE WriteCb
    <2>1. UNCHANGED <<resp, code, off, metaint, titles>> /\ pc = "write"
      BY <1>7 DEF WriteCb
    <2>2. CASE WriteStopped
      <3>1. ~Receiving' /\ UNCHANGED got_body /\ pc' = "performed"
        BY <2>2 DEF WriteStopped, Refused, Receiving
      <3> QED BY <1>0, <2>1, <3>1, TitlesAside
    <2>3. CASE ~got_body /\ FirstPiece
      <3>0. titles = <<>>
        BY <1>0, <2>3
      <3>1. CASE Redirecting(code) \/ ~status_is_streamable(code)
        <4>1. ~Receiving'
          BY <2>1, <3>1, CodeIs DEF Receiving
        <4> QED BY <2>1, <3>0, <4>1, TitlesAside
      <3>2. CASE ~Redirecting(code) /\ status_is_streamable(code)
        <4>1. icy' = icy_init(metaint) /\ UNCHANGED data
          BY <2>3, <3>2 DEF FirstPiece
        <4>2. Consumed = 0 /\ Consumed' = 0
          BY <2>1, <2>3, <4>1 DEF DataOk, Consumed
        <4>3. icy'.state = "audio" /\ icy'.last_title = <<>>
          BY <4>1 DEF icy_init
        <4>4. BlocksRead' = {}
          <5>1. BlocksRead' \subseteq 1..Consumed'
            BY DEF BlocksRead, Consumed
          <5> QED BY <4>2, <5>1
        <4>5. News' = {}
          BY <4>4 DEF News
        <4>6. TitlesTold'
          <5>1. Cardinality({}) = 0 /\ Len(<<>>) = 0
            BY FS_EmptySet
          <5> QED BY <2>1, <3>0, <4>3, <4>4, <4>5, <5>1 DEF TitlesTold, LastTold
        <4>7. MetaOk'
          BY <4>3 DEF MetaOk
        <4> QED BY <2>1, <3>0, <4>6, <4>7 DEF TitlesOk
      <3> QED BY <3>1, <3>2
    <2>4. CASE got_body /\ LaterPiece
      <3>1. CASE Redirecting(http_status) \/ ~status_is_streamable(http_status)
        <4>1. http_status = code
          BY <2>4 DEF RingOk
        <4>2. ~status_is_streamable(code) /\ ~Receiving'
          BY <2>1, <3>1, <4>1, CodeIs DEF Receiving
        <4> QED BY <1>0, <2>1, <4>2, TitlesAside
      <3>2. CASE ~Redirecting(http_status) /\ status_is_streamable(http_status)
        <4>1. UNCHANGED <<data, icy, got_body>> /\ Consumed' = Consumed /\ pc' = "feed"
          BY <2>1, <2>4, <3>2 DEF LaterPiece, Consumed
        <4>2. Receiving' => Receiving
          BY <2>1, <4>1 DEF Receiving
        <4> QED BY <2>1, <4>1, <4>2, TitlesKept
      <3> QED BY <3>1, <3>2
    <2> QED BY <1>7, <2>2, <2>3, <2>4 DEF WriteCb
  <1>8. CASE FeedAudio
    <2>1. CASE PassAudio /\ UNCHANGED pc
      BY <1>8, <2>1, TitlesByAudio
    <2>2. CASE pc' = "performed" /\ UNCHANGED titles
      <3>1. ~Receiving' /\ UNCHANGED <<got_body, code>>
        BY <1>8, <2>2 DEF FeedAudio, Receiving
      <3> QED BY <1>0, <2>2, <3>1, TitlesAside
    <2> QED BY <1>8, <2>1, <2>2 DEF FeedAudio, Refused
  <1>9. CASE FeedMeta
    BY <1>9, TitlesByLen, TitlesByMeta DEF FeedMeta
  <1>10. CASE Fed
    <2>1. /\ UNCHANGED <<resp, code, icy, titles, got_body, data, off>> /\ pc = "feed"
          /\ pc' \in {"performed", "body"}
      BY <1>10 DEF Fed, Took, Refused
    <2>2. Consumed' = Consumed /\ (Receiving' => Receiving)
      BY <2>1 DEF Consumed, Receiving
    <2> QED BY <2>1, <2>2, TitlesKept
  <1>11. CASE Follow
    <2>1. ~status_is_streamable(code)
      <3>1. status_is_streamable(code) => ~resp.follow
        BY AnswersAre DEF WireOk, status_is_streamable
      <3> QED BY <1>11, <3>1 DEF Follow
    <2>2. ~Receiving' /\ UNCHANGED titles
      BY <1>11 DEF Follow, Receiving
    <2> QED BY <1>0, <2>1, <2>2, TitlesAside
  <1>12. CASE TransferEnds
    BY <1>0, <1>12, TitlesAside DEF TransferEnds, Receiving
  <1>13. CASE Cancelled
    BY <1>0, <1>13, TitlesAside DEF Cancelled, Receiving
  <1>14. CASE Conclude
    BY <1>0, <1>14, TitlesAside DEF Conclude, Receiving
  <1>15. CASE CloseRing
    BY <1>0, <1>15, TitlesAside DEF CloseRing, Receiving
  <1>16. CASE Finish
    BY <1>0, <1>16, TitlesAside DEF Finish, Receiving
  <1>17. CASE Abort \/ Stop
    <2>1. UNCHANGED <<resp, code, icy, titles, got_body, data, off, pc>>
      BY <1>17 DEF Abort, Stop
    <2>2. Consumed' = Consumed /\ (Receiving' => Receiving)
      BY <2>1 DEF Consumed, Receiving
    <2> QED BY <1>0, <2>1, <2>2, TitlesKept
  <1>18. CASE Joined \/ UNCHANGED vars
    <2>1. UNCHANGED <<resp, code, icy, titles, got_body, data, off, pc>>
      BY <1>18 DEF Joined, vars
    <2>2. Consumed' = Consumed /\ (Receiving' => Receiving)
      BY <2>1 DEF Consumed, Receiving
    <2> QED BY <1>0, <2>1, <2>2, TitlesKept
  <1> QED
    BY <1>1, <1>2, <1>3, <1>4, <1>5, <1>6, <1>7, <1>8, <1>9, <1>10,
       <1>11, <1>12, <1>13, <1>14, <1>15, <1>16, <1>17, <1>18 DEF Next, Worker

-----------------------------------------------------------------------------
(* The inductive invariant                                                 *)

\* What holds in every reachable state, and says enough of the state to be kept by
\* every step: a step of the parser needs its place in the body, the place needs the
\* headers the parser was made from, and these the latch that ends with a response; a
\* title handed on needs the place for the block it came from.
IInv ==
    /\ WireOk /\ HeadOk /\ IcyOk /\ RingOk /\ ToldOk /\ EndedOk
    /\ DataOk /\ PlacedOk /\ HeardOk /\ FlagsOk /\ IcyTyped
    /\ TitlesOk

\* It holds when the worker starts.
LEMMA InitOk == Init => IInv
  <1> SUFFICES ASSUME Init PROVE IInv
    OBVIOUS
  <1> USE DEF Init, NoResponse, icy_init
  <1>0. /\ METAINT \in Nat /\ MAXREDIRS \in Nat /\ UNIT \in Nat /\ TITLE_MAX \in Nat
        /\ resp.status = 0 /\ resp.meta = "none" /\ resp.body = <<>> /\ Len(resp.body) = 0
        /\ Len(data) = 0
    BY StreamAssumption, IcyAssumption
  <1>1. WireOk
    BY <1>0 DEF WireOk, Steps
  <1>2. HeadOk
    BY <1>0 DEF HeadOk
  <1>3. IcyOk
    BY <1>0 DEF IcyOk
  <1>4. RingOk
    BY DEF RingOk
  <1>5. ToldOk /\ EndedOk
    BY DEF ToldOk, EndedOk
  <1>6. DataOk
    BY <1>0 DEF DataOk, Consumed
  <1>7. PlacedOk
    BY DEF PlacedOk, Receiving
  <1>8. HeardOk
    <2>1. HeardBy(0) = 0
      BY <1>1, HeardAtFirst
    <2> QED BY <2>1 DEF HeardOk
  <1>9. FlagsOk
    <2> DEFINE S == [type : Statuses, status : Statuses]
    <2>1. announced \in Seq(S)
      <3> HIDE DEF S
      <3> QED BY EmptySeq
    <2>2. http_status \in Statuses
      BY DEF Statuses
    <2> QED BY <2>1, <2>2 DEF FlagsOk
  <1>10. IcyTyped
    BY <1>0 DEF IcyTyped
  <1>11. TitlesOk
    BY DEF TitlesOk, Receiving
  <1> QED
    BY <1>1, <1>2, <1>3, <1>4, <1>5, <1>6, <1>7, <1>8, <1>9, <1>10, <1>11 DEF IInv

\* Every step keeps it.
LEMMA Inductive == IInv /\ [Next]_vars => IInv'
  <1> SUFFICES ASSUME IInv, [Next]_vars PROVE IInv'
    OBVIOUS
  <1>1. /\ WireOk /\ HeadOk /\ IcyOk /\ RingOk /\ ToldOk /\ EndedOk
        /\ DataOk /\ PlacedOk /\ HeardOk /\ FlagsOk /\ IcyTyped /\ TitlesOk
    BY DEF IInv
  <1>2. WireOk' /\ HeadOk' /\ IcyOk'
    BY <1>1, WireStep, HeadStep, IcyStep
  <1>3. RingOk' /\ ToldOk' /\ EndedOk'
    BY <1>1, RingStep, ToldStep, EndedStep
  <1>4. DataOk' /\ PlacedOk' /\ HeardOk'
    BY <1>1, DataStep, PlacedStep, HeardStep
  <1>5. FlagsOk' /\ IcyTyped'
    BY <1>1, FlagsStep, IcyTypedStep
  <1>6. TitlesOk'
    BY <1>1, TitlesStep
  <1> QED
    BY <1>2, <1>3, <1>4, <1>5, <1>6 DEF IInv

\* The worker, the parser and the ring agree in every reachable state.
THEOREM Invariance == Spec => []IInv
  BY InitOk, Inductive, PTL DEF Spec

\* The types are those the model gives them.
LEMMA TypesHold == IInv => TypeOk
  <1> SUFFICES ASSUME IInv PROVE TypeOk
    OBVIOUS
  <1>1. /\ WireOk /\ HeadOk /\ RingOk /\ DataOk /\ FlagsOk /\ IcyTyped
    BY DEF IInv
  <1>2. /\ pc \in Steps /\ hop \in 0..MAXREDIRS /\ resp \in Answers \cup {NoResponse}
        /\ unread \subseteq {"meta", "type"} /\ off \in 0..Len(resp.body)
        /\ metaint \in {0, METAINT}
    BY <1>1 DEF WireOk, HeadOk
  <1>3. {code, content_type, http_status} \subseteq Statuses
    <2>1. resp.status \in Statuses /\ 0 \in Statuses
      BY <1>1, AnswersAre DEF WireOk, Responses, Statuses
    <2> QED BY <1>1, <2>1 DEF WireOk, HeadOk, FlagsOk
  <1>4. /\ {stop, metaint_bad, got_body, notice, aborted, closed} \subseteq BOOLEAN
        /\ rc \in {"none", "ok", "failed"}
        /\ result \in {"none", "clean", "failed", "status"}
    BY <1>1 DEF HeadOk, FlagsOk
  <1>5. audio_bytes \in 0..Len(ring) /\ Range(ring) \cup Range(data) \subseteq Bytes
    <2>1. ring \in Seq(Bytes) /\ data \in Seq(Bytes) /\ audio_bytes \in 0..Len(ring)
      BY <1>1 DEF RingOk, DataOk
    <2>2. \A s \in Seq(Bytes) : Range(s) \subseteq Bytes
      BY DEF Range
    <2> QED BY <2>1, <2>2
  <1>6. \A a \in Range(announced) : a.type \in Statuses /\ a.status \in Statuses
    <2> DEFINE S == [type : Statuses, status : Statuses]
    <2>1. announced \in Seq(S)
      BY <1>1 DEF FlagsOk
    <2>2. \A a \in S : a.type \in Statuses /\ a.status \in Statuses
      OBVIOUS
    <2> HIDE DEF S
    <2>3. Range(announced) \subseteq S
      BY <2>1 DEF Range
    <2> QED BY <2>2, <2>3
  <1>7. /\ icy.state \in {"audio", "len", "meta"}
        /\ icy.audio_left \in 0..METAINT /\ icy.meta_left \in 0..UNIT
        /\ Len(icy.meta) + icy.meta_left \in {0, UNIT} /\ Len(icy.last_title) <= TITLE_MAX
    BY <1>1 DEF IcyTyped
  <1> QED
    BY <1>2, <1>3, <1>4, <1>5, <1>6, <1>7 DEF TypeOk

\* Type correctness: the counters of the parser stay within a block of audio and a
\* block of metadata, a title within its buffer, the offset within the body.
THEOREM StreamTypes == Spec => []TypeOk
  BY Invariance, TypesHold, PTL

\* Before the first piece nothing is in the ring, and while a body is received all
\* of what has been read of it and is to be heard.
LEMMA AllHeard ==
    ASSUME IInv, pc \in {"headers", "body", "feed"}
    PROVE  Len(ring) = HeardBy(Consumed)
  <1>1. WireOk /\ RingOk /\ DataOk /\ PlacedOk
    BY DEF IInv
  <1>2. CASE ~got_body
    <2>1. ring = <<>> /\ pc # "feed"
      BY <1>1, <1>2 DEF RingOk
    <2>2. Consumed = 0
      BY <1>1, <1>2, <2>1 DEF DataOk
    <2> QED BY <1>1, <2>1, <2>2, HeardAtFirst
  <1>3. CASE got_body /\ status_is_streamable(code)
    <2>1. pc # "headers"
      BY <1>1, <1>3 DEF RingOk
    <2>2. Receiving
      BY <1>3, <2>1 DEF Receiving
    <2> QED BY <1>1, <2>2, PlacedHeard
  <1>4. CASE ~status_is_streamable(code)
    <2>1. ring = <<>> /\ ~status_is_streamable(resp.status)
      BY <1>1, <1>4 DEF RingOk, WireOk
    <2> QED BY <2>1, NothingToHear
  <1>5. got_body \in BOOLEAN
    BY DEF IInv, HeadOk
  <1> QED
    BY <1>2, <1>3, <1>4, <1>5

\* A byte that is to be heard is at its place in the ring.
LEMMA InPlace ==
    ASSUME IInv, NEW k \in ToHear, HeardBy(k) <= Len(ring)
    PROVE  ring[HeardBy(k)] = resp.body[k]
  <1>1. WireOk /\ RingOk /\ HeardOk
    BY DEF IInv
  <1>2. status_is_streamable(resp.status) /\ resp.body \in Seq(Bytes)
    BY <1>1, AnswersAre DEF ToHear, WireOk, Responses
  <1>3. k \in 1..Len(resp.body) /\ Len(resp.body) \in Nat /\ Len(ring) \in Nat
    BY <1>1, <1>2 DEF ToHear, RingOk
  <1>4. CASE resp.meta # "good"
    <2>1. HeardBy(k) = k
      BY <1>1, <1>2, <1>3, <1>4, HeardRaw
    <2>2. k \in 1..Len(ring)
      BY <1>3, <2>1
    <2> QED BY <1>1, <1>4, <2>1, <2>2 DEF HeardOk, Hearing
  <1>5. CASE resp.meta = "good"
    <2>1. \E A, B \in {1, 1 + UNIT} : Laid(resp.body, A, B)
      BY <1>1, <1>2, <1>5, StreamBodies DEF WireOk
    <2>2. PICK A \in {1, 1 + UNIT} : \E B \in {1, 1 + UNIT} : Laid(resp.body, A, B)
      BY <2>1
    <2>3. PICK B \in {1, 1 + UNIT} : Laid(resp.body, A, B)
      BY <2>2
    <2>4. resp.body[k].is = "audio"
      BY <1>5 DEF ToHear
    <2>5. \/ \E j \in 0..2 : \E i \in 1..METAINT : k = RunStart(j, A, B) + i
          \/ \E j \in 0..1 : \E i \in 1..BlockSize(j, A, B) :
                 k = RunStart(j, A, B) + METAINT + i
      BY <1>3, <2>3, LaidPlaces
    <2>6. PICK j \in 0..2 : \E i \in 1..METAINT : k = RunStart(j, A, B) + i
      BY <2>3, <2>4, <2>5 DEF Laid
    <2>7. PICK i \in 1..METAINT : k = RunStart(j, A, B) + i
      BY <2>6
    <2>8. Played(j) \in Nat /\ METAINT \in Nat /\ i \in 0..METAINT /\ i \in 1..METAINT
      <3>1. Played(j) \in Nat /\ METAINT \in Nat
        BY LaidNumbers
      <3> QED BY <3>1
    <2>9. resp.body[k] = Audio(Played(j) + i)
      BY <2>3, <2>7 DEF Laid
    <2>10. HeardBy(k) = Played(j) + i
      BY <1>1, <1>2, <1>5, <2>3, <2>7, <2>8, HeardLaid
    <2>11. Played(j) + i \in 1..Len(ring)
      BY <1>3, <2>8, <2>10
    <2> QED BY <1>1, <1>5, <2>9, <2>10, <2>11 DEF HeardOk, Hearing
  <1> QED
    BY <1>4, <1>5

\* What is written was announced before, with the response's own headers.
LEMMA ToldFirst ==
    ASSUME IInv, ring # <<>>
    PROVE  announced = <<[type |-> IF resp.typed THEN resp.status ELSE 0,
                          status |-> resp.status]>>
  <1>1. WireOk /\ HeadOk /\ RingOk /\ ToldOk
    BY DEF IInv
  <1>2. got_body /\ status_is_streamable(code) /\ unread = {}
    BY <1>1 DEF RingOk, HeadOk
  <1>3. ~Redirecting(code)
    BY <1>1, <1>2, CodeIs
  <1>4. announced = <<[type |-> content_type, status |-> code]>>
    BY <1>1, <1>2, <1>3 DEF ToldOk
  <1>5. content_type = (IF resp.typed THEN resp.status ELSE 0) /\ code = resp.status
    BY <1>1, <1>2 DEF HeadOk, WireOk
  <1> QED
    BY <1>4, <1>5

\* Whatever pieces the network cuts a station's body into, the ring holds its audio,
\* all of it and nothing else, in its order.
THEOREM StreamIsAudio == Spec => []StationOnly
  <1>1. IInv => StationOnly
    <2> SUFFICES ASSUME IInv PROVE StationOnly
      OBVIOUS
    <2>1. pc \in {"headers", "body", "feed"} => Len(ring) = HeardBy(off - Len(data))
      BY AllHeard DEF Consumed
    <2>2. Len(ring) <= HeardBy(off)
      BY DEF IInv, HeardOk
    <2>3. \A k \in ToHear : HeardBy(k) <= Len(ring) => ring[HeardBy(k)] = resp.body[k]
      BY InPlace
    <2> QED BY <2>1, <2>2, <2>3, ToldFirst DEF StationOnly
  <1> QED
    BY <1>1, Invariance, PTL

\* The verdict of a worker nobody stopped says how the transfer ended and whether
\* it gave audio.
THEOREM VerdictIsHonest == Spec => []ResultIsHonest
  <1>1. IInv => ResultIsHonest
    BY DEF IInv, EndedOk, ResultIsHonest
  <1> QED
    BY <1>1, Invariance, PTL

\* Whatever pieces the blocks come in, on_title hears of each change of title once and
\* of nothing else, and a title that does not fit is not cut within a character.
THEOREM TitlesStayChanges == Spec => []TitlesAreChanges
  <1>1. IInv => TitlesAreChanges
    <2> SUFFICES ASSUME IInv PROVE TitlesAreChanges
      OBVIOUS
    <2>1. WireOk /\ TitlesOk
      BY DEF IInv
    <2>2. pc \in {"feed", "body"} /\ got_body /\ resp.meta = "good"
          /\ status_is_streamable(resp.status) => TitlesTold
      BY <2>1 DEF WireOk, TitlesOk, Receiving
    <2>3. ASSUME NEW t \in Range(titles) PROVE WholePart(t)
      <3>1. PICK i \in DOMAIN titles : t = titles[i]
        BY <2>3 DEF Range
      <3>2. titles \in Seq(Wholes)
        BY <2>1 DEF TitlesOk
      <3>3. t \in Wholes
        BY <3>1, <3>2
      <3> QED BY <3>3 DEF Wholes
    <2> QED BY <2>2, <2>3 DEF TitlesAreChanges, TitlesTold, WholePart
  <1> QED
    BY <1>1, Invariance, PTL

=============================================================================
