----------------------- MODULE HttpRequestObject_proofs -----------------------
(***************************************************************************)
(* Proofs about an HTTP connection, for any requests, any limit of the     *)
(* data, any sizes of answers and however the bytes are cut: a connection  *)
(* that is closed because its HTTP/1.0 request is answered has sent the    *)
(* answers to all requests, CORS headers go to a client whose own request  *)
(* named the origin, and the contents the client gets are those of the     *)
(* answers, in order and each once.                                        *)
(*                                                                         *)
(* The heart of it is EndsOf and FlowOf. The ends of headers in what the   *)
(* server has not parsed are those of the unanswered requests, in their    *)
(* order; what the client has not taken are whole answers, from the one it *)
(* takes next to the last one written.                                     *)
(***************************************************************************)
EXTENDS HttpRequestObject, SequenceTheorems, WellFoundedInduction, TLAPS

USE DEF serverVars, clientVars

LEMMA ConstantTypes ==
    /\ MaxData \in Nat /\ MaxRequests \in Nat /\ AnswerSizes \subseteq Nat
    /\ NoOrigin \in STRING /\ CorsOriginList \subseteq STRING
    /\ NoOrigin \notin CorsOriginList
    /\ \A r \in Requests : /\ r.version \in {"0.9", "1.0", "1.1"} /\ r.origin \in STRING
                           /\ r.body \in Nat /\ r.body <= MaxData
  BY HttpAssumption DEF HttpAssumption

----------------------------------------------------------------------------
(* Header ends.                                                              *)

LEMMA LeastNatural ==
    ASSUME NEW T, T \subseteq Nat, T # {}
    PROVE  \E x \in T : \A y \in T : x <= y
<1>1. PICK x \in T : \A y \in T : ~ (<<y, x>> \in OpToRel(<, Nat))
  BY NatLessThanWellFounded, WFMin
<1>2. \A y \in T : x <= y
  <2>. TAKE y \in T
  <2>1. x \in Nat /\ y \in Nat
    OBVIOUS
  <2>2. ~ (y < x)
    BY <1>1, <2>1 DEF OpToRel
  <2>. QED
    BY <2>1, <2>2
<1>. QED
  BY <1>2

LEMMA FirstEndIsFirst ==
    ASSUME NEW S, NEW data \in Seq(S), HeaderEnds(data) # {}
    PROVE  /\ FirstEnd(data) \in HeaderEnds(data)
           /\ \A j \in HeaderEnds(data) : FirstEnd(data) <= j
<1>1. HeaderEnds(data) \subseteq Nat
  BY DEF HeaderEnds
<1>2. \E x \in HeaderEnds(data) : \A y \in HeaderEnds(data) : x <= y
  BY <1>1, LeastNatural
<1>. QED
  BY <1>2 DEF FirstEnd

(* The first end is that of the next request to be answered; what follows it *)
(* holds the ends of the requests after that.                                *)
LEMMA EndsCut ==
    ASSUME NEW data \in Seq(RequestPart), NEW k \in Nat, NEW m \in Nat, k <= m,
           EndsOf(data, k, m),
           NEW e \in HeaderEnds(data), \A j \in HeaderEnds(data) : e <= j,
           NEW rest \in Seq(RequestPart), Len(rest) = Len(data) - e,
           \A i \in 1..Len(rest) : rest[i] = data[e + i]
    PROVE  /\ data[e].of = k + 1 /\ k + 1 <= m
           /\ EndsOf(rest, k + 1, m)
<1>1. /\ e \in 1..Len(data) /\ data[e].of \in (k + 1)..m
      /\ Len(data) \in Nat /\ Len(rest) \in Nat
  BY DEF HeaderEnds, EndsOf
<1>2. data[e].of = k + 1
  <2>. k + 1 \in (k + 1)..m
    BY <1>1
  <2>1. PICK i \in HeaderEnds(data) : data[i].of = k + 1
    BY DEF EndsOf
  <2>2. i \in Nat
    BY DEF HeaderEnds
  <2>3. e <= i
    OBVIOUS
  <2>4. e < i => data[e].of < data[i].of
    BY DEF EndsOf
  <2>. QED
    BY <1>1, <2>1, <2>2, <2>3, <2>4
<1>3. \A i \in HeaderEnds(rest) : e + i \in HeaderEnds(data) /\ rest[i] = data[e + i] /\ i \in Nat \ {0}
  BY <1>1 DEF HeaderEnds
<1>4. \A i \in HeaderEnds(data) : i # e => i - e \in HeaderEnds(rest) /\ rest[i - e] = data[i]
  <2>. SUFFICES ASSUME NEW i \in HeaderEnds(data), i # e
                PROVE  i - e \in HeaderEnds(rest) /\ rest[i - e] = data[i]
    OBVIOUS
  <2>1. i \in 1..Len(data) /\ e < i
    BY <1>1 DEF HeaderEnds
  <2>2. i - e \in 1..Len(rest) /\ e + (i - e) = i
    BY <1>1, <2>1
  <2>. QED
    BY <2>2 DEF HeaderEnds
<1>5. \A i \in HeaderEnds(rest) : rest[i].of \in (k + 1 + 1)..m
  <2>. SUFFICES ASSUME NEW i \in HeaderEnds(rest) PROVE rest[i].of \in (k + 1 + 1)..m
    OBVIOUS
  <2>1. e < e + i
    BY <1>1, <1>3
  <2>2. data[e].of < data[e + i].of /\ data[e + i].of \in (k + 1)..m
    BY <1>3, <2>1 DEF EndsOf
  <2>. QED
    BY <1>2, <1>3, <2>2
<1>6. \A i, j \in HeaderEnds(rest) : i < j => rest[i].of < rest[j].of
  <2>. SUFFICES ASSUME NEW i \in HeaderEnds(rest), NEW j \in HeaderEnds(rest), i < j
                PROVE  rest[i].of < rest[j].of
    OBVIOUS
  <2>1. e + i < e + j
    BY <1>1, <1>3
  <2>. QED
    BY <1>3, <2>1 DEF EndsOf
<1>7. \A q \in (k + 1 + 1)..m : \E i \in HeaderEnds(rest) : rest[i].of = q
  <2>. SUFFICES ASSUME NEW q \in (k + 1 + 1)..m
                PROVE  \E i \in HeaderEnds(rest) : rest[i].of = q
    OBVIOUS
  <2>1. PICK i \in HeaderEnds(data) : data[i].of = q
    BY DEF EndsOf
  <2>2. i # e
    BY <1>2, <2>1
  <2>. QED
    BY <1>4, <2>1, <2>2
<1>8. \A i \in HeaderEnds(rest) : rest[i].of = m => Len(rest) - i <= MaxData
  <2>. SUFFICES ASSUME NEW i \in HeaderEnds(rest), rest[i].of = m
                PROVE  Len(rest) - i <= MaxData
    OBVIOUS
  <2>1. Len(data) - (e + i) <= MaxData
    BY <1>3 DEF EndsOf
  <2>2. i \in Nat /\ Len(rest) - i = Len(data) - (e + i)
    BY <1>1, <1>3
  <2>. QED
    BY <2>1, <2>2
<1>9. k + 1 = m => Len(rest) <= MaxData
  BY <1>2 DEF EndsOf
<1>. QED
  BY <1>1, <1>2, <1>5, <1>6, <1>7, <1>8, <1>9 DEF EndsOf

LEMMA RequestPartsType ==
    ASSUME NEW k \in 1..MaxRequests, NEW r \in Requests
    PROVE  /\ RequestParts(k, r) \in Seq(RequestPart)
           /\ Len(RequestParts(k, r)) = 2 + r.body
           /\ RequestParts(k, r)[2] = Part(k, "end")
           /\ HeaderEnds(RequestParts(k, r)) = {2}
<1>1. r.body \in Nat
  BY ConstantTypes
<1>2. \A p \in {"head", "end", "body"} : Part(k, p) \in RequestPart /\ Part(k, p).part = p
  BY DEF Part, RequestPart
<1>3. /\ Parts(k, "body", r.body) \in Seq(RequestPart)
      /\ Len(Parts(k, "body", r.body)) = r.body
      /\ \A i \in 1..r.body : Parts(k, "body", r.body)[i] = Part(k, "body")
  BY <1>1, <1>2 DEF Parts
<1>4. /\ <<Part(k, "head"), Part(k, "end")>> \in Seq(RequestPart)
      /\ Len(<<Part(k, "head"), Part(k, "end")>>) = 2
      /\ <<Part(k, "head"), Part(k, "end")>>[1] = Part(k, "head")
      /\ <<Part(k, "head"), Part(k, "end")>>[2] = Part(k, "end")
  BY <1>2
<1>5. /\ RequestParts(k, r) \in Seq(RequestPart)
      /\ Len(RequestParts(k, r)) = 2 + r.body
      /\ \A i \in 1..(2 + r.body) : RequestParts(k, r)[i] =
            IF i <= 2 THEN <<Part(k, "head"), Part(k, "end")>>[i]
                      ELSE Parts(k, "body", r.body)[i - 2]
  BY <1>3, <1>4, ConcatProperties DEF RequestParts
<1>6. /\ RequestParts(k, r)[1] = Part(k, "head") /\ RequestParts(k, r)[2] = Part(k, "end")
      /\ \A i \in 3..(2 + r.body) : RequestParts(k, r)[i] = Part(k, "body")
  <2>1. \A i \in 3..(2 + r.body) : i - 2 \in 1..r.body /\ ~(i <= 2) /\ i \in 1..(2 + r.body)
    BY <1>1
  <2>2. \A i \in 3..(2 + r.body) : RequestParts(k, r)[i] = Parts(k, "body", r.body)[i - 2]
    BY <1>5, <2>1
  <2>3. 1 \in 1..(2 + r.body) /\ 2 \in 1..(2 + r.body)
    BY <1>1
  <2>. QED
    BY <1>3, <1>4, <1>5, <2>1, <2>2, <2>3
<1>7. HeaderEnds(RequestParts(k, r)) = {2}
  <2>1. \A i \in 1..(2 + r.body) : i = 1 \/ i = 2 \/ i \in 3..(2 + r.body)
    BY <1>1
  <2>2. DOMAIN RequestParts(k, r) = 1..(2 + r.body) /\ 2 \in 1..(2 + r.body)
    BY <1>1, <1>5
  <2>3. Part(k, "head").part = "head" /\ Part(k, "end").part = "end" /\ Part(k, "body").part = "body"
    BY DEF Part
  <2>. QED
    BY <1>6, <2>1, <2>2, <2>3 DEF HeaderEnds
<1>. QED
  BY <1>5, <1>6, <1>7

(* The end of one more request comes last.                                   *)
LEMMA EndsAppend ==
    ASSUME NEW data \in Seq(RequestPart), NEW k \in Nat, NEW m \in Nat, k <= m,
           m + 1 <= MaxRequests, EndsOf(data, k, m), NEW r \in Requests
    PROVE  EndsOf(data \o RequestParts(m + 1, r), k, m + 1)
<1>. DEFINE new == RequestParts(m + 1, r)
            all == data \o new
            last2 == Len(data) + 2
<1>1. m + 1 \in 1..MaxRequests
  BY ConstantTypes
<1>2. /\ new \in Seq(RequestPart) /\ Len(new) = 2 + r.body /\ new[2] = Part(m + 1, "end")
      /\ HeaderEnds(new) = {2} /\ r.body \in Nat /\ r.body <= MaxData
  BY <1>1, RequestPartsType, ConstantTypes
<1>. HIDE DEF new
<1>3. /\ all \in Seq(RequestPart) /\ Len(all) = Len(data) + 2 + r.body
      /\ \A i \in 1..Len(all) : all[i] = IF i <= Len(data) THEN data[i] ELSE new[i - Len(data)]
      /\ Len(data) \in Nat /\ Len(data) <= Len(all)
  <2>1. Len(data) \in Nat
    OBVIOUS
  <2>2. /\ all \in Seq(RequestPart) /\ Len(all) = Len(data) + Len(new)
        /\ \A i \in 1..(Len(data) + Len(new)) :
                all[i] = IF i <= Len(data) THEN data[i] ELSE new[i - Len(data)]
    BY <1>2, ConcatProperties
  <2>3. Len(all) = Len(data) + 2 + r.body /\ Len(data) <= Len(all)
    BY <1>2, <2>1, <2>2
  <2>. QED
    BY <2>1, <2>2, <2>3
<1>. HIDE DEF all
<1>4. all[last2].of = m + 1 /\ last2 \in HeaderEnds(all)
  <2>1. last2 \in 1..Len(all) /\ ~(last2 <= Len(data)) /\ last2 - Len(data) = 2
    BY <1>2, <1>3
  <2>2. all[last2] = Part(m + 1, "end")
    BY <1>2, <1>3, <2>1
  <2>. QED
    BY <1>3, <2>1, <2>2 DEF HeaderEnds, Part
<1>5. \A i \in HeaderEnds(data) : i \in HeaderEnds(all) /\ all[i] = data[i] /\ i \in 1..Len(data)
  <2>1. \A i \in 1..Len(data) : i \in 1..Len(all) /\ all[i] = data[i]
    <3>1. Len(all) \in Nat
      BY <1>3
    <3>. QED
      BY <1>3, <3>1
  <2>. QED
    BY <1>3, <2>1 DEF HeaderEnds
<1>6. \A i \in HeaderEnds(all) : i \in HeaderEnds(data) \/ i = last2
  <2>. SUFFICES ASSUME NEW i \in HeaderEnds(all) PROVE i \in HeaderEnds(data) \/ i = last2
    OBVIOUS
  <2>1. i \in 1..Len(all) /\ all[i].part = "end"
    BY <1>3 DEF HeaderEnds
  <2>2. CASE i <= Len(data)
    BY <1>3, <2>1, <2>2 DEF HeaderEnds
  <2>3. CASE ~(i <= Len(data))
    <3>1. i - Len(data) \in 1..Len(new) /\ all[i] = new[i - Len(data)]
      BY <1>2, <1>3, <2>1, <2>3
    <3>2. i - Len(data) \in HeaderEnds(new)
      BY <2>1, <3>1 DEF HeaderEnds
    <3>. QED
      BY <1>2, <1>3, <2>1, <3>2
  <2>. QED
    BY <2>2, <2>3
<1>. HIDE DEF last2
<1>7. last2 = Len(data) + 2
  BY DEF last2
<1>8. \A i \in HeaderEnds(data) : data[i].of \in (k + 1)..m /\ i < last2 /\ i \in Nat
  BY <1>3, <1>5, <1>7 DEF EndsOf
<1>9. \A i \in HeaderEnds(all) : all[i].of \in (k + 1)..(m + 1)
  BY <1>4, <1>5, <1>6, <1>8
<1>10. \A i, j \in HeaderEnds(all) : i < j => all[i].of < all[j].of
  <2>. SUFFICES ASSUME NEW i \in HeaderEnds(all), NEW j \in HeaderEnds(all), i < j
                PROVE  all[i].of < all[j].of
    OBVIOUS
  <2>1. i \in HeaderEnds(data)
    <3>1. CASE i = last2
      <4>1. j \in HeaderEnds(data) \/ j = last2
        BY <1>6
      <4>. QED
        BY <1>3, <1>7, <1>8, <3>1, <4>1
    <3>. QED
      BY <1>6, <3>1
  <2>2. CASE j \in HeaderEnds(data)
    BY <1>5, <2>1, <2>2 DEF EndsOf
  <2>3. CASE j = last2
    BY <1>4, <1>5, <1>8, <2>1, <2>3
  <2>. QED
    BY <1>6, <2>2, <2>3
<1>11. \A q \in (k + 1)..(m + 1) : \E i \in HeaderEnds(all) : all[i].of = q
  <2>. SUFFICES ASSUME NEW q \in (k + 1)..(m + 1)
                PROVE  \E i \in HeaderEnds(all) : all[i].of = q
    OBVIOUS
  <2>1. CASE q = m + 1
    BY <1>4, <2>1
  <2>2. CASE q # m + 1
    <3>1. q \in (k + 1)..m
      BY <2>2
    <3>2. PICK i \in HeaderEnds(data) : data[i].of = q
      BY <3>1 DEF EndsOf
    <3>. QED
      BY <1>5, <3>2
  <2>. QED
    BY <2>1, <2>2
<1>12. \A i \in HeaderEnds(all) : all[i].of = m + 1 => Len(all) - i <= MaxData
  <2>. SUFFICES ASSUME NEW i \in HeaderEnds(all), all[i].of = m + 1
                PROVE  Len(all) - i <= MaxData
    OBVIOUS
  <2>1. i = last2
    BY <1>5, <1>6, <1>8
  <2>. QED
    BY <1>2, <1>3, <1>7, <2>1
<1>13. k # m + 1
  OBVIOUS
<1>14. EndsOf(all, k, m + 1)
  BY <1>9, <1>10, <1>11, <1>12, <1>13 DEF EndsOf
<1>. QED
  BY <1>14 DEF all, new

----------------------------------------------------------------------------
(* Answers.                                                                  *)

Answers == [of : 1..MaxRequests, size : Nat, chunked : BOOLEAN, cors : STRING]
PartOf(n) == [of : 1..n, part : {"head", "end", "content", "chunk", "last"}]

LEMMA PartsGrow ==
    ASSUME NEW m \in Nat, NEW n \in Nat, m <= n, NEW s \in Seq(PartOf(m))
    PROVE  s \in Seq(PartOf(n))
<1>1. PartOf(m) \subseteq PartOf(n)
  BY DEF PartOf
<1>. QED
  BY <1>1, SeqMonotonic

LEMMA AnswerPartsType ==
    ASSUME NEW n \in Nat, NEW a \in Answers, a.of <= n
    PROVE  AnswerParts(a) \in Seq(PartOf(n))
<1>1. a.of \in 1..n /\ a.size \in Nat /\ a.chunked \in BOOLEAN
  BY DEF Answers
<1>2. \A p \in {"head", "end", "content", "chunk", "last"} : Part(a.of, p) \in PartOf(n)
  BY <1>1 DEF Part, PartOf
<1>3. <<Part(a.of, "head"), Part(a.of, "end")>> \in Seq(PartOf(n))
  BY <1>2
<1>4. \A p \in {"content", "chunk"} : Parts(a.of, p, a.size) \in Seq(PartOf(n))
  BY <1>1, <1>2 DEF Parts
<1>5. Append(Parts(a.of, "chunk", a.size), Part(a.of, "last")) \in Seq(PartOf(n))
  BY <1>2, <1>4, AppendProperties
<1>6. PICK q \in Seq(PartOf(n)) :
        AnswerParts(a) = <<Part(a.of, "head"), Part(a.of, "end")>> \o q
  BY <1>4, <1>5 DEF AnswerParts
<1>. QED
  BY <1>3, <1>6, ConcatProperties

LEMMA PostedAnswer ==
    ASSUME answers \in Seq(Answers), queue \in Seq(Answers),
           \A i \in DOMAIN queue : queue[i].of <= Len(answers),
           Len(answers) + 1 <= MaxRequests, cors' \in STRING,
           NEW n \in Nat, NEW chunked \in BOOLEAN, Post(Answer(n, chunked))
    PROVE  /\ answers' \in Seq(Answers) /\ Len(answers') = Len(answers) + 1
           /\ \A i \in 1..Len(answers) : answers'[i] = answers[i]
           /\ answers'[Len(answers) + 1].cors = cors'
           /\ queue' \in Seq(Answers)
           /\ \A i \in DOMAIN queue' : queue'[i].of <= Len(answers')
<1>. DEFINE a == Answer(n, chunked)
<1>1. a \in Answers /\ a.of = Len(answers) + 1 /\ a.cors = cors'
  BY ConstantTypes DEF Answer, Answers
<1>2. answers' = Append(answers, a) /\ queue' = Append(queue, a)
  BY DEF Post
<1>. HIDE DEF a
<1>3. /\ answers' \in Seq(Answers) /\ Len(answers') = Len(answers) + 1
      /\ \A i \in 1..Len(answers) : answers'[i] = answers[i]
      /\ answers'[Len(answers) + 1] = a
  BY <1>1, <1>2, AppendProperties
<1>4. /\ queue' \in Seq(Answers) /\ Len(queue') = Len(queue) + 1
      /\ \A i \in 1..Len(queue) : queue'[i] = queue[i]
      /\ queue'[Len(queue) + 1] = a
  BY <1>1, <1>2, AppendProperties
<1>5. ASSUME NEW i \in DOMAIN queue'
      PROVE  queue'[i].of <= Len(answers')
  <2>1. i \in 1..(Len(queue) + 1) /\ Len(queue) \in Nat /\ Len(answers) \in Nat
    BY <1>4, <1>5
  <2>2. CASE i \in 1..Len(queue)
    <3>1. queue[i] \in Answers /\ queue[i].of <= Len(answers) /\ queue'[i] = queue[i]
      BY <1>4, <2>2
    <3>2. queue[i].of \in Nat
      BY <3>1 DEF Answers
    <3>. QED
      BY <1>3, <2>1, <3>1, <3>2
  <2>3. CASE i = Len(queue) + 1
    BY <1>1, <1>3, <1>4, <2>1, <2>3
  <2>. QED
    BY <2>1, <2>2, <2>3
<1>. QED
  BY <1>1, <1>3, <1>4, <1>5

(* Whatever RecvRequest answers, it posts one answer.                        *)
LEMMA OneAnswer ==
    ASSUME NEW chunked \in BOOLEAN, RecvRequest(chunked) \/ SendErrorResponse
    PROVE  \E n \in Nat, c \in BOOLEAN : Post(Answer(n, c))
  BY ConstantTypes DEF RecvRequest, SendResponse, SendRedirectResponse, SendErrorResponse

----------------------------------------------------------------------------
(* Types, and the parts on their way.                                        *)

TypeInv == TypeOK /\ PartsInv

LEMMA TypeFacts ==
    ASSUME TypeInv
    PROVE  /\ Len(answers) \in Nat /\ Len(requests) \in Nat /\ MaxRequests \in Nat
           /\ Len(answers) <= Len(requests) /\ Len(requests) <= MaxRequests
           /\ requests \in Seq(Requests)
           /\ answers \in Seq(Answers) /\ queue \in Seq(Answers)
           /\ crest \in Seq(PartOf(Len(answers))) /\ toClient \in Seq(PartOf(Len(answers)))
           /\ srest \in Seq(RequestPart) /\ toServer \in Seq(RequestPart)
           /\ \A i \in DOMAIN queue : queue[i].of <= Len(answers)
           /\ contents \in Seq(1..MaxRequests \cup {Garbage})
           /\ cors \in STRING /\ chunks \in BOOLEAN
  BY ConstantTypes DEF TypeInv, TypeOK, PartsInv, Answers, AnswerPart, PartOf

LEMMA TypeInvFrom ==
    ASSUME requests' \in Seq(Requests), Len(answers') <= Len(requests'),
           Len(requests') <= MaxRequests,
           answers' \in Seq(Answers), queue' \in Seq(Answers),
           \A i \in DOMAIN queue' : queue'[i].of <= Len(answers'),
           crest' \in Seq(PartOf(Len(answers'))), toClient' \in Seq(PartOf(Len(answers'))),
           srest' \in Seq(RequestPart), toServer' \in Seq(RequestPart),
           contents' \in Seq(1..MaxRequests \cup {Garbage}), cors' \in STRING,
           parsing' \in BOOLEAN, last10' \in BOOLEAN, completeClose' \in BOOLEAN,
           closeTimer' \in BOOLEAN, closing' \in BOOLEAN, finished' \in BOOLEAN,
           chunks' \in BOOLEAN, cclosed' \in BOOLEAN
    PROVE  TypeInv'
  BY DEF TypeInv, TypeOK, PartsInv, Answers, AnswerPart, PartOf

(* What is left of a sequence, and what was taken off it.                    *)
LEMMA SplitSeq ==
    ASSUME NEW S, NEW s \in Seq(S), NEW n \in 0..Len(s)
    PROVE  /\ SubSeq(s, 1, n) \in Seq(S) /\ SubSeq(s, n + 1, Len(s)) \in Seq(S)
           /\ Len(SubSeq(s, n + 1, Len(s))) = Len(s) - n
           /\ \A i \in 1..(Len(s) - n) : SubSeq(s, n + 1, Len(s))[i] = s[n + i]
           /\ SubSeq(s, 1, n) \o SubSeq(s, n + 1, Len(s)) = s
<1>1. Len(s) \in Nat /\ n \in Nat /\ n <= Len(s)
  OBVIOUS
<1>2. \A i \in 1..n : s[i] \in S
  BY <1>1
<1>3. \A i \in (n + 1)..Len(s) : s[i] \in S
  BY <1>1
<1>4. SubSeq(s, 1, n) \in Seq(S)
  BY <1>1, <1>2, SubSeqProperties
<1>5. /\ SubSeq(s, n + 1, Len(s)) \in Seq(S)
      /\ Len(SubSeq(s, n + 1, Len(s))) =
            IF n + 1 <= Len(s) THEN Len(s) - (n + 1) + 1 ELSE 0
      /\ \A i \in 1..(Len(s) - (n + 1) + 1) :
            SubSeq(s, n + 1, Len(s))[i] = s[(n + 1) + i - 1]
  <2>1. n + 1 \in Int /\ Len(s) \in Int
    BY <1>1
  <2>. QED
    BY <1>3, <2>1, SubSeqProperties
<1>6. Len(SubSeq(s, n + 1, Len(s))) = Len(s) - n
  BY <1>1, <1>5
<1>7. \A i \in 1..(Len(s) - n) : SubSeq(s, n + 1, Len(s))[i] = s[n + i]
  <2>. SUFFICES ASSUME NEW i \in 1..(Len(s) - n)
                PROVE  SubSeq(s, n + 1, Len(s))[i] = s[n + i]
    OBVIOUS
  <2>1. i \in 1..(Len(s) - (n + 1) + 1) /\ (n + 1) + i - 1 = n + i
    BY <1>1
  <2>. QED
    BY <1>5, <2>1
<1>8. SubSeq(s, 1, n) \o SubSeq(s, n + 1, Len(s)) = s
  <2>1. 1 \in 1..(Len(s) + 1) /\ n \in (1 - 1)..Len(s) /\ Len(s) \in n..Len(s)
    BY <1>1
  <2>2. SubSeq(s, 1, n) \o SubSeq(s, n + 1, Len(s)) = SubSeq(s, 1, Len(s))
    BY <2>1, ConcatAdjacentSubSeq
  <2>. QED
    BY <2>2, SubSeqFull
<1>. QED
  BY <1>4, <1>5, <1>6, <1>7, <1>8

LEMMA InitTypes ==
    ASSUME Init
    PROVE  TypeInv
<1>1. /\ requests = <<>> /\ answers = <<>> /\ queue = <<>> /\ crest = <<>> /\ toClient = <<>>
      /\ srest = <<>> /\ toServer = <<>> /\ contents = <<>>
  BY DEF Init, ServerInit
<1>2. Len(<<>>) = 0 /\ DOMAIN <<>> = {}
  BY EmptySeq
<1>3. /\ requests \in Seq(Requests) /\ answers \in Seq(Answers) /\ queue \in Seq(Answers)
      /\ contents \in Seq(1..MaxRequests \cup {Garbage})
  BY <1>1, EmptySeq
<1>4. /\ crest \in Seq(AnswerPart) /\ toClient \in Seq(AnswerPart)
      /\ srest \in Seq(RequestPart) /\ toServer \in Seq(RequestPart)
  BY <1>1, EmptySeq
<1>5. /\ cors \in STRING /\ chunks \in BOOLEAN /\ cclosed \in BOOLEAN
      /\ parsing \in BOOLEAN /\ last10 \in BOOLEAN /\ completeClose \in BOOLEAN
      /\ closeTimer \in BOOLEAN /\ closing \in BOOLEAN /\ finished \in BOOLEAN
  BY ConstantTypes DEF Init, ServerInit
<1>6. Len(answers) <= Len(requests) /\ Len(requests) <= MaxRequests
  BY <1>1, <1>2, ConstantTypes
<1>7. \A i \in DOMAIN queue : queue[i].of <= Len(answers)
  BY <1>1, <1>2
<1>. QED
  BY <1>3, <1>4, <1>5, <1>6, <1>7 DEF TypeInv, TypeOK, PartsInv, Answers

(* The client's side.                                                        *)
LEMMA ReceivedContent ==
    ASSUME TypeInv, NEW data \in Seq(PartOf(Len(answers))), ~Incomplete(data)
    PROVE  /\ SubSeq(data, Used(data) + 1, Len(data)) \in Seq(PartOf(Len(answers)))
           /\ ContentIs(data, Content(data)) \in 1..MaxRequests \cup {Garbage}
<1>1. HeaderEnds(data) # {} /\ HeaderEnds(data) \subseteq 1..Len(data) /\ Len(data) \in Nat
  BY DEF Incomplete, HeaderFound, HeaderEnds
<1>2. FirstEnd(data) \in 1..Len(data)
  BY <1>1, FirstEndIsFirst
<1>3. 1 \in 1..Len(data)
  BY <1>1, <1>2
<1>4. data[1] \in PartOf(Len(answers))
  BY <1>3
<1>5. data[1].of \in 1..Len(answers)
  BY <1>4 DEF PartOf
<1>6. answers[data[1].of] \in Answers
  BY <1>5, TypeFacts
<1>7. AnswerOf(data).size \in Nat
  BY <1>6 DEF AnswerOf, Answers
<1>8. Used(data) \in Nat
  BY <1>1, <1>2, <1>7 DEF Used
<1>9. \A i \in (Used(data) + 1)..Len(data) : data[i] \in PartOf(Len(answers))
  <2>. SUFFICES ASSUME NEW i \in (Used(data) + 1)..Len(data)
                PROVE  data[i] \in PartOf(Len(answers))
    OBVIOUS
  <2>1. i \in 1..Len(data)
    BY <1>1, <1>8
  <2>. QED
    BY <2>1
<1>10. SubSeq(data, Used(data) + 1, Len(data)) \in Seq(PartOf(Len(answers)))
  BY <1>1, <1>8, <1>9, SubSeqProperties
<1>11. data[1].of \in 1..MaxRequests
  BY <1>5, TypeFacts
<1>. QED
  BY <1>10, <1>11 DEF ContentIs

LEMMA ClientTypes ==
    ASSUME TypeInv, Client
    PROVE  TypeInv'
<1>1. ASSUME NEW r \in Requests, SendRequest(r)
      PROVE  TypeInv'
  <2>1. Len(requests) < MaxRequests
    BY <1>1 DEF SendRequest, MaySend
  <2>2. /\ requests' = Append(requests, r)
        /\ toServer' = toServer \o RequestParts(Len(requests) + 1, r)
    BY <1>1 DEF SendRequest
  <2>3. requests' \in Seq(Requests) /\ Len(requests') = Len(requests) + 1
    BY <2>2, TypeFacts, AppendProperties
  <2>4. Len(requests) + 1 \in 1..MaxRequests
    BY <2>1, TypeFacts
  <2>5. RequestParts(Len(requests) + 1, r) \in Seq(RequestPart)
    BY <2>4, RequestPartsType
  <2>6. toServer' \in Seq(RequestPart)
    BY <2>2, <2>5, TypeFacts, ConcatProperties
  <2>7. UNCHANGED <<toClient, serverVars, clientVars>>
    BY <1>1 DEF SendRequest
  <2>8. Len(answers') <= Len(requests') /\ Len(requests') <= MaxRequests
    BY <2>1, <2>3, <2>7, TypeFacts
  <2>9. UNCHANGED AnswerPart
    BY <2>7 DEF AnswerPart
  <2>. QED
    BY <2>3, <2>6, <2>7, <2>8, <2>9 DEF TypeInv, TypeOK, PartsInv
<1>2. ASSUME NEW n \in 1..Len(toClient), ClientReceive(n)
      PROVE  TypeInv'
  <2>. DEFINE data == crest \o SubSeq(toClient, 1, n)
  <2>1. n \in 0..Len(toClient)
    OBVIOUS
  <2>2. /\ SubSeq(toClient, 1, n) \in Seq(PartOf(Len(answers)))
        /\ SubSeq(toClient, n + 1, Len(toClient)) \in Seq(PartOf(Len(answers)))
    BY <2>1, TypeFacts, SplitSeq
  <2>3. data \in Seq(PartOf(Len(answers)))
    BY <2>2, TypeFacts, ConcatProperties
  <2>4. /\ toClient' = SubSeq(toClient, n + 1, Len(toClient))
        /\ IF Incomplete(data) THEN crest' = data /\ contents' = contents
           ELSE /\ crest' = SubSeq(data, Used(data) + 1, Len(data))
                /\ contents' = Append(contents, ContentIs(data, Content(data)))
        /\ UNCHANGED <<requests, toServer, serverVars, chunks, cclosed>>
    BY <1>2 DEF ClientReceive
  <2>. HIDE DEF data
  <2>5. /\ crest' \in Seq(PartOf(Len(answers)))
        /\ contents' \in Seq(1..MaxRequests \cup {Garbage})
    <3>1. CASE Incomplete(data)
      BY <2>3, <2>4, <3>1, TypeFacts
    <3>2. CASE ~Incomplete(data)
      <4>1. /\ SubSeq(data, Used(data) + 1, Len(data)) \in Seq(PartOf(Len(answers)))
            /\ ContentIs(data, Content(data)) \in 1..MaxRequests \cup {Garbage}
        BY <2>3, <3>2, ReceivedContent
      <4>2. contents \in Seq(1..MaxRequests \cup {Garbage})
        BY TypeFacts
      <4>3. contents' = Append(contents, ContentIs(data, Content(data)))
        BY <2>4, <3>2
      <4>4. contents' \in Seq(1..MaxRequests \cup {Garbage})
        BY <4>1, <4>2, <4>3, AppendProperties
      <4>. QED
        BY <2>4, <3>2, <4>1, <4>4
    <3>. QED
      BY <3>1, <3>2
  <2>6. UNCHANGED <<AnswerPart, PartOf(Len(answers))>>
    BY <2>4 DEF AnswerPart
  <2>7. AnswerPart = PartOf(Len(answers))
    BY DEF AnswerPart, PartOf
  <2>8. crest' \in Seq(AnswerPart) /\ toClient' \in Seq(AnswerPart)
    BY <2>2, <2>4, <2>5, <2>7
  <2>. QED
    BY <2>4, <2>5, <2>6, <2>8 DEF TypeInv, TypeOK, PartsInv
<1>3. CASE ClientEof
  <2>1. UNCHANGED AnswerPart
    BY <1>3 DEF ClientEof, AnswerPart
  <2>. QED
    BY <1>3, <2>1 DEF ClientEof, TypeInv, TypeOK, PartsInv
<1>. QED
  BY <1>1, <1>2, <1>3 DEF Client

----------------------------------------------------------------------------
(* The server's side: the next header, and the limit.                        *)

LEMMA UnparsedType ==
    ASSUME TypeInv
    PROVE  /\ Unparsed \in Seq(RequestPart) /\ Len(Unparsed) = Len(srest) + Len(toServer)
           /\ \A i \in 1..Len(srest) : i \in 1..Len(Unparsed) /\ Unparsed[i] = srest[i]
           /\ \A i \in (Len(srest) + 1)..Len(Unparsed) : Unparsed[i] = toServer[i - Len(srest)]
           /\ Len(srest) \in Nat /\ Len(toServer) \in Nat
<1>1. srest \in Seq(RequestPart) /\ toServer \in Seq(RequestPart)
  BY TypeFacts
<1>2. Len(srest) \in Nat /\ Len(toServer) \in Nat
  BY <1>1
<1>3. /\ Unparsed \in Seq(RequestPart) /\ Len(Unparsed) = Len(srest) + Len(toServer)
      /\ \A i \in 1..(Len(srest) + Len(toServer)) :
            Unparsed[i] = IF i <= Len(srest) THEN srest[i] ELSE toServer[i - Len(srest)]
  BY <1>1, ConcatProperties DEF Unparsed
<1>. QED
  BY <1>2, <1>3

LEMMA NextHeader ==
    ASSUME TypeInv, EndsInv, ~closing, HeaderEnds(srest) # {},
           NEW e, e = FirstEnd(srest)
    PROVE  /\ srest[e].of = Len(answers) + 1 /\ Len(answers) + 1 <= Len(requests)
           /\ SubSeq(srest, e + 1, Len(srest)) \in Seq(RequestPart)
           /\ EndsOf(SubSeq(srest, e + 1, Len(srest)) \o toServer, Len(answers) + 1, Len(requests))
<1>. DEFINE left == SubSeq(srest, e + 1, Len(srest))
            rest == left \o toServer
<1>1. /\ Unparsed \in Seq(RequestPart) /\ Len(Unparsed) = Len(srest) + Len(toServer)
      /\ \A i \in 1..Len(srest) : i \in 1..Len(Unparsed) /\ Unparsed[i] = srest[i]
      /\ \A i \in (Len(srest) + 1)..Len(Unparsed) : Unparsed[i] = toServer[i - Len(srest)]
      /\ Len(srest) \in Nat /\ Len(toServer) \in Nat
  BY UnparsedType
<1>2. srest \in Seq(RequestPart) /\ toServer \in Seq(RequestPart)
  BY TypeFacts
<1>3. e \in HeaderEnds(srest) /\ \A j \in HeaderEnds(srest) : e <= j
  BY <1>2, FirstEndIsFirst
<1>4. e \in 1..Len(srest)
  BY <1>2, <1>3 DEF HeaderEnds
<1>5. e \in HeaderEnds(Unparsed) /\ Unparsed[e] = srest[e]
  BY <1>1, <1>2, <1>3, <1>4 DEF HeaderEnds
<1>6. \A j \in HeaderEnds(Unparsed) : e <= j
  <2>. SUFFICES ASSUME NEW j \in HeaderEnds(Unparsed) PROVE e <= j
    OBVIOUS
  <2>1. j \in 1..Len(Unparsed) /\ Unparsed[j].part = "end"
    BY <1>1 DEF HeaderEnds
  <2>2. CASE j \in 1..Len(srest)
    <3>1. j \in HeaderEnds(srest)
      BY <1>1, <1>2, <2>1, <2>2 DEF HeaderEnds
    <3>. QED
      BY <1>3, <3>1
  <2>3. CASE j \notin 1..Len(srest)
    BY <1>1, <1>4, <2>1, <2>3
  <2>. QED
    BY <2>2, <2>3
<1>7. /\ left \in Seq(RequestPart) /\ Len(left) = Len(srest) - e
      /\ \A i \in 1..(Len(srest) - e) : left[i] = srest[e + i]
  <2>1. e \in 0..Len(srest)
    BY <1>4
  <2>. QED
    BY <1>2, <2>1, SplitSeq
<1>. HIDE DEF left
<1>8. /\ rest \in Seq(RequestPart) /\ Len(rest) = Len(left) + Len(toServer)
      /\ \A i \in 1..(Len(left) + Len(toServer)) :
            rest[i] = IF i <= Len(left) THEN left[i] ELSE toServer[i - Len(left)]
  BY <1>2, <1>7, ConcatProperties
<1>. HIDE DEF rest
<1>9. Len(rest) = Len(Unparsed) - e
  BY <1>1, <1>4, <1>7, <1>8
<1>10. \A i \in 1..Len(rest) : rest[i] = Unparsed[e + i]
  <2>. SUFFICES ASSUME NEW i \in 1..Len(rest) PROVE rest[i] = Unparsed[e + i]
    OBVIOUS
  <2>1. i \in 1..(Len(left) + Len(toServer)) /\ i \in Nat /\ e \in Nat
    BY <1>4, <1>8
  <2>2. CASE i <= Len(left)
    <3>1. i \in 1..(Len(srest) - e) /\ e + i \in 1..Len(srest)
      BY <1>1, <1>4, <1>7, <2>1, <2>2
    <3>2. rest[i] = left[i]
      BY <1>8, <2>1, <2>2
    <3>. QED
      BY <1>1, <1>7, <3>1, <3>2
  <2>3. CASE ~(i <= Len(left))
    <3>1. e + i \in (Len(srest) + 1)..Len(Unparsed) /\ (e + i) - Len(srest) = i - Len(left)
      BY <1>1, <1>4, <1>7, <2>1, <2>3
    <3>2. rest[i] = toServer[i - Len(left)]
      BY <1>8, <2>1, <2>3
    <3>. QED
      BY <1>1, <3>1, <3>2
  <2>. QED
    BY <2>2, <2>3
<1>11. EndsOf(Unparsed, Len(answers), Len(requests))
  BY DEF EndsInv
<1>12. Len(answers) \in Nat /\ Len(requests) \in Nat /\ Len(answers) <= Len(requests)
  BY TypeFacts
<1>13. /\ Unparsed[e].of = Len(answers) + 1 /\ Len(answers) + 1 <= Len(requests)
       /\ EndsOf(rest, Len(answers) + 1, Len(requests))
  BY <1>1, <1>5, <1>6, <1>8, <1>9, <1>10, <1>11, <1>12, EndsCut
<1>. QED
  BY <1>5, <1>7, <1>13 DEF rest, left

LEMMA OversizedIsUnanswered ==
    ASSUME TypeInv, EndsInv, ~closing, Oversized
    PROVE  Len(answers) + 1 <= Len(requests)
<1>1. Len(Unparsed) = Len(srest) + Len(toServer) /\ Len(srest) \in Nat /\ Len(toServer) \in Nat
  BY UnparsedType
<1>2. Len(answers) = Len(requests) => Len(Unparsed) <= MaxData
  BY DEF EndsInv, EndsOf
<1>3. Len(srest) > MaxData
  BY DEF Oversized
<1>. QED
  BY <1>1, <1>2, <1>3, TypeFacts, ConstantTypes

(* Nothing of what is on its way gets lost or moves.                         *)
LEMMA ReceiveMovesParts ==
    ASSUME TypeInv, NEW n \in 1..Len(toServer), OnReceive(n)
    PROVE  /\ srest' \in Seq(RequestPart) /\ toServer' \in Seq(RequestPart)
           /\ Unparsed' = Unparsed
<1>1. srest \in Seq(RequestPart) /\ toServer \in Seq(RequestPart) /\ n \in 0..Len(toServer)
  BY TypeFacts
<1>. DEFINE a == SubSeq(toServer, 1, n)
            b == SubSeq(toServer, n + 1, Len(toServer))
<1>2. a \in Seq(RequestPart) /\ b \in Seq(RequestPart) /\ a \o b = toServer
  BY <1>1, SplitSeq
<1>3. srest' = srest \o a /\ toServer' = b
  BY DEF OnReceive, a, b
<1>. HIDE DEF a, b
<1>4. srest' \in Seq(RequestPart) /\ toServer' \in Seq(RequestPart)
  BY <1>1, <1>2, <1>3, ConcatProperties
<1>5. (srest \o a) \o b = srest \o (a \o b)
  <2>1. srest \in Seq(RequestPart) /\ a \in Seq(RequestPart) /\ b \in Seq(RequestPart)
    BY <1>1, <1>2
  <2>2. \A x, y, z \in Seq(RequestPart) : (x \o y) \o z = x \o (y \o z)
    BY ConcatAssociative
  <2>. QED
    BY <2>1, <2>2
<1>6. Unparsed' = (srest \o a) \o b
  BY <1>3 DEF Unparsed
<1>7. Unparsed = srest \o (a \o b)
  BY <1>2 DEF Unparsed
<1>. QED
  BY <1>4, <1>5, <1>6, <1>7

(* One more answer, and what it keeps of the types.                          *)
LEMMA AnswerTypes ==
    ASSUME TypeInv, Len(answers) + 1 <= Len(requests), cors' \in STRING,
           NEW n \in Nat, NEW c \in BOOLEAN, Post(Answer(n, c)),
           UNCHANGED <<requests, toServer, toClient, clientVars>>,
           srest' \in Seq(RequestPart),
           parsing' \in BOOLEAN, last10' \in BOOLEAN, completeClose' \in BOOLEAN,
           closeTimer' \in BOOLEAN, closing' \in BOOLEAN, finished' \in BOOLEAN
    PROVE  /\ TypeInv' /\ Len(answers') = Len(answers) + 1
           /\ \A i \in 1..Len(answers) : answers'[i] = answers[i]
           /\ answers'[Len(answers) + 1].cors = cors'
<1>1. Len(answers) + 1 <= MaxRequests
  BY TypeFacts
<1>2. /\ answers' \in Seq(Answers) /\ Len(answers') = Len(answers) + 1
      /\ \A i \in 1..Len(answers) : answers'[i] = answers[i]
      /\ answers'[Len(answers) + 1].cors = cors'
      /\ queue' \in Seq(Answers)
      /\ \A i \in DOMAIN queue' : queue'[i].of <= Len(answers')
  BY <1>1, TypeFacts, PostedAnswer
<1>3. crest' \in Seq(PartOf(Len(answers'))) /\ toClient' \in Seq(PartOf(Len(answers')))
  <2>1. Len(answers) \in Nat /\ Len(answers) + 1 \in Nat /\ Len(answers) <= Len(answers) + 1
    BY TypeFacts
  <2>2. \A s \in Seq(PartOf(Len(answers))) : s \in Seq(PartOf(Len(answers) + 1))
    BY <2>1, PartsGrow
  <2>3. crest \in Seq(PartOf(Len(answers) + 1)) /\ toClient \in Seq(PartOf(Len(answers) + 1))
    BY <2>2, TypeFacts
  <2>. QED
    BY <1>2, <2>3
<1>4. /\ requests' \in Seq(Requests) /\ Len(answers') <= Len(requests')
      /\ Len(requests') <= MaxRequests
      /\ toServer' \in Seq(RequestPart) /\ contents' \in Seq(1..MaxRequests \cup {Garbage})
  BY <1>2, TypeFacts
<1>5. chunks' \in BOOLEAN /\ cclosed' \in BOOLEAN
  BY DEF TypeInv, TypeOK
<1>. QED
  BY <1>2, <1>3, <1>4, <1>5, TypeInvFrom

LEMMA HeaderEffect ==
    ASSUME TypeInv, EndsInv, CloseInv, NEW c \in BOOLEAN, RecvHeader(c),
           UNCHANGED clientVars
    PROVE  /\ TypeInv' /\ EndsInv'
           /\ Len(answers') = Len(answers) + 1 /\ Len(answers') <= Len(requests)
           /\ \A i \in 1..Len(answers) : answers'[i] = answers[i]
           /\ answers'[Len(answers')].cors = cors'
           /\ cors' = LET origin == requests[Len(answers')].origin
                      IN IF origin \in CorsOriginList THEN origin ELSE cors
           /\ last10' = (last10 \/ requests[Len(answers')].version = "1.0")
           /\ requests[Len(answers')].version # "0.9"
<1>. DEFINE e == FirstEnd(srest)
            k == Len(answers) + 1
            r == requests[srest[e].of]
<1>1. parsing /\ ~closing /\ HeaderEnds(srest) # {}
  BY DEF RecvHeader, CloseInv
<1>2. /\ srest[e].of = k /\ k <= Len(requests)
      /\ SubSeq(srest, e + 1, Len(srest)) \in Seq(RequestPart)
      /\ EndsOf(SubSeq(srest, e + 1, Len(srest)) \o toServer, k, Len(requests))
  BY <1>1, NextHeader
<1>3. k \in 1..Len(requests)
  BY <1>2, TypeFacts
<1>4. r = requests[k] /\ r \in Requests
  BY <1>2, <1>3, TypeFacts
<1>5. /\ r.version # "0.9"
      /\ cors' = IF r.origin \in CorsOriginList THEN r.origin ELSE cors
      /\ RecvRequest(c)
      /\ last10' = (last10 \/ r.version = "1.0")
      /\ srest' = SubSeq(srest, e + 1, Len(srest))
      /\ UNCHANGED <<requests, toServer, parsing, completeClose, closeTimer, closing,
                     finished, toClient>>
  BY DEF RecvHeader, EnableCors
<1>6. cors' \in STRING
  BY <1>4, <1>5, ConstantTypes, TypeFacts
<1>7. last10' \in BOOLEAN
  BY <1>5 DEF TypeInv, TypeOK
<1>8. PICK n \in Nat, chunked \in BOOLEAN : Post(Answer(n, chunked))
  BY <1>5, OneAnswer
<1>. HIDE DEF e, k, r
<1>9. /\ parsing' \in BOOLEAN /\ completeClose' \in BOOLEAN
      /\ closeTimer' \in BOOLEAN /\ closing' \in BOOLEAN /\ finished' \in BOOLEAN
  BY <1>5 DEF TypeInv, TypeOK
<1>10. srest' \in Seq(RequestPart)
  BY <1>2, <1>5
<1>11. Len(answers) + 1 <= Len(requests)
  BY <1>2 DEF k
<1>12. /\ TypeInv' /\ Len(answers') = Len(answers) + 1
       /\ \A i \in 1..Len(answers) : answers'[i] = answers[i]
       /\ answers'[Len(answers) + 1].cors = cors'
  BY <1>5, <1>6, <1>7, <1>8, <1>9, <1>10, <1>11, AnswerTypes
<1>13. Len(answers') = k
  BY <1>12 DEF k
<1>14. EndsInv'
  <2>1. Unparsed' = SubSeq(srest, e + 1, Len(srest)) \o toServer
    BY <1>5 DEF Unparsed
  <2>2. EndsOf(Unparsed', Len(answers'), Len(requests'))
    BY <1>2, <1>5, <1>13, <2>1
  <2>. QED
    BY <2>2 DEF EndsInv
<1>. QED
  BY <1>2, <1>4, <1>5, <1>12, <1>13, <1>14

LEMMA OversizedEffect ==
    ASSUME TypeInv, EndsInv, CloseInv, RecvOversized, UNCHANGED clientVars
    PROVE  /\ TypeInv' /\ closing' /\ ~parsing'
           /\ Len(answers') = Len(answers) + 1 /\ Len(answers') <= Len(requests)
           /\ \A i \in 1..Len(answers) : answers'[i] = answers[i]
           /\ answers'[Len(answers')].cors = cors' /\ cors' = cors
<1>1. ~closing /\ Oversized
  BY DEF RecvOversized, CloseInv
<1>2. Len(answers) + 1 <= Len(requests)
  BY <1>1, OversizedIsUnanswered
<1>3. PICK n \in Nat, chunked \in BOOLEAN : Post(Answer(n, chunked))
  BY OneAnswer DEF RecvOversized
<1>4. /\ cors' = cors /\ cors' \in STRING /\ srest' \in Seq(RequestPart)
      /\ UNCHANGED <<requests, toServer, toClient>>
  BY TypeFacts DEF RecvOversized
<1>5. /\ parsing' \in BOOLEAN /\ last10' \in BOOLEAN /\ completeClose' \in BOOLEAN
      /\ closeTimer' \in BOOLEAN /\ closing' \in BOOLEAN /\ finished' \in BOOLEAN
  BY DEF RecvOversized, TypeInv, TypeOK
<1>6. /\ TypeInv' /\ Len(answers') = Len(answers) + 1
      /\ \A i \in 1..Len(answers) : answers'[i] = answers[i]
      /\ answers'[Len(answers) + 1].cors = cors'
  BY <1>2, <1>3, <1>4, <1>5, AnswerTypes
<1>. QED
  BY <1>2, <1>4, <1>6 DEF RecvOversized

(* A write that ends takes the first answer off the queue.                   *)
LEMMA OnSendEffect ==
    ASSUME TypeInv, OnSend, UNCHANGED clientVars
    PROVE  /\ TypeInv'
           /\ queue' = <<>> \/ queue' = Tail(queue)
<1>1. queue \in Seq(Answers) /\ queue # <<>>
  BY TypeFacts DEF OnSend
<1>2. /\ Head(queue) \in Answers /\ Tail(queue) \in Seq(Answers)
      /\ Len(Tail(queue)) = Len(queue) - 1
      /\ \A i \in 1..Len(Tail(queue)) : Tail(queue)[i] = queue[i + 1]
      /\ Head(queue) = queue[1] /\ 1 \in DOMAIN queue
  BY <1>1, HeadTailProperties, EmptySeq
<1>3. Head(queue).of <= Len(answers)
  BY <1>2, TypeFacts
<1>4. AnswerParts(Head(queue)) \in Seq(PartOf(Len(answers)))
  BY <1>2, <1>3, TypeFacts, AnswerPartsType
<1>5. toClient' \in Seq(PartOf(Len(answers)))
  BY <1>4, TypeFacts, ConcatProperties DEF OnSend
<1>6. queue' = <<>> \/ queue' = Tail(queue)
  BY DEF OnSend
<1>7. queue' \in Seq(Answers) /\ \A i \in DOMAIN queue' : queue'[i].of <= Len(answers)
  <2>1. CASE queue' = <<>>
    BY <2>1, EmptySeq
  <2>2. CASE queue' = Tail(queue)
    <3>1. \A i \in DOMAIN Tail(queue) : i \in 1..Len(Tail(queue)) /\ i + 1 \in DOMAIN queue
      BY <1>1, <1>2
    <3>. QED
      BY <1>2, <2>2, <3>1, TypeFacts
  <2>. QED
    BY <1>6, <2>1, <2>2
<1>8. /\ UNCHANGED <<requests, toServer, srest, answers, cors, parsing, last10,
                     completeClose, closing, finished>>
      /\ closeTimer' \in BOOLEAN
  BY DEF OnSend, SetCloseTimer, SetNetworkTimer, TypeInv, TypeOK
<1>9. /\ requests' \in Seq(Requests) /\ Len(answers') <= Len(requests')
      /\ Len(requests') <= MaxRequests /\ answers' \in Seq(Answers)
      /\ queue' \in Seq(Answers) /\ \A i \in DOMAIN queue' : queue'[i].of <= Len(answers')
      /\ crest' \in Seq(PartOf(Len(answers'))) /\ toClient' \in Seq(PartOf(Len(answers')))
      /\ srest' \in Seq(RequestPart) /\ toServer' \in Seq(RequestPart)
      /\ contents' \in Seq(1..MaxRequests \cup {Garbage}) /\ cors' \in STRING
  BY <1>5, <1>7, <1>8, TypeFacts
<1>10. /\ parsing' \in BOOLEAN /\ last10' \in BOOLEAN /\ completeClose' \in BOOLEAN
       /\ closing' \in BOOLEAN /\ finished' \in BOOLEAN
       /\ chunks' \in BOOLEAN /\ cclosed' \in BOOLEAN
  BY <1>8 DEF TypeInv, TypeOK
<1>. QED
  BY <1>6, <1>8, <1>9, <1>10, TypeInvFrom

LEMMA ServerTypes ==
    ASSUME TypeInv, EndsInv, CloseInv, Server
    PROVE  TypeInv'
<1>1. UNCHANGED clientVars /\ chunks \in BOOLEAN
  BY TypeFacts DEF Server
<1>2. ASSUME NEW n \in 1..Len(toServer), OnReceive(n)
      PROVE  TypeInv'
  <2>1. srest' \in Seq(RequestPart) /\ toServer' \in Seq(RequestPart)
    BY <1>2, ReceiveMovesParts
  <2>2. UNCHANGED AnswerPart
    BY <1>2 DEF OnReceive, AnswerPart
  <2>. QED
    BY <1>1, <1>2, <2>1, <2>2 DEF OnReceive, TypeInv, TypeOK, PartsInv
<1>3. CASE RecvOversized
  BY <1>1, <1>3, OversizedEffect
<1>4. CASE RecvHeader(chunks)
  BY <1>1, <1>4, HeaderEffect
<1>5. CASE OnSend
  BY <1>1, <1>5, OnSendEffect
<1>6. CASE RecvMalformed \/ RecvReturn \/ CloseTimerProc
  <2>1. UNCHANGED AnswerPart
    BY <1>6 DEF RecvMalformed, RecvReturn, CloseTimerProc, AnswerPart
  <2>2. /\ UNCHANGED <<requests, toServer, srest, answers, queue, cors, toClient>>
        /\ parsing' \in BOOLEAN /\ last10' \in BOOLEAN /\ completeClose' \in BOOLEAN
        /\ closeTimer' \in BOOLEAN /\ closing' \in BOOLEAN /\ finished' \in BOOLEAN
    BY <1>6 DEF RecvMalformed, RecvReturn, CloseTimerProc, TypeInv, TypeOK
  <2>. QED
    BY <1>1, <2>1, <2>2 DEF TypeInv, TypeOK, PartsInv
<1>. QED
  BY <1>2, <1>3, <1>4, <1>5, <1>6 DEF Server, ServerNext

----------------------------------------------------------------------------
(* IInv is inductive.                                                        *)

LEMMA InitInvariance == Init => IInv
<1>. SUFFICES ASSUME Init PROVE IInv
  OBVIOUS
<1>1. /\ requests = <<>> /\ answers = <<>> /\ srest = <<>> /\ toServer = <<>> /\ queue = <<>>
      /\ cors = NoOrigin /\ parsing = FALSE /\ last10 = FALSE /\ completeClose = FALSE
      /\ closeTimer = FALSE /\ closing = FALSE /\ finished = FALSE
  BY DEF Init, ServerInit
<1>2. Len(<<>>) = 0 /\ DOMAIN <<>> = {} /\ Unparsed = <<>>
  BY <1>1, EmptySeq, ConcatEmptySeq DEF Unparsed
<1>3. EndsInv
  <2>1. HeaderEnds(Unparsed) = {}
    BY <1>2 DEF HeaderEnds
  <2>2. (0 + 1)..0 = {}
    OBVIOUS
  <2>. QED
    BY <1>1, <1>2, <2>1, <2>2, ConstantTypes DEF EndsInv, EndsOf
<1>4. LastInv /\ CloseInv /\ OriginInv /\ CorsAsAsked
  BY <1>1, <1>2 DEF LastInv, CloseInv, OriginInv, CorsAsAsked
<1>. QED
  BY <1>3, <1>4, InitTypes DEF IInv, TypeInv

(* A new request comes after everything that is there.                       *)
LEMMA SendInvariance ==
    ASSUME IInv, NEW r \in Requests, SendRequest(r)
    PROVE  EndsInv' /\ LastInv' /\ CloseInv' /\ OriginInv' /\ CorsAsAsked'
<1>. DEFINE k == Len(answers)
            m == Len(requests)
            new == RequestParts(m + 1, r)
<1>1. /\ k \in Nat /\ m \in Nat /\ k <= m /\ m + 1 <= MaxRequests /\ m + 1 \in 1..MaxRequests
      /\ requests \in Seq(Requests) /\ srest \in Seq(RequestPart) /\ toServer \in Seq(RequestPart)
  <2>1. m < MaxRequests
    BY DEF SendRequest, MaySend
  <2>. QED
    BY <2>1, TypeFacts DEF IInv, TypeInv
<1>2. /\ requests' = Append(requests, r) /\ toServer' = toServer \o new
      /\ \A i \in DOMAIN requests : requests[i].version = "1.1"
      /\ UNCHANGED serverVars
  BY DEF SendRequest, MaySend
<1>3. new \in Seq(RequestPart)
  BY <1>1, RequestPartsType
<1>. HIDE DEF new
<1>4. /\ Len(requests') = m + 1 /\ DOMAIN requests' = 1..(m + 1) /\ DOMAIN requests = 1..m
      /\ \A i \in 1..m : requests'[i] = requests[i]
  BY <1>1, <1>2, AppendProperties
<1>5. EndsInv'
  <2>1. \A x, y, z \in Seq(RequestPart) : (x \o y) \o z = x \o (y \o z)
    BY ConcatAssociative
  <2>2. Unparsed' = srest \o (toServer \o new)
    BY <1>2 DEF Unparsed
  <2>3. Unparsed' = Unparsed \o new
    BY <1>1, <1>3, <2>1, <2>2 DEF Unparsed
  <2>4. Unparsed \in Seq(RequestPart)
    BY UnparsedType DEF IInv, TypeInv
  <2>5. ~closing => EndsOf(Unparsed, k, m)
    BY DEF IInv, EndsInv
  <2>6. ~closing => EndsOf(Unparsed \o new, k, m + 1)
    BY <1>1, <2>4, <2>5, EndsAppend DEF new
  <2>. QED
    BY <1>2, <1>4, <2>3, <2>6 DEF EndsInv
<1>6. LastInv'
  BY <1>1, <1>2, <1>4 DEF LastInv
<1>7. CloseInv'
  <2>1. ~last10 /\ ~completeClose /\ ~closeTimer
    BY <1>2 DEF IInv, CloseInv
  <2>. QED
    BY <1>2, <2>1 DEF IInv, CloseInv
<1>8. OriginInv'
  <2>1. \A i \in 1..k : i \in 1..m
    BY <1>1
  <2>. QED
    BY <1>2, <1>4, <2>1 DEF IInv, OriginInv
<1>9. CorsAsAsked'
  <2>1. answers \in Seq(Answers) /\ DOMAIN answers = 1..k
    BY TypeFacts DEF IInv, TypeInv
  <2>2. \A j \in 1..k : \A i \in 1..j : i \in 1..m
    BY <1>1
  <2>. QED
    BY <1>2, <1>4, <2>1, <2>2 DEF IInv, CorsAsAsked
<1>. QED
  BY <1>5, <1>6, <1>7, <1>8, <1>9

(* One more answer, made with the origin that is enabled now.                *)
LEMMA CorsKept ==
    ASSUME TypeInv, CorsAsAsked, OriginInv', requests' = requests,
           answers' \in Seq(Answers), Len(answers') = Len(answers) + 1,
           \A i \in 1..Len(answers) : answers'[i] = answers[i],
           answers'[Len(answers')].cors = cors'
    PROVE  CorsAsAsked'
<1>1. Len(answers) \in Nat /\ DOMAIN answers = 1..Len(answers)
      /\ DOMAIN answers' = 1..(Len(answers) + 1)
  BY TypeFacts
<1>2. ASSUME NEW j \in 1..(Len(answers) + 1), answers'[j].cors # NoOrigin
      PROVE  /\ answers'[j].cors \in CorsOriginList
             /\ \E i \in 1..j : requests[i].origin = answers'[j].cors
  <2>1. CASE j \in 1..Len(answers)
    BY <1>1, <1>2, <2>1 DEF CorsAsAsked
  <2>2. CASE j = Len(answers) + 1
    BY <1>2, <2>2 DEF OriginInv
  <2>. QED
    BY <1>1, <2>1, <2>2
<1>. QED
  BY <1>1, <1>2 DEF CorsAsAsked

LEMMA OversizedInvariance ==
    ASSUME IInv, RecvOversized, UNCHANGED clientVars
    PROVE  TypeInv' /\ EndsInv' /\ LastInv' /\ CloseInv' /\ OriginInv' /\ CorsAsAsked'
<1>. USE DEF IInv, TypeInv
<1>1. /\ TypeInv' /\ closing' /\ ~parsing'
      /\ Len(answers') = Len(answers) + 1 /\ Len(answers') <= Len(requests)
      /\ \A i \in 1..Len(answers) : answers'[i] = answers[i]
      /\ answers'[Len(answers')].cors = cors' /\ cors' = cors
  BY OversizedEffect
<1>2. UNCHANGED <<requests, last10, completeClose, closeTimer, finished>>
  BY DEF RecvOversized
<1>3. Len(answers) \in Nat /\ Len(answers) # Len(requests)
  BY <1>1, TypeFacts
<1>4. ~last10 /\ ~completeClose /\ ~closeTimer
  BY <1>3 DEF CloseInv
<1>5. CloseInv'
  BY <1>1, <1>2, <1>4 DEF CloseInv
<1>6. \A i \in 1..Len(answers) : i \in 1..Len(answers')
  BY <1>1, <1>3
<1>7. OriginInv'
  BY <1>1, <1>2, <1>6 DEF OriginInv
<1>8. answers' \in Seq(Answers)
  BY <1>1 DEF PartsInv, Answers
<1>9. CorsAsAsked'
  BY <1>1, <1>2, <1>7, <1>8, CorsKept
<1>10. EndsInv' /\ LastInv'
  BY <1>1, <1>2 DEF EndsInv, LastInv
<1>. QED
  BY <1>1, <1>5, <1>7, <1>9, <1>10

LEMMA HeaderInvariance ==
    ASSUME IInv, RecvHeader(chunks), UNCHANGED clientVars
    PROVE  TypeInv' /\ EndsInv' /\ LastInv' /\ CloseInv' /\ OriginInv' /\ CorsAsAsked'
<1>. USE DEF IInv, TypeInv
<1>. DEFINE k == Len(answers')
<1>0. chunks \in BOOLEAN
  BY TypeFacts
<1>1. /\ TypeInv' /\ EndsInv'
      /\ k = Len(answers) + 1 /\ k <= Len(requests)
      /\ \A i \in 1..Len(answers) : answers'[i] = answers[i]
      /\ answers'[k].cors = cors'
      /\ cors' = IF requests[k].origin \in CorsOriginList THEN requests[k].origin ELSE cors
      /\ last10' = (last10 \/ requests[k].version = "1.0")
  BY <1>0, HeaderEffect
<1>2. UNCHANGED <<requests, parsing, completeClose, closeTimer, closing, finished>>
  BY DEF RecvHeader
<1>3. /\ Len(answers) \in Nat /\ Len(answers) # Len(requests) /\ k \in 1..Len(requests)
      /\ requests \in Seq(Requests) /\ DOMAIN requests = 1..Len(requests)
  BY <1>1, TypeFacts
<1>. HIDE DEF k
<1>4. ~last10 /\ ~completeClose /\ ~closeTimer
  BY <1>3 DEF CloseInv
<1>5. requests[k].version = "1.0" => k = Len(requests)
  BY <1>3 DEF LastInv
<1>6. CloseInv'
  <2>1. last10' => k = Len(requests) /\ \E i \in DOMAIN requests : requests[i].version = "1.0"
    BY <1>1, <1>3, <1>4, <1>5
  <2>2. Len(answers') = k
    BY DEF k
  <2>. QED
    BY <1>2, <1>4, <2>1, <2>2 DEF CloseInv
<1>7. \A i \in 1..Len(answers) : i \in 1..k
  BY <1>1, <1>3
<1>8. OriginInv'
  <2>1. Len(answers') = k /\ k \in 1..k
    BY <1>3 DEF k
  <2>2. CASE requests[k].origin \in CorsOriginList
    <3>1. cors' = requests[k].origin
      BY <1>1, <2>2
    <3>. QED
      BY <1>2, <2>1, <2>2, <3>1 DEF OriginInv
  <2>3. CASE requests[k].origin \notin CorsOriginList
    <3>1. cors' = cors
      BY <1>1, <2>3
    <3>. QED
      BY <1>2, <1>7, <2>1, <3>1 DEF OriginInv
  <2>. QED
    BY <2>2, <2>3
<1>9. answers' \in Seq(Answers)
  BY <1>1 DEF PartsInv, Answers
<1>10. CorsAsAsked'
  <2>1. Len(answers') = Len(answers) + 1 /\ answers'[Len(answers')].cors = cors'
    BY <1>1 DEF k
  <2>. QED
    BY <1>1, <1>2, <1>8, <1>9, <2>1, CorsKept
<1>11. LastInv'
  BY <1>2 DEF LastInv
<1>. QED
  BY <1>1, <1>6, <1>8, <1>10, <1>11

LEMMA OnSendInvariance ==
    ASSUME IInv, OnSend, UNCHANGED clientVars
    PROVE  TypeInv' /\ EndsInv' /\ LastInv' /\ CloseInv' /\ OriginInv' /\ CorsAsAsked'
<1>. USE DEF IInv, TypeInv
<1>1. TypeInv'
  BY OnSendEffect
<1>2. /\ UNCHANGED <<requests, toServer, srest, answers, cors, parsing, last10,
                     completeClose, closing, finished>>
      /\ ~parsing /\ queue # <<>>
      /\ queue' = IF closing THEN <<>> ELSE Tail(queue)
  BY DEF OnSend
<1>3. ~closeTimer /\ ~finished
  BY <1>2 DEF CloseInv
<1>4. closeTimer' => completeClose /\ queue' = <<>>
  BY <1>2, <1>3 DEF OnSend, SetCloseTimer, SetNetworkTimer
<1>5. CloseInv'
  BY <1>2, <1>3, <1>4 DEF CloseInv
<1>6. EndsInv' /\ LastInv' /\ OriginInv' /\ CorsAsAsked'
  BY <1>2 DEF EndsInv, Unparsed, LastInv, OriginInv, CorsAsAsked
<1>. QED
  BY <1>1, <1>5, <1>6

LEMMA NextInvariance == IInv /\ [Next]_vars => IInv'
<1>. SUFFICES ASSUME IInv, [Next]_vars
              PROVE  TypeInv' /\ EndsInv' /\ LastInv' /\ CloseInv' /\ OriginInv' /\ CorsAsAsked'
  BY DEF IInv, TypeInv
<1>1. TypeInv
  BY DEF IInv, TypeInv
<1>2. EndsInv /\ LastInv /\ CloseInv /\ OriginInv /\ CorsAsAsked
  BY DEF IInv
<1>3. CASE Client
  <2>1. TypeInv'
    BY <1>1, <1>3, ClientTypes
  <2>2. CASE \E r \in Requests : SendRequest(r)
    BY <2>1, <2>2, SendInvariance
  <2>3. CASE (\E n \in 1..Len(toClient) : ClientReceive(n)) \/ ClientEof
    <3>1. UNCHANGED <<requests, toServer, serverVars>>
      BY <2>3 DEF ClientReceive, ClientEof
    <3>. QED
      BY <1>2, <2>1, <3>1
      DEF EndsInv, Unparsed, LastInv, CloseInv, OriginInv, CorsAsAsked
  <2>. QED
    BY <1>3, <2>2, <2>3 DEF Client
<1>4. CASE Server
  <2>1. TypeInv' /\ UNCHANGED clientVars
    BY <1>1, <1>2, <1>4, ServerTypes DEF Server
  <2>2. ASSUME NEW n \in 1..Len(toServer), OnReceive(n)
        PROVE  EndsInv' /\ LastInv' /\ CloseInv' /\ OriginInv' /\ CorsAsAsked'
    <3>1. Unparsed' = Unparsed
      BY <1>1, <2>2, ReceiveMovesParts
    <3>2. /\ UNCHANGED <<requests, answers, cors, queue, completeClose, closeTimer,
                         closing, finished>>
          /\ last10' = FALSE /\ ~closing
      BY <2>2 DEF OnReceive
    <3>3. EndsInv'
      BY <1>2, <3>1, <3>2 DEF EndsInv
    <3>. QED
      BY <1>2, <3>2, <3>3 DEF LastInv, CloseInv, OriginInv, CorsAsAsked
  <2>3. CASE RecvMalformed \/ CloseTimerProc
    <3>1. /\ UNCHANGED <<requests, answers, cors, queue, last10, completeClose, closeTimer>>
          /\ closing' /\ ~parsing'
          /\ finished' => closeTimer
      BY <1>2, <2>3 DEF RecvMalformed, CloseTimerProc, CloseInv
    <3>. QED
      BY <1>2, <2>1, <3>1 DEF EndsInv, LastInv, CloseInv, OriginInv, CorsAsAsked
  <2>4. CASE RecvReturn
    <3>1. /\ UNCHANGED <<requests, toServer, srest, answers, cors, queue, last10, closeTimer,
                         closing, finished>>
          /\ ~parsing' /\ completeClose' = last10
      BY <2>4 DEF RecvReturn
    <3>. QED
      BY <1>2, <2>1, <3>1 DEF EndsInv, Unparsed, LastInv, CloseInv, OriginInv, CorsAsAsked
  <2>. QED
    BY <1>4, <2>1, <2>2, <2>3, <2>4, OversizedInvariance, HeaderInvariance, OnSendInvariance
    DEF Server, ServerNext
<1>5. CASE UNCHANGED vars
  <2>1. UNCHANGED AnswerPart
    BY <1>5 DEF vars, AnswerPart
  <2>2. TypeInv'
    BY <1>1, <1>5, <2>1 DEF vars, TypeInv, TypeOK, PartsInv
  <2>. QED
    BY <1>2, <1>5, <2>2 DEF vars, EndsInv, Unparsed, LastInv, CloseInv, OriginInv, CorsAsAsked
<1>. QED
  BY <1>3, <1>4, <1>5 DEF Next

(* The inductive invariant holds of every connection.                        *)
THEOREM Invariance == Spec => []IInv
  BY InitInvariance, NextInvariance, PTL DEF Spec

(* The close timer closes a connection only when every request that came     *)
(* over it is answered and every answer is written (OnSend, RecvHandler).    *)
THEOREM NoAnswerCutOff == Spec => []AnsweredBeforeClose
<1>1. IInv => AnsweredBeforeClose
  BY DEF IInv, CloseInv, AnsweredBeforeClose
<1>. QED
  BY <1>1, Invariance, PTL

(* An answer names an origin only if it is in _cors_origin_list and a        *)
(* request answered by then came from it (EnableCors).                       *)
THEOREM OriginsAsked == Spec => []CorsAsAsked
<1>1. IInv => CorsAsAsked
  BY DEF IInv
<1>. QED
  BY <1>1, Invariance, PTL

----------------------------------------------------------------------------
(* The parts of an answer, and the flow of answers to the client.            *)

LEMMA AnswerPartsShape ==
    ASSUME NEW a \in Answers
    PROVE  /\ AnswerParts(a) \in Seq(PartOf(MaxRequests))
           /\ Len(AnswerParts(a)) = a.size + IF a.chunked THEN 3 ELSE 2
           /\ AnswerParts(a)[1] = Part(a.of, "head")
           /\ AnswerParts(a)[2] = Part(a.of, "end")
           /\ \A j \in 1..a.size : AnswerParts(a)[2 + j] =
                    Part(a.of, IF a.chunked THEN "chunk" ELSE "content")
           /\ a.chunked => AnswerParts(a)[a.size + 3] = Part(a.of, "last")
<1>. DEFINE head == <<Part(a.of, "head"), Part(a.of, "end")>>
            pieces == Parts(a.of, IF a.chunked THEN "chunk" ELSE "content", a.size)
            body == IF a.chunked THEN Append(pieces, Part(a.of, "last")) ELSE pieces
<1>1. a.of \in 1..MaxRequests /\ a.size \in Nat /\ a.chunked \in BOOLEAN
  BY DEF Answers
<1>2. \A p \in {"head", "end", "content", "chunk", "last"} : Part(a.of, p) \in PartOf(MaxRequests)
  BY <1>1 DEF Part, PartOf
<1>3. /\ head \in Seq(PartOf(MaxRequests)) /\ Len(head) = 2
      /\ head[1] = Part(a.of, "head") /\ head[2] = Part(a.of, "end")
  BY <1>2
<1>4. /\ pieces \in Seq(PartOf(MaxRequests)) /\ Len(pieces) = a.size
      /\ \A j \in 1..a.size : pieces[j] = Part(a.of, IF a.chunked THEN "chunk" ELSE "content")
  BY <1>1, <1>2 DEF Parts
<1>5. AnswerParts(a) = head \o body
  BY <1>1 DEF AnswerParts
<1>. HIDE DEF head, pieces
<1>6. /\ body \in Seq(PartOf(MaxRequests)) /\ Len(body) = a.size + IF a.chunked THEN 1 ELSE 0
      /\ \A j \in 1..a.size : body[j] = pieces[j]
      /\ a.chunked => body[a.size + 1] = Part(a.of, "last")
  <2>1. CASE a.chunked
    BY <1>1, <1>2, <1>4, <2>1, AppendProperties
  <2>2. CASE ~a.chunked
    BY <1>1, <1>4, <2>2
  <2>. QED
    BY <2>1, <2>2
<1>. HIDE DEF body
<1>7. /\ AnswerParts(a) \in Seq(PartOf(MaxRequests))
      /\ Len(AnswerParts(a)) = 2 + Len(body)
      /\ \A i \in 1..(2 + Len(body)) :
            AnswerParts(a)[i] = IF i <= 2 THEN head[i] ELSE body[i - 2]
  <2>1. \A s, t \in Seq(PartOf(MaxRequests)) :
            /\ s \o t \in Seq(PartOf(MaxRequests)) /\ Len(s \o t) = Len(s) + Len(t)
            /\ \A i \in 1..(Len(s) + Len(t)) :
                    (s \o t)[i] = IF i <= Len(s) THEN s[i] ELSE t[i - Len(s)]
    BY ConcatProperties
  <2>2. /\ head \o body \in Seq(PartOf(MaxRequests)) /\ Len(head \o body) = Len(head) + Len(body)
        /\ \A i \in 1..(Len(head) + Len(body)) :
                (head \o body)[i] = IF i <= Len(head) THEN head[i] ELSE body[i - Len(head)]
    BY <1>3, <1>6, <2>1
  <2>. QED
    BY <1>3, <1>5, <2>2
<1>8. Len(AnswerParts(a)) = a.size + IF a.chunked THEN 3 ELSE 2
  BY <1>1, <1>6, <1>7
<1>9. AnswerParts(a)[1] = head[1] /\ AnswerParts(a)[2] = head[2]
  <2>1. Len(body) \in Nat /\ 1 \in 1..(2 + Len(body)) /\ 2 \in 1..(2 + Len(body))
    BY <1>6
  <2>. QED
    BY <1>7, <2>1
<1>10. ASSUME NEW j \in 1..Len(body)
       PROVE  AnswerParts(a)[2 + j] = body[j]
  <2>1. Len(body) \in Nat
    BY <1>6
  <2>2. 2 + j \in 1..(2 + Len(body)) /\ ~(2 + j <= 2) /\ (2 + j) - 2 = j
    BY <2>1
  <2>. QED
    BY <1>7, <2>2
<1>11. \A j \in 1..a.size : AnswerParts(a)[2 + j] =
            Part(a.of, IF a.chunked THEN "chunk" ELSE "content")
  <2>1. \A j \in 1..a.size : j \in 1..Len(body)
    BY <1>1, <1>6
  <2>. QED
    BY <1>4, <1>6, <1>10, <2>1
<1>12. a.chunked => AnswerParts(a)[a.size + 3] = Part(a.of, "last")
  <2>1. a.chunked => a.size + 1 \in 1..Len(body) /\ 2 + (a.size + 1) = a.size + 3
    BY <1>1, <1>6
  <2>. QED
    BY <1>6, <1>10, <2>1
<1>. QED
  BY <1>3, <1>7, <1>8, <1>9, <1>11, <1>12

LEMMA AnswerLength ==
    ASSUME NEW a \in Answers
    PROVE  /\ AnswerParts(a) \in Seq(PartOf(MaxRequests))
           /\ Len(AnswerParts(a)) \in Nat /\ Len(AnswerParts(a)) >= 2
           /\ DOMAIN AnswerParts(a) = 1..Len(AnswerParts(a))
<1>1. AnswerParts(a) \in Seq(PartOf(MaxRequests)) /\ a.size \in Nat
      /\ Len(AnswerParts(a)) = a.size + IF a.chunked THEN 3 ELSE 2
  BY AnswerPartsShape DEF Answers
<1>. QED
  BY <1>1

(* Where there is anything to be taken, the next answer is whole and first.  *)
LEMMA FlowFirst ==
    ASSUME NEW ans \in Seq(Answers), NEW S, NEW data \in Seq(S),
           NEW c \in Nat, NEW w \in Nat, c <= w, w <= Len(ans), FlowOf(ans, data, c, w), Len(data) > 0
    PROVE  /\ c < w /\ Len(AnswerParts(ans[c + 1])) <= Len(data)
           /\ \A j \in 1..Len(AnswerParts(ans[c + 1])) : data[j] = AnswerParts(ans[c + 1])[j]
           /\ w = c + 1 => Len(data) = Len(AnswerParts(ans[c + 1]))
<1>2. Len(ans) \in Nat /\ Len(data) \in Nat /\ w \in Nat /\ c <= w
  OBVIOUS
<1>0. PICK start : /\ start \in [(c + 1)..(w + 1) -> 0..Len(data)]
                  /\ AnswersAt(start, ans, data, c, w)
  BY DEF FlowOf
<1>1. /\ start \in [(c + 1)..(w + 1) -> 0..Len(data)]
      /\ start[c + 1] = 0 /\ start[w + 1] = Len(data)
      /\ \A p, q \in (c + 1)..(w + 1) : p <= q => start[p] <= start[q]
      /\ \A q \in (c + 1)..w :
            /\ start[q + 1] = start[q] + Len(AnswerParts(ans[q]))
            /\ \A j \in DOMAIN AnswerParts(ans[q]) :
                  data[start[q] + j] = AnswerParts(ans[q])[j]
  BY <1>0 DEF AnswersAt
<1>3. c < w
  <2>1. c # w
    BY <1>1, <1>2
  <2>. QED
    BY <1>2, <2>1
<1>4. c + 1 \in (c + 1)..w /\ c + 1 \in 1..Len(ans) /\ (c + 1) + 1 \in (c + 1)..(w + 1)
      /\ w + 1 \in (c + 1)..(w + 1) /\ (c + 1) + 1 <= w + 1
  BY <1>2, <1>3
<1>5. ans[c + 1] \in Answers
  BY <1>4
<1>. DEFINE a == AnswerParts(ans[c + 1])
<1>6. Len(a) \in Nat /\ DOMAIN a = 1..Len(a)
  BY <1>5, AnswerLength
<1>7. /\ start[(c + 1) + 1] = start[c + 1] + Len(a)
      /\ \A j \in DOMAIN a : data[start[c + 1] + j] = a[j]
  BY <1>1, <1>4
<1>8. start[(c + 1) + 1] <= start[w + 1]
  BY <1>1, <1>4
<1>. HIDE DEF a
<1>9. start[c + 1] = 0
  BY <1>1
<1>10. start[(c + 1) + 1] = Len(a) /\ \A j \in 1..Len(a) : data[j] = a[j]
  BY <1>6, <1>7, <1>9
<1>11. w = c + 1 => Len(data) = Len(a)
  BY <1>1, <1>10
<1>. QED
  BY <1>1, <1>3, <1>8, <1>10, <1>11 DEF a

(* The next answer is taken.                                                 *)
LEMMA FlowCut ==
    ASSUME NEW ans \in Seq(Answers), NEW S, NEW data \in Seq(S), NEW rest \in Seq(S),
           NEW c \in Nat, NEW w \in Nat, c <= w, w <= Len(ans), FlowOf(ans, data, c, w), c < w,
           NEW n \in Nat, n = Len(AnswerParts(ans[c + 1])), Len(rest) = Len(data) - n,
           \A i \in 1..Len(rest) : rest[i] = data[n + i]
    PROVE  FlowOf(ans, rest, c + 1, w)
<1>2. Len(ans) \in Nat /\ Len(data) \in Nat /\ Len(rest) \in Nat /\ w \in Nat /\ c < w
  OBVIOUS
<1>0. PICK start : /\ start \in [(c + 1)..(w + 1) -> 0..Len(data)]
                  /\ AnswersAt(start, ans, data, c, w)
  BY DEF FlowOf
<1>1. /\ start \in [(c + 1)..(w + 1) -> 0..Len(data)]
      /\ start[c + 1] = 0 /\ start[w + 1] = Len(data)
      /\ \A p, q \in (c + 1)..(w + 1) : p <= q => start[p] <= start[q]
      /\ \A q \in (c + 1)..w :
            /\ start[q + 1] = start[q] + Len(AnswerParts(ans[q]))
            /\ \A j \in DOMAIN AnswerParts(ans[q]) :
                  data[start[q] + j] = AnswerParts(ans[q])[j]
  BY <1>0 DEF AnswersAt
<1>. DEFINE later == [q \in ((c + 1) + 1)..(w + 1) |-> start[q] - n]
<1>3. \A q \in ((c + 1) + 1)..(w + 1) :
        /\ q \in (c + 1)..(w + 1) /\ (c + 1) + 1 \in (c + 1)..(w + 1) /\ (c + 1) + 1 <= q
  BY <1>2
<1>4. start[(c + 1) + 1] = n
  <2>1. c + 1 \in (c + 1)..w
    BY <1>2
  <2>. QED
    BY <1>1, <2>1
<1>5. \A q \in ((c + 1) + 1)..(w + 1) : start[q] \in n..Len(data) /\ later[q] = start[q] - n
  <2>. SUFFICES ASSUME NEW q \in ((c + 1) + 1)..(w + 1)
                PROVE  start[q] \in n..Len(data) /\ later[q] = start[q] - n
    OBVIOUS
  <2>1. start[(c + 1) + 1] <= start[q] /\ start[q] \in 0..Len(data)
    BY <1>1, <1>3
  <2>. QED
    BY <1>2, <1>4, <2>1
<1>6. later \in [((c + 1) + 1)..(w + 1) -> 0..Len(rest)]
  <2>1. \A x \in n..Len(data) : x - n \in 0..Len(rest)
    BY <1>2
  <2>. QED
    BY <1>5, <2>1
<1>. HIDE DEF later
<1>7. later[(c + 1) + 1] = 0 /\ later[w + 1] = Len(rest)
  <2>1. (c + 1) + 1 \in ((c + 1) + 1)..(w + 1) /\ w + 1 \in ((c + 1) + 1)..(w + 1)
    BY <1>2
  <2>2. later[(c + 1) + 1] = start[(c + 1) + 1] - n /\ later[w + 1] = start[w + 1] - n
    BY <1>5, <2>1
  <2>3. start[w + 1] = Len(data)
    BY <1>1
  <2>. QED
    BY <1>2, <1>4, <2>2, <2>3
<1>8. \A p, q \in ((c + 1) + 1)..(w + 1) : p <= q => later[p] <= later[q]
  <2>. SUFFICES ASSUME NEW p \in ((c + 1) + 1)..(w + 1), NEW q \in ((c + 1) + 1)..(w + 1),
                       p <= q
                PROVE  later[p] <= later[q]
    OBVIOUS
  <2>1. start[p] <= start[q]
    BY <1>1, <1>3
  <2>2. /\ later[p] = start[p] - n /\ later[q] = start[q] - n
        /\ start[p] \in n..Len(data) /\ start[q] \in n..Len(data)
    BY <1>5
  <2>. QED
    BY <1>2, <2>1, <2>2
<1>9. ASSUME NEW q \in ((c + 1) + 1)..w
      PROVE  /\ later[q + 1] = later[q] + Len(AnswerParts(ans[q]))
             /\ \A j \in DOMAIN AnswerParts(ans[q]) :
                    rest[later[q] + j] = AnswerParts(ans[q])[j]
  <2>. DEFINE a == AnswerParts(ans[q])
  <2>1. /\ q \in (c + 1)..w /\ q \in 1..Len(ans) /\ q \in ((c + 1) + 1)..(w + 1)
        /\ q + 1 \in ((c + 1) + 1)..(w + 1)
    BY <1>2
  <2>2. ans[q] \in Answers
    BY <2>1
  <2>3. Len(a) \in Nat /\ DOMAIN a = 1..Len(a)
    BY <2>2, AnswerLength
  <2>4. /\ start[q + 1] = start[q] + Len(a)
        /\ \A j \in DOMAIN a : data[start[q] + j] = a[j]
    BY <1>1, <2>1
  <2>. HIDE DEF a
  <2>5. /\ later[q + 1] = start[q + 1] - n /\ later[q] = start[q] - n
        /\ start[q] \in n..Len(data) /\ start[q + 1] \in n..Len(data)
    BY <1>5, <2>1
  <2>6. later[q + 1] = later[q] + Len(a)
    BY <1>2, <2>3, <2>4, <2>5
  <2>7. ASSUME NEW j \in DOMAIN a
        PROVE  rest[later[q] + j] = a[j]
    <3>1. later[q] + j \in 1..Len(rest) /\ n + (later[q] + j) = start[q] + j
      <4>1. j \in Nat /\ 1 <= j /\ j <= Len(a)
        BY <2>3
      <4>2. start[q] \in Nat /\ n <= start[q] /\ start[q] + Len(a) <= Len(data)
        BY <1>2, <2>3, <2>4, <2>5
      <4>3. Len(rest) = Len(data) - n /\ later[q] = start[q] - n
        BY <2>5
      <4>. QED
        BY <1>2, <2>3, <4>1, <4>2, <4>3
    <3>. QED
      BY <2>4, <3>1
  <2>. QED
    BY <2>6, <2>7 DEF a
<1>. QED
  BY <1>6, <1>7, <1>8, <1>9 DEF FlowOf, AnswersAt

(* The answer after those is written behind them.                            *)
LEMMA FlowAppend ==
    ASSUME NEW ans \in Seq(Answers), NEW S, NEW data \in Seq(S), NEW all \in Seq(S),
           NEW c \in Nat, NEW w \in Nat, c <= w, w <= Len(ans), FlowOf(ans, data, c, w), w < Len(ans),
           Len(all) = Len(data) + Len(AnswerParts(ans[w + 1])),
           \A i \in 1..Len(data) : all[i] = data[i],
           \A j \in 1..Len(AnswerParts(ans[w + 1])) :
                all[Len(data) + j] = AnswerParts(ans[w + 1])[j]
    PROVE  FlowOf(ans, all, c, w + 1)
<1>2. /\ Len(ans) \in Nat /\ Len(data) \in Nat /\ Len(all) \in Nat /\ w \in Nat /\ c <= w
      /\ w + 1 \in 1..Len(ans)
  OBVIOUS
<1>0. PICK start : /\ start \in [(c + 1)..(w + 1) -> 0..Len(data)]
                  /\ AnswersAt(start, ans, data, c, w)
  BY DEF FlowOf
<1>1. /\ start \in [(c + 1)..(w + 1) -> 0..Len(data)]
      /\ start[c + 1] = 0 /\ start[w + 1] = Len(data)
      /\ \A p, q \in (c + 1)..(w + 1) : p <= q => start[p] <= start[q]
      /\ \A q \in (c + 1)..w :
            /\ start[q + 1] = start[q] + Len(AnswerParts(ans[q]))
            /\ \A j \in DOMAIN AnswerParts(ans[q]) :
                  data[start[q] + j] = AnswerParts(ans[q])[j]
  BY <1>0 DEF AnswersAt
<1>3. ans[w + 1] \in Answers
  BY <1>2
<1>4. /\ Len(AnswerParts(ans[w + 1])) \in Nat
      /\ DOMAIN AnswerParts(ans[w + 1]) = 1..Len(AnswerParts(ans[w + 1]))
  BY <1>3, AnswerLength
<1>. DEFINE further == [q \in (c + 1)..((w + 1) + 1) |-> IF q <= w + 1 THEN start[q] ELSE Len(all)]
<1>5. /\ \A q \in (c + 1)..(w + 1) :
            /\ q \in (c + 1)..((w + 1) + 1) /\ q <= w + 1 /\ further[q] = start[q]
            /\ start[q] \in 0..Len(data)
      /\ further[(w + 1) + 1] = Len(all)
  <2>1. \A q \in (c + 1)..(w + 1) : q \in (c + 1)..((w + 1) + 1) /\ q <= w + 1
    BY <1>2
  <2>2. (w + 1) + 1 \in (c + 1)..((w + 1) + 1) /\ ~((w + 1) + 1 <= w + 1)
    BY <1>2
  <2>3. \A q \in (c + 1)..(w + 1) : start[q] \in 0..Len(data)
    BY <1>1
  <2>. QED
    BY <2>1, <2>2, <2>3
<1>6. \A q \in (c + 1)..((w + 1) + 1) : q \in (c + 1)..(w + 1) \/ q = (w + 1) + 1
  BY <1>2
<1>7. further \in [(c + 1)..((w + 1) + 1) -> 0..Len(all)]
  <2>1. \A x \in 0..Len(data) : x \in 0..Len(all)
    BY <1>2, <1>4
  <2>2. Len(all) \in 0..Len(all)
    BY <1>2
  <2>3. \A q \in (c + 1)..((w + 1) + 1) : further[q] \in 0..Len(all)
    BY <1>5, <1>6, <2>1, <2>2
  <2>. QED
    BY <2>3
<1>. HIDE DEF further
<1>8. further[c + 1] = 0 /\ further[(w + 1) + 1] = Len(all) /\ further[w + 1] = Len(data)
  <2>1. c + 1 \in (c + 1)..(w + 1) /\ w + 1 \in (c + 1)..(w + 1)
    BY <1>2
  <2>. QED
    BY <1>1, <1>5, <2>1
<1>9. \A p, q \in (c + 1)..((w + 1) + 1) : p <= q => further[p] <= further[q]
  <2>. SUFFICES ASSUME NEW p \in (c + 1)..((w + 1) + 1), NEW q \in (c + 1)..((w + 1) + 1),
                       p <= q
                PROVE  further[p] <= further[q]
    OBVIOUS
  <2>1. CASE q \in (c + 1)..(w + 1)
    <3>1. p \in (c + 1)..(w + 1)
      BY <1>2, <2>1
    <3>. QED
      BY <1>1, <1>5, <2>1, <3>1
  <2>2. CASE q = (w + 1) + 1
    BY <1>2, <1>7, <1>8, <2>2
  <2>. QED
    BY <1>6, <2>1, <2>2
<1>10. ASSUME NEW q \in (c + 1)..(w + 1)
       PROVE  /\ further[q + 1] = further[q] + Len(AnswerParts(ans[q]))
              /\ \A j \in DOMAIN AnswerParts(ans[q]) :
                    all[further[q] + j] = AnswerParts(ans[q])[j]
  <2>1. CASE q = w + 1
    BY <1>2, <1>4, <1>8, <2>1
  <2>2. CASE q # w + 1
    <3>. DEFINE a == AnswerParts(ans[q])
    <3>1. /\ q \in (c + 1)..w /\ q \in 1..Len(ans) /\ q \in (c + 1)..(w + 1)
          /\ q + 1 \in (c + 1)..(w + 1)
      BY <1>2, <2>2
    <3>2. ans[q] \in Answers
      BY <3>1
    <3>3. Len(a) \in Nat /\ DOMAIN a = 1..Len(a)
      BY <3>2, AnswerLength
    <3>4. /\ start[q + 1] = start[q] + Len(a)
          /\ \A j \in DOMAIN a : data[start[q] + j] = a[j]
      BY <1>1, <3>1
    <3>. HIDE DEF a
    <3>5. /\ further[q + 1] = start[q + 1] /\ further[q] = start[q]
          /\ start[q] \in 0..Len(data) /\ start[q + 1] \in 0..Len(data)
      BY <1>5, <3>1
    <3>6. ASSUME NEW j \in DOMAIN a
          PROVE  all[further[q] + j] = a[j]
      <4>1. start[q] + j \in 1..Len(data)
        BY <1>2, <3>3, <3>4, <3>5
      <4>. QED
        BY <3>4, <3>5, <4>1
    <3>. QED
      BY <3>4, <3>5, <3>6 DEF a
  <2>. QED
    BY <2>1, <2>2
<1>. QED
  BY <1>7, <1>8, <1>9, <1>10 DEF FlowOf, AnswersAt

LEMMA FlowKept ==
    ASSUME NEW ans, NEW bs, NEW data, NEW c \in Nat, NEW w \in Nat, FlowOf(ans, data, c, w),
           \A q \in (c + 1)..w : bs[q] = ans[q]
    PROVE  FlowOf(bs, data, c, w)
<1>1. PICK start : /\ start \in [(c + 1)..(w + 1) -> 0..Len(data)]
                  /\ AnswersAt(start, ans, data, c, w)
  BY DEF FlowOf
<1>2. AnswersAt(start, bs, data, c, w)
  BY <1>1 DEF AnswersAt
<1>. QED
  BY <1>1, <1>2 DEF FlowOf

(* The content of an answer is what stands between its header and its end.   *)
LEMMA MiddlePart ==
    ASSUME NEW S, NEW data \in Seq(S), NEW n \in Nat, Len(data) >= 2 + n, NEW k, NEW p,
           \A j \in 1..n : data[2 + j] = Part(k, p)
    PROVE  SubSeq(data, 3, 2 + n) = Parts(k, p, n)
<1>. DEFINE middle == SubSeq(data, 3, 2 + n)
<1>1. Len(data) \in Nat
  OBVIOUS
<1>2. \A i \in 3..(2 + n) : data[i] \in S
  <2>1. \A i \in 3..(2 + n) : i \in 1..Len(data)
    BY <1>1
  <2>. QED
    BY <2>1
<1>3. /\ middle \in Seq(S)
      /\ Len(middle) = IF 3 <= 2 + n THEN (2 + n) - 3 + 1 ELSE 0
      /\ \A i \in 1..((2 + n) - 3 + 1) : middle[i] = data[3 + i - 1]
  <2>1. 3 \in Int /\ 2 + n \in Int
    OBVIOUS
  <2>. QED
    BY <1>2, <2>1, SubSeqProperties
<1>. HIDE DEF middle
<1>4. Len(middle) = n
  BY <1>3
<1>5. ASSUME NEW i \in 1..n
      PROVE  middle[i] = Part(k, p)
  <2>1. i \in 1..((2 + n) - 3 + 1) /\ 3 + i - 1 = 2 + i
    OBVIOUS
  <2>. QED
    BY <1>3, <2>1
<1>6. middle = [i \in 1..n |-> middle[i]]
  BY <1>3, <1>4
<1>7. [i \in 1..n |-> middle[i]] = [i \in 1..n |-> Part(k, p)]
  BY <1>5
<1>. QED
  BY <1>6, <1>7 DEF middle, Parts

----------------------------------------------------------------------------
(* What the client has taken are the answers from the first on.              *)

LEMMA UntakenType ==
    ASSUME TypeInv
    PROVE  /\ Untaken \in Seq(PartOf(MaxRequests))
           /\ crest \in Seq(PartOf(MaxRequests)) /\ toClient \in Seq(PartOf(MaxRequests))
           /\ Len(Untaken) = Len(crest) + Len(toClient)
           /\ Len(contents) \in Nat /\ Len(answers) \in Nat /\ Len(queue) \in Nat
           /\ Len(answers) <= MaxRequests
<1>1. /\ Len(answers) \in Nat /\ MaxRequests \in Nat /\ Len(answers) <= MaxRequests
      /\ crest \in Seq(PartOf(Len(answers))) /\ toClient \in Seq(PartOf(Len(answers)))
      /\ contents \in Seq(1..MaxRequests \cup {Garbage}) /\ queue \in Seq(Answers)
  BY TypeFacts
<1>2. \A s \in Seq(PartOf(Len(answers))) : s \in Seq(PartOf(MaxRequests))
  BY <1>1, PartsGrow
<1>3. crest \in Seq(PartOf(MaxRequests)) /\ toClient \in Seq(PartOf(MaxRequests))
  BY <1>1, <1>2
<1>4. Untaken \in Seq(PartOf(MaxRequests)) /\ Len(Untaken) = Len(crest) + Len(toClient)
  BY <1>3, ConcatProperties DEF Untaken
<1>. QED
  BY <1>1, <1>3, <1>4

(* RecvHandler finds that it has enough exactly when it has the next answer, *)
(* whole; what it takes is that answer and its content is that answer's.     *)
LEMMA AnswerTaken ==
    ASSUME TypeInv, NumberInv, NEW c \in Nat, c = Len(contents), NEW w \in Nat, c <= w,
           w <= Len(answers), FlowOf(answers, Untaken, c, w),
           NEW data \in Seq(PartOf(MaxRequests)), Len(data) <= Len(Untaken),
           \A i \in 1..Len(data) : data[i] = Untaken[i], ~Incomplete(data)
    PROVE  /\ c < w /\ ContentIs(data, Content(data)) = c + 1
           /\ Used(data) = Len(AnswerParts(answers[c + 1])) /\ Used(data) <= Len(data)
<1>0. \A n \in Nat : \A k, p :
        Len(data) >= 2 + n /\ (\A j \in 1..n : data[2 + j] = Part(k, p))
            => SubSeq(data, 3, 2 + n) = Parts(k, p, n)
  BY MiddlePart, Zenon
<1>. DEFINE a == answers[c + 1]
            parts == AnswerParts(a)
<1>1. /\ Untaken \in Seq(PartOf(MaxRequests)) /\ answers \in Seq(Answers)
      /\ Len(answers) \in Nat /\ Len(data) \in Nat /\ Len(Untaken) \in Nat
      /\ Len(answers) <= Len(requests) /\ Len(requests) \in Nat
  BY UntakenType, TypeFacts
<1>2. HeaderEnds(data) # {} /\ HeaderEnds(data) \subseteq 1..Len(data)
  BY DEF Incomplete, HeaderFound, HeaderEnds
<1>3. FirstEnd(data) \in HeaderEnds(data) /\ \A j \in HeaderEnds(data) : FirstEnd(data) <= j
  BY <1>2, FirstEndIsFirst
<1>4. FirstEnd(data) \in 1..Len(data) /\ data[FirstEnd(data)].part = "end"
  BY <1>3 DEF HeaderEnds
<1>5. Len(Untaken) > 0
  BY <1>1, <1>4
<1>6. /\ c < w /\ Len(parts) <= Len(Untaken)
      /\ \A j \in 1..Len(parts) : Untaken[j] = parts[j]
      /\ w = c + 1 => Len(Untaken) = Len(parts)
  BY <1>1, <1>5, FlowFirst
<1>7. c + 1 \in 1..Len(answers)
  BY <1>1, <1>6
<1>8. /\ a \in Answers /\ a.of = c + 1 /\ (a.chunked => chunks)
      /\ a.size \in Nat /\ a.chunked \in BOOLEAN
  <2>1. a \in Answers /\ c + 1 \in DOMAIN answers
    BY <1>1, <1>7
  <2>2. a.size \in Nat /\ a.chunked \in BOOLEAN
    BY <2>1 DEF Answers
  <2>. QED
    BY <2>1, <2>2 DEF NumberInv
<1>. HIDE DEF a
<1>9. /\ Len(parts) = a.size + IF a.chunked THEN 3 ELSE 2
      /\ parts[1] = Part(c + 1, "head")
      /\ parts[2] = Part(c + 1, "end")
      /\ \A j \in 1..a.size : parts[2 + j] =
                    Part(c + 1, IF a.chunked THEN "chunk" ELSE "content")
      /\ a.chunked => parts[a.size + 3] = Part(c + 1, "last")
  <2>1. /\ Len(parts) = a.size + IF a.chunked THEN 3 ELSE 2
        /\ parts[1] = Part(a.of, "head")
        /\ parts[2] = Part(a.of, "end")
        /\ \A j \in 1..a.size : parts[2 + j] =
                    Part(a.of, IF a.chunked THEN "chunk" ELSE "content")
        /\ a.chunked => parts[a.size + 3] = Part(a.of, "last")
    BY <1>8, AnswerPartsShape
  <2>. QED
    BY <1>8, <2>1
<1>. HIDE DEF parts
<1>10. Len(parts) \in Nat /\ Len(parts) >= 2
  BY <1>8, <1>9
<1>11. \A j \in 1..Len(parts) : j <= Len(data) => data[j] = parts[j]
  BY <1>1, <1>6
<1>12. \A p \in {"head", "end", "content", "chunk", "last"} :
            Part(c + 1, p).of = c + 1 /\ Part(c + 1, p).part = p
  BY DEF Part
<1>13. data[1] = Part(c + 1, "head") /\ Len(data) >= 1
  <2>1. 1 \in 1..Len(parts) /\ 1 <= Len(data)
    BY <1>1, <1>4, <1>10
  <2>. QED
    BY <1>9, <1>11, <2>1
<1>14. data[1].of = c + 1 /\ AnswerOf(data) = a
  BY <1>12, <1>13 DEF AnswerOf, a
<1>15. FirstEnd(data) = 2
  <2>1. FirstEnd(data) # 1
    BY <1>4, <1>12, <1>13
  <2>2. Len(data) >= 2 /\ 2 \in 1..Len(parts) /\ 2 \in 1..Len(data)
    BY <1>1, <1>4, <1>10, <2>1
  <2>3. data[2] = Part(c + 1, "end")
    BY <1>9, <1>11, <2>2
  <2>4. 2 \in HeaderEnds(data)
    BY <1>12, <2>2, <2>3 DEF HeaderEnds
  <2>. QED
    BY <1>3, <1>4, <2>1, <2>4
<1>16. CASE ~a.chunked
  <2>1. Len(data) >= 2 + a.size
    BY <1>1, <1>8, <1>14, <1>15, <1>16 DEF Incomplete
  <2>2. Used(data) = 2 + a.size /\ Len(parts) = 2 + a.size
    BY <1>8, <1>9, <1>14, <1>15, <1>16 DEF Used
  <2>3. Content(data) = SubSeq(data, 3, 2 + a.size)
    <3>1. Content(data) = SubSeq(data, 2 + 1, 2 + a.size)
      BY <1>14, <1>15, <1>16, Zenon DEF Content
    <3>. QED
      BY <3>1
  <2>4. \A j \in 1..a.size : data[2 + j] = Part(c + 1, "content")
    <3>1. \A j \in 1..a.size : 2 + j \in 1..Len(parts) /\ 2 + j <= Len(data)
      BY <1>1, <1>8, <2>1, <2>2
    <3>. QED
      BY <1>9, <1>11, <1>16, <3>1
  <2>5. Content(data) = Parts(c + 1, "content", a.size)
    <3>1. SubSeq(data, 3, 2 + a.size) = Parts(c + 1, "content", a.size)
      BY <1>8, <2>1, <2>4, <1>0
    <3>. QED
      BY <2>3, <3>1
  <2>. QED
    BY <1>6, <1>14, <2>1, <2>2, <2>5 DEF ContentIs, parts, a
<1>17. CASE a.chunked
  <2>1. w = c + 1
    BY <1>1, <1>6, <1>8, <1>17 DEF NumberInv
  <2>2. Len(Untaken) = Len(parts) /\ Len(parts) = a.size + 3
    BY <1>6, <1>9, <1>17, <2>1
  <2>3. data[Len(data)].part = "last"
    BY <1>2, <1>13, <1>14, <1>17 DEF Incomplete, HeaderFound, Last
  <2>4. ASSUME NEW j \in 1..(a.size + 2), j <= Len(data)
        PROVE  data[j].part # "last"
    <3>1. j = 1 \/ j = 2 \/ (j - 2 \in 1..a.size /\ 2 + (j - 2) = j)
      BY <1>8
    <3>2. j \in 1..Len(parts)
      BY <1>8, <2>2
    <3>3. data[j] = parts[j]
      BY <1>11, <2>4, <3>2
    <3>4. parts[j].part \in {"head", "end", "chunk"}
      BY <1>9, <1>12, <1>17, <3>1
    <3>. QED
      BY <3>3, <3>4
  <2>5. Len(data) = a.size + 3
    <3>1. Len(data) <= a.size + 3
      BY <2>2
    <3>2. ~(Len(data) <= a.size + 2)
      <4>1. Len(data) <= a.size + 2 => Len(data) \in 1..(a.size + 2)
        BY <1>1, <1>8, <1>13
      <4>. QED
        BY <1>1, <2>3, <2>4, <4>1
    <3>. QED
      BY <1>1, <1>8, <3>1, <3>2
  <2>6. ChunkEnd(data) = a.size + 3
    <3>1. ASSUME NEW i \in DOMAIN data, data[i].part = "last"
          PROVE  i = a.size + 3
      <4>1. i \in 1..(a.size + 3)
        BY <2>5, <3>1
      <4>. QED
        BY <1>1, <1>8, <2>4, <2>5, <3>1, <4>1
    <3>2. a.size + 3 \in DOMAIN data /\ data[a.size + 3].part = "last"
      BY <1>8, <2>3, <2>5
    <3>3. \A j \in 1..((a.size + 3) - 1) : data[j].part # "last"
      <4>1. \A j \in 1..((a.size + 3) - 1) : j \in 1..(a.size + 2) /\ j <= Len(data)
        BY <1>8, <2>5
      <4>. QED
        BY <2>4, <4>1
    <3>. QED
      BY <3>1, <3>2, <3>3 DEF ChunkEnd
  <2>7. Content(data) = SubSeq(data, 3, 2 + a.size)
    <3>1. Content(data) = SubSeq(data, 2 + 1, (a.size + 3) - 1)
      BY <1>14, <1>15, <1>17, <2>6, Zenon DEF Content
    <3>2. (a.size + 3) - 1 = 2 + a.size /\ 2 + 1 = 3
      BY <1>8
    <3>. QED
      BY <3>1, <3>2
  <2>8. \A j \in 1..a.size : data[2 + j] = Part(c + 1, "chunk")
    <3>1. \A j \in 1..a.size : 2 + j \in 1..Len(parts) /\ 2 + j <= Len(data)
      BY <1>1, <1>8, <2>2, <2>5
    <3>. QED
      BY <1>9, <1>11, <1>17, <3>1
  <2>9. Content(data) = Parts(c + 1, "chunk", a.size)
    <3>1. Len(data) >= 2 + a.size
      BY <1>8, <2>5
    <3>2. SubSeq(data, 3, 2 + a.size) = Parts(c + 1, "chunk", a.size)
      BY <1>8, <2>8, <3>1, <1>0
    <3>. QED
      BY <2>7, <3>2
  <2>10. Used(data) = Len(data) /\ Len(data) = Len(parts)
    BY <1>14, <1>17, <2>2, <2>5 DEF Used
  <2>. QED
    BY <1>1, <1>6, <1>14, <2>9, <2>10 DEF ContentIs, parts, a
<1>. QED
  BY <1>16, <1>17

(* What OnReceive of the client does to the flow: nothing, or the next       *)
(* answer is off it and its content handed up.                               *)
LEMMA ReceiveEffect ==
    ASSUME TypeInv, ContentInv, NEW n \in 1..Len(toClient), ClientReceive(n)
    PROVE  /\ \/ contents' = contents
              \/ /\ contents' = Append(contents, Len(contents) + 1)
                 /\ Len(contents) < Len(answers)
           /\ ContentInv'
<1>. DEFINE taken == SubSeq(toClient, 1, n)
            left == SubSeq(toClient, n + 1, Len(toClient))
            data == crest \o taken
            c == Len(contents)
<1>1. /\ Untaken \in Seq(PartOf(MaxRequests))
      /\ crest \in Seq(PartOf(MaxRequests)) /\ toClient \in Seq(PartOf(MaxRequests))
      /\ c \in Nat /\ Len(answers) \in Nat /\ Len(queue) \in Nat
  BY UntakenType
<1>2. /\ taken \in Seq(PartOf(MaxRequests)) /\ left \in Seq(PartOf(MaxRequests))
      /\ taken \o left = toClient
  <2>1. n \in 0..Len(toClient)
    OBVIOUS
  <2>. QED
    BY <1>1, <2>1, SplitSeq
<1>3. /\ toClient' = left
      /\ IF Incomplete(data) THEN crest' = data /\ contents' = contents
         ELSE /\ crest' = SubSeq(data, Used(data) + 1, Len(data))
              /\ contents' = Append(contents, ContentIs(data, Content(data)))
      /\ UNCHANGED <<requests, toServer, serverVars, chunks, cclosed>>
  BY DEF ClientReceive
<1>4. contents \in Seq(1..MaxRequests \cup {Garbage}) /\ answers \in Seq(Answers)
      /\ Len(answers) <= Len(requests)
  BY TypeFacts
<1>. HIDE DEF taken, left
<1>5. Untaken = data \o left
  <2>1. \A x, y, z \in Seq(PartOf(MaxRequests)) : (x \o y) \o z = x \o (y \o z)
    BY ConcatAssociative
  <2>2. (crest \o taken) \o left = crest \o (taken \o left)
    BY <1>1, <1>2, <2>1
  <2>. QED
    BY <1>2, <2>2 DEF Untaken
<1>6. data \in Seq(PartOf(MaxRequests))
  BY <1>1, <1>2, ConcatProperties
<1>. HIDE DEF data
<1>7. /\ Len(Untaken) = Len(data) + Len(left) /\ Len(data) \in Nat /\ Len(left) \in Nat
      /\ \A i \in 1..(Len(data) + Len(left)) :
            Untaken[i] = IF i <= Len(data) THEN data[i] ELSE left[i - Len(data)]
  BY <1>2, <1>5, <1>6, ConcatProperties
<1>8. NumberInv /\ FlowInv
  BY DEF ContentInv
<1>9. PICK w : /\ w \in c..Len(answers) /\ QueuedAfter(w)
               /\ FlowOf(answers, Untaken, c, w)
  BY <1>8 DEF FlowInv
<1>10. w \in Nat /\ c <= w /\ w <= Len(answers)
  BY <1>1, <1>9
<1>11. UNCHANGED <<answers, queue, closing, requests, chunks>>
  BY <1>3
<1>12. QueuedAfter(w)'
  BY <1>9, <1>11 DEF QueuedAfter
<1>13. CASE Incomplete(data)
  <2>1. crest' = data /\ contents' = contents /\ toClient' = left
    BY <1>3, <1>13
  <2>2. Untaken' = Untaken
    BY <1>5, <2>1 DEF Untaken
  <2>3. FlowInv'
    BY <1>9, <1>11, <1>12, <2>1, <2>2 DEF FlowInv
  <2>4. NumberInv'
    BY <1>8, <1>11, <2>1 DEF NumberInv
  <2>. QED
    BY <2>1, <2>3, <2>4 DEF ContentInv
<1>14. CASE ~Incomplete(data)
  <2>. DEFINE rest == SubSeq(data, Used(data) + 1, Len(data))
  <2>1. /\ c < w /\ ContentIs(data, Content(data)) = c + 1
        /\ Used(data) = Len(AnswerParts(answers[c + 1])) /\ Used(data) <= Len(data)
    <3>1. Len(data) <= Len(Untaken) /\ \A i \in 1..Len(data) : data[i] = Untaken[i]
      BY <1>7
    <3>. QED
      BY <1>6, <1>8, <1>9, <1>10, <1>14, <3>1, AnswerTaken
  <2>2. Used(data) \in 0..Len(data)
    <3>1. c + 1 \in 1..Len(answers)
      BY <1>1, <1>10, <2>1
    <3>2. Len(AnswerParts(answers[c + 1])) \in Nat
      BY <1>4, <3>1, AnswerLength
    <3>. QED
      BY <1>7, <2>1, <3>2
  <2>3. /\ rest \in Seq(PartOf(MaxRequests)) /\ Len(rest) = Len(data) - Used(data)
        /\ \A i \in 1..(Len(data) - Used(data)) : rest[i] = data[Used(data) + i]
    BY <1>6, <2>2, SplitSeq
  <2>4. crest' = rest /\ contents' = Append(contents, c + 1) /\ toClient' = left
    BY <1>3, <1>14, <2>1
  <2>. HIDE DEF rest
  <2>5. Len(contents') = c + 1
    BY <1>4, <2>4, AppendProperties
  <2>. DEFINE all == rest \o left
              u == Used(data)
  <2>6. Untaken' = all
    BY <2>4 DEF Untaken
  <2>7. /\ all \in Seq(PartOf(MaxRequests)) /\ Len(all) = Len(rest) + Len(left)
        /\ \A i \in 1..(Len(rest) + Len(left)) :
              all[i] = IF i <= Len(rest) THEN rest[i] ELSE left[i - Len(rest)]
    BY <1>2, <2>3, ConcatProperties
  <2>. HIDE DEF all, u
  <2>8. u = Used(data) /\ u \in Nat /\ u <= Len(data) /\ Len(rest) = Len(data) - u
    BY <1>7, <2>2, <2>3 DEF u
  <2>9. Len(all) = Len(Untaken) - u
    BY <1>7, <2>7, <2>8
  <2>10. ASSUME NEW i \in 1..Len(all)
         PROVE  all[i] = Untaken[u + i]
    <3>1. i \in 1..(Len(rest) + Len(left)) /\ i \in Nat
      BY <2>7
    <3>2. u + i \in 1..(Len(data) + Len(left))
      BY <1>7, <2>8, <3>1
    <3>3. CASE i <= Len(rest)
      <4>1. u + i <= Len(data) /\ i \in 1..(Len(data) - Used(data))
        BY <1>7, <2>8, <3>1, <3>3
      <4>2. all[i] = rest[i]
        BY <2>7, <3>1, <3>3
      <4>3. rest[i] = data[u + i]
        BY <2>3, <2>8, <4>1
      <4>. QED
        BY <1>7, <3>2, <4>1, <4>2, <4>3
    <3>4. CASE ~(i <= Len(rest))
      <4>1. ~(u + i <= Len(data)) /\ (u + i) - Len(data) = i - Len(rest)
        BY <1>7, <2>8, <3>1, <3>4
      <4>2. all[i] = left[i - Len(rest)]
        BY <2>7, <3>1, <3>4
      <4>. QED
        BY <1>7, <3>2, <4>1, <4>2
    <3>. QED
      BY <3>3, <3>4
  <2>11. FlowOf(answers, all, c + 1, w)
    <3>1. u = Len(AnswerParts(answers[c + 1])) /\ c < w
      BY <2>1, <2>8
    <3>2. \A i \in 1..Len(all) : all[i] = Untaken[u + i]
      BY <2>10
    <3>3. FlowOf(answers, Untaken, c, w)
      BY <1>9
    <3>. QED
      BY <1>1, <1>4, <1>10, <2>7, <2>8, <2>9, <3>1, <3>2, <3>3, FlowCut, Zenon
  <2>12. FlowInv'
    <3>1. w \in Len(contents')..Len(answers')
      BY <1>1, <1>10, <1>11, <2>1, <2>5
    <3>2. FlowOf(answers', Untaken', Len(contents'), w)
      BY <1>11, <2>5, <2>6, <2>11
    <3>. QED
      BY <1>12, <3>1, <3>2 DEF FlowInv
  <2>13. NumberInv'
    <3>1. Len(requests) \in Nat
      BY TypeFacts
    <3>. QED
      BY <1>1, <1>8, <1>11, <2>5, <3>1 DEF NumberInv
  <2>. QED
    BY <1>1, <1>10, <2>1, <2>4, <2>12, <2>13 DEF ContentInv
<1>. QED
  BY <1>13, <1>14

(* One more answer is queued behind those that wait.                         *)
LEMMA PostedContent ==
    ASSUME TypeInv, ContentInv, ~closing, Len(answers) + 1 <= Len(requests), cors' \in STRING,
           NEW n \in Nat, NEW chunked \in BOOLEAN, chunked => chunks, Post(Answer(n, chunked)),
           UNCHANGED <<requests, toClient, clientVars>>
    PROVE  ContentInv'
<1>. DEFINE a == Answer(n, chunked)
<1>1. /\ Len(answers) \in Nat /\ MaxRequests \in Nat /\ Len(contents) \in Nat
      /\ Len(answers) + 1 \in 1..MaxRequests /\ Len(queue) \in Nat
      /\ answers \in Seq(Answers) /\ queue \in Seq(Answers)
  BY TypeFacts, UntakenType
<1>2. /\ a \in Answers /\ a.of = Len(answers) + 1 /\ (a.chunked => chunks)
      /\ answers' = Append(answers, a) /\ queue' = Append(queue, a)
  BY <1>1 DEF Post, Answer, Answers
<1>. HIDE DEF a
<1>3. /\ answers' \in Seq(Answers) /\ Len(answers') = Len(answers) + 1
      /\ \A i \in 1..Len(answers) : answers'[i] = answers[i]
      /\ answers'[Len(answers) + 1] = a
  BY <1>1, <1>2, AppendProperties
<1>4. /\ queue' \in Seq(Answers) /\ Len(queue') = Len(queue) + 1
      /\ \A i \in 1..Len(queue) : queue'[i] = queue[i]
      /\ queue'[Len(queue) + 1] = a
  BY <1>1, <1>2, AppendProperties
<1>5. NumberInv'
  <2>1. DOMAIN answers' = 1..(Len(answers) + 1) /\ DOMAIN answers = 1..Len(answers)
    BY <1>1, <1>3
  <2>2. \A i \in 1..(Len(answers) + 1) : i \in 1..Len(answers) \/ i = Len(answers) + 1
    BY <1>1
  <2>. QED
    BY <1>2, <1>3, <2>1, <2>2 DEF ContentInv, NumberInv
<1>6. PICK w : /\ w \in Len(contents)..Len(answers) /\ QueuedAfter(w)
               /\ FlowOf(answers, Untaken, Len(contents), w)
  BY DEF ContentInv, FlowInv
<1>7. w \in Nat /\ Len(contents) <= w /\ w <= Len(answers) /\ w \in Len(contents)..Len(answers')
  BY <1>1, <1>3, <1>6
<1>8. Len(queue) = Len(answers) - w /\ \A i \in DOMAIN queue : queue[i] = answers[w + i]
  BY <1>6 DEF QueuedAfter
<1>9. QueuedAfter(w)'
  <2>1. Len(queue') = Len(answers') - w
    BY <1>1, <1>3, <1>4, <1>7, <1>8
  <2>2. ASSUME NEW i \in DOMAIN queue'
        PROVE  queue'[i] = answers'[w + i]
    <3>1. i \in 1..(Len(queue) + 1)
      BY <1>4
    <3>2. CASE i = Len(queue) + 1
      <4>1. w + i = Len(answers) + 1
        BY <1>1, <1>7, <1>8, <3>2
      <4>. QED
        BY <1>3, <1>4, <3>2, <4>1
    <3>3. CASE i # Len(queue) + 1
      <4>1. i \in 1..Len(queue) /\ i \in DOMAIN queue /\ w + i \in 1..Len(answers)
        BY <1>1, <1>7, <1>8, <3>1, <3>3
      <4>. QED
        BY <1>3, <1>4, <1>8, <4>1
    <3>. QED
      BY <3>2, <3>3
  <2>. QED
    BY <2>1, <2>2 DEF QueuedAfter
<1>10. FlowOf(answers', Untaken, Len(contents), w)
  <2>1. \A q \in (Len(contents) + 1)..w : q \in 1..Len(answers)
    BY <1>1, <1>7
  <2>2. \A q \in (Len(contents) + 1)..w : answers'[q] = answers[q]
    BY <1>3, <2>1
  <2>. QED
    BY <1>1, <1>6, <1>7, <2>2, FlowKept
<1>11. FlowInv'
  <2>1. Untaken' = Untaken /\ contents' = contents
    BY DEF Untaken
  <2>. QED
    BY <1>7, <1>9, <1>10, <2>1 DEF FlowInv
<1>. QED
  BY <1>5, <1>11 DEF ContentInv

(* A written answer leaves the queue and joins the flow.                     *)
LEMMA SentContent ==
    ASSUME TypeInv, ContentInv, OnSend, UNCHANGED clientVars
    PROVE  ContentInv'
<1>1. /\ queue # <<>> /\ toClient' = toClient \o AnswerParts(Head(queue))
      /\ queue' = IF closing THEN <<>> ELSE Tail(queue)
      /\ UNCHANGED <<requests, answers, closing, clientVars>>
  BY DEF OnSend
<1>2. /\ Untaken \in Seq(PartOf(MaxRequests))
      /\ crest \in Seq(PartOf(MaxRequests)) /\ toClient \in Seq(PartOf(MaxRequests))
      /\ Len(contents) \in Nat /\ Len(answers) \in Nat /\ Len(queue) \in Nat
      /\ answers \in Seq(Answers) /\ queue \in Seq(Answers)
  BY UntakenType, TypeFacts
<1>3. /\ Tail(queue) \in Seq(Answers) /\ Len(Tail(queue)) = Len(queue) - 1
      /\ \A i \in 1..Len(Tail(queue)) : Tail(queue)[i] = queue[i + 1]
      /\ Head(queue) = queue[1] /\ 1 \in DOMAIN queue /\ Len(queue) >= 1
  BY <1>1, <1>2, HeadTailProperties, EmptySeq
<1>4. PICK w : /\ w \in Len(contents)..Len(answers) /\ QueuedAfter(w)
               /\ FlowOf(answers, Untaken, Len(contents), w)
  BY DEF ContentInv, FlowInv
<1>5. Len(queue) = Len(answers) - w /\ \A i \in DOMAIN queue : queue[i] = answers[w + i]
  BY <1>1, <1>4 DEF QueuedAfter
<1>6. /\ w \in Nat /\ Len(contents) <= w /\ w <= Len(answers) /\ w < Len(answers)
      /\ w + 1 \in Len(contents)..Len(answers) /\ w + 1 \in 1..Len(answers)
  BY <1>2, <1>3, <1>4, <1>5
<1>. DEFINE parts == AnswerParts(answers[w + 1])
            all == Untaken \o parts
<1>7. Head(queue) = answers[w + 1] /\ answers[w + 1] \in Answers
  <2>1. queue[1] = answers[w + 1]
    BY <1>3, <1>5
  <2>2. answers[w + 1] \in Answers
    BY <1>2, <1>6
  <2>. QED
    BY <1>3, <2>1, <2>2
<1>8. parts \in Seq(PartOf(MaxRequests)) /\ Len(parts) \in Nat
  BY <1>7, AnswerLength
<1>9. toClient' = toClient \o parts
  BY <1>1, <1>7
<1>. HIDE DEF parts
<1>10. Untaken' = all
  <2>1. \A x, y, z \in Seq(PartOf(MaxRequests)) : (x \o y) \o z = x \o (y \o z)
    BY ConcatAssociative
  <2>2. (crest \o toClient) \o parts = crest \o (toClient \o parts)
    BY <1>2, <1>8, <2>1
  <2>. QED
    BY <1>1, <1>9, <2>2 DEF Untaken
<1>11. /\ all \in Seq(PartOf(MaxRequests)) /\ Len(all) = Len(Untaken) + Len(parts)
       /\ \A i \in 1..(Len(Untaken) + Len(parts)) :
             all[i] = IF i <= Len(Untaken) THEN Untaken[i] ELSE parts[i - Len(Untaken)]
  BY <1>2, <1>8, ConcatProperties
<1>. HIDE DEF all
<1>12. Len(Untaken) \in Nat
  BY <1>2
<1>13. \A i \in 1..Len(Untaken) : all[i] = Untaken[i]
  <2>1. \A i \in 1..Len(Untaken) : i \in 1..(Len(Untaken) + Len(parts)) /\ i <= Len(Untaken)
    BY <1>8, <1>12
  <2>. QED
    BY <1>11, <2>1
<1>14. \A j \in 1..Len(parts) : all[Len(Untaken) + j] = parts[j]
  <2>1. \A j \in 1..Len(parts) : /\ Len(Untaken) + j \in 1..(Len(Untaken) + Len(parts))
                                 /\ ~(Len(Untaken) + j <= Len(Untaken))
                                 /\ (Len(Untaken) + j) - Len(Untaken) = j
    BY <1>8, <1>12
  <2>. QED
    BY <1>11, <2>1
<1>15. FlowOf(answers, all, Len(contents), w + 1)
  <2>1. FlowOf(answers, Untaken, Len(contents), w)
    BY <1>4
  <2>. QED
    BY <1>2, <1>6, <1>11, <1>13, <1>14, <2>1, FlowAppend, Zenon DEF parts
<1>16. QueuedAfter(w + 1)'
  <2>1. CASE closing
    BY <1>1, <2>1 DEF QueuedAfter
  <2>2. CASE ~closing
    <3>1. queue' = Tail(queue)
      BY <1>1, <2>2
    <3>2. Len(queue') = Len(answers') - (w + 1)
      BY <1>1, <1>2, <1>3, <1>5, <1>6, <3>1
    <3>3. ASSUME NEW i \in DOMAIN queue'
          PROVE  queue'[i] = answers'[(w + 1) + i]
      <4>1. i \in 1..Len(Tail(queue))
        BY <1>3, <3>1
      <4>2. i + 1 \in 1..Len(queue) /\ DOMAIN queue = 1..Len(queue)
        BY <1>2, <1>3, <4>1
      <4>3. w + (i + 1) = (w + 1) + i
        BY <1>6, <4>1
      <4>4. Tail(queue)[i] = queue[i + 1] /\ queue[i + 1] = answers[w + (i + 1)]
        BY <1>3, <1>5, <4>1, <4>2
      <4>. QED
        BY <1>1, <3>1, <4>3, <4>4
    <3>. QED
      BY <3>2, <3>3 DEF QueuedAfter
  <2>. QED
    BY <2>1, <2>2
<1>17. FlowInv'
  BY <1>1, <1>6, <1>10, <1>15, <1>16 DEF FlowInv
<1>18. NumberInv'
  BY <1>1 DEF ContentInv, NumberInv
<1>. QED
  BY <1>17, <1>18 DEF ContentInv

LEMMA ServerContent ==
    ASSUME TypeInv, EndsInv, CloseInv, ContentInv, Server
    PROVE  ContentInv'
<1>1. UNCHANGED clientVars /\ chunks \in BOOLEAN
  BY TypeFacts DEF Server
<1>2. ASSUME RecvOversized \/ RecvHeader(chunks)
      PROVE  ContentInv'
  <2>1. /\ TypeInv' /\ Len(answers') = Len(answers) + 1 /\ Len(answers') <= Len(requests)
    BY <1>1, <1>2, OversizedEffect, HeaderEffect
  <2>2. cors' \in STRING
    BY <2>1 DEF TypeInv, TypeOK
  <2>3. ~closing /\ UNCHANGED <<requests, toClient>>
    BY <1>2 DEF RecvOversized, RecvHeader, CloseInv
  <2>4. PICK n \in Nat, chunked \in BOOLEAN : (chunked => chunks) /\ Post(Answer(n, chunked))
    BY <1>1, <1>2, ConstantTypes
    DEF RecvOversized, RecvHeader, RecvRequest, SendResponse, SendRedirectResponse,
        SendErrorResponse
  <2>. QED
    BY <1>1, <2>1, <2>2, <2>3, <2>4, PostedContent
<1>3. CASE OnSend
  BY <1>1, <1>3, SentContent
<1>4. ASSUME UNCHANGED <<requests, answers, queue, toClient>>, closing => closing'
      PROVE  ContentInv'
  <2>1. UNCHANGED Untaken /\ \A w : QueuedAfter(w) => QueuedAfter(w)'
    BY <1>1, <1>4 DEF Untaken, QueuedAfter
  <2>. QED
    BY <1>1, <1>4, <2>1 DEF ContentInv, NumberInv, FlowInv
<1>5. CASE (\E n \in 1..Len(toServer) : OnReceive(n)) \/ RecvMalformed \/ RecvReturn
           \/ CloseTimerProc
  BY <1>4, <1>5 DEF OnReceive, RecvMalformed, RecvReturn, CloseTimerProc
<1>. QED
  BY <1>2, <1>3, <1>5 DEF Server, ServerNext

LEMMA SendContent ==
    ASSUME TypeInv, ContentInv, NEW r \in Requests, SendRequest(r)
    PROVE  ContentInv'
<1>1. /\ requests' = Append(requests, r) /\ (chunks => Len(contents) = Len(requests))
      /\ UNCHANGED <<toClient, serverVars, clientVars>>
  BY DEF SendRequest, MaySend
<1>2. Len(requests') = Len(requests) + 1 /\ Len(requests) \in Nat
  BY <1>1, TypeFacts, AppendProperties
<1>3. NumberInv'
  BY <1>1, <1>2 DEF ContentInv, NumberInv
<1>4. UNCHANGED Untaken /\ \A w : QueuedAfter(w)' <=> QueuedAfter(w)
  BY <1>1 DEF Untaken, QueuedAfter
<1>5. FlowInv'
  BY <1>1, <1>4 DEF ContentInv, FlowInv
<1>. QED
  BY <1>3, <1>5 DEF ContentInv

LEMMA InitContent == Init => ContentInv
<1>. SUFFICES ASSUME Init PROVE ContentInv
  OBVIOUS
<1>1. /\ requests = <<>> /\ answers = <<>> /\ queue = <<>> /\ crest = <<>> /\ toClient = <<>>
      /\ contents = <<>>
  BY DEF Init, ServerInit
<1>2. Len(<<>>) = 0 /\ DOMAIN <<>> = {} /\ Untaken = <<>>
  BY <1>1, EmptySeq, ConcatEmptySeq DEF Untaken
<1>3. NumberInv
  BY <1>1, <1>2 DEF NumberInv
<1>4. FlowOf(answers, Untaken, 0, 0)
  <2>. DEFINE start == [q \in (0 + 1)..(0 + 1) |-> 0]
  <2>1. start \in [(0 + 1)..(0 + 1) -> 0..Len(Untaken)] /\ \A q \in (0 + 1)..(0 + 1) : start[q] = 0
    BY <1>2
  <2>. HIDE DEF start
  <2>2. 0 + 1 \in (0 + 1)..(0 + 1) /\ (0 + 1)..0 = {}
    OBVIOUS
  <2>3. AnswersAt(start, answers, Untaken, 0, 0)
    BY <1>2, <2>1, <2>2 DEF AnswersAt
  <2>. QED
    BY <2>1, <2>3 DEF FlowOf
<1>5. QueuedAfter(0)
  BY <1>1, <1>2 DEF QueuedAfter
<1>6. FlowInv
  BY <1>1, <1>2, <1>4, <1>5 DEF FlowInv
<1>. QED
  BY <1>3, <1>6 DEF ContentInv

LEMMA NextContent == IInv /\ ContentInv /\ [Next]_vars => ContentInv'
<1>. SUFFICES ASSUME IInv, ContentInv, [Next]_vars PROVE ContentInv'
  OBVIOUS
<1>1. TypeInv /\ EndsInv /\ CloseInv
  BY DEF IInv, TypeInv
<1>2. CASE \E r \in Requests : SendRequest(r)
  BY <1>1, <1>2, SendContent
<1>3. CASE \E n \in 1..Len(toClient) : ClientReceive(n)
  BY <1>1, <1>3, ReceiveEffect
<1>4. CASE Server
  BY <1>1, <1>4, ServerContent
<1>5. CASE ClientEof \/ UNCHANGED vars
  <2>1. UNCHANGED <<requests, answers, queue, toClient, closing, chunks, crest, contents>>
    BY <1>5 DEF ClientEof, vars
  <2>2. UNCHANGED Untaken /\ \A w : QueuedAfter(w)' <=> QueuedAfter(w)
    BY <2>1 DEF Untaken, QueuedAfter
  <2>. QED
    BY <2>1, <2>2 DEF ContentInv, NumberInv, FlowInv
<1>. QED
  BY <1>2, <1>3, <1>4, <1>5 DEF Next, Client

(* What is on its way to the client is always whole answers from the one it  *)
(* takes next.                                                               *)
THEOREM ContentInvariance == Spec => []ContentInv
  BY InitContent, NextContent, Invariance, PTL DEF Spec

(* However the bytes are cut and whatever is asked without waiting, the      *)
(* contents RecvContent gets are those of the answers, each once and in      *)
(* order, whether counted by Content-Length or sent in chunks: the two ends  *)
(* of the connection implement FifoChannel.                                  *)
THEOREM ContentsDelivered == Spec => ContentsInOrder
<1>1. Init => Channel!ChannelInit
  <2>. SUFFICES ASSUME Init PROVE Channel!ChannelInit
    OBVIOUS
  <2>1. requests = <<>> /\ contents = <<>> /\ cclosed = FALSE
    BY DEF Init, ServerInit
  <2>2. [i \in 1..Len(requests) |-> i] = <<>>
    BY <2>1
  <2>. QED
    BY <2>1, <2>2 DEF Channel!ChannelInit
<1>2. IInv /\ ContentInv /\ [Next]_vars => [Channel!ChannelNext]_(Channel!channelVars)
  <2>. SUFFICES ASSUME IInv, ContentInv, [Next]_vars
                PROVE  Channel!ChannelNext \/ UNCHANGED Channel!channelVars
    OBVIOUS
  <2>1. TypeInv
    BY DEF IInv, TypeInv
  <2>. DEFINE accepted == [i \in 1..Len(requests) |-> i]
  <2>2. /\ requests \in Seq(Requests) /\ Len(requests) \in Nat /\ MaxRequests \in Nat
        /\ Len(answers) <= Len(requests) /\ Len(answers) \in Nat /\ Len(contents) \in Nat
    BY <2>1, TypeFacts, UntakenType
  <2>3. ASSUME NEW r \in Requests, SendRequest(r)
        PROVE  Channel!ChannelNext
    <3>1. /\ requests' = Append(requests, r) /\ Len(requests) < MaxRequests
          /\ UNCHANGED <<contents, cclosed>>
      BY <2>3 DEF SendRequest, MaySend
    <3>2. Len(requests') = Len(requests) + 1 /\ Len(requests) + 1 \in 1..MaxRequests
      BY <2>2, <3>1, AppendProperties
    <3>3. accepted' = Append(accepted, Len(requests) + 1)
      <4>1. accepted \in Seq(Nat) /\ Len(accepted) = Len(requests)
        BY <2>2
      <4>2. /\ Append(accepted, Len(requests) + 1) \in Seq(Nat)
            /\ Len(Append(accepted, Len(requests) + 1)) = Len(requests) + 1
            /\ \A i \in 1..Len(requests) : Append(accepted, Len(requests) + 1)[i] = accepted[i]
            /\ Append(accepted, Len(requests) + 1)[Len(requests) + 1] = Len(requests) + 1
        BY <2>2, <4>1, AppendProperties
      <4>3. accepted' = [i \in 1..(Len(requests) + 1) |-> i]
        BY <3>2
      <4>4. accepted' \in Seq(Nat) /\ Len(accepted') = Len(requests) + 1
        BY <2>2, <4>3
      <4>5. \A i \in 1..(Len(requests) + 1) : accepted'[i] = Append(accepted, Len(requests) + 1)[i]
        <5>1. \A i \in 1..(Len(requests) + 1) : accepted'[i] = i
          BY <4>3
        <5>2. \A i \in 1..Len(requests) : accepted[i] = i
          OBVIOUS
        <5>3. \A i \in 1..(Len(requests) + 1) : i \in 1..Len(requests) \/ i = Len(requests) + 1
          BY <2>2
        <5>. QED
          BY <4>2, <5>1, <5>2, <5>3
      <4>. QED
        BY <4>2, <4>4, <4>5, SeqEqual
    <3>. QED
      BY <3>1, <3>2, <3>3 DEF Channel!ChannelNext, Channel!Accept
  <2>4. ASSUME NEW n \in 1..Len(toClient), ClientReceive(n)
        PROVE  Channel!ChannelNext \/ UNCHANGED Channel!channelVars
    <3>1. UNCHANGED <<requests, cclosed>> /\ ~cclosed
      BY <2>4 DEF ClientReceive
    <3>2. CASE contents' = contents
      BY <3>1, <3>2 DEF Channel!channelVars
    <3>3. CASE contents' = Append(contents, Len(contents) + 1) /\ Len(contents) < Len(answers)
      <4>1. Len(accepted) = Len(requests) /\ Len(contents) < Len(requests)
        BY <2>2, <3>3
      <4>2. accepted[Len(contents) + 1] = Len(contents) + 1
        BY <2>2, <4>1
      <4>3. Channel!Deliver
        BY <3>1, <3>3, <4>1, <4>2 DEF Channel!Deliver
      <4>. QED
        BY <4>3 DEF Channel!ChannelNext
    <3>. QED
      BY <2>1, <2>4, <3>2, <3>3, ReceiveEffect
  <2>5. CASE ClientEof
    BY <2>5 DEF ClientEof, Channel!ChannelNext, Channel!Close
  <2>6. CASE Server
    <3>1. UNCHANGED <<requests, contents, cclosed>>
      BY <2>6 DEF Server, ServerNext, OnReceive, RecvOversized, RecvMalformed, RecvHeader,
                  RecvReturn, OnSend, CloseTimerProc
    <3>. QED
      BY <3>1 DEF Channel!channelVars
  <2>7. CASE UNCHANGED vars
    BY <2>7 DEF vars, Channel!channelVars
  <2>. QED
    BY <2>3, <2>4, <2>5, <2>6, <2>7 DEF Next, Client
<1>. QED
  BY <1>1, <1>2, Invariance, ContentInvariance, PTL
  DEF Spec, ContentsInOrder, Channel!ChannelSpec
=============================================================================
