-------------------------- MODULE RawFeedbackProofs --------------------------
(***************************************************************************)
(* Proofs about RawFeedback: which packets the records are of, what an     *)
(* AckPkt says of them, and that the fates reported are right, for any     *)
(* size of the buffer and of an AckPkt, any range of the numbers, and any  *)
(* number of packets up to the range of a relative number.                 *)
(***************************************************************************)
EXTENDS RawFeedback, SequenceTheorems, FiniteSetTheorems, TLAPS

-----------------------------------------------------------------------------
(* The inductive invariant *)

Pkts == 1..MaxSent
Records == [n : Pkts, fate : Fates]

(* The packets an AckPkt is about: up to the one numbered end, and RelSpace *)
(* of them when num_pkts_ has wrapped to 0.                                *)
LastOf(ack) == ((ack.end - FirstSeq) % SeqSpace) + 1
NumOf(ack) == IF ack.num = 0 THEN RelSpace ELSE ack.num
Stretch(ack) == LastOf(ack) - NumOf(ack) + 1 .. LastOf(ack)

(* ack is what the client sends about first to last, with nacks lost. *)
IsFeedback(ack, first, last, nacks) ==
  /\ first \in Pkts /\ last \in Pkts /\ first <= last /\ last <= told
  /\ nacks \in Seq(first..last)
  /\ Lists(nacks, (first..last) \ got)
  /\ ack = Feedback(first, last, nacks)

TypesOK ==
  /\ sent \in 0..MaxSent /\ told \in 0..sent /\ base \in 0..sent
  /\ got \subseteq 1..sent
  /\ info \in Seq(Fates \cup {"unknown"})
  /\ reports \in Seq(Records)
  /\ handled \subseteq net
  /\ repeated \in BOOLEAN /\ aborted \in BOOLEAN

NetOK == \A ack \in net : \E first, last, nacks : IsFeedback(ack, first, last, nacks)

(* No packet is in two AckPkts. *)
Disjoint == \A a, b \in net : a # b => Stretch(a) \cap Stretch(b) = {}

(* What a record that is no longer unknown says is so, and an AckPkt that  *)
(* was handled told it.                                                    *)
MarksOK ==
  \A i \in 1..Len(info) :
    /\ info[i] = "good" => base + i \in got
    /\ info[i] = "bad" => base + i \notin got
    /\ info[i] # "unknown" => \E ack \in handled : base + i \in Stretch(ack)

IInv ==
  /\ TypesOK /\ NetOK /\ Disjoint /\ MarksOK
  /\ GoodIsReceived /\ ReportedOnce /\ RecordsConsecutive /\ NeverNackedTwice


-----------------------------------------------------------------------------
(* Numbers that wrap *)

LEMMA Sizes ==
  /\ MaxBufSize \in Nat /\ MaxBufSize > 0
  /\ SeqSpace \in Nat /\ SeqSpace > 0 /\ RelSpace \in Nat /\ RelSpace > 0
  /\ SeqSpace >= 2 * RelSpace
  /\ FirstSeq \in Int /\ 0 <= FirstSeq /\ FirstSeq < SeqSpace
  /\ MaxSent \in Nat /\ MaxSent <= RelSpace
<1>1. /\ MaxBufSize \in Nat \ {0} /\ RelSpace \in Nat \ {0} /\ SeqSpace \in Nat
      /\ SeqSpace >= 2 * RelSpace /\ FirstSeq \in 0..SeqSpace - 1
      /\ MaxSent \in Nat /\ MaxSent <= RelSpace
  BY RawFeedbackAssumption
<1> QED BY <1>1

(* A remainder, for a number that is at most once out of range. *)
LEMMA ModOnce ==
  ASSUME NEW m \in Nat, m > 0, NEW a \in Int, -m <= a, a < 2 * m
  PROVE  a % m = IF a < 0 THEN a + m ELSE IF a < m THEN a ELSE a - m
  BY SMT

LEMMA RawSeqOf ==
  ASSUME NEW n \in Pkts
  PROVE  /\ RawSeq(n) = IF FirstSeq + n - 1 < SeqSpace THEN FirstSeq + n - 1
                        ELSE FirstSeq + n - 1 - SeqSpace
         /\ RawSeq(n) \in Int /\ 0 <= RawSeq(n) /\ RawSeq(n) < SeqSpace
<1> DEFINE a == FirstSeq + n - 1
<1>1. a \in Int /\ 0 <= a /\ a < 2 * SeqSpace /\ -SeqSpace <= a
  BY Sizes DEF Pkts
<1> HIDE DEF a
<1>2. a % SeqSpace = IF a < 0 THEN a + SeqSpace ELSE IF a < SeqSpace THEN a ELSE a - SeqSpace
  BY <1>1, Sizes, ModOnce
<1>3. RawSeq(n) = a % SeqSpace
  BY DEF RawSeq, a
<1>4. RawSeq(n) = (IF a < SeqSpace THEN a ELSE a - SeqSpace)
      /\ RawSeq(n) \in Int /\ 0 <= RawSeq(n) /\ RawSeq(n) < SeqSpace
  BY <1>1, <1>2, <1>3, Sizes
<1>5. a = FirstSeq + n - 1 /\ a \in Int /\ n \in Int
  BY <1>1 DEF a, Pkts
<1> QED BY <1>4, <1>5, Sizes

LEMMA RawSeqApart ==
  ASSUME NEW m \in Pkts, NEW n \in Pkts
  PROVE  \/ RawSeq(n) - RawSeq(m) = n - m
         \/ RawSeq(n) - RawSeq(m) = n - m + SeqSpace
         \/ RawSeq(n) - RawSeq(m) = n - m - SeqSpace
<1>1. n \in Int /\ m \in Int
  BY DEF Pkts
<1>2. RawSeq(n) = FirstSeq + n - 1 \/ RawSeq(n) = FirstSeq + n - 1 - SeqSpace
  BY RawSeqOf
<1>3. RawSeq(m) = FirstSeq + m - 1 \/ RawSeq(m) = FirstSeq + m - 1 - SeqSpace
  BY RawSeqOf
<1> QED BY <1>1, <1>2, <1>3, Sizes

(* The distance between two numbers, and back from it. *)
LEMMA RawSeqDistance ==
  ASSUME NEW m \in Pkts, NEW n \in Pkts
  PROVE  (RawSeq(n) - RawSeq(m)) % SeqSpace =
           IF m <= n THEN n - m ELSE n - m + SeqSpace
<1> DEFINE a == RawSeq(n) - RawSeq(m)
<1>1. /\ RawSeq(n) \in Int /\ 0 <= RawSeq(n) /\ RawSeq(n) < SeqSpace
      /\ RawSeq(m) \in Int /\ 0 <= RawSeq(m) /\ RawSeq(m) < SeqSpace
  BY RawSeqOf
<1>2. a \in Int /\ -SeqSpace <= a /\ a < 2 * SeqSpace /\ a < SeqSpace
  BY <1>1, Sizes
<1>3. \/ a = n - m
      \/ a = n - m + SeqSpace
      \/ a = n - m - SeqSpace
  BY RawSeqApart
<1>4. n \in Int /\ m \in Int /\ n - m < SeqSpace /\ -SeqSpace < n - m
  BY Sizes DEF Pkts
<1> HIDE DEF a
<1>5. a % SeqSpace = IF a < 0 THEN a + SeqSpace ELSE IF a < SeqSpace THEN a ELSE a - SeqSpace
  BY <1>2, Sizes, ModOnce
<1>6. a % SeqSpace = IF m <= n THEN n - m ELSE n - m + SeqSpace
  BY <1>2, <1>3, <1>4, <1>5, Sizes
<1> QED BY <1>6 DEF a

LEMMA RelOf ==
  ASSUME NEW m \in Pkts, NEW n \in Pkts, m <= n
  PROVE  Rel(RawSeq(n), RawSeq(m)) = n - m
<1>1. (RawSeq(n) - RawSeq(m)) % SeqSpace = n - m
  BY RawSeqDistance
<1> DEFINE d == n - m
<1>2. d \in Int /\ -RelSpace <= d /\ d < 2 * RelSpace /\ 0 <= d /\ d < RelSpace
  BY Sizes DEF Pkts
<1> HIDE DEF d
<1>3. d % RelSpace = IF d < 0 THEN d + RelSpace ELSE IF d < RelSpace THEN d ELSE d - RelSpace
  BY <1>2, Sizes, ModOnce
<1>4. d % RelSpace = d
  BY <1>2, <1>3
<1>5. Rel(RawSeq(n), RawSeq(m)) = d % RelSpace
  BY <1>1 DEF Rel, d
<1> QED BY <1>4, <1>5 DEF d

LEMMA RawSeqPlus ==
  ASSUME NEW m \in Pkts, NEW n \in Pkts, m <= n
  PROVE  /\ ((n - m) + RawSeq(m)) % SeqSpace = RawSeq(n)
         /\ (RawSeq(n) - (n - m + 1) + 1) % SeqSpace = RawSeq(m)
<1>1. /\ RawSeq(n) \in Int /\ 0 <= RawSeq(n) /\ RawSeq(n) < SeqSpace
      /\ RawSeq(m) \in Int /\ 0 <= RawSeq(m) /\ RawSeq(m) < SeqSpace
  BY RawSeqOf
<1>2. n \in Int /\ m \in Int /\ n - m < SeqSpace
  BY Sizes DEF Pkts
<1>3. \/ RawSeq(n) - RawSeq(m) = n - m
      \/ RawSeq(n) - RawSeq(m) = n - m + SeqSpace
      \/ RawSeq(n) - RawSeq(m) = n - m - SeqSpace
  BY RawSeqApart
<1> DEFINE a == (n - m) + RawSeq(m)
           b == RawSeq(n) - (n - m + 1) + 1
<1>4. /\ a \in Int /\ -SeqSpace <= a /\ a < 2 * SeqSpace
      /\ b \in Int /\ -SeqSpace <= b /\ b < 2 * SeqSpace
      /\ a = RawSeq(n) \/ a = RawSeq(n) + SeqSpace \/ a = RawSeq(n) - SeqSpace
      /\ b = RawSeq(m) \/ b = RawSeq(m) + SeqSpace \/ b = RawSeq(m) - SeqSpace
  BY <1>1, <1>2, <1>3, Sizes
<1> HIDE DEF a, b
<1>5. /\ a % SeqSpace = IF a < 0 THEN a + SeqSpace ELSE IF a < SeqSpace THEN a ELSE a - SeqSpace
      /\ b % SeqSpace = IF b < 0 THEN b + SeqSpace ELSE IF b < SeqSpace THEN b ELSE b - SeqSpace
  BY <1>4, Sizes, ModOnce
<1>6. a % SeqSpace = RawSeq(n) /\ b % SeqSpace = RawSeq(m)
  BY <1>1, <1>4, <1>5, Sizes
<1> QED BY <1>6 DEF a, b

(* The packet back from its number. *)
LEMMA RawSeqBack ==
  ASSUME NEW n \in Pkts
  PROVE  (RawSeq(n) - FirstSeq) % SeqSpace = n - 1
<1> DEFINE a == RawSeq(n) - FirstSeq
<1>1. /\ a \in Int /\ -SeqSpace <= a /\ a < 2 * SeqSpace /\ a < SeqSpace
      /\ a = n - 1 \/ a = n - 1 - SeqSpace
      /\ n - 1 \in Int /\ 0 <= n - 1 /\ n - 1 < SeqSpace
  BY RawSeqOf, Sizes DEF Pkts
<1> HIDE DEF a
<1>2. a % SeqSpace = IF a < 0 THEN a + SeqSpace ELSE IF a < SeqSpace THEN a ELSE a - SeqSpace
  BY <1>1, Sizes, ModOnce
<1>3. a % SeqSpace = n - 1
  BY <1>1, <1>2, Sizes
<1> QED BY <1>3 DEF a

-----------------------------------------------------------------------------
(* What an AckPkt says *)

LEMMA NumWraps ==
  ASSUME NEW first \in Pkts, NEW last \in Pkts, first <= last
  PROVE  (last - first + 1) % RelSpace =
           IF last - first + 1 < RelSpace THEN last - first + 1 ELSE 0
<1> DEFINE a == last - first + 1
<1>1. a \in Int /\ -RelSpace <= a /\ a < 2 * RelSpace /\ 0 < a /\ a <= RelSpace
  BY Sizes DEF Pkts
<1> HIDE DEF a
<1>2. a % RelSpace = IF a < 0 THEN a + RelSpace ELSE IF a < RelSpace THEN a ELSE a - RelSpace
  BY <1>1, Sizes, ModOnce
<1>3. a % RelSpace = IF a < RelSpace THEN a ELSE 0
  BY <1>1, <1>2, Sizes
<1> QED BY <1>3 DEF a

(* A stretch of RelSpace packets is taken to begin after its end. *)
LEMMA FeedbackAbout ==
  ASSUME NEW ack, NEW first, NEW last, NEW nacks, IsFeedback(ack, first, last, nacks)
  PROVE  /\ Stretch(ack) = first..last
         /\ BeginSeq(ack) = IF last - first + 1 < RelSpace THEN RawSeq(first)
                            ELSE (RawSeq(last) + 1) % SeqSpace
         /\ ack.end = RawSeq(last)
<1>1. /\ first \in Pkts /\ last \in Pkts /\ first <= last
      /\ ack.end = RawSeq(last)
      /\ ack.num = IF last - first + 1 < RelSpace THEN last - first + 1 ELSE 0
  BY NumWraps DEF IsFeedback, Feedback
<1>2. LastOf(ack) = last
  <2>1. (ack.end - FirstSeq) % SeqSpace = last - 1
    BY <1>1, RawSeqBack
  <2> QED BY <1>1, <2>1 DEF LastOf, Pkts
<1>3. NumOf(ack) = last - first + 1
  BY <1>1, Sizes DEF NumOf, Pkts
<1>4. Stretch(ack) = first..last
  BY <1>1, <1>2, <1>3 DEF Stretch, Pkts
<1>5. CASE last - first + 1 < RelSpace
  BY <1>1, <1>4, <1>5, RawSeqPlus DEF BeginSeq
<1>6. CASE ~(last - first + 1 < RelSpace)
  <2>1. ack.num = 0 /\ ack.end - 0 + 1 = RawSeq(last) + 1
    BY <1>1, <1>6, RawSeqOf
  <2>2. BeginSeq(ack) = (RawSeq(last) + 1) % SeqSpace
    BY <2>1 DEF BeginSeq
  <2> QED BY <1>1, <1>4, <1>6, <2>2
<1> QED BY <1>5, <1>6

LEMMA FeedbackParsed ==
  ASSUME NEW ack, NEW first, NEW last, NEW nacks, IsFeedback(ack, first, last, nacks)
  PROVE  /\ Len(ack.rels) = Len(nacks)
         /\ \A i \in 1..Len(nacks) :
              nacks[i] \in Pkts /\ nacks[i] \in first..last /\ ParseNack(ack)[i] = RawSeq(nacks[i])
<1>1. /\ first \in Pkts /\ last \in Pkts /\ nacks \in Seq(first..last)
      /\ \A i, j \in 1..Len(nacks) : i < j => nacks[i] < nacks[j]
      /\ ack.start = (IF nacks = <<>> THEN 0 ELSE RawSeq(nacks[1]))
      /\ ack.rels = PushNack(nacks)
  BY DEF IsFeedback, Feedback, Lists
<1>2. Len(nacks) \in Nat
  BY <1>1, LenProperties
<1>3. Len(ack.rels) = Len(nacks)
  <2>1. PushNack(nacks) = [i \in 1..Len(nacks) |->
          IF i = 1 THEN 0 ELSE Rel(RawSeq(nacks[i]), RawSeq(nacks[1]))]
    BY DEF PushNack
  <2> QED BY <1>1, <1>2, <2>1
<1>4. ASSUME NEW i \in 1..Len(nacks)
      PROVE  nacks[i] \in Pkts /\ nacks[i] \in first..last /\ ParseNack(ack)[i] = RawSeq(nacks[i])
  <2>1. 1 \in 1..Len(nacks) /\ nacks # <<>>
    BY <1>2
  <2>2. nacks[i] \in first..last /\ nacks[1] \in first..last
    BY <1>1, <2>1, ElementOfSeq
  <2>3. nacks[i] \in Pkts /\ nacks[1] \in Pkts
    <3>1. first..last \subseteq Pkts
      <4>1. first \in 1..MaxSent /\ last \in 1..MaxSent
        BY <1>1 DEF Pkts
      <4> QED BY <4>1, Sizes DEF Pkts
    <3> QED BY <2>2, <3>1
  <2>4. nacks[1] <= nacks[i]
    BY <1>1, <2>1, <2>3, <1>2 DEF Pkts
  <2>5. ack.rels[i] = nacks[i] - nacks[1]
    <3>1. ack.rels[i] = IF i = 1 THEN 0 ELSE Rel(RawSeq(nacks[i]), RawSeq(nacks[1]))
      BY <1>1 DEF PushNack
    <3>2. Rel(RawSeq(nacks[i]), RawSeq(nacks[1])) = nacks[i] - nacks[1]
      BY <2>3, <2>4, RelOf
    <3> QED BY <3>1, <3>2, <2>3 DEF Pkts
  <2>6. ack.start = RawSeq(nacks[1])
    BY <1>1, <2>1
  <2>7. ((nacks[i] - nacks[1]) + RawSeq(nacks[1])) % SeqSpace = RawSeq(nacks[i])
    BY <2>3, <2>4, RawSeqPlus
  <2>8. ParseNack(ack)[i] = (ack.rels[i] + ack.start) % SeqSpace
    BY <1>3 DEF ParseNack
  <2> QED BY <2>2, <2>3, <2>5, <2>6, <2>7, <2>8
<1> QED BY <1>3, <1>4

(* GetInd finds the record of a packet exactly when it is there. *)
LEMMA RecordFound ==
  ASSUME TypesOK, RecordsConsecutive, NEW n \in 1..sent
  PROVE  GetInd(RawSeq(n)) = IF n > base THEN n - base ELSE 0
<1>1. /\ sent \in Int /\ base \in Int /\ 0 <= base /\ base <= sent /\ sent <= MaxSent
      /\ n \in Pkts /\ Len(info) = sent - base
  <2>1. Len(info) \in Int
    BY LenProperties DEF TypesOK
  <2> QED BY <2>1, Sizes DEF TypesOK, RecordsConsecutive, Pkts
<1>2. CASE base = sent
  <2>1. Len(info) = 0
    BY <1>1, <1>2
  <2> DEFINE d == (RawSeq(n) - RawSeq(base + 1)) % SeqSpace
  <2>2. d \in Int /\ 0 <= d
    <3>1. RawSeq(n) - RawSeq(base + 1) \in Int
      <4>1. RawSeq(n) \in Int
        BY <1>1, RawSeqOf
      <4>2. RawSeq(base + 1) \in Int
        <5>1. FirstSeq + (base + 1) - 1 \in Int
          BY <1>1, Sizes
        <5> QED BY <5>1, Sizes DEF RawSeq
      <4> QED BY <4>1, <4>2
    <3> HIDE DEF d
    <3>2. \A a \in Int : a % SeqSpace \in Int /\ 0 <= a % SeqSpace
      BY Sizes
    <3> QED BY <3>1, <3>2 DEF d
  <2>3. GetInd(RawSeq(n)) = IF d < Len(info) THEN d + 1 ELSE 0
    BY DEF GetInd
  <2> HIDE DEF d
  <2> QED BY <2>1, <2>2, <2>3, <1>1, <1>2 DEF Pkts
<1>3. CASE base < sent
  <2>1. base + 1 \in Pkts
    BY <1>1, <1>3, Sizes DEF Pkts
  <2> DEFINE d == (RawSeq(n) - RawSeq(base + 1)) % SeqSpace
  <2>2. d = IF base + 1 <= n THEN n - (base + 1) ELSE n - (base + 1) + SeqSpace
    BY <1>1, <2>1, RawSeqDistance
  <2>3. GetInd(RawSeq(n)) = IF d < Len(info) THEN d + 1 ELSE 0
    BY DEF GetInd
  <2> HIDE DEF d
  <2>4. sent - base < SeqSpace
    BY <1>1, Sizes
  <2> QED BY <2>2, <2>3, <2>4, <1>1, Sizes DEF Pkts
<1> QED BY <1>1, <1>2, <1>3


(* GetInd finds nothing for the number after the last one sent. *)
LEMMA NoneAfterSent ==
  ASSUME TypesOK, RecordsConsecutive, base < sent
  PROVE  GetInd((RawSeq(sent) + 1) % SeqSpace) = 0
<1>1. /\ sent \in Int /\ base \in Int /\ 0 <= base /\ sent <= MaxSent
      /\ Len(info) = sent - base /\ sent \in Pkts /\ base + 1 \in Pkts
  <2>1. Len(info) \in Int
    BY LenProperties DEF TypesOK
  <2> QED BY <2>1, Sizes DEF TypesOK, RecordsConsecutive, Pkts
<1> DEFINE a == RawSeq(sent) + 1
           b == a % SeqSpace
           c == b - RawSeq(base + 1)
<1>2. /\ RawSeq(sent) \in Int /\ 0 <= RawSeq(sent) /\ RawSeq(sent) < SeqSpace
      /\ RawSeq(base + 1) \in Int /\ 0 <= RawSeq(base + 1) /\ RawSeq(base + 1) < SeqSpace
      /\ \/ RawSeq(sent) - RawSeq(base + 1) = sent - (base + 1)
         \/ RawSeq(sent) - RawSeq(base + 1) = sent - (base + 1) + SeqSpace
         \/ RawSeq(sent) - RawSeq(base + 1) = sent - (base + 1) - SeqSpace
  BY <1>1, RawSeqOf, RawSeqApart
<1>3. /\ a \in Int /\ -SeqSpace <= a /\ a < 2 * SeqSpace
      /\ 0 <= a /\ a <= SeqSpace /\ a = RawSeq(sent) + 1
  BY <1>2, Sizes
<1> HIDE DEF a
<1>4. a % SeqSpace = IF a < 0 THEN a + SeqSpace ELSE IF a < SeqSpace THEN a ELSE a - SeqSpace
  BY <1>3, Sizes, ModOnce
<1>5. b = (IF a < SeqSpace THEN a ELSE 0) /\ b \in Int /\ 0 <= b /\ b < SeqSpace
  BY <1>3, <1>4, Sizes
<1> HIDE DEF b
<1>6. /\ c \in Int /\ -SeqSpace <= c /\ c < 2 * SeqSpace /\ c < SeqSpace
      /\ c = sent - base \/ c = sent - base - SeqSpace
      /\ 0 < sent - base /\ sent - base < SeqSpace
  <2>1. 0 < sent - base /\ sent - base < SeqSpace
    BY <1>1, Sizes
  <2>2. c \in Int /\ -SeqSpace < c /\ c < SeqSpace
    BY <1>2, <1>5, Sizes
  <2>3. CASE b = a
    <3>1. c = RawSeq(sent) - RawSeq(base + 1) + 1
      BY <1>2, <1>3, <2>3
    <3> HIDE DEF c
    <3>2. \/ c = sent - (base + 1) + 1
          \/ c = sent - (base + 1) + SeqSpace + 1
          \/ c = sent - (base + 1) - SeqSpace + 1
      BY <1>2, <3>1
    <3> QED BY <1>1, <2>1, <2>2, <3>2, Sizes
  <2>4. CASE b = 0 /\ a = SeqSpace
    BY <1>1, <1>2, <1>3, <2>1, <2>2, <2>4, Sizes
  <2> QED BY <1>3, <1>5, <2>1, <2>2, <2>3, <2>4, Sizes
<1> HIDE DEF c
<1>7. c % SeqSpace = IF c < 0 THEN c + SeqSpace ELSE IF c < SeqSpace THEN c ELSE c - SeqSpace
  BY <1>6, Sizes, ModOnce
<1>8. c % SeqSpace = sent - base
  BY <1>1, <1>6, <1>7, Sizes
<1>9. GetInd(b) = IF c % SeqSpace < Len(info) THEN (c % SeqSpace) + 1 ELSE 0
  BY DEF GetInd, c
<1>10. GetInd(b) = 0
  BY <1>1, <1>8, <1>9
<1> QED BY <1>10 DEF b, a

(* A nack's place is that of the packet it is of, if there is a record. *)
LEMMA NackPlaces ==
  ASSUME TypesOK, RecordsConsecutive,
         NEW ack, NEW first, NEW last, NEW nacks, IsFeedback(ack, first, last, nacks)
  PROVE  /\ Len(ack.rels) = Len(nacks)
         /\ \A i \in 1..Len(nacks) :
              /\ nacks[i] \in first..last /\ nacks[i] \in 1..sent
              /\ Places(ack)[i] = IF nacks[i] > base THEN nacks[i] - base ELSE 0
<1>1. Len(ack.rels) = Len(nacks)
  BY FeedbackParsed
<1>2. first \in 1..MaxSent /\ last \in 1..MaxSent /\ last <= told /\ told \in 0..sent
      /\ sent \in 0..MaxSent
  BY DEF IsFeedback, TypesOK, Pkts
<1>3. ASSUME NEW i \in 1..Len(nacks)
      PROVE  /\ nacks[i] \in first..last /\ nacks[i] \in 1..sent
             /\ Places(ack)[i] = IF nacks[i] > base THEN nacks[i] - base ELSE 0
  <2>1. nacks[i] \in first..last /\ ParseNack(ack)[i] = RawSeq(nacks[i])
    BY FeedbackParsed
  <2>2. nacks[i] \in 1..sent
    BY <1>2, <2>1, Sizes
  <2>3. GetInd(RawSeq(nacks[i])) = IF nacks[i] > base THEN nacks[i] - base ELSE 0
    BY <2>2, RecordFound
  <2>4. Places(ack)[i] = GetInd(ParseNack(ack)[i])
    BY <1>1 DEF Places
  <2> QED BY <2>1, <2>2, <2>3, <2>4
<1> QED BY <1>1, <1>3

(* The records PushPkts marks bad are of packets of the stretch that were  *)
(* lost, and when it comes to the good packets, of all of them.            *)
LEMMA NackedRecords ==
  ASSUME TypesOK, RecordsConsecutive,
         NEW ack, NEW first, NEW last, NEW nacks, IsFeedback(ack, first, last, nacks),
         NEW i \in 1..Len(info)
  PROVE  /\ i \in Nacked(ack) => base + i \in first..last /\ base + i \notin got
         /\ AllFound(ack) /\ base + i \in first..last /\ base + i \notin got =>
              i \in Nacked(ack)
<1>1. /\ Len(ack.rels) = Len(nacks)
      /\ \A j \in 1..Len(nacks) :
           /\ nacks[j] \in first..last /\ nacks[j] \in 1..sent
           /\ Places(ack)[j] = IF nacks[j] > base THEN nacks[j] - base ELSE 0
  BY NackPlaces
<1>2. nacks \in Seq(first..last) /\ {nacks[j] : j \in 1..Len(nacks)} = (first..last) \ got
  <2>1. nacks \in Seq(first..last) /\ Range(nacks) = (first..last) \ got
    BY DEF IsFeedback, Lists
  <2>2. DOMAIN nacks = 1..Len(nacks)
    BY <2>1, LenProperties
  <2> QED BY <2>1, <2>2 DEF Range
<1>3. sent \in Int /\ base \in Int /\ 0 <= base /\ i \in Int /\ 0 < i /\ Len(nacks) \in Nat
  BY <1>2, LenProperties DEF TypesOK
<1>4. ASSUME i \in Nacked(ack)
      PROVE  base + i \in first..last /\ base + i \notin got
  <2>1. PICK j \in 1..Len(nacks) : Reached(ack, j) /\ i = Places(ack)[j]
    BY <1>1, <1>4 DEF Nacked
  <2>2. nacks[j] \in Int /\ i = (IF nacks[j] > base THEN nacks[j] - base ELSE 0)
    BY <1>1, <2>1
  <2>3. base + i = nacks[j]
    BY <1>3, <2>2
  <2>4. nacks[j] \in (first..last) \ got
    BY <1>2
  <2> QED BY <2>3, <2>4
<1>5. ASSUME AllFound(ack), base + i \in first..last, base + i \notin got
      PROVE  i \in Nacked(ack)
  <2>1. PICK j \in 1..Len(nacks) : nacks[j] = base + i
    BY <1>2, <1>5
  <2>2. Places(ack)[j] = i
    <3>1. Places(ack)[j] = IF nacks[j] > base THEN nacks[j] - base ELSE 0
      BY <1>1
    <3> QED BY <1>3, <2>1, <3>1
  <2>3. Reached(ack, j)
    BY <1>1, <1>3, <1>5 DEF AllFound, Reached
  <2> QED BY <1>1, <2>2, <2>3 DEF Nacked
<1> QED BY <1>4, <1>5

(* The good packets are looked for only if all of the stretch has records. *)
LEMMA StretchFound ==
  ASSUME TypesOK, RecordsConsecutive,
         NEW ack, NEW first, NEW last, NEW nacks, IsFeedback(ack, first, last, nacks),
         AllFound(ack)
  PROVE  /\ GetInd(BeginSeq(ack)) = first - base /\ GetInd(ack.end) = last - base
         /\ base < first /\ first - base \in 1..Len(info)
<1>1. first \in 1..MaxSent /\ last \in 1..MaxSent /\ first <= last /\ last <= told
      /\ told \in 0..sent /\ sent \in 0..MaxSent /\ base \in 0..sent
  BY DEF IsFeedback, TypesOK, Pkts
<1>2. first \in 1..sent /\ last \in 1..sent /\ first \in Int /\ last \in Int /\ base \in Int
  BY <1>1
<1>3. /\ GetInd(RawSeq(first)) = (IF first > base THEN first - base ELSE 0)
      /\ GetInd(RawSeq(last)) = (IF last > base THEN last - base ELSE 0)
  BY <1>2, RecordFound
<1>4. GetInd(BeginSeq(ack)) > 0 /\ GetInd(RawSeq(last)) > 0
  BY FeedbackAbout DEF AllFound
<1>5. last > base
  BY <1>2, <1>3, <1>4
<1>6. Len(info) = sent - base
  <2>1. Len(info) \in Int /\ base + Len(info) = sent
    BY LenProperties DEF TypesOK, RecordsConsecutive
  <2> QED BY <1>1, <2>1
<1>7. last - first + 1 < RelSpace
  <2> SUFFICES ASSUME ~(last - first + 1 < RelSpace) PROVE FALSE
    OBVIOUS
  <2>1. last = sent
    BY <1>1, Sizes
  <2>2. BeginSeq(ack) = (RawSeq(last) + 1) % SeqSpace
    BY FeedbackAbout
  <2>3. GetInd(BeginSeq(ack)) = 0
    BY <1>2, <1>5, <2>1, <2>2, NoneAfterSent
  <2> QED BY <1>4, <2>3
<1>8. BeginSeq(ack) = RawSeq(first)
  BY <1>7, FeedbackAbout
<1>9. first > base
  BY <1>2, <1>3, <1>4, <1>8
<1> QED BY <1>1, <1>2, <1>3, <1>5, <1>6, <1>8, <1>9, FeedbackAbout

(* The records PushPkts leaves say what is so. *)
LEMMA Marked ==
  ASSUME TypesOK, RecordsConsecutive, MarksOK,
         NEW ack, NEW first, NEW last, NEW nacks, IsFeedback(ack, first, last, nacks)
  PROVE  /\ PushPkts(ack) \in Seq(Fates \cup {"unknown"})
         /\ Len(PushPkts(ack)) = Len(info)
         /\ \A i \in 1..Len(info) :
              /\ PushPkts(ack)[i] = "good" => base + i \in got
              /\ PushPkts(ack)[i] = "bad" => base + i \notin got
              /\ PushPkts(ack)[i] # "unknown" =>
                   info[i] # "unknown" \/ base + i \in first..last
<1> DEFINE Mark(i) == IF i \in Nacked(ack) THEN "bad"
                      ELSE IF /\ AllFound(ack) /\ info[i] = "unknown"
                              /\ i \in GetInd(BeginSeq(ack))..GetInd(ack.end)
                      THEN "good"
                      ELSE info[i]
           marked == PushPkts(ack)
<1>1. marked = [i \in 1..Len(info) |-> Mark(i)]
  BY DEF PushPkts
<1>2. Len(info) \in Nat
  BY LenProperties DEF TypesOK
<1>3. ASSUME NEW i \in 1..Len(info)
      PROVE  info[i] \in Fates \cup {"unknown"}
  BY ElementOfSeq DEF TypesOK
<1>4. \A i \in 1..Len(info) : marked[i] = Mark(i) /\ Mark(i) \in Fates \cup {"unknown"}
  BY <1>1, <1>3 DEF Fates
<1>5. marked \in [1..Len(info) -> Fates \cup {"unknown"}]
  BY <1>1, <1>4
<1>6. marked \in Seq(Fates \cup {"unknown"}) /\ Len(marked) = Len(info)
  <2> HIDE DEF marked
  <2>1. marked \in Seq(Fates \cup {"unknown"})
    BY <1>2, <1>5, SeqDef
  <2> QED BY <1>2, <1>5, <2>1, LenProperties
<1>7. ASSUME NEW i \in 1..Len(info)
      PROVE  /\ marked[i] = "good" => base + i \in got
             /\ marked[i] = "bad" => base + i \notin got
             /\ marked[i] # "unknown" => info[i] # "unknown" \/ base + i \in first..last
  <2>1. marked[i] = Mark(i)
    BY <1>4
  <2>2. /\ i \in Nacked(ack) => base + i \in first..last /\ base + i \notin got
        /\ AllFound(ack) /\ base + i \in first..last /\ base + i \notin got =>
             i \in Nacked(ack)
    BY NackedRecords
  <2>3. /\ info[i] = "good" => base + i \in got
        /\ info[i] = "bad" => base + i \notin got
    BY DEF MarksOK
  <2>4. CASE i \in Nacked(ack)
    BY <2>1, <2>2, <2>4
  <2>5. CASE /\ i \notin Nacked(ack) /\ AllFound(ack) /\ info[i] = "unknown"
             /\ i \in GetInd(BeginSeq(ack))..GetInd(ack.end)
    <3>1. i \in first - base..last - base
      BY <2>5, StretchFound
    <3>2. base + i \in first..last
      <4>1. base \in Int /\ first \in Int /\ last \in Int /\ i \in Int
        BY DEF TypesOK, IsFeedback, Pkts
      <4> QED BY <3>1, <4>1
    <3>3. marked[i] = "good" /\ base + i \in got
      BY <2>1, <2>2, <2>5, <3>2
    <3> QED BY <3>2, <3>3
  <2>6. CASE i \notin Nacked(ack) /\ marked[i] = info[i]
    BY <2>3, <2>6
  <2> QED BY <2>1, <2>4, <2>5, <2>6
<1> QED BY <1>6, <1>7

(* A nack finds its record marked only when the AckPkt was handled before. *)
LEMMA MarkedOnlyAgain ==
  ASSUME TypesOK, NetOK, Disjoint, RecordsConsecutive, MarksOK,
         NEW ack \in net, MarkedBefore(ack)
  PROVE  ack \in handled
<1>1. PICK first, last, nacks : IsFeedback(ack, first, last, nacks)
  BY DEF NetOK
<1>2. /\ Len(ack.rels) = Len(nacks)
      /\ \A j \in 1..Len(nacks) :
           /\ nacks[j] \in first..last /\ nacks[j] \in 1..sent
           /\ Places(ack)[j] = IF nacks[j] > base THEN nacks[j] - base ELSE 0
  BY <1>1, NackPlaces
<1>3. PICK i \in 1..Len(nacks) :
        /\ Reached(ack, i)
        /\ \/ info[Places(ack)[i]] # "unknown"
           \/ \E k \in 1..i - 1 : Places(ack)[k] = Places(ack)[i]
  BY <1>2 DEF MarkedBefore
<1>4. base \in Int /\ sent \in Int /\ Len(nacks) \in Nat /\ base + Len(info) = sent
      /\ Len(info) \in Nat
  BY <1>1, LenProperties DEF TypesOK, RecordsConsecutive, IsFeedback
<1>5. \A k \in 1..i : nacks[k] > base /\ Places(ack)[k] = nacks[k] - base
  <2> SUFFICES ASSUME NEW k \in 1..i PROVE nacks[k] > base /\ Places(ack)[k] = nacks[k] - base
    OBVIOUS
  <2>1. Places(ack)[k] > 0
    BY <1>3 DEF Reached
  <2>2. k \in 1..Len(nacks)
    BY <1>4
  <2> QED BY <1>2, <1>4, <2>1, <2>2
<1>6. CASE \E k \in 1..i - 1 : Places(ack)[k] = Places(ack)[i]
  <2>1. PICK k \in 1..i - 1 : Places(ack)[k] = Places(ack)[i]
    BY <1>6
  <2>2. k \in 1..i /\ i \in 1..i /\ k \in 1..Len(nacks) /\ k < i
    BY <1>4
  <2>3. nacks[k] < nacks[i]
    BY <1>1, <2>2 DEF IsFeedback, Lists
  <2>4. nacks[k] - base = nacks[i] - base /\ nacks[k] \in Int /\ nacks[i] \in Int
    BY <1>2, <1>5, <2>1, <2>2
  <2> QED BY <1>4, <2>3, <2>4
<1>7. CASE info[Places(ack)[i]] # "unknown"
  <2>1. i \in 1..i
    BY <1>4
  <2>2. Places(ack)[i] = nacks[i] - base /\ nacks[i] > base /\ nacks[i] \in 1..sent
    BY <1>2, <1>5, <2>1
  <2>3. Places(ack)[i] \in 1..Len(info) /\ base + Places(ack)[i] = nacks[i]
    BY <1>4, <2>2
  <2>4. PICK other \in handled : nacks[i] \in Stretch(other)
    BY <1>7, <2>3 DEF MarksOK
  <2>5. nacks[i] \in Stretch(ack)
    BY <1>1, <1>2, FeedbackAbout
  <2>6. other \in net /\ Stretch(ack) \cap Stretch(other) # {}
    BY <2>4, <2>5 DEF TypesOK
  <2> QED BY <2>4, <2>6 DEF Disjoint
<1> QED BY <1>3, <1>6, <1>7

(* What the AckPkts say of the packets told of stays so. *)
LEMMA FeedbackStays ==
  ASSUME TypesOK, told' \in Nat, told <= told', got \subseteq got',
         \A n \in got' : n \in got \/ n > told,
         NEW ack, NEW first, NEW last, NEW nacks, IsFeedback(ack, first, last, nacks)
  PROVE  IsFeedback(ack, first, last, nacks)'
<1>1. /\ first \in Pkts /\ last \in Pkts /\ first <= last /\ last <= told
      /\ nacks \in Seq(first..last) /\ Lists(nacks, (first..last) \ got)
      /\ ack = Feedback(first, last, nacks)
  BY DEF IsFeedback
<1>2. last \in Int /\ told \in Int /\ first \in Int /\ told' \in Int
  BY <1>1 DEF Pkts, TypesOK
<1>3. (first..last) \ got' = (first..last) \ got
  <2>1. \A n \in first..last : ~(n > told)
    BY <1>1, <1>2
  <2> QED BY <2>1
<1>4. last <= told'
  BY <1>1, <1>2
<1> QED BY <1>1, <1>3, <1>4 DEF IsFeedback


-----------------------------------------------------------------------------
(* Lists of reports *)

(* A function on 1..n is a sequence. *)
LEMMA SeqOfLength ==
  ASSUME NEW S, NEW n \in Nat, NEW f \in [1..n -> S]
  PROVE  f \in Seq(S) /\ Len(f) = n
<1>1. f \in Seq(S)
  BY SeqDef
<1>2. Len(f) \in Nat /\ DOMAIN f = 1..Len(f)
  BY <1>1, LenProperties
<1>3. 1..Len(f) = 1..n
  BY <1>2
<1>4. Len(f) = n
  <2>1. CASE Len(f) < n
    BY <1>2, <1>3, <2>1
  <2>2. CASE Len(f) > n
    <3>1. Len(f) \in 1..Len(f) /\ Len(f) \notin 1..n
      BY <1>2, <2>2
    <3> QED BY <1>3, <3>1
  <2> QED BY <1>2, <2>1, <2>2
<1> QED BY <1>1, <1>4

(* Fates of packets after base, in order, are added to the reports. *)
LEMMA ReportsAdded ==
  ASSUME TypesOK, RecordsConsecutive, GoodIsReceived, ReportedOnce, got \subseteq got',
         NEW added \in Seq(Records), reports' = reports \o added,
         base' \in Int, base <= base',
         \A i \in 1..Len(added) : /\ base < added[i].n /\ added[i].n <= base'
                                  /\ added[i].fate = "good" => added[i].n \in got',
         \A i, j \in 1..Len(added) : i < j => added[i].n < added[j].n
  PROVE  /\ reports' \in Seq(Records) /\ GoodIsReceived' /\ ReportedOnce'
         /\ \A i \in 1..Len(reports') : reports'[i].n <= base'
<1>1. /\ reports \in Seq(Records) /\ Len(reports) \in Nat /\ Len(added) \in Nat
      /\ base \in Int
      /\ \A i \in 1..Len(reports) : reports[i] \in Records /\ reports[i].n \in Int
                                    /\ reports[i].n <= base
      /\ \A i \in 1..Len(added) : added[i].n \in Int
  <2>1. reports \in Seq(Records) /\ Len(reports) \in Nat /\ Len(added) \in Nat /\ base \in Int
    BY LenProperties DEF TypesOK
  <2>2. \A i \in 1..Len(reports) : reports[i] \in Records /\ reports[i].n \in Int
    <3>1. \A r \in Records : r.n \in Int
      BY DEF Records, Pkts
    <3>2. \A i \in 1..Len(reports) : reports[i] \in Records
      BY <2>1, ElementOfSeq
    <3> QED BY <3>1, <3>2
  <2>3. \A i \in 1..Len(added) : added[i].n \in Int
    <3>1. \A r \in Records : r.n \in Int
      BY DEF Records, Pkts
    <3>2. \A i \in 1..Len(added) : added[i] \in Records
      BY ElementOfSeq
    <3> QED BY <3>1, <3>2
  <2> QED BY <2>1, <2>2, <2>3 DEF RecordsConsecutive
<1>2. /\ reports' \in Seq(Records)
      /\ Len(reports') = Len(reports) + Len(added)
      /\ \A i \in 1..Len(reports) + Len(added) :
           reports'[i] = IF i <= Len(reports) THEN reports[i] ELSE added[i - Len(reports)]
  BY <1>1, ConcatProperties
<1>3. ASSUME NEW i \in 1..Len(reports')
      PROVE  \/ i \in 1..Len(reports) /\ reports'[i] = reports[i]
             \/ i - Len(reports) \in 1..Len(added) /\ i > Len(reports)
                /\ reports'[i] = added[i - Len(reports)]
  BY <1>1, <1>2
<1>4. GoodIsReceived'
  BY <1>3 DEF GoodIsReceived
<1>5. \A i \in 1..Len(reports') : reports'[i].n <= base'
  BY <1>1, <1>3
<1>6. ReportedOnce'
  <2> SUFFICES ASSUME NEW i \in 1..Len(reports'), NEW j \in 1..Len(reports'), i < j
               PROVE  reports'[i].n < reports'[j].n
    BY DEF ReportedOnce
  <2>1. CASE i <= Len(reports) /\ j <= Len(reports)
    BY <1>1, <1>3, <2>1 DEF ReportedOnce
  <2>2. CASE i <= Len(reports) /\ j > Len(reports)
    <3>1. reports'[i] = reports[i] /\ i \in 1..Len(reports)
      BY <1>1, <1>3, <2>2
    <3>2. reports'[j] = added[j - Len(reports)] /\ j - Len(reports) \in 1..Len(added)
      BY <1>1, <1>3, <2>2
    <3> QED BY <1>1, <3>1, <3>2
  <2>3. CASE i > Len(reports) /\ j > Len(reports)
    <3>1. reports'[i] = added[i - Len(reports)] /\ i - Len(reports) \in 1..Len(added)
      BY <1>1, <1>3, <2>3
    <3>2. reports'[j] = added[j - Len(reports)] /\ j - Len(reports) \in 1..Len(added)
      BY <1>1, <1>3, <2>3
    <3>3. i - Len(reports) < j - Len(reports)
      BY <1>1
    <3> QED BY <3>1, <3>2, <3>3
  <2>4. i \in Int /\ j \in Int
    BY <1>1, <1>2
  <2> QED BY <1>1, <2>1, <2>2, <2>3, <2>4
<1> QED BY <1>2, <1>4, <1>5, <1>6

(* Giving all records up reports the packets after base. *)
LEMMA AllGivenUp ==
  ASSUME TypesOK, RecordsConsecutive, GoodIsReceived, ReportedOnce, got \subseteq got',
         reports' = reports \o AllBad, base' = sent
  PROVE  /\ reports' \in Seq(Records) /\ GoodIsReceived' /\ ReportedOnce'
         /\ \A i \in 1..Len(reports') : reports'[i].n <= base'
<1>1. base \in Int /\ 0 <= base /\ sent \in Int /\ sent <= MaxSent /\ Len(info) \in Nat
      /\ base + Len(info) = sent
  BY LenProperties, Sizes DEF TypesOK, RecordsConsecutive
<1>2. \A i \in 1..Len(info) : [n |-> base + i, fate |-> "bad"] \in Records
  BY <1>1, Sizes DEF Records, Pkts, Fates
<1>3. AllBad \in [1..Len(info) -> Records]
  BY <1>2 DEF AllBad
<1>4. AllBad \in Seq(Records) /\ Len(AllBad) = Len(info)
  BY <1>1, <1>3, SeqOfLength
<1>5. \A i \in 1..Len(info) : AllBad[i].n = base + i /\ AllBad[i].fate = "bad"
  BY DEF AllBad
<1>6. base' \in Int /\ base <= base'
  BY <1>1
<1>7. \A i \in 1..Len(AllBad) : /\ base < AllBad[i].n /\ AllBad[i].n <= base'
                                /\ AllBad[i].fate = "good" => AllBad[i].n \in got'
  BY <1>1, <1>4, <1>5
<1>8. \A i, j \in 1..Len(AllBad) : i < j => AllBad[i].n < AllBad[j].n
  BY <1>1, <1>4, <1>5
<1> QED BY <1>4, <1>6, <1>7, <1>8, ReportsAdded

(* A set of places without a gap after lo is the first Cardinality(settled). *)
LEMMA SettledPrefix ==
  ASSUME NEW lo \in Nat, NEW len \in Nat, lo <= len + 1,
         NEW settled, settled \subseteq lo..len, \A i \in settled : lo..i \subseteq settled
  PROVE  /\ Cardinality(settled) \in Nat
         /\ lo + Cardinality(settled) <= len + 1
         /\ settled = lo..lo + Cardinality(settled) - 1
<1> DEFINE k == Cardinality(settled)
<1>1. settled \in SUBSET (lo..len)
  OBVIOUS
<1>2. IsFiniteSet(lo..len) /\ Cardinality(lo..len) = IF lo > len THEN 0 ELSE len - lo + 1
  BY FS_Interval
<1>3. IsFiniteSet(settled) /\ k <= Cardinality(lo..len)
  BY <1>1, <1>2, FS_Subset
<1>4. k \in Nat
  BY <1>3, FS_CardinalityType
<1>5. k <= len - lo + 1
  BY <1>2, <1>3, <1>4
<1>6. settled \in SUBSET (lo..lo + k - 1)
  <2> SUFFICES ASSUME NEW i \in settled, i >= lo + k PROVE FALSE
    <3> HIDE DEF k
    <3>1. settled \subseteq lo..len /\ k \in Nat
      BY <1>1, <1>4
    <3>2. \A i \in settled : ~(i >= lo + k) => i \in lo..lo + k - 1
      BY <3>1
    <3> QED BY <3>2
  <2>1. i \in lo..len /\ i \in Nat
    BY <1>1
  <2>2. lo..i \in SUBSET settled
    OBVIOUS
  <2>3. Cardinality(lo..i) = IF lo > i THEN 0 ELSE i - lo + 1
    BY <2>1, FS_Interval
  <2>4. Cardinality(lo..i) <= k
    BY <1>3, <2>2, FS_Subset
  <2> HIDE DEF k
  <2> QED BY <1>4, <2>1, <2>3, <2>4
<1>7. Cardinality(lo..lo + k - 1) = k /\ IsFiniteSet(lo..lo + k - 1)
  <2> HIDE DEF k
  <2>1. lo + k - 1 \in Int
    BY <1>4
  <2>2. /\ IsFiniteSet(lo..lo + k - 1)
        /\ Cardinality(lo..lo + k - 1) =
             IF lo > lo + k - 1 THEN 0 ELSE (lo + k - 1) - lo + 1
    BY <2>1, FS_Interval
  <2> QED BY <1>4, <2>2
<1>8. settled = lo..lo + k - 1
  BY <1>6, <1>7, FS_Subset
<1> HIDE DEF k
<1>9. k \in Nat /\ lo + k <= len + 1 /\ settled = lo..lo + k - 1
  BY <1>4, <1>5, <1>8
<1> QED BY <1>9 DEF k


-----------------------------------------------------------------------------
(* The initial states, and one lemma for each step *)

LEMMA InitOK == Init => IInv
<1> SUFFICES ASSUME Init PROVE IInv
  OBVIOUS
<1> USE DEF Init
<1>1. info = <<>> /\ reports = <<>> /\ Len(<<>>) = 0
  OBVIOUS
<1>2. TypesOK
  <2>1. 0 \in 0..MaxSent /\ 0 \in 0..0 /\ {} \subseteq 1..0
    BY Sizes
  <2>2. info \in Seq(Fates \cup {"unknown"}) /\ reports \in Seq(Records)
    BY EmptySeq
  <2> QED BY <2>1, <2>2 DEF TypesOK
<1>3. NetOK /\ Disjoint
  BY DEF NetOK, Disjoint
<1>4. MarksOK
  BY <1>1 DEF MarksOK
<1>5. GoodIsReceived /\ ReportedOnce
  BY <1>1 DEF GoodIsReceived, ReportedOnce
<1>6. RecordsConsecutive
  BY <1>1, Sizes DEF RecordsConsecutive
<1> QED BY <1>2, <1>3, <1>4, <1>5, <1>6 DEF IInv, NeverNackedTwice

(* What the client was told of does not change when a packet is sent. *)
LEMMA NetStays ==
  ASSUME TypesOK, NetOK, Disjoint, net' = net, told' = told, got \subseteq got',
         \A n \in got' : n \in got \/ n > told
  PROVE  NetOK' /\ Disjoint'
<1>1. NetOK'
  <2> SUFFICES ASSUME NEW ack \in net
               PROVE  \E first, last, nacks : IsFeedback(ack, first, last, nacks)'
    BY DEF NetOK
  <2>1. PICK first, last, nacks : IsFeedback(ack, first, last, nacks)
    BY DEF NetOK
  <2>2. told' \in Nat /\ told <= told'
    BY DEF TypesOK
  <2>3. IsFeedback(ack, first, last, nacks)'
    BY <2>1, <2>2, FeedbackStays
  <2> QED BY <2>3
<1>2. Disjoint'
  BY DEF Disjoint
<1> QED BY <1>1, <1>2

LEMMA PushPktStatusOK ==
  ASSUME IInv, NEW arrives \in BOOLEAN, PushPktStatus(arrives)
  PROVE  IInv'
<1> USE DEF IInv
<1>1. /\ sent' = sent + 1 /\ sent < MaxSent /\ sent \in Int /\ 0 <= sent /\ sent' \in Int
      /\ told \in Int /\ 0 <= told /\ told <= sent
      /\ told' = told /\ net' = net /\ UNCHANGED feedbackVars
      /\ base \in Int /\ 0 <= base /\ base <= sent
      /\ info \in Seq(Fates \cup {"unknown"}) /\ Len(info) \in Nat /\ base + Len(info) = sent
  BY LenProperties, Sizes DEF PushPktStatus, TypesOK, RecordsConsecutive
<1>2. got \subseteq got' /\ got' \subseteq got \cup {sent'} /\ got \subseteq 1..sent
  BY DEF PushPktStatus, TypesOK
<1>3. got' \subseteq 1..sent' /\ \A n \in got' : n \in got \/ n > told
  BY <1>1, <1>2
<1>4. NetOK' /\ Disjoint'
  BY <1>1, <1>2, <1>3, NetStays
<1>5. handled' \subseteq net' /\ repeated' \in BOOLEAN /\ aborted' \in BOOLEAN
      /\ NeverNackedTwice'
  BY <1>1 DEF TypesOK, feedbackVars, NeverNackedTwice
<1>6. \A ack : Stretch(ack)' = Stretch(ack)
  BY DEF Stretch, LastOf, NumOf
<1>7. CASE Full
  <2>1. reports' = reports \o AllBad /\ base' = sent /\ info' = <<"unknown">>
    BY <1>7 DEF PushPktStatus
  <2>2. /\ reports' \in Seq(Records) /\ GoodIsReceived' /\ ReportedOnce'
        /\ \A i \in 1..Len(reports') : reports'[i].n <= base'
    BY <1>2, <2>1, AllGivenUp
  <2>3. info' \in Seq(Fates \cup {"unknown"}) /\ Len(info') = 1 /\ info'[1] = "unknown"
    BY <2>1
  <2>4. TypesOK'
    BY <1>1, <1>3, <1>5, <2>1, <2>2, <2>3, Sizes DEF TypesOK
  <2>5. RecordsConsecutive'
    BY <1>1, <2>1, <2>2, <2>3, Sizes DEF RecordsConsecutive
  <2>6. MarksOK'
    BY <2>3 DEF MarksOK
  <2> QED BY <1>4, <1>5, <2>2, <2>4, <2>5, <2>6
<1>8. CASE ~Full
  <2>1. info' = Append(info, "unknown") /\ base' = base /\ reports' = reports
    BY <1>8 DEF PushPktStatus
  <2>2. /\ info' \in Seq(Fates \cup {"unknown"}) /\ Len(info') = Len(info) + 1
        /\ \A i \in 1..Len(info) : info'[i] = info[i]
        /\ info'[Len(info) + 1] = "unknown"
    BY <1>1, <2>1, AppendProperties
  <2>3. TypesOK'
    BY <1>1, <1>3, <1>5, <2>1, <2>2, Sizes DEF TypesOK
  <2>4. RecordsConsecutive'
    <3>1. Len(info) < MaxBufSize
      BY <1>1, <1>8, Sizes DEF Full
    <3> QED BY <1>1, <2>1, <2>2, <3>1, Sizes DEF RecordsConsecutive
  <2>5. GoodIsReceived' /\ ReportedOnce'
    BY <1>2, <2>1 DEF GoodIsReceived, ReportedOnce
  <2>6. MarksOK'
    <3> SUFFICES ASSUME NEW i \in 1..Len(info')
                 PROVE  /\ info'[i] = "good" => base' + i \in got'
                        /\ info'[i] = "bad" => base' + i \notin got'
                        /\ info'[i] # "unknown" =>
                             \E ack \in handled' : base' + i \in Stretch(ack)'
      BY DEF MarksOK
    <3>1. CASE i = Len(info) + 1
      BY <2>2, <3>1
    <3>2. CASE i # Len(info) + 1
      <4>1. i \in 1..Len(info) /\ info'[i] = info[i]
        BY <1>1, <2>2, <3>2
      <4>2. base + i # sent'
        BY <1>1, <4>1
      <4> QED BY <1>1, <1>2, <1>6, <2>1, <4>1, <4>2 DEF MarksOK, feedbackVars
    <3> QED BY <3>1, <3>2
  <2> QED BY <1>4, <1>5, <2>3, <2>4, <2>5, <2>6
<1> QED BY <1>7, <1>8

LEMMA ClearPktStatusOK ==
  ASSUME IInv, ClearPktStatus
  PROVE  IInv'
<1> USE DEF IInv
<1>1. /\ sent' = sent /\ got' = got /\ told' = told /\ net' = net /\ UNCHANGED feedbackVars
      /\ reports' = reports \o AllBad /\ base' = sent /\ info' = <<>>
  BY DEF ClearPktStatus
<1>2. \A n \in got' : n \in got \/ n > told
  BY <1>1
<1>3. NetOK' /\ Disjoint'
  BY <1>1, <1>2, NetStays
<1>4. /\ reports' \in Seq(Records) /\ GoodIsReceived' /\ ReportedOnce'
      /\ \A i \in 1..Len(reports') : reports'[i].n <= base'
  BY <1>1, AllGivenUp
<1>5. info' \in Seq(Fates \cup {"unknown"}) /\ Len(info') = 0
  BY <1>1
<1>6. TypesOK'
  BY <1>1, <1>4, <1>5, Sizes DEF TypesOK, feedbackVars
<1>7. RecordsConsecutive'
  BY <1>1, <1>4, <1>5, Sizes DEF RecordsConsecutive, TypesOK
<1>8. MarksOK'
  BY <1>5 DEF MarksOK
<1>9. NeverNackedTwice'
  BY <1>1 DEF NeverNackedTwice, feedbackVars
<1> QED BY <1>3, <1>4, <1>6, <1>7, <1>8, <1>9

LEMMA SendAckOK ==
  ASSUME IInv, NEW last \in 1..MaxSent, SendAck(last)
  PROVE  IInv'
<1> USE DEF IInv
<1>1. PICK nacks \in SeqOf(told + 1 .. last, AckWindow) :
        /\ last \in told + 1 .. sent
        /\ Lists(nacks, (told + 1 .. last) \ got)
        /\ net' = net \cup {Feedback(told + 1, last, nacks)}
        /\ told' = last
        /\ UNCHANGED <<sent, got, base, info, reports, feedbackVars>>
  BY DEF SendAck
<1> PICK next, new : next = told + 1 /\ new = Feedback(told + 1, last, nacks)
  OBVIOUS
<1>2. /\ sent' = sent /\ got' = got /\ base' = base /\ info' = info /\ reports' = reports
      /\ handled' = handled /\ repeated' = repeated /\ aborted' = aborted
  BY <1>1 DEF feedbackVars
<1>3. /\ told \in Int /\ 0 <= told /\ told < last /\ last <= sent /\ sent <= MaxSent
      /\ sent \in Int /\ last \in Int
  BY <1>1, Sizes DEF TypesOK
<1>4. TypesOK'
  BY <1>1, <1>2, <1>3 DEF TypesOK
<1>5. nacks \in Seq(told + 1 .. last)
  <2>1. PICK m \in 0..AckWindow : nacks \in [1..m -> told + 1 .. last]
    BY <1>1 DEF SeqOf
  <2>2. m \in Nat
    BY <2>1, RawFeedbackAssumption
  <2> QED BY <2>1, <2>2, SeqOfLength
<1>6. IsFeedback(new, next, last, nacks)'
  <2>1. next \in Pkts /\ last \in Pkts /\ next <= last /\ last <= told'
    BY <1>1, <1>3, Sizes DEF Pkts
  <2>2. Lists(nacks, (next..last) \ got')
    BY <1>1, <1>2
  <2>3. IsFeedback(new, next, last, nacks)' <=>
          /\ next \in Pkts /\ last \in Pkts /\ next <= last /\ last <= told'
          /\ nacks \in Seq(next..last)
          /\ Lists(nacks, (next..last) \ got')
          /\ new = Feedback(next, last, nacks)
    BY DEF IsFeedback
  <2> QED BY <1>5, <2>1, <2>2, <2>3
<1>7. ASSUME NEW ack \in net
      PROVE  \E first, l, ns : /\ IsFeedback(ack, first, l, ns)
                               /\ IsFeedback(ack, first, l, ns)'
  <2>1. PICK first, l, ns : IsFeedback(ack, first, l, ns)
    BY DEF NetOK
  <2>2. told' \in Nat /\ told <= told'
    BY <1>1, <1>3
  <2>3. IsFeedback(ack, first, l, ns)'
    BY <1>2, <2>1, <2>2, FeedbackStays
  <2> QED BY <2>1, <2>3
<1>8. NetOK'
  <2> SUFFICES ASSUME NEW ack \in net' PROVE \E first, l, ns : IsFeedback(ack, first, l, ns)'
    BY DEF NetOK
  <2>1. ack \in net \/ ack = new
    BY <1>1
  <2> QED BY <1>6, <1>7, <2>1
<1>9. ASSUME NEW ack \in net
      PROVE  Stretch(ack) \cap Stretch(new) = {}
  <2>1. PICK first, l, ns : IsFeedback(ack, first, l, ns)
    BY DEF NetOK
  <2>2. Stretch(ack) = first..l /\ l <= told /\ l \in Int /\ first \in Int
    BY <2>1, FeedbackAbout DEF IsFeedback, Pkts
  <2>3. Stretch(new) = told + 1 .. last
    <3>1. /\ told + 1 \in Pkts /\ last \in Pkts /\ told + 1 <= last
      BY <1>3, Sizes DEF Pkts
    <3>2. /\ new.end = RawSeq(last)
          /\ new.num = IF last - (told + 1) + 1 < RelSpace THEN last - (told + 1) + 1 ELSE 0
      BY <3>1, NumWraps DEF Feedback
    <3>3. (RawSeq(last) - FirstSeq) % SeqSpace = last - 1
      BY <3>1, RawSeqBack
    <3>4. LastOf(new) = last
      BY <3>2, <3>3, <1>3 DEF LastOf
    <3>5. NumOf(new) = last - (told + 1) + 1
      BY <3>1, <3>2, <1>3, Sizes DEF NumOf
    <3> QED BY <3>4, <3>5, <1>3 DEF Stretch
  <2> QED BY <1>3, <2>2, <2>3
<1>10. Disjoint'
  <2>1. net' = net \cup {new}
    BY <1>1
  <2> SUFFICES ASSUME NEW a \in net', NEW b \in net', a # b
               PROVE  Stretch(a) \cap Stretch(b) = {}
    BY DEF Disjoint, Stretch, LastOf, NumOf
  <2> QED BY <1>9, <2>1 DEF Disjoint
<1>11. MarksOK'
  BY <1>2 DEF MarksOK, Stretch, LastOf, NumOf
<1>12. GoodIsReceived' /\ ReportedOnce' /\ RecordsConsecutive' /\ NeverNackedTwice'
  BY <1>2 DEF GoodIsReceived, ReportedOnce, RecordsConsecutive, NeverNackedTwice
<1> QED BY <1>4, <1>8, <1>10, <1>11, <1>12

LEMMA PopPktStatusOK ==
  ASSUME IInv, NEW ack \in net, PopPktStatus(ack)
  PROVE  IInv'
<1> USE DEF IInv
<1>1. /\ sent' = sent /\ got' = got /\ told' = told /\ net' = net
      /\ handled' = handled \cup {ack} /\ repeated' = (repeated \/ ack \in handled)
      /\ ~aborted
  BY DEF PopPktStatus
<1>2. \A n \in got' : n \in got \/ n > told
  BY <1>1
<1>3. NetOK' /\ Disjoint'
  BY <1>1, <1>2, NetStays
<1>4. /\ sent \in Int /\ base \in Int /\ 0 <= base /\ base <= sent /\ sent <= MaxSent
      /\ Len(info) \in Nat /\ base + Len(info) = sent
  BY LenProperties, Sizes DEF TypesOK, RecordsConsecutive
<1>5. CASE MarkedBefore(ack)
  <2>1. aborted' = TRUE /\ base' = base /\ info' = info /\ reports' = reports
    BY <1>5 DEF PopPktStatus
  <2>2. repeated' = TRUE
    BY <1>1, <1>5, MarkedOnlyAgain
  <2>3. TypesOK'
    BY <1>1, <2>1, <2>2 DEF TypesOK
  <2>4. MarksOK'
    BY <1>1, <2>1 DEF MarksOK, Stretch, LastOf, NumOf
  <2>5. GoodIsReceived' /\ ReportedOnce' /\ RecordsConsecutive' /\ NeverNackedTwice'
    BY <1>1, <2>1, <2>2
    DEF GoodIsReceived, ReportedOnce, RecordsConsecutive, NeverNackedTwice
  <2> QED BY <1>3, <2>3, <2>4, <2>5
<1>6. CASE ~MarkedBefore(ack)
  <2> DEFINE marked == PushPkts(ack)
             lo == IF AllFound(ack) THEN GetInd(BeginSeq(ack)) ELSE 1
             settled == {i \in lo..Len(info) : \A j \in lo..i : marked[j] \in Fates}
             k == Cardinality(settled)
             added == [j \in 1..k |-> [n |-> base + lo + j - 1, fate |-> marked[lo + j - 1]]]
  <2>1. /\ reports' = reports \o added
        /\ info' = SubSeq(marked, lo + k, Len(info))
        /\ base' = base + (lo + k) - 1
        /\ aborted' = aborted
    BY <1>6 DEF PopPktStatus, FirstLeft
  <2>2. PICK first, last, nacks : IsFeedback(ack, first, last, nacks)
    BY DEF NetOK
  <2>3. /\ marked \in Seq(Fates \cup {"unknown"}) /\ Len(marked) = Len(info)
        /\ \A i \in 1..Len(info) :
             /\ marked[i] = "good" => base + i \in got
             /\ marked[i] = "bad" => base + i \notin got
             /\ marked[i] # "unknown" => info[i] # "unknown" \/ base + i \in Stretch(ack)
    <3>1. Stretch(ack) = first..last
      BY <2>2, FeedbackAbout
    <3>2. /\ PushPkts(ack) \in Seq(Fates \cup {"unknown"})
          /\ Len(PushPkts(ack)) = Len(info)
          /\ \A i \in 1..Len(info) :
               /\ PushPkts(ack)[i] = "good" => base + i \in got
               /\ PushPkts(ack)[i] = "bad" => base + i \notin got
               /\ PushPkts(ack)[i] # "unknown" =>
                    info[i] # "unknown" \/ base + i \in first..last
      BY <2>2, Marked
    <3> QED BY <3>1, <3>2
  <2>4. lo \in Nat /\ 1 <= lo /\ lo <= Len(info) + 1
    BY <1>4, <2>2, StretchFound
  <2> HIDE DEF marked, lo
  <2>5. /\ k \in Nat /\ lo + k <= Len(info) + 1
        /\ settled = lo..lo + k - 1
    <3>1. Len(info) \in Nat
      BY <1>4
    <3>2. settled \subseteq lo..Len(info) /\ \A i \in settled : lo..i \subseteq settled
      <4>1. settled \subseteq lo..Len(info)
        OBVIOUS
      <4>2. ASSUME NEW i \in settled, NEW j \in lo..i PROVE j \in settled
        <5>1. i \in lo..Len(info) /\ \A m \in lo..i : marked[m] \in Fates
          OBVIOUS
        <5>2. j \in lo..Len(info) /\ \A m \in lo..j : m \in lo..i
          BY <1>4, <2>4, <5>1
        <5> QED BY <5>1, <5>2
      <4> QED BY <4>1, <4>2
    <3> HIDE DEF settled
    <3>3. lo \in Nat /\ lo <= Len(info) + 1
      BY <2>4
    <3> QED BY <3>1, <3>2, <3>3, SettledPrefix
  <2>6. \A j \in lo..lo + k - 1 : j \in 1..Len(info) /\ marked[j] \in Fates
    <3>1. \A j \in settled : j \in lo..Len(info) /\ marked[j] \in Fates
      <4> SUFFICES ASSUME NEW j \in settled PROVE j \in lo..Len(info) /\ marked[j] \in Fates
        OBVIOUS
      <4>1. j \in lo..Len(info) /\ j \in lo..j
        BY <2>4
      <4> QED BY <4>1
    <3> HIDE DEF settled, k
    <3> QED BY <1>4, <2>4, <2>5, <3>1
  <2> HIDE DEF settled, k
  <2>7. ASSUME NEW j \in 1..k
        PROVE  /\ lo + j - 1 \in lo..lo + k - 1
               /\ added[j].n = base + (lo + j - 1) /\ added[j].fate = marked[lo + j - 1]
               /\ added[j].fate \in Fates
    <3>1. lo + j - 1 \in lo..lo + k - 1
      BY <2>4, <2>5
    <3>2. base + lo + j - 1 = base + (lo + j - 1)
      BY <1>4, <2>4
    <3> QED BY <2>6, <3>1, <3>2
  <2>8. added \in Seq(Records) /\ Len(added) = k
    <3>1. \A j \in 1..k : [n |-> base + lo + j - 1, fate |-> marked[lo + j - 1]] \in Records
      <4> SUFFICES ASSUME NEW j \in 1..k
                   PROVE  base + lo + j - 1 \in Pkts /\ marked[lo + j - 1] \in Fates
        BY DEF Records
      <4>1. lo + j - 1 \in 1..Len(info) /\ marked[lo + j - 1] \in Fates
        BY <2>6, <2>7
      <4>2. base + lo + j - 1 = base + (lo + j - 1)
        BY <1>4, <2>4
      <4>3. base + (lo + j - 1) \in Pkts
        <5> DEFINE p == lo + j - 1
        <5>1. p \in Int /\ 1 <= p /\ p <= Len(info)
          BY <1>4, <4>1
        <5> HIDE DEF p
        <5>2. base + p \in 1..MaxSent
          BY <1>4, <5>1, Sizes
        <5> QED BY <5>2 DEF p, Pkts
      <4> QED BY <4>1, <4>2, <4>3
    <3>2. added \in [1..k -> Records]
      BY <3>1
    <3> QED BY <2>5, <3>2, SeqOfLength
  <2>9. base' \in Int /\ base <= base' /\ base' <= sent
    BY <1>4, <2>1, <2>4, <2>5
  <2>10. \A j \in 1..Len(added) : /\ base < added[j].n /\ added[j].n <= base'
                                  /\ added[j].fate = "good" => added[j].n \in got'
    <3> SUFFICES ASSUME NEW j \in 1..k
                 PROVE  /\ base < added[j].n /\ added[j].n <= base'
                        /\ added[j].fate = "good" => added[j].n \in got'
      BY <2>8
    <3>1. lo + j - 1 \in 1..Len(info) /\ lo + j - 1 \in lo..lo + k - 1
      BY <2>6, <2>7
    <3>2. added[j].n = base + (lo + j - 1) /\ added[j].fate = marked[lo + j - 1]
      BY <2>7
    <3> HIDE DEF added
    <3>3. base < added[j].n /\ added[j].n <= base'
      <4> DEFINE p == lo + j - 1
      <4>1. base' = base + (lo + k) - 1 /\ added[j].n = base + p
        BY <2>1, <3>2
      <4>2. p \in Int /\ 1 <= p /\ p <= lo + k - 1
        BY <1>4, <2>4, <2>5, <3>1
      <4>3. base \in Int /\ lo \in Int /\ k \in Int
        BY <1>4, <2>4, <2>5
      <4> HIDE DEF p, k
      <4> QED BY <4>1, <4>2, <4>3
    <3>4. added[j].fate = "good" => added[j].n \in got'
      BY <1>1, <2>3, <3>1, <3>2
    <3> QED BY <3>3, <3>4
  <2>11. \A i, j \in 1..Len(added) : i < j => added[i].n < added[j].n
    <3> SUFFICES ASSUME NEW i \in 1..k, NEW j \in 1..k, i < j PROVE added[i].n < added[j].n
      BY <2>8
    <3>1. added[i].n = base + (lo + i - 1) /\ added[j].n = base + (lo + j - 1)
      BY <2>7
    <3> HIDE DEF added
    <3> QED BY <1>4, <2>4, <2>5, <3>1
  <2> HIDE DEF added
  <2>12. /\ reports' \in Seq(Records) /\ GoodIsReceived' /\ ReportedOnce'
         /\ \A i \in 1..Len(reports') : reports'[i].n <= base'
    <3>1. got \subseteq got'
      BY <1>1
    <3> QED BY <2>1, <2>8, <2>9, <2>10, <2>11, <3>1, ReportsAdded
  <2>13. /\ info' \in Seq(Fates \cup {"unknown"})
         /\ Len(info') = Len(info) - (lo + k) + 1
         /\ \A i \in 1..Len(info') : info'[i] = marked[lo + k + i - 1]
                                     /\ lo + k + i - 1 \in 1..Len(info)
    <3> DEFINE m == lo + k
    <3>1. m \in Int /\ Len(info) \in Int /\ 1 <= m /\ m <= Len(info) + 1
      BY <1>4, <2>4, <2>5
    <3>2. info' = SubSeq(marked, m, Len(info))
      BY <2>1
    <3>3. \A i \in m..Len(info) : marked[i] \in Fates \cup {"unknown"}
      BY <2>3, <3>1, ElementOfSeq
    <3> HIDE DEF m
    <3>4. /\ SubSeq(marked, m, Len(info)) \in Seq(Fates \cup {"unknown"})
          /\ Len(SubSeq(marked, m, Len(info))) =
               IF m <= Len(info) THEN Len(info) - m + 1 ELSE 0
          /\ \A i \in 1..Len(info) - m + 1 :
               SubSeq(marked, m, Len(info))[i] = marked[m + i - 1]
      BY <3>1, <3>3, SubSeqProperties
    <3>5. Len(info') = Len(info) - m + 1
      BY <3>1, <3>2, <3>4
    <3>6. \A i \in 1..Len(info') : info'[i] = marked[m + i - 1] /\ m + i - 1 \in 1..Len(info)
      BY <3>1, <3>2, <3>4, <3>5
    <3> QED BY <3>2, <3>4, <3>5, <3>6 DEF m
  <2>14. TypesOK'
    <3>1. base' \in 0..sent'
      BY <1>1, <1>4, <2>9
    <3> QED BY <1>1, <2>1, <2>12, <2>13, <3>1 DEF TypesOK
  <2>15. RecordsConsecutive'
    <3>1. base' + Len(info') = sent'
      <4>1. base' = base + (lo + k) - 1 /\ Len(info') = Len(info) - (lo + k) + 1
        BY <2>1, <2>13
      <4>2. lo + k \in Int /\ Len(info) \in Int /\ base \in Int /\ base + Len(info) = sent
        BY <1>4, <2>4, <2>5
      <4> QED BY <1>1, <4>1, <4>2
    <3>2. Len(info') <= MaxBufSize
      BY <1>4, <2>4, <2>5, <2>13, Sizes DEF RecordsConsecutive
    <3> QED BY <2>12, <3>1, <3>2 DEF RecordsConsecutive
  <2>16. MarksOK'
    <3> SUFFICES ASSUME NEW i \in 1..Len(info')
                 PROVE  /\ info'[i] = "good" => base' + i \in got'
                        /\ info'[i] = "bad" => base' + i \notin got'
                        /\ info'[i] # "unknown" =>
                             \E a \in handled' : base' + i \in Stretch(a)'
      BY DEF MarksOK
    <3> DEFINE p == lo + k + i - 1
    <3>1. info'[i] = marked[p] /\ p \in 1..Len(info)
      BY <2>13
    <3>2. base' + i = base + p
      BY <1>4, <2>1, <2>4, <2>5, <2>13
    <3> HIDE DEF p
    <3>3. /\ info'[i] = "good" => base' + i \in got'
          /\ info'[i] = "bad" => base' + i \notin got'
      BY <1>1, <2>3, <3>1, <3>2
    <3>4. info'[i] # "unknown" => \E a \in handled' : base' + i \in Stretch(a)
      BY <1>1, <2>3, <3>1, <3>2 DEF MarksOK
    <3> QED BY <3>3, <3>4 DEF Stretch, LastOf, NumOf
  <2>17. NeverNackedTwice'
    BY <1>1, <2>1 DEF NeverNackedTwice
  <2> QED BY <1>3, <2>12, <2>14, <2>15, <2>16, <2>17
<1> QED BY <1>5, <1>6

LEMMA StutterOK ==
  ASSUME IInv, UNCHANGED vars
  PROVE  IInv'
<1> USE DEF vars, IInv
<1>1. TypesOK'
  BY DEF TypesOK
<1>2. NetOK' /\ Disjoint'
  BY DEF NetOK, IsFeedback, Disjoint
<1>3. MarksOK'
  BY DEF MarksOK
<1>4. GoodIsReceived' /\ ReportedOnce' /\ RecordsConsecutive' /\ NeverNackedTwice'
  BY DEF GoodIsReceived, ReportedOnce, RecordsConsecutive, NeverNackedTwice
<1> QED BY <1>1, <1>2, <1>3, <1>4

-----------------------------------------------------------------------------
(* The theorems *)

(* The inductive invariant: the records are of the packets after base, a   *)
(* mark on one says what became of its packet and was told by an AckPkt    *)
(* that was handled, and no two AckPkts tell of the same packet.           *)
THEOREM Invariance == Spec => []IInv
<1>1. IInv /\ [Next]_vars => IInv'
  <2> SUFFICES ASSUME IInv, [Next]_vars PROVE IInv'
    OBVIOUS
  <2>1. ASSUME NEW arrives \in BOOLEAN, PushPktStatus(arrives) PROVE IInv'
    BY <2>1, PushPktStatusOK
  <2>2. ASSUME NEW last \in 1..MaxSent, SendAck(last) PROVE IInv'
    BY <2>2, SendAckOK
  <2>3. ASSUME NEW ack \in net, PopPktStatus(ack) PROVE IInv'
    BY <2>3, PopPktStatusOK
  <2>4. CASE ClearPktStatus
    BY <2>4, ClearPktStatusOK
  <2>5. CASE UNCHANGED vars
    BY <2>5, StutterOK
  <2> QED BY <2>1, <2>2, <2>3, <2>4, <2>5 DEF Next
<1> QED BY <1>1, InitOK, PTL DEF Spec

(* A packet TxRawBuf reports as good was received, whatever feedback was   *)
(* lost, repeated or overtaken.                                            *)
THEOREM GoodIsReceivedHolds == Spec => []GoodIsReceived
<1>1. IInv => GoodIsReceived
  BY DEF IInv
<1> QED BY <1>1, Invariance, PTL

(* PushPkts marks only records of packets that were lost. *)
THEOREM NackedIsLostHolds == Spec => []NackedIsLost
<1>1. IInv => NackedIsLost
  BY DEF IInv, MarksOK, NackedIsLost
<1> QED BY <1>1, Invariance, PTL

(* PopPktStatus and ClearPktStatus report no packet twice, and in order. *)
THEOREM ReportedOnceHolds == Spec => []ReportedOnce
<1>1. IInv => ReportedOnce
  BY DEF IInv
<1> QED BY <1>1, Invariance, PTL

(* GetInd may count: the records are of the consecutive packets not        *)
(* reported, and there are never more than max_buf_size_.                  *)
THEOREM RecordsConsecutiveHolds == Spec => []RecordsConsecutive
<1>1. IInv => RecordsConsecutive
  BY DEF IInv
<1> QED BY <1>1, Invariance, PTL

(* The assertion of PushPkts fails only when an AckPkt is handled again. *)
THEOREM NeverNackedTwiceHolds == Spec => []NeverNackedTwice
<1>1. IInv => NeverNackedTwice
  BY DEF IInv
<1> QED BY <1>1, Invariance, PTL

=============================================================================
