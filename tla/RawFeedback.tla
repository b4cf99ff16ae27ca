----------------------------- MODULE RawFeedback -----------------------------
(***************************************************************************)
(* How a base station learns which of its raw packets arrived              *)
(* (wspace_asym_util.h/.cc): TxRawBuf, the records of packets whose fate   *)
(* is not known, and AckPkt, the feedback of a client that settles them.   *)
(*                                                                         *)
(*   - The sender (TxSendAth) adds a record for each packet it sends.      *)
(*   - The client tells of one stretch of packets after the other which    *)
(*     were lost.  Its datagrams come late, repeated or never.             *)
(*   - The feedback handler takes the fates of an AckPkt, or gives all     *)
(*     packets up after a timeout.                                         *)
(*                                                                         *)
(* Sender, client and handler are other programs that share these classes; *)
(* their part is what the comments of the classes say of it.  Each method  *)
(* of TxRawBuf holds lock_ throughout and is one step.  The packets are    *)
(* counted 1, 2, ... here; their numbers on the air wrap.                  *)
(***************************************************************************)
EXTENDS Integers, Sequences, FiniteSets, SequencesExt

CONSTANTS
  MaxBufSize,  (* max_buf_size_                                            *)
  AckWindow,   (* ACK_WINDOW, the nacks an AckPkt has room for             *)
  SeqSpace,    (* 2^32, the range of a sequence number                     *)
  RelSpace,    (* 2^16, the range of a number in rel_seq_arr_              *)
  FirstSeq,    (* the number of the first packet                           *)
  MaxSent      (* bound: packets that are sent                             *)

ASSUME RawFeedbackAssumption ==
  /\ MaxBufSize \in Nat \ {0}
  /\ AckWindow \in Nat \ {0}
  /\ RelSpace \in Nat \ {0} /\ SeqSpace \in Nat /\ SeqSpace >= 2 * RelSpace
  /\ FirstSeq \in 0..SeqSpace - 1
  /\ MaxSent \in Nat /\ MaxSent <= RelSpace

VARIABLES
  sent,     (* packets sent                                                *)
  got,      (* those that reached the client                               *)
  told,     (* packets the client has given feedback about                 *)
  net,      (* the AckPkts on their way; none is ever too late             *)
  base,     (* info_deq_ holds the packets after base ...                  *)
  info,     (* ... up to sent, with status_                                *)
  reports,  (* history: the fates handed to the caller in status_vec       *)
  handled,  (* history: the AckPkts handled ...                            *)
  repeated, (* ... and whether one was handled again                       *)
  aborted   (* an assertion stopped the program                            *)

vars == <<sent, got, told, net, base, info, reports, handled, repeated, aborted>>

feedbackVars == <<handled, repeated, aborted>>

Fates == {"bad", "good"}
RawSeq(n) == (FirstSeq + n - 1) % SeqSpace

-----------------------------------------------------------------------------
(* AckPkt *)

(* Mutant: only the packets in between are counted. *)
Between(seq, start) == ((seq - start - 1) % SeqSpace) % RelSpace

(* (uint16)(seq - start_nack_seq_) *)
Rel(seq, start) == ((seq - start) % SeqSpace) % RelSpace

(* rel_seq_arr_ after PushNack for each of the packets in nacks in turn;   *)
(* start_nack_seq_ is the number of the first.                             *)
PushNack(nacks) ==
  [i \in 1..Len(nacks) |-> IF i = 1 THEN 0 ELSE Rel(RawSeq(nacks[i]), RawSeq(nacks[1]))]

(* The nacked numbers: nack_seq_arr of ParseNack. *)
ParseNack(ack) ==
  [i \in 1..Len(ack.rels) |-> (ack.rels[i] + ack.start) % SeqSpace]

(* The feedback about the packets from first to last, with those in nacks  *)
(* lost; num_pkts_ is a uint16, as a relative number is.                   *)
Feedback(first, last, nacks) ==
  [end |-> RawSeq(last), num |-> (last - first + 1) % RelSpace,
   start |-> IF nacks = <<>> THEN 0 ELSE RawSeq(nacks[1]), rels |-> PushNack(nacks)]

(* nacks lists the numbers in lost, each once and in order. *)
Lists(nacks, lost) ==
  /\ Range(nacks) = lost
  /\ \A i, j \in 1..Len(nacks) : i < j => nacks[i] < nacks[j]

(* The client sends feedback about the next packets up to last. *)
SendAck(last) ==
  \E nacks \in SeqOf(told + 1 .. last, AckWindow) :
    /\ ~aborted
    /\ last \in told + 1 .. sent
    /\ Lists(nacks, (told + 1 .. last) \ got)
    /\ net' = net \cup {Feedback(told + 1, last, nacks)}
    /\ told' = last
    /\ UNCHANGED <<sent, got, base, info, reports, feedbackVars>>

-----------------------------------------------------------------------------
(* TxRawBuf *)

(* The place of number seq in info, 0 if it has none (GetInd's -1). *)
GetInd(seq) ==
  LET d == (seq - RawSeq(base + 1)) % SeqSpace IN
  IF d < Len(info) THEN d + 1 ELSE 0

(* What ClearPktStatus hands out: every record, as bad. *)
AllBad == [i \in 1..Len(info) |-> [n |-> base + i, fate |-> "bad"]]

(* Mutant: one record more than there is room for. *)
OverFull == Len(info) > MaxBufSize

Full == Len(info) >= MaxBufSize

(* A full buffer is given up before the record is added. *)
PushPktStatus(arrives) ==
  /\ ~aborted
  /\ sent < MaxSent
  /\ sent' = sent + 1
  /\ got' = IF arrives THEN got \cup {sent'} ELSE got
  /\ IF Full
     THEN /\ reports' = reports \o AllBad
          /\ base' = sent
          /\ info' = <<"unknown">>
     ELSE /\ info' = Append(info, "unknown")
          /\ UNCHANGED <<base, reports>>
  /\ UNCHANGED <<told, net, feedbackVars>>

(* After a timeout. *)
ClearPktStatus ==
  /\ ~aborted
  /\ reports' = reports \o AllBad
  /\ base' = sent
  /\ info' = <<>>
  /\ UNCHANGED <<sent, got, told, net, feedbackVars>>

(* The places of the nacks. *)
Places(ack) == [i \in 1..Len(ack.rels) |-> GetInd(ParseNack(ack)[i])]

(* PushPkts comes to the i-th nack: it returns at one that has no place. *)
Reached(ack, i) == \A k \in 1..i : Places(ack)[k] > 0

(* The places PushPkts marks bad. *)
Nacked(ack) == {Places(ack)[i] : i \in {j \in 1..Len(ack.rels) : Reached(ack, j)}}

(* A nack finds its record marked already. *)
MarkedBefore(ack) ==
  \E i \in 1..Len(ack.rels) :
    /\ Reached(ack, i)
    /\ \/ info[Places(ack)[i]] # "unknown"
       \/ \E k \in 1..i - 1 : Places(ack)[k] = Places(ack)[i]

(* Mutant: the stretch begins one packet early. *)
EarlyBegin(ack) == (ack.end - ack.num) % SeqSpace

BeginSeq(ack) == (ack.end - ack.num + 1) % SeqSpace

(* PushPkts comes to the good packets. *)
AllFound(ack) ==
  /\ Reached(ack, Len(ack.rels))
  /\ GetInd(BeginSeq(ack)) > 0 /\ GetInd(ack.end) > 0

(* PushPkts, without the erasing of packets before the first. *)
PushPkts(ack) ==
  [i \in 1..Len(info) |->
     IF i \in Nacked(ack) THEN "bad"
     ELSE IF /\ AllFound(ack) /\ info[i] = "unknown"
             /\ i \in GetInd(BeginSeq(ack))..GetInd(ack.end)
     THEN "good"
     ELSE info[i]]

(* Mutant: PopPktStatus does not erase what it hands out. *)
NothingErased(first, known) == first

(* The place of the first record PopPktStatus leaves, when those before    *)
(* first are erased and known is the number of settled ones that follow.   *)
FirstLeft(first, known) == first + known

(* PopPktStatus(end_seq, ...), the fates of an AckPkt. *)
PopPktStatus(ack) ==
  LET marked == PushPkts(ack)
      first == IF AllFound(ack) THEN GetInd(BeginSeq(ack)) ELSE 1
      settled == {i \in first..Len(info) : \A j \in first..i : marked[j] \in Fates}
      left == FirstLeft(first, Cardinality(settled))
  IN
  /\ ~aborted
  /\ ack \in net
  /\ handled' = handled \cup {ack}
  /\ repeated' = (repeated \/ ack \in handled)
  /\ IF MarkedBefore(ack)
     THEN /\ aborted' = TRUE
          /\ UNCHANGED <<base, info, reports>>
     ELSE /\ reports' = reports \o
               [k \in 1..Cardinality(settled) |->
                  [n |-> base + first + k - 1, fate |-> marked[first + k - 1]]]
          /\ info' = SubSeq(marked, left, Len(info))
          /\ base' = base + left - 1
          /\ UNCHANGED aborted
  /\ UNCHANGED <<sent, got, told, net>>

-----------------------------------------------------------------------------

Init ==
  /\ sent = 0 /\ got = {} /\ told = 0 /\ net = {}
  /\ base = 0 /\ info = <<>>
  /\ reports = <<>>
  /\ handled = {} /\ repeated = FALSE /\ aborted = FALSE

Next ==
  \/ \E arrives \in BOOLEAN : PushPktStatus(arrives)
  \/ \E last \in 1..MaxSent : SendAck(last)
  \/ \E ack \in net : PopPktStatus(ack)
  \/ ClearPktStatus

Spec == Init /\ [][Next]_vars

-----------------------------------------------------------------------------
(* Properties *)

(* A packet reported as good has reached the client, whatever feedback was *)
(* lost, repeated or overtaken and whenever the records were cleared.      *)
GoodIsReceived ==
  \A i \in 1..Len(reports) : reports[i].fate = "good" => reports[i].n \in got

(* A record marked bad by a nack is of a packet that was lost.             *)
NackedIsLost ==
  \A i \in 1..Len(info) : info[i] = "bad" => base + i \notin got

(* No packet is reported twice, and packets are reported in order.         *)
ReportedOnce ==
  \A i, j \in 1..Len(reports) : i < j => reports[i].n < reports[j].n

(* What GetInd counts on: the records are of consecutive packets up to the *)
(* one sent last, and none of them has been reported.                      *)
RecordsConsecutive ==
  /\ base + Len(info) = sent
  /\ Len(info) <= MaxBufSize
  /\ \A i \in 1..Len(reports) : reports[i].n <= base

(* assert(status_ == kUnknown) of PushPkts holds as long as no AckPkt is    *)
(* handled twice: no two nacks, of one AckPkt or of several, come to the   *)
(* same record, though records are erased and cleared in between.          *)
NeverNackedTwice == aborted => repeated

=============================================================================
