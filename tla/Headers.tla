------------------------------- MODULE Headers -------------------------------
(***************************************************************************)
(* The headers of the packets between base stations and clients            *)
(* (wspace_asym_util.h/.cc): what the sender sets and the receiver reads.  *)
(* An operator that ends in Stops says when an assertion, or Perror, stops *)
(* the program.                                                            *)
(***************************************************************************)
EXTENDS Integers

CONSTANTS
  ByteSpace,     (* 2^8, the range of ind_, k_ and n_                        *)
  MaxBatchSize,  (* MAX_BATCH_SIZE                                           *)
  MaxDataLen     (* PKT_SIZE - ATH_DATA_HEADER_SIZE                          *)

ASSUME HeaderAssumption ==
  /\ MaxBatchSize \in Nat /\ ByteSpace \in Nat /\ MaxBatchSize < ByteSpace
  /\ MaxDataLen \in Nat

-----------------------------------------------------------------------------
(* Rates, in 100 kbps: mac80211abg_rate and the codes of ath5k *)

Rates == {10, 20, 55, 60, 90, 110, 120, 180, 240, 360, 480, 540}

(* The cases of SetRate and GetRate: a rate and its ATH5K_RATE_CODE. *)
RateCodes ==
  { <<10, 27>>, <<20, 26>>, <<55, 25>>, <<110, 24>>,
    <<60, 11>>, <<90, 15>>, <<120, 10>>, <<180, 14>>,
    <<240, 9>>, <<360, 13>>, <<480, 8>>, <<540, 12>> }

HasCode(rate) == \E e \in RateCodes : e[1] = rate

(* SetRate and GetRate *)
CodeOf(rate) == (CHOOSE e \in RateCodes : e[1] = rate)[2]
RateOf(code) == (CHOOSE e \in RateCodes : e[2] = code)[1]

-----------------------------------------------------------------------------
(* AthDataHeader *)

SetAthHdrStops(len, rate) == len > MaxDataLen \/ ~HasCode(rate)

SetAthHdr(seq, len, rate) ==
  [type |-> "ATH_DATA", seq |-> seq, len |-> len, rate |-> CodeOf(rate)]

ParseAthHdrStops(h) == h.type # "ATH_DATA" \/ h.len > MaxDataLen

(* The receiver gets the code of the rate. *)
ParseAthHdr(h) == [seq |-> h.seq, len |-> h.len, code |-> h.rate]

-----------------------------------------------------------------------------
(* AthCodeHeader: the ind-th of n packets that encode the k packets of a   *)
(* batch.  Its three counts are bytes.                                     *)

SetHeaderStops(rawSeq, batchId, startSeq, ind, k, n) ==
  ~(rawSeq > 0 /\ batchId > 0 /\ startSeq > 0 /\ ind \in 0..n - 1 /\ k \in 0..n)

SetHeader(rawSeq, batchId, startSeq, type, ind, k, n) ==
  [type |-> type, rawSeq |-> rawSeq, batchId |-> batchId, startSeq |-> startSeq,
   ind |-> ind % ByteSpace, k |-> k % ByteSpace, n |-> n % ByteSpace]

(* Mutant: the size of the batch is not checked. *)
StopsUnlessInside(h) == h.ind >= h.n \/ h.k > h.n

ParseHeaderStops(h) ==
  \/ h.type # "ATH_CODE"
  \/ h.batchId = 0 \/ h.startSeq = 0
  \/ h.ind >= h.n \/ h.k \notin 1..h.n \/ h.k > MaxBatchSize

ParseHeader(h) ==
  [batchId |-> h.batchId, startSeq |-> h.startSeq, ind |-> h.ind, k |-> h.k, n |-> h.n]

-----------------------------------------------------------------------------
(* What they promise *)

(* Every rate of mac80211abg_rate can be sent, and is the one the receiver *)
(* gets back with GetRate, with the number and the length of the packet.   *)
DataReadBack(seq, len, rate) ==
  LET h == SetAthHdr(seq, len, rate)
      p == ParseAthHdr(h)
  IN
  /\ SetAthHdrStops(len, rate) <=> len > MaxDataLen
  /\ SetAthHdrStops(len, rate) <=> ParseAthHdrStops(h)
  /\ p.seq = seq /\ p.len = len /\ RateOf(p.code) = rate

(* As long as n fits into a byte, the receiver reads what SetHeader took,  *)
(* or stops, exactly for a batch not of 1 to MAX_BATCH_SIZE packets.  (For *)
(* a larger n it may read other values.)                                   *)
CodeReadBack(rawSeq, batchId, startSeq, ind, k, n) ==
  LET h == SetHeader(rawSeq, batchId, startSeq, "ATH_CODE", ind, k, n) IN
  ~SetHeaderStops(rawSeq, batchId, startSeq, ind, k, n) /\ n < ByteSpace =>
    IF k \in 1..MaxBatchSize
    THEN /\ ~ParseHeaderStops(h)
         /\ ParseHeader(h) = [batchId |-> batchId, startSeq |-> startSeq,
                              ind |-> ind, k |-> k, n |-> n]
    ELSE ParseHeaderStops(h)

=============================================================================
