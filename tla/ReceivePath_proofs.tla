------------------------- MODULE ReceivePath_proofs -------------------------
(***************************************************************************)
(* The receive path for any messages, header size and limit, and wherever  *)
(* the DATA frames cut the stream: the parser stays aligned with the       *)
(* messages of the peer, which is why it delivers them all and in order.   *)
(* DATA that reaches a handler which has finished is left out (LateFrames):*)
(* there the parser may have lost its place.                               *)
(***************************************************************************)
EXTENDS ReceivePath, SequenceTheorems, TLAPS

-----------------------------------------------------------------------------
(* The byte stream of the peer.                                            *)

\* Each message ends a header and its payload behind the one before it.
PeerInv ==
    /\ sent \in Seq(Messages)
    /\ ends \in Seq(Nat) /\ Len(ends) = Len(sent)
    /\ \A k \in 1..Len(sent) : ends[k] = StreamEnd(k - 1) + HeaderSize + sent[k].size
    /\ \A i, j \in 0..Len(sent) : i < j => StreamEnd(i) < StreamEnd(j)

\* Where messages end, as numbers.
LEMMA PeerFacts ==
    ASSUME PeerInv
    PROVE  /\ Len(sent) \in Nat
           /\ \A k \in 0..Len(sent) : StreamEnd(k) \in Nat
           /\ \A k \in 1..Len(sent) : sent[k] \in Messages /\ sent[k].size \in Nat /\ StreamEnd(k) = ends[k]
<1>1. Len(sent) \in Nat
  BY DEF PeerInv
<1>2. \A k \in 1..Len(sent) : sent[k] \in Messages /\ ends[k] \in Nat /\ k # 0
  BY DEF PeerInv
<1>3. \A k \in 1..Len(sent) : sent[k].size \in Nat
  BY <1>2, ReceiveAssumption
<1>4. \A k \in 0..Len(sent) : k = 0 \/ k \in 1..Len(sent)
  BY <1>1
<1> QED BY <1>1, <1>2, <1>3, <1>4 DEF StreamEnd

\* One more message leaves the ends of the earlier ones where they are.
LEMMA SendKeepsPeer ==
    ASSUME PeerInv, NEW m \in Messages, PeerSends(m)
    PROVE  /\ PeerInv'
           /\ Len(sent') = Len(sent) + 1
           /\ \A k \in 1..Len(sent) : sent'[k] = sent[k] /\ ends'[k] = ends[k]
           /\ \A k \in 0..Len(sent) : StreamEnd(k)' = StreamEnd(k)
           /\ StreamEnd(Len(sent))' \in Nat /\ StreamEnd(Len(sent))' >= StreamEnd(Len(sent))
<1>1. PICK n \in Nat : n = Len(sent)
  BY DEF PeerInv
<1>2. PICK e \in Nat : e = StreamEnd(n)
  BY <1>1, PeerFacts
<1>3. m.size \in Nat /\ HeaderSize \in Nat \ {0}
  BY ReceiveAssumption
<1>4. PICK f \in Nat : f = e + HeaderSize + m.size /\ f > e
  BY <1>2, <1>3
<1>5. sent' = Append(sent, m) /\ ends' = Append(ends, f)
  BY <1>1, <1>2, <1>4 DEF PeerSends
<1>6. /\ sent' \in Seq(Messages) /\ Len(sent') = n + 1 /\ sent'[n + 1] = m
      /\ \A k \in 1..n : sent'[k] = sent[k]
  BY <1>1, <1>5 DEF PeerInv
<1>7. /\ ends' \in Seq(Nat) /\ Len(ends') = n + 1 /\ ends'[n + 1] = f
      /\ \A k \in 1..n : ends'[k] = ends[k]
  BY <1>1, <1>5 DEF PeerInv
<1>8. /\ \A k \in 0..n : StreamEnd(k)' = StreamEnd(k)
      /\ StreamEnd(n + 1)' = f
  BY <1>7 DEF StreamEnd
<1>9. \A k \in 0..n : StreamEnd(k) \in Nat /\ (k = n \/ StreamEnd(k) < e)
  BY <1>1, <1>2, PeerFacts DEF PeerInv
<1>10. ASSUME NEW i \in 0..(n + 1), NEW j \in 0..(n + 1), i < j
       PROVE  StreamEnd(i)' < StreamEnd(j)'
  <2>1. CASE j = n + 1
    <3>1. i \in 0..n
      BY <1>10, <2>1
    <3>2. StreamEnd(i)' = StreamEnd(i) /\ StreamEnd(i) \in Nat /\ StreamEnd(i) <= e
      BY <1>2, <1>8, <1>9, <3>1
    <3> QED BY <1>4, <1>8, <2>1, <3>2
  <2>2. CASE j # n + 1
    <3>1. i \in 0..n /\ j \in 0..n
      BY <1>10, <2>2
    <3> QED BY <1>1, <1>8, <1>10, <3>1 DEF PeerInv
  <2> QED BY <2>1, <2>2
<1>11. ASSUME NEW k \in 1..(n + 1)
       PROVE  ends'[k] = StreamEnd(k - 1)' + HeaderSize + sent'[k].size
  <2>1. CASE k = n + 1
    <3>1. k - 1 = n
      BY <2>1
    <3>2. StreamEnd(k - 1)' = e
      BY <1>2, <1>8, <3>1
    <3> QED BY <1>4, <1>6, <1>7, <2>1, <3>2
  <2>2. CASE k # n + 1
    <3>1. k \in 1..n /\ k - 1 \in 0..n
      BY <2>2
    <3>2. ends[k] = StreamEnd(k - 1) + HeaderSize + sent[k].size
      BY <1>1, <3>1 DEF PeerInv
    <3> QED BY <1>6, <1>7, <1>8, <3>1, <3>2
  <2> QED BY <2>1, <2>2
<1>12. PeerInv'
  BY <1>6, <1>7, <1>10, <1>11 DEF PeerInv
<1>13. StreamEnd(Len(sent))' = f
  BY <1>6, <1>8
<1> QED BY <1>1, <1>2, <1>4, <1>6, <1>7, <1>8, <1>12, <1>13

-----------------------------------------------------------------------------
(* The parser.                                                             *)

Statuses == {"None", "Ok", "Trailers", "Cancelled", "DataLoss", "Internal",
             "DeclaredTooLarge", "InflatedTooLarge"}

\* As TypeOK, without what the delivered messages are.
FlowType ==
    /\ fed \in Nat /\ parsed \in Nat /\ parsed <= fed /\ fed <= StreamEnd(Len(sent))
    /\ decoder \in {"None", "Ready", "Used"}
    /\ state \in {"Active", "Cancelled", "Finished"}
    /\ parsing \in BOOLEAN /\ endStream \in BOOLEAN
    /\ status \in Statuses

\* The parse loop runs in an RPC that has not finished, and a status is the end
\* of the RPC.
StateInv ==
    /\ parsing => state # "Finished"
    /\ state = "Active" => status = "None"
    /\ state = "Cancelled" => status = "Cancelled"
    /\ state = "Finished" => status # "None"

\* What was delivered are the first messages of the peer, each within the limit.
PrefixInv ==
    /\ delivered \in Seq(Nat) /\ Len(delivered) <= Len(sent)
    /\ \A k \in 1..Len(delivered) :
         /\ delivered[k] = k
         /\ (IF sent[k].compressed THEN sent[k].inflated ELSE sent[k].size) <= MaxReceiveSize

\* The container starts at a message, and the decompressor is ready for it, until
\* the RPC fails.  When the parser waits, the next message is not complete.
AlignedInv ==
    /\ parsing \/ state = "Active" =>
         parsed = StreamEnd(Len(delivered)) /\ decoder # "Used"
    /\ ~parsing /\ state = "Active" /\ Len(delivered) < Len(sent) =>
         ends[Len(delivered) + 1] > fed

ReceiveInv ==
    /\ PeerInv /\ FlowType /\ StateInv /\ PrefixInv /\ AlignedInv
    /\ EndJustified

\* The length that the parser reads is that of the message to be delivered next;
\* behind the last message there is no byte.
LEMMA NextMessage ==
    ASSUME ReceiveInv, parsing
    PROVE  /\ Len(delivered) \in Nat
           /\ parsed = StreamEnd(Len(delivered)) /\ fed - parsed \in Nat
           /\ Len(delivered) < Len(sent) =>
                /\ FirstMessage = Len(delivered) + 1
                /\ MessageLength = {sent[Len(delivered) + 1].size}
                /\ ends[Len(delivered) + 1] = parsed + HeaderSize + sent[Len(delivered) + 1].size
                /\ sent[Len(delivered) + 1] \in Messages
                /\ sent[Len(delivered) + 1].size \in Nat
           /\ ~(Len(delivered) < Len(sent)) => Len(delivered) = Len(sent) /\ fed = parsed
<1>1. PICK n \in Nat, l \in Nat : n = Len(delivered) /\ l = Len(sent) /\ n <= l
  BY PeerFacts DEF ReceiveInv, PrefixInv
<1>2. parsed = StreamEnd(n) /\ parsed <= fed /\ parsed \in Nat /\ fed \in Nat
  BY <1>1 DEF ReceiveInv, AlignedInv, FlowType
<1>3. CASE n < l
  <2>1. n + 1 \in 1..l /\ n + 1 - 1 = n
    BY <1>3
  <2>2. \A k \in 1..l : StreamEnd(k - 1) = parsed => k = n + 1
    <3> SUFFICES ASSUME NEW k \in 1..l, StreamEnd(k - 1) = StreamEnd(n) PROVE k = n + 1
      BY <1>2
    <3>1. k - 1 \in 0..l /\ n \in 0..l
      BY <1>1
    <3>2. StreamEnd(k - 1) \in Nat /\ StreamEnd(n) \in Nat
      BY <1>1, <3>1, PeerFacts DEF ReceiveInv
    <3>3. ~(k - 1 < n) /\ ~(n < k - 1)
      BY <1>1, <3>1, <3>2 DEF ReceiveInv, PeerInv
    <3> QED BY <1>1, <3>3
  <2>3. StreamEnd(n + 1 - 1) = parsed
    BY <1>2, <2>1
  <2>4. FirstMessage = n + 1
    BY <1>1, <2>1, <2>2, <2>3 DEF FirstMessage
  <2>5. MessageLength = {sent[n + 1].size}
    BY <1>1, <2>4 DEF MessageLength
  <2>6. ends[n + 1] = parsed + HeaderSize + sent[n + 1].size
    BY <1>1, <2>1, <2>3 DEF ReceiveInv, PeerInv
  <2>7. sent[n + 1] \in Messages /\ sent[n + 1].size \in Nat
    BY <1>1, <2>1, PeerFacts DEF ReceiveInv
  <2> QED BY <1>1, <1>2, <1>3, <2>4, <2>5, <2>6, <2>7
<1>4. CASE ~(n < l)
  BY <1>1, <1>2, <1>4 DEF ReceiveInv, FlowType
<1> QED BY <1>1, <1>3, <1>4

\* Nothing that the run checks needs more than the invariant.
LEMMA ReceiveProperties ==
    ASSUME ReceiveInv
    PROVE  DeliveredExact /\ NothingWithheld /\ TypeOK
<1>1. PICK n \in Nat, l \in Nat : n = Len(delivered) /\ l = Len(sent) /\ n <= l
  BY PeerFacts DEF ReceiveInv, PrefixInv
<1>2. DeliveredExact
  BY <1>1 DEF ReceiveInv, PrefixInv, DeliveredExact, DeliveredInOrder, WithinLimit
<1>3. NothingWithheld
  <2> SUFFICES ASSUME state = "Active", ~parsing, NEW k \in 1..l, ends[k] <= fed
               PROVE  k <= n
    BY <1>1 DEF NothingWithheld
  <2>1. CASE k > n
    <3>1. n < l /\ n + 1 \in 1..l /\ n + 1 \in 0..l /\ k \in 0..l /\ fed \in Nat
      BY <1>1, <2>1 DEF ReceiveInv, FlowType
    <3>2. ends[n + 1] > fed
      BY <1>1, <3>1 DEF ReceiveInv, AlignedInv
    <3>3. ends[k] = StreamEnd(k) /\ ends[n + 1] = StreamEnd(n + 1)
      BY <1>1, <3>1, PeerFacts DEF ReceiveInv
    <3>4. ends[k] \in Nat /\ ends[n + 1] \in Nat
      BY <1>1, <3>1, <3>3, PeerFacts DEF ReceiveInv
    <3>5. k # n + 1 => ends[n + 1] < ends[k]
      BY <1>1, <2>1, <3>1, <3>3 DEF ReceiveInv, PeerInv
    <3> QED BY <3>1, <3>2, <3>4, <3>5
  <2> QED BY <1>1, <2>1
<1>4. delivered \in Seq(0..Len(sent))
  <2>1. \A k \in 1..n : delivered[k] \in 0..l
    BY <1>1 DEF ReceiveInv, PrefixInv
  <2>2. delivered \in [1..n -> 0..l]
    BY <1>1, <2>1 DEF ReceiveInv, PrefixInv
  <2> QED BY <1>1, <2>2, SeqDef
<1>5. fed \in 0..StreamEnd(Len(sent)) /\ parsed \in 0..fed
  BY <1>1, PeerFacts DEF ReceiveInv, FlowType
<1> QED BY <1>2, <1>3, <1>4, <1>5 DEF ReceiveInv, PeerInv, FlowType, Statuses, TypeOK

-----------------------------------------------------------------------------
(* The steps.                                                              *)

\* The peer sends: the message that failed the RPC, if any, was sent before.
LEMMA StepPeerSends ==
    ASSUME ReceiveInv, NEW m \in Messages, PeerSends(m)
    PROVE  ReceiveInv'
<1>1. PICK n \in Nat, l \in Nat : n = Len(delivered) /\ l = Len(sent) /\ n <= l
  BY PeerFacts DEF ReceiveInv, PrefixInv
<1>2. /\ PeerInv' /\ Len(sent') = l + 1
      /\ \A k \in 1..l : sent'[k] = sent[k] /\ ends'[k] = ends[k]
      /\ \A k \in 0..l : StreamEnd(k)' = StreamEnd(k)
      /\ StreamEnd(Len(sent))' \in Nat /\ StreamEnd(Len(sent))' >= StreamEnd(Len(sent))
  BY <1>1, SendKeepsPeer DEF ReceiveInv
<1>3. UNCHANGED <<fed, parsed, decoder, state, parsing, endStream, status, delivered>>
  BY DEF PeerSends, parser
<1>4. StreamEnd(n)' = StreamEnd(n) /\ StreamEnd(Len(delivered))' = StreamEnd(Len(delivered))
  BY <1>1, <1>2, <1>3
<1>5. FlowType'
  <2>1. fed \in Nat /\ fed <= StreamEnd(Len(sent)) /\ StreamEnd(Len(sent)) \in Nat
    BY <1>1, PeerFacts DEF ReceiveInv, FlowType
  <2>2. fed <= StreamEnd(Len(sent))'
    BY <1>2, <2>1
  <2> QED BY <1>3, <2>2 DEF ReceiveInv, FlowType
<1>6. StateInv'
  BY <1>3 DEF ReceiveInv, StateInv
<1>7. PrefixInv'
  <2>1. \A k \in 1..n : k \in 1..l
    BY <1>1
  <2> QED BY <1>1, <1>2, <1>3, <2>1 DEF ReceiveInv, PrefixInv
<1>8. AlignedInv'
  <2>1. ASSUME ~parsing, state = "Active" PROVE ends'[n + 1] > fed
    <3>1. CASE n < l
      <4>1. n + 1 \in 1..l
        BY <1>1, <3>1
      <4> QED BY <1>1, <1>2, <2>1, <3>1, <4>1 DEF ReceiveInv, AlignedInv
    <3>2. CASE n = l
      <4>1. ends'[l + 1] = StreamEnd(l) + HeaderSize + m.size
        BY <1>1 DEF PeerSends, ReceiveInv, PeerInv
      <4>2. m.size \in Nat /\ HeaderSize \in Nat \ {0} /\ StreamEnd(l) \in Nat
        BY <1>1, PeerFacts, ReceiveAssumption DEF ReceiveInv
      <4>3. fed \in Nat /\ fed <= StreamEnd(l)
        BY <1>1 DEF ReceiveInv, FlowType
      <4> QED BY <3>2, <4>1, <4>2, <4>3
    <3> QED BY <1>1, <3>1, <3>2
  <2>2. parsing \/ state = "Active" => parsed = StreamEnd(n) /\ decoder # "Used"
    BY <1>1 DEF ReceiveInv, AlignedInv
  <2> QED BY <1>1, <1>3, <1>4, <2>1, <2>2 DEF AlignedInv
<1>9. EndAccountsForBytes'
  BY <1>3, <1>4 DEF ReceiveInv, EndJustified, EndAccountsForBytes
<1>10. FailedByNextMessage'
  <2> SUFFICES ASSUME status \in {"DeclaredTooLarge", "InflatedTooLarge", "Internal"}
               PROVE  FailedByNextMessage'
    BY <1>3 DEF FailedByNextMessage
  <2>1. n < l
    BY <1>1 DEF ReceiveInv, EndJustified, FailedByNextMessage
  <2>2. n + 1 \in 1..l
    BY <1>1, <2>1
  <2>3. n < l + 1 /\ sent'[n + 1] = sent[n + 1]
    BY <1>1, <1>2, <2>1, <2>2
  <2> QED BY <1>1, <1>2, <1>3, <2>3 DEF ReceiveInv, EndJustified, FailedByNextMessage
<1> QED BY <1>2, <1>5, <1>6, <1>7, <1>8, <1>9, <1>10 DEF ReceiveInv, EndJustified

\* Without a step of the peer, the stream is what it was.
LEMMA PeerStays ==
    ASSUME ReceiveInv, UNCHANGED <<sent, ends>>
    PROVE  PeerInv' /\ StreamEnd(Len(sent))' = StreamEnd(Len(sent)) /\ \A k : StreamEnd(k)' = StreamEnd(k)
BY DEF ReceiveInv, PeerInv, StreamEnd

\* DATA, trailers, cancellation: none of them touches what was delivered.
LEMMA StepOutside ==
    ASSUME ~LateFrames, ReceiveInv,
           \/ \E to \in fed..StreamEnd(Len(sent)), end \in BOOLEAN : DataReceived(to, end)
           \/ Trailers \/ Cancel \/ UNCHANGED vars
    PROVE  ReceiveInv'
<1>1. UNCHANGED <<sent, ends, parsed, decoder, delivered>>
  BY DEF DataReceived, Trailers, Cancel, peer, parser, vars
<1>2. PeerInv' /\ StreamEnd(Len(sent))' = StreamEnd(Len(sent)) /\ \A k : StreamEnd(k)' = StreamEnd(k)
  BY <1>1, PeerStays
<1>3. StreamEnd(Len(sent)) \in Nat
  BY PeerFacts DEF ReceiveInv
<1>4. StreamEnd(Len(delivered))' = StreamEnd(Len(delivered))
  BY <1>1 DEF StreamEnd
<1>5. PrefixInv'
  BY <1>1 DEF ReceiveInv, PrefixInv
<1>6. CASE \E to \in fed..StreamEnd(Len(sent)), end \in BOOLEAN : DataReceived(to, end)
  <2>1. PICK to \in fed..StreamEnd(Len(sent)), end \in BOOLEAN : DataReceived(to, end)
    BY <1>6
  <2>2. /\ fed' = to /\ parsing' = TRUE /\ endStream' = end /\ state = "Active"
        /\ UNCHANGED <<state, status>>
    BY <2>1 DEF DataReceived, ReceiveInv, FlowType
  <2>3. FlowType'
    BY <1>1, <1>2, <1>3, <2>2 DEF ReceiveInv, FlowType
  <2>4. status' = "None"
    BY <2>2 DEF ReceiveInv, StateInv
  <2>5. EndJustified'
    BY <2>4 DEF EndJustified, EndAccountsForBytes, FailedByNextMessage
  <2>6. AlignedInv'
    BY <1>1, <1>4, <2>2 DEF ReceiveInv, AlignedInv
  <2>7. StateInv'
    BY <2>2 DEF ReceiveInv, StateInv
  <2> QED BY <1>2, <1>5, <2>3, <2>5, <2>6, <2>7 DEF ReceiveInv
<1>7. CASE Trailers \/ Cancel
  <2>1. /\ UNCHANGED <<fed, parsing>> /\ endStream' \in BOOLEAN /\ state = "Active"
        /\ \/ state' = "Finished" /\ status' = "Trailers" /\ ~parsing
           \/ state' = "Cancelled" /\ status' = "Cancelled"
    BY <1>7 DEF Trailers, Cancel, Finish, parser, ReceiveInv, StateInv, FlowType
  <2>2. FlowType'
    BY <1>1, <1>2, <2>1 DEF ReceiveInv, FlowType, Statuses
  <2>3. EndJustified'
    BY <2>1 DEF EndJustified, EndAccountsForBytes, FailedByNextMessage
  <2>4. AlignedInv'
    BY <1>1, <1>4, <2>1 DEF ReceiveInv, AlignedInv
  <2>5. StateInv'
    BY <2>1 DEF StateInv
  <2> QED BY <1>2, <1>5, <2>2, <2>3, <2>4, <2>5 DEF ReceiveInv
<1>8. CASE UNCHANGED vars
  BY <1>8 DEF vars, peer, parser, ReceiveInv, PeerInv, FlowType, StateInv, PrefixInv, AlignedInv,
              EndJustified, EndAccountsForBytes, FailedByNextMessage, StreamEnd
<1> QED BY <1>6, <1>7, <1>8

\* finish() amid the parse loop: the RPC fails, unless it was cancelled.
LEMMA FinishEffect ==
    ASSUME ReceiveInv, parsing, NEW s, Finish(s)
    PROVE  \/ state' = "Finished" /\ status' = s
           \/ state' = "Cancelled" /\ status' = "Cancelled"
BY DEF ReceiveInv, StateInv, FlowType, Finish

\* A parse loop that ends with the RPC.
LEMMA LoopEnds ==
    ASSUME ReceiveInv, parsing, NEW s \in Statuses \ {"None"}, Finish(s), parsing' = FALSE,
           UNCHANGED <<sent, ends, fed, endStream, delivered>>,
           parsed' \in Nat /\ parsed' <= fed, decoder' \in {"None", "Ready", "Used"},
           s = "Ok" => fed = StreamEnd(Len(delivered)),
           s = "DataLoss" => fed > StreamEnd(Len(delivered)),
           s \in {"DeclaredTooLarge", "InflatedTooLarge", "Internal"} =>
                Len(delivered) < Len(sent),
           s = "Internal" => /\ sent[Len(delivered) + 1].compressed
                             /\ sent[Len(delivered) + 1].corrupt \/ decoder' = "None",
           s = "DeclaredTooLarge" => sent[Len(delivered) + 1].size > MaxReceiveSize,
           s = "InflatedTooLarge" => /\ sent[Len(delivered) + 1].compressed
                                     /\ sent[Len(delivered) + 1].inflated > MaxReceiveSize
    PROVE  ReceiveInv'
<1>1. \/ state' = "Finished" /\ status' = s
      \/ state' = "Cancelled" /\ status' = "Cancelled"
  BY FinishEffect
<1>2. PeerInv' /\ StreamEnd(Len(sent))' = StreamEnd(Len(sent)) /\ \A k : StreamEnd(k)' = StreamEnd(k)
  BY PeerStays
<1>3. StreamEnd(Len(delivered))' = StreamEnd(Len(delivered))
  BY DEF StreamEnd
<1>4. FlowType'
  BY <1>1, <1>2 DEF ReceiveInv, FlowType, Statuses
<1>5. StateInv' /\ AlignedInv'
  BY <1>1 DEF StateInv, AlignedInv
<1>6. PrefixInv'
  BY DEF ReceiveInv, PrefixInv
<1>7. EndAccountsForBytes'
  BY <1>1, <1>3 DEF EndAccountsForBytes
<1>8. FailedByNextMessage'
  <2>1. CASE status' = s
    BY <2>1 DEF FailedByNextMessage
  <2>2. CASE status' = "Cancelled"
    BY <2>2 DEF FailedByNextMessage
  <2> QED BY <1>1, <2>1, <2>2
<1> QED BY <1>2, <1>4, <1>5, <1>6, <1>7, <1>8 DEF ReceiveInv, EndJustified

\* A parse loop that goes on behind the message it has delivered.
LEMMA LoopDelivers ==
    ASSUME ReceiveInv, parsing, NEW n \in Nat, n = Len(delivered), n < Len(sent),
           UNCHANGED <<sent, ends, fed, endStream, state, status, parsing>>,
           delivered' = Append(delivered, n + 1), parsed' = ends[n + 1], ends[n + 1] <= fed,
           decoder' \in {"None", "Ready"},
           (IF sent[n + 1].compressed THEN sent[n + 1].inflated ELSE sent[n + 1].size) <= MaxReceiveSize
    PROVE  ReceiveInv'
<1>1. PeerInv' /\ StreamEnd(Len(sent))' = StreamEnd(Len(sent)) /\ \A k : StreamEnd(k)' = StreamEnd(k)
  BY PeerStays
<1>2. Len(sent) \in Nat /\ n + 1 \in 1..Len(sent)
  BY PeerFacts DEF ReceiveInv
<1>3. /\ delivered' \in Seq(Nat) /\ Len(delivered') = n + 1 /\ delivered'[n + 1] = n + 1
      /\ \A k \in 1..n : delivered'[k] = delivered[k]
  BY DEF ReceiveInv, PrefixInv
<1>4. ends[n + 1] \in Nat /\ StreamEnd(n + 1) = ends[n + 1]
  BY <1>2, PeerFacts DEF ReceiveInv
<1>5. FlowType'
  BY <1>1, <1>4 DEF ReceiveInv, FlowType
<1>6. StateInv'
  BY DEF ReceiveInv, StateInv
<1>7. PrefixInv'
  <2>1. \A k \in 1..(n + 1) : k \in 1..n \/ k = n + 1
    OBVIOUS
  <2>2. \A k \in 1..n :
          /\ delivered[k] = k
          /\ (IF sent[k].compressed THEN sent[k].inflated ELSE sent[k].size) <= MaxReceiveSize
    BY DEF ReceiveInv, PrefixInv
  <2>3. \A k \in 1..(n + 1) :
          /\ delivered'[k] = k
          /\ (IF sent[k].compressed THEN sent[k].inflated ELSE sent[k].size) <= MaxReceiveSize
    BY <1>3, <2>1, <2>2
  <2> QED BY <1>2, <1>3, <2>3 DEF PrefixInv
<1>8. AlignedInv'
  <2>1. StreamEnd(Len(delivered))' = ends[n + 1]
    BY <1>1, <1>3, <1>4
  <2> QED BY <2>1 DEF AlignedInv
<1>9. EndJustified'
  <2>1. status' \in {"None", "Cancelled"}
    BY DEF ReceiveInv, StateInv, FlowType
  <2> QED BY <2>1 DEF EndJustified, EndAccountsForBytes, FailedByNextMessage
<1> QED BY <1>1, <1>5, <1>6, <1>7, <1>8, <1>9 DEF ReceiveInv

\* One turn of the parse loop.
LEMMA StepParse ==
    ASSUME ReceiveInv, ParseStep
    PROVE  ReceiveInv'
<1>1. PICK length \in MessageLength :
          RejectOversize(length) \/ TakeMessage(length) \/ NeedMoreData(length)
  BY DEF ParseStep
<1>2. parsing /\ UNCHANGED <<sent, ends, fed, endStream>>
  BY DEF ParseStep, peer
<1>3. PICK n \in Nat : n = Len(delivered)
  BY <1>2, NextMessage
<1>4. /\ parsed = StreamEnd(n) /\ fed \in Nat /\ parsed \in Nat /\ fed - parsed \in Nat
      /\ decoder \in {"None", "Ready"}
  BY <1>2, <1>3, NextMessage DEF ReceiveInv, FlowType, AlignedInv
<1>5. HeaderSize \in Nat \ {0} /\ MaxReceiveSize \in Nat
  BY ReceiveAssumption
<1>6. CASE ~(n < Len(sent))
  <2>1. fed = parsed
    BY <1>2, <1>3, <1>6, NextMessage
  <2>2. ~HasHeader
    BY <1>4, <1>5, <2>1 DEF HasHeader
  <2>3. NeedMoreData(length)
    BY <1>1, <2>2 DEF RejectOversize, TakeMessage
  <2>4. CASE ~endStream
    <3>1. UNCHANGED <<state, status, parsed, decoder, delivered>> /\ parsing' = FALSE
      BY <2>3, <2>4 DEF NeedMoreData
    <3>2. PeerInv' /\ StreamEnd(Len(sent))' = StreamEnd(Len(sent)) /\ \A k : StreamEnd(k)' = StreamEnd(k)
      BY <1>2, PeerStays
    <3>3. AlignedInv'
      BY <1>2, <1>3, <1>4, <1>6, <3>1, <3>2 DEF AlignedInv
    <3>4. FlowType' /\ StateInv' /\ PrefixInv'
      BY <1>2, <3>1, <3>2 DEF ReceiveInv, FlowType, StateInv, PrefixInv
    <3>5. EndJustified'
      BY <1>2, <3>1 DEF ReceiveInv, EndJustified, EndAccountsForBytes, FailedByNextMessage, StreamEnd
    <3> QED BY <3>2, <3>3, <3>4, <3>5 DEF ReceiveInv
  <2>5. CASE endStream
    <3>1. Finish("Ok") /\ parsing' = FALSE /\ UNCHANGED <<parsed, decoder, delivered>>
      BY <1>4, <2>1, <2>3, <2>5 DEF NeedMoreData, BytesAvailable
    <3>2. parsed' \in Nat /\ parsed' <= fed /\ decoder' \in {"None", "Ready", "Used"}
      BY <1>4, <2>1, <3>1
    <3>3. fed = StreamEnd(Len(delivered))
      BY <1>3, <1>4, <2>1
    <3> QED BY <1>2, <3>1, <3>2, <3>3, LoopEnds DEF Statuses
  <2> QED BY <2>4, <2>5
<1>7. CASE n < Len(sent)
  <2> DEFINE m == sent[n + 1]
  <2>1. /\ FirstMessage = n + 1 /\ length = m.size /\ m \in Messages /\ m.size \in Nat
        /\ ends[n + 1] = parsed + HeaderSize + m.size
    BY <1>2, <1>3, <1>7, NextMessage
  <2>2. m.compressed \in BOOLEAN /\ m.corrupt \in BOOLEAN /\ m.inflated \in Nat
    BY <2>1, ReceiveAssumption
  <2>3. FirstMessage # 0
    BY <2>1
  <2> HIDE DEF m
  <2>4. CASE RejectOversize(length)
    <3>1. /\ m.size > MaxReceiveSize /\ Finish("DeclaredTooLarge") /\ parsing' = FALSE
          /\ parsed' = fed /\ UNCHANGED <<decoder, delivered>>
      BY <2>1, <2>4 DEF RejectOversize, Oversize
    <3>2. parsed' \in Nat /\ parsed' <= fed /\ decoder' \in {"None", "Ready", "Used"}
      BY <1>4, <3>1
    <3> QED BY <1>2, <1>3, <1>7, <3>1, <3>2, LoopEnds DEF Statuses, m
  <2>5. CASE TakeMessage(length)
    <3>1. /\ parsed' = ends[n + 1] /\ ends[n + 1] <= fed /\ m.size <= MaxReceiveSize
          /\ ends[n + 1] \in Nat
      BY <1>4, <1>5, <2>1, <2>5 DEF TakeMessage, FrameSize, Complete, Oversize
    <3>2. CASE ~m.compressed
      <4>1. delivered' = Append(delivered, n + 1) /\ UNCHANGED <<decoder, state, status, parsing>>
        BY <2>1, <2>3, <2>5, <3>2 DEF TakeMessage, Deliver, m
      <4> QED BY <1>2, <1>3, <1>4, <1>7, <3>1, <3>2, <4>1, LoopDelivers DEF m
    <3>3. CASE m.compressed
      <4>1. Inflate(n + 1)
        BY <2>1, <2>3, <2>5, <3>3 DEF TakeMessage, m
      <4>2. CASE decoder = "None"
        <5>1. Finish("Internal") /\ parsing' = FALSE /\ UNCHANGED <<decoder, delivered>>
          BY <4>1, <4>2 DEF Inflate
        <5> QED BY <1>2, <1>3, <1>7, <3>1, <3>3, <4>2, <5>1, LoopEnds DEF Statuses, m
      <4>3. CASE decoder = "Ready" /\ InflatedTooMuch(m)
        <5>1. Finish("InflatedTooLarge") /\ parsing' = FALSE /\ decoder' = "Used" /\ UNCHANGED delivered
          BY <4>1, <4>3 DEF Inflate, m
        <5>2. m.inflated > MaxReceiveSize
          BY <4>3 DEF InflatedTooMuch
        <5> QED BY <1>2, <1>3, <1>7, <3>1, <3>3, <5>1, <5>2, LoopEnds DEF Statuses, m
      <4>4. CASE decoder = "Ready" /\ ~InflatedTooMuch(m) /\ m.corrupt
        <5>1. Finish("Internal") /\ parsing' = FALSE /\ decoder' = "Used" /\ UNCHANGED delivered
          BY <4>1, <4>4 DEF Inflate, m
        <5> QED BY <1>2, <1>3, <1>7, <3>1, <3>3, <4>4, <5>1, LoopEnds DEF Statuses, m
      <4>5. CASE decoder = "Ready" /\ ~InflatedTooMuch(m) /\ ~m.corrupt
        <5>1. /\ delivered' = Append(delivered, n + 1) /\ decoder' = "Ready"
              /\ UNCHANGED <<state, status, parsing>>
          BY <4>1, <4>5 DEF Inflate, Deliver, DecoderReset, m
        <5>2. m.inflated <= MaxReceiveSize
          BY <1>5, <2>2, <4>5 DEF InflatedTooMuch
        <5> QED BY <1>2, <1>3, <1>7, <3>1, <3>3, <5>1, <5>2, LoopDelivers DEF m
      <4> QED BY <1>4, <4>2, <4>3, <4>4, <4>5
    <3> QED BY <3>2, <3>3
  <2>6. CASE NeedMoreData(length)
    <3>1. fed < ends[n + 1]
      BY <1>4, <1>5, <2>1, <2>6 DEF NeedMoreData, HasHeader, Complete
    <3>2. CASE ~endStream
      <4>1. UNCHANGED <<state, status, parsed, decoder, delivered>> /\ parsing' = FALSE
        BY <2>6, <3>2 DEF NeedMoreData
      <4>2. PeerInv' /\ StreamEnd(Len(sent))' = StreamEnd(Len(sent)) /\ \A k : StreamEnd(k)' = StreamEnd(k)
        BY <1>2, PeerStays
      <4>3. AlignedInv'
        <5>1. ends[n + 1] > fed
          BY <1>4, <2>1, <3>1, <1>5
        <5>2. StreamEnd(Len(delivered))' = parsed
          BY <1>3, <1>4, <4>1, <4>2
        <5> QED BY <1>2, <1>3, <1>4, <4>1, <5>1, <5>2 DEF AlignedInv
      <4>4. FlowType' /\ StateInv' /\ PrefixInv'
        BY <1>2, <4>1, <4>2 DEF ReceiveInv, FlowType, StateInv, PrefixInv
      <4>5. EndJustified'
        BY <1>2, <4>1 DEF ReceiveInv, EndJustified, EndAccountsForBytes, FailedByNextMessage, StreamEnd
      <4> QED BY <4>2, <4>3, <4>4, <4>5 DEF ReceiveInv
    <3>3. CASE endStream
      <4>1. PICK s \in {"Ok", "DataLoss"} : Finish(s) /\ s = IF fed - parsed > 0 THEN "DataLoss" ELSE "Ok"
        BY <2>6, <3>3 DEF NeedMoreData, BytesAvailable
      <4>2. parsing' = FALSE /\ UNCHANGED <<parsed, decoder, delivered>>
        BY <2>6 DEF NeedMoreData
      <4>3. /\ s = "Ok" => fed = StreamEnd(Len(delivered))
            /\ s = "DataLoss" => fed > StreamEnd(Len(delivered))
        BY <1>3, <1>4, <4>1
      <4>4. parsed' \in Nat /\ parsed' <= fed /\ decoder' \in {"None", "Ready", "Used"}
        BY <1>4, <4>2
      <4> QED BY <1>2, <4>1, <4>2, <4>3, <4>4, LoopEnds DEF Statuses
    <3> QED BY <3>2, <3>3
  <2> QED BY <1>1, <2>4, <2>5, <2>6
<1> QED BY <1>6, <1>7

\* The invariant of the receive path.
LEMMA ReceiveInvariant ==
    ASSUME ~LateFrames
    PROVE  Spec => []ReceiveInv
<1>1. Init => ReceiveInv
  <2> SUFFICES ASSUME Init PROVE ReceiveInv
    OBVIOUS
  <2>1. /\ sent = <<>> /\ ends = <<>> /\ delivered = <<>> /\ Len(sent) = 0 /\ Len(ends) = 0
        /\ Len(delivered) = 0
    BY DEF Init
  <2>2. PeerInv
    BY <2>1 DEF PeerInv, StreamEnd
  <2>3. FlowType /\ StateInv
    <3>1. StreamEnd(Len(sent)) = 0
      BY <2>1 DEF StreamEnd
    <3>2. FlowType
      <4>1. fed = 0 /\ parsed = 0 /\ status \in Statuses
        BY DEF Init, Statuses
      <4>2. parsing \in BOOLEAN /\ endStream \in BOOLEAN
        BY DEF Init
      <4>3. decoder \in {"None", "Ready", "Used"} /\ state \in {"Active", "Cancelled", "Finished"}
        BY DEF Init
      <4>4. fed \in Nat /\ parsed \in Nat /\ parsed <= fed /\ fed <= StreamEnd(Len(sent))
        BY <3>1, <4>1
      <4> QED BY <4>1, <4>2, <4>3, <4>4 DEF FlowType
    <3>3. StateInv
      BY DEF Init, StateInv
    <3> QED BY <3>2, <3>3
  <2>4. PrefixInv /\ AlignedInv
    BY <2>1 DEF Init, PrefixInv, AlignedInv, StreamEnd
  <2>5. EndJustified
    BY DEF Init, EndJustified, EndAccountsForBytes, FailedByNextMessage
  <2> QED BY <2>2, <2>3, <2>4, <2>5 DEF ReceiveInv
<1>2. ReceiveInv /\ [Next]_vars => ReceiveInv'
  BY StepPeerSends, StepOutside, StepParse DEF Next
<1> QED BY <1>1, <1>2, PTL DEF Spec

\* The user gets the messages of the peer, all of them in order and none beyond
\* the limit, wherever the DATA frames cut the stream and however large the
\* messages are.
THEOREM MessagesExact ==
    ASSUME ~LateFrames
    PROVE  Spec => []DeliveredExact
<1>1. ReceiveInv => DeliveredExact
  BY ReceiveProperties
<1> QED BY <1>1, ReceiveInvariant, PTL

\* Between two DATA frames no complete message waits in the container.
THEOREM NoneWithheld ==
    ASSUME ~LateFrames
    PROVE  Spec => []NothingWithheld
<1>1. ReceiveInv => NothingWithheld
  BY ReceiveProperties
<1> QED BY <1>1, ReceiveInvariant, PTL

\* The status that ends the RPC says what became of the bytes of the peer: all
\* delivered, some left, or the next message too large or not decodable.
THEOREM StatusJustified ==
    ASSUME ~LateFrames
    PROVE  Spec => []EndJustified
<1>1. ReceiveInv => EndJustified
  BY DEF ReceiveInv
<1> QED BY <1>1, ReceiveInvariant, PTL

\* Type correctness: the counters stay within the stream, what is delivered was sent.
THEOREM ReceiveTypeCorrect ==
    ASSUME ~LateFrames
    PROVE  Spec => []TypeOK
<1>1. ReceiveInv => TypeOK
  BY ReceiveProperties
<1> QED BY <1>1, ReceiveInvariant, PTL
=============================================================================
