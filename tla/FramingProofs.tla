---------------------------- MODULE FramingProofs ----------------------------
(***************************************************************************)
(* For any bodies, limits, sizes of buffers and number of threads that     *)
(* write to one client: what the client is sent consists of whole frames,  *)
(* and what is dispatched is what it sent.                                 *)
(*                                                                         *)
(* The two directions have invariants of their own.  Outwards: as long as  *)
(* nobody writes into the middle of another's frame, the stream and what   *)
(* is left of the one frame begun make up the frames wanted.  Inwards: as  *)
(* long as no header is torn, what waits to be read are the frames of the  *)
(* requests not received, each at its offset.                              *)
(***************************************************************************)
EXTENDS Framing, SequenceTheorems, TLAPS

-----------------------------------------------------------------------------
(* Sequences *)

(* A sequence is its first k elements and then the others. *)
LEMMA SplitAt ==
    ASSUME NEW S, NEW q \in Seq(S), NEW k \in 0..Len(q)
    PROVE  /\ SubSeq(q, 1, k) \in Seq(S) /\ SubSeq(q, k + 1, Len(q)) \in Seq(S)
           /\ Len(SubSeq(q, 1, k)) = k /\ Len(SubSeq(q, k + 1, Len(q))) = Len(q) - k
           /\ SubSeq(q, 1, k) \o SubSeq(q, k + 1, Len(q)) = q
           /\ \A i \in 1..k : SubSeq(q, 1, k)[i] = q[i]
           /\ \A i \in 1..(Len(q) - k) : SubSeq(q, k + 1, Len(q))[i] = q[i + k]
<1>1. Len(q) \in Nat /\ \A i \in 1..Len(q) : q[i] \in S
  OBVIOUS
<1>2. /\ SubSeq(q, 1, k) \in Seq(S) /\ Len(SubSeq(q, 1, k)) = k
      /\ \A i \in 1..k : SubSeq(q, 1, k)[i] = q[i]
  BY <1>1
<1>3. /\ SubSeq(q, k + 1, Len(q)) \in Seq(S) /\ Len(SubSeq(q, k + 1, Len(q))) = Len(q) - k
      /\ \A i \in 1..(Len(q) - k) : SubSeq(q, k + 1, Len(q))[i] = q[i + k]
  <2>1. \A i \in (k + 1)..Len(q) : q[i] \in S
    BY <1>1
  <2>2. /\ SubSeq(q, k + 1, Len(q)) \in Seq(S)
        /\ Len(SubSeq(q, k + 1, Len(q))) = IF k + 1 <= Len(q) THEN Len(q) - (k + 1) + 1 ELSE 0
        /\ \A i \in 1..(Len(q) - (k + 1) + 1) : SubSeq(q, k + 1, Len(q))[i] = q[k + 1 + i - 1]
    BY <1>1, <2>1, SubSeqProperties
  <2>3. Len(SubSeq(q, k + 1, Len(q))) = Len(q) - k
    BY <1>1, <2>2
  <2>4. ASSUME NEW i \in 1..(Len(q) - k) PROVE SubSeq(q, k + 1, Len(q))[i] = q[i + k]
    <3>1. i \in 1..(Len(q) - (k + 1) + 1) /\ k + 1 + i - 1 = i + k
      BY <1>1
    <3>2. q[k + 1 + i - 1] = q[i + k]
      BY <3>1, Zenon
    <3>3. SubSeq(q, k + 1, Len(q))[i] = q[k + 1 + i - 1]
      BY <2>2, <3>1, Zenon
    <3> QED BY <3>2, <3>3, Zenon
  <2> QED BY <2>2, <2>3, <2>4
<1>4. SubSeq(q, 1, k) \o SubSeq(q, k + 1, Len(q)) = SubSeq(q, 1, Len(q))
  <2>1. 1 \in 1..(Len(q) + 1) /\ k \in (1 - 1)..Len(q) /\ Len(q) \in k..Len(q)
    BY <1>1
  <2> QED BY <2>1, ConcatAdjacentSubSeq, Zenon
<1>5. SubSeq(q, 1, Len(q)) = q
  BY SubSeqFull
<1> QED
  BY <1>2, <1>3, <1>4, <1>5

(* Being a prefix, element by element. *)
LEMMA PrefixByElements ==
    ASSUME NEW S, NEW p \in Seq(S), NEW q \in Seq(S)
    PROVE  IsPrefix(p, q) <=> Len(p) <= Len(q) /\ \A i \in 1..Len(p) : p[i] = q[i]
<1>1. SubSeq(p, 1, Len(p)) = p
  BY SubSeqFull
<1>2. Len(p) \in Nat /\ Len(q) \in Nat
  OBVIOUS
<1>3. ASSUME Len(p) <= Len(q)
      PROVE  /\ SubSeq(q, 1, Len(p)) \in Seq(S) /\ Len(SubSeq(q, 1, Len(p))) = Len(p)
             /\ \A i \in 1..Len(p) : SubSeq(q, 1, Len(p))[i] = q[i]
  BY <1>2, <1>3, SplitAt
<1>4. ASSUME Len(p) <= Len(q), \A i \in 1..Len(p) : p[i] = q[i]
      PROVE  p = SubSeq(q, 1, Len(p))
  BY <1>3, <1>4, SeqEqual
<1>5. ASSUME IsPrefix(p, q) PROVE Len(p) <= Len(q) /\ \A i \in 1..Len(p) : p[i] = q[i]
  BY <1>1, <1>3, <1>5 DEF IsPrefix
<1> QED
  BY <1>1, <1>4, <1>5 DEF IsPrefix

(* A sequence is a prefix of itself, and of what is appended to it. *)
LEMMA PrefixOfConcat ==
    ASSUME NEW S, NEW p \in Seq(S), NEW q \in Seq(S)
    PROVE  IsPrefix(p, p \o q) /\ IsPrefix(p, p)
<1>1. p \o q \in Seq(S) /\ Len(p) <= Len(p \o q) /\ \A i \in 1..Len(p) : (p \o q)[i] = p[i]
  BY ConcatProperties
<1>2. IsPrefix(p, p \o q)
  BY <1>1, PrefixByElements
<1>3. IsPrefix(p, p)
  BY PrefixByElements
<1> QED
  BY <1>2, <1>3

-----------------------------------------------------------------------------
(* Outwards: the frames in the stream *)

Frame == PackageMessage(Reply)

\* The bytes of the frames.
Out == Byte \cup {(Len(Reply) \div Base^(HeaderLength - i)) % Base : i \in 1..HeaderLength}

OutTyped ==
    /\ at \in {"header", "body", "reply", "sending", "done"}
    /\ {clientOpen, waited, mixed} \subseteq BOOLEAN
    /\ out \in [Senders -> Seq(Out)]
    /\ \A s \in Senders : Len(out[s]) <= Len(Frame)
    /\ {buffer, stream, wanted} \subseteq Seq(Out)
    /\ Len(buffer) <= Capacity

\* The handler is in SendData as long as it has something to send.
HandlerSends == at = "sending" <=> out["handler"] # <<>>

\* Nobody waits in the middle of a frame unless a send() found too little space; one at most
\* while nobody has written in between.
OneBegun ==
    /\ ~waited => ~mixed /\ \A s \in Senders : ~Begun(s)
    /\ ~mixed => \A r, s \in Senders : Begun(r) /\ Begun(s) => r = s

\* What has been written, and what is left of the frame begun, are the frames wanted.
StreamIsWanted ==
    ~mixed =>
        /\ IsPrefix(stream, wanted)
        /\ at # "done" /\ clientOpen =>
            /\ \A s \in Senders : Begun(s) => stream \o out[s] = wanted
            /\ (\A s \in Senders : ~Begun(s)) => stream = wanted

OutInv == OutTyped /\ HandlerSends /\ OneBegun /\ StreamIsWanted

(* A frame is a sequence of bytes, and not empty. *)
LEMMA FrameTyped == Frame \in Seq(Out) /\ Frame # <<>> /\ Len(Frame) \in Nat \ {0}
<1> DEFINE digit(i) == (Len(Reply) \div Base^(HeaderLength - i)) % Base
           header == [i \in 1..HeaderLength |-> digit(i)]
<1>1. HeaderLength \in Nat \ {0} /\ Reply \in Seq(Byte) /\ Len(Reply) \in Nat
  BY FramingAssumption DEF Byte
<1>2. \A i \in 1..HeaderLength : digit(i) \in Out
  BY Zenon DEF Out
<1>3. Frame = header \o Reply
  BY DEF Frame, PackageMessage
<1> HIDE DEF digit
<1>4. header \in Seq(Out) /\ Len(header) = HeaderLength
  BY <1>1, <1>2
<1>5. Reply \in Seq(Out)
  BY <1>1, SeqMonotonic, Zenon DEF Out
<1> HIDE DEF header
<1>6. Frame \in Seq(Out) /\ Len(Frame) = Len(header) + Len(Reply)
  BY <1>3, <1>4, <1>5, ConcatProperties, Zenon
<1>7. Len(Frame) \in Nat \ {0}
  BY <1>1, <1>4, <1>6
<1>8. Frame # <<>>
  BY <1>7
<1> QED
  BY <1>6, <1>7, <1>8

(* What begun means, after a step too. *)
LEMMA BegunIs ==
    /\ \A s : Begun(s) <=> out[s] # <<>> /\ out[s] # Frame
    /\ \A s : Begun(s)' <=> out'[s] # <<>> /\ out'[s] # Frame
BY DEF Begun, Frame

(* At the start nothing is written. *)
LEMMA InitOut == Init => OutInv
<1> SUFFICES ASSUME Init PROVE OutInv
  OBVIOUS
<1> USE DEF Init
<1>1. OutTyped
  <2>1. <<>> \in Seq(Out) /\ Len(<<>>) = 0
    BY EmptySeq
  <2>2. out \in [Senders -> Seq(Out)] /\ \A s \in Senders : Len(out[s]) <= Len(Frame)
    BY <2>1, FrameTyped
  <2>3. Len(buffer) <= Capacity /\ {buffer, stream, wanted} \subseteq Seq(Out)
    BY <2>1, FramingAssumption
  <2>4. at \in {"header", "body", "reply", "sending", "done"} /\ {clientOpen, waited, mixed} \subseteq BOOLEAN
    OBVIOUS
  <2> QED BY <2>2, <2>3, <2>4 DEF OutTyped
<1>2. \A s \in Senders : ~Begun(s)
  BY BegunIs
<1>3. HandlerSends
  BY DEF HandlerSends, Senders
<1>4. IsPrefix(stream, wanted)
  <2>1. stream = wanted /\ stream \in Seq(Out)
    BY <1>1 DEF OutTyped
  <2> QED BY <2>1, PrefixOfConcat
<1> QED
  BY <1>1, <1>2, <1>3, <1>4 DEF OutInv, OneBegun, StreamIsWanted

(* A step that writes nothing, and leaves at most one thread with another frame or none, keeps
   the outward invariant. *)
LEMMA SilentStep ==
    ASSUME OutInv, OutTyped', HandlerSends', UNCHANGED <<stream, wanted, waited, mixed>>,
           at' # "done" /\ clientOpen' => at # "done" /\ clientOpen,
           \A s \in Senders : out'[s] = out[s] \/ ~Begun(s)',
           \A s \in Senders : at' # "done" /\ clientOpen' /\ Begun(s) => out'[s] = out[s]
    PROVE  OutInv'
<1> USE DEF OutInv
<1>1. \A s \in Senders : Begun(s)' => Begun(s)
  BY BegunIs
<1>2. OneBegun'
  BY <1>1 DEF OneBegun
<1>3. at' # "done" /\ clientOpen' => \A s \in Senders : Begun(s)' <=> Begun(s)
  BY <1>1, BegunIs
<1>4. StreamIsWanted'
  BY <1>1, <1>3 DEF StreamIsWanted
<1> QED
  BY <1>2, <1>4

(* The steps that read, and those of the client. *)
LEMMA ReadingKeepsOut ==
    ASSUME OutInv, ClientSends \/ ClientCloses \/ ClientReads \/ Receive \/ UNCHANGED vars
    PROVE  OutInv'
<1> USE DEF OutInv
<1>1. UNCHANGED <<out, stream, wanted, waited, mixed>>
  BY DEF ClientSends, ClientCloses, ClientReads, Receive, ReceiveHeader, ReceiveBody, ReceiveNothing,
     outVars, vars
<1>2. /\ at' = at \/ (at \in {"header", "body"} /\ at' \in {"body", "reply", "done"})
      /\ clientOpen' = clientOpen \/ (clientOpen' = FALSE /\ at' = at)
  BY DEF ClientSends, ClientCloses, ClientReads, Receive, ReceiveHeader, ReceiveBody, ReceiveNothing,
     Dispatch, inVars, outVars, vars
<1>3. buffer' = buffer \/ (buffer # <<>> /\ buffer' = Tail(buffer))
  BY DEF ClientSends, ClientCloses, ClientReads, Receive, ReceiveHeader, ReceiveBody, ReceiveNothing,
     outVars, vars
<1>4. buffer' \in Seq(Out) /\ Len(buffer') <= Capacity
  <2>1. buffer \in Seq(Out) /\ Len(buffer) <= Capacity /\ Len(buffer) \in Nat /\ Capacity \in Nat
    BY FramingAssumption DEF OutTyped
  <2>2. buffer # <<>> => Tail(buffer) \in Seq(Out) /\ Len(Tail(buffer)) = Len(buffer) - 1
    BY <2>1, HeadTailProperties
  <2> QED BY <1>3, <2>1, <2>2
<1>5. OutTyped'
  <2>1. at' \in {"header", "body", "reply", "sending", "done"} /\ clientOpen' \in BOOLEAN
    BY <1>2 DEF OutTyped
  <2> QED BY <1>1, <1>4, <2>1 DEF OutTyped
<1>6. HandlerSends'
  BY <1>1, <1>2 DEF HandlerSends
<1>7. at' # "done" /\ clientOpen' => at # "done" /\ clientOpen
  BY <1>2
<1> QED
  BY <1>1, <1>5, <1>6, <1>7, SilentStep

(* The steps that begin a frame and those that drop one. *)
LEMMA PackagingKeepsOut ==
    ASSUME OutInv,
           \/ DispatchRequest \/ \E s \in Pushers : Push(s)
           \/ \E s \in Senders : SendFails(s)
    PROVE  OutInv'
<1> USE DEF OutInv
<1>0. "handler" \in Senders /\ Pushers \subseteq Senders /\ "handler" \notin Pushers
  BY FramingAssumption DEF Senders
<1>1. PICK s \in Senders, f \in {<<>>, Frame} :
        /\ out' = [out EXCEPT ![s] = f]
        /\ f = Frame => out[s] = <<>> /\ at # "done"
        /\ f = <<>> => at = "done" \/ ~clientOpen
        /\ s = "handler" => out[s] # f
        /\ at' = IF s = "handler" THEN IF f = Frame THEN "sending" ELSE "header" ELSE at
  BY <1>0, FrameTyped DEF DispatchRequest, Push, SendFails, Package, Frame
<1>2. UNCHANGED <<buffer, stream, wanted, waited, mixed, clientOpen>>
  BY DEF DispatchRequest, Push, SendFails, inVars
<1>3. /\ out'[s] = f /\ \A r \in Senders : r # s => out'[r] = out[r]
      /\ out' \in [Senders -> Seq(Out)]
  BY <1>1, FrameTyped, EmptySeq DEF OutTyped
<1>4. OutTyped'
  <2>1. \A r \in Senders : Len(out'[r]) <= Len(Frame)
    BY <1>1, <1>3, FrameTyped, EmptySeq DEF OutTyped
  <2> QED BY <1>1, <1>2, <1>3, <2>1 DEF OutTyped
<1>5. HandlerSends'
  BY <1>0, <1>1, <1>3, FrameTyped DEF HandlerSends
<1>6. at' # "done" /\ clientOpen' => at # "done" /\ clientOpen
  BY <1>0, <1>1, <1>2, FrameTyped DEF HandlerSends
<1>7. \A r \in Senders : out'[r] = out[r] \/ ~Begun(r)'
  BY <1>1, <1>3, BegunIs
<1>8. \A r \in Senders : at' # "done" /\ clientOpen' /\ Begun(r) => out'[r] = out[r]
  BY <1>1, <1>3, <1>6, BegunIs
<1> QED
  BY <1>2, <1>4, <1>5, <1>6, <1>7, <1>8, SilentStep

(* Bytes written one after the other. *)
LEMMA WrittenInTurn == \A a, b, c \in Seq(Out) : (a \o b) \o c = a \o (b \o c)
BY ConcatAssociative

(* A send() splits what is left of the frame, and writes what fits. *)
LEMMA SendSplits ==
    ASSUME OutTyped, NEW s \in Senders, Send(s)
    PROVE  \E chunk, rest \in Seq(Out) :
            /\ Write(s, chunk, rest)
            /\ out[s] = chunk \o rest /\ Len(rest) < Len(out[s]) /\ Len(rest) < Len(Frame)
            /\ Len(buffer) + Len(chunk) <= Capacity
<1> DEFINE k == Space(s)
           chunk == SubSeq(out[s], 1, k)
           rest == SubSeq(out[s], k + 1, Len(out[s]))
<1>1. /\ out[s] \in Seq(Out) /\ Len(out[s]) \in Nat /\ Len(out[s]) <= Len(Frame) /\ Len(Frame) \in Nat
      /\ Len(buffer) \in Nat /\ Len(buffer) <= Capacity /\ Capacity \in Nat
  BY FrameTyped, FramingAssumption DEF OutTyped
<1>2. k \in 0..Len(out[s]) /\ k <= Capacity - Len(buffer)
  BY <1>1 DEF Space
<1>3. Write(s, chunk, rest) /\ chunk # <<>>
  BY DEF Send, Write
<1> HIDE DEF k
<1>4. /\ chunk \in Seq(Out) /\ rest \in Seq(Out) /\ chunk \o rest = out[s]
      /\ Len(chunk) = k /\ Len(rest) = Len(out[s]) - k
  BY <1>1, <1>2, SplitAt
<1> HIDE DEF chunk, rest
<1>5. k # 0
  BY <1>3, <1>4, EmptySeq
<1>6. Len(rest) < Len(out[s]) /\ Len(rest) < Len(Frame) /\ Len(buffer) + Len(chunk) <= Capacity
  BY <1>1, <1>2, <1>4, <1>5
<1> QED
  BY <1>3, <1>4, <1>6, Zenon

(* Writing into nobody's frame carries the stream on where the frame was left. *)
LEMMA SendKeepsOut ==
    ASSUME OutInv, NEW s \in Senders, Send(s)
    PROVE  OutInv'
<1> USE DEF OutInv
<1>1. PICK chunk, rest \in Seq(Out) :
        /\ Write(s, chunk, rest)
        /\ out[s] = chunk \o rest /\ Len(rest) < Len(out[s]) /\ Len(rest) < Len(Frame)
        /\ Len(buffer) + Len(chunk) <= Capacity
  BY SendSplits
<1>2. /\ chunk # <<>> /\ buffer' = buffer \o chunk /\ stream' = stream \o chunk
      /\ out' = [out EXCEPT ![s] = rest]
      /\ wanted' = IF Begun(s) THEN wanted ELSE wanted \o out[s]
      /\ waited' = (waited \/ rest # <<>>)
      /\ mixed' = (mixed \/ \E r \in Senders \ {s} : Begun(r))
      /\ at' = IF s = "handler" /\ rest = <<>> THEN "header" ELSE at
      /\ UNCHANGED clientOpen
  BY <1>1 DEF Write, inVars
<1>3. at # "done" /\ clientOpen
  BY DEF Send
<1>4. /\ out \in [Senders -> Seq(Out)] /\ out[s] \in Seq(Out)
      /\ {buffer, stream, wanted} \subseteq Seq(Out)
  BY DEF OutTyped
<1>5. out'[s] = rest /\ \A r \in Senders : r # s => out'[r] = out[r]
  BY <1>2, <1>4
<1>6. out[s] # <<>>
  BY <1>1, <1>2, <1>4, ConcatEqualIffEmpty
<1>7. Begun(s)' <=> rest # <<>>
  BY <1>1, <1>5, BegunIs
<1>8. \A r \in Senders : r # s => (Begun(r)' <=> Begun(r))
  BY <1>5, BegunIs
<1>9. OutTyped'
  <2>1. buffer' \in Seq(Out) /\ Len(buffer') = Len(buffer) + Len(chunk)
    BY <1>2, <1>4, ConcatProperties
  <2>2. {stream', wanted'} \subseteq Seq(Out)
    BY <1>2, <1>4, ConcatProperties
  <2>3. out' \in [Senders -> Seq(Out)] /\ \A r \in Senders : Len(out'[r]) <= Len(Frame)
    <3>1. Len(rest) <= Len(Frame)
      BY <1>1, FrameTyped
    <3> QED BY <1>2, <1>4, <1>5, <3>1 DEF OutTyped
  <2>4. at' \in {"header", "body", "reply", "sending", "done"}
    BY <1>2 DEF OutTyped
  <2>5. waited' \in BOOLEAN /\ mixed' \in BOOLEAN /\ clientOpen' \in BOOLEAN
    BY <1>2, Zenon DEF OutTyped
  <2> QED BY <1>1, <2>1, <2>2, <2>3, <2>4, <2>5 DEF OutTyped
<1>10. HandlerSends'
  <2>1. "handler" \in Senders
    BY DEF Senders
  <2>2. CASE s = "handler"
    BY <1>2, <1>5, <1>6, <2>2 DEF HandlerSends
  <2>3. CASE s # "handler"
    BY <1>2, <1>5, <2>1, <2>3 DEF HandlerSends
  <2> QED BY <2>2, <2>3
<1>11. ~mixed' => ~mixed /\ \A r \in Senders : Begun(r) => r = s
  BY <1>2, Zenon
<1>12. OneBegun'
  <2>1. ~waited' => ~waited /\ rest = <<>>
    BY <1>2, Zenon
  <2>2. ~waited' => ~mixed' /\ \A r \in Senders : ~Begun(r)'
    BY <1>2, <1>7, <1>8, <2>1, Zenon DEF OneBegun
  <2>3. ~mixed' => \A r \in Senders : Begun(r)' => r = s
    BY <1>8, <1>11
  <2> QED BY <2>2, <2>3 DEF OneBegun
<1>13. ASSUME ~mixed' PROVE stream' \o rest = wanted'
  <2>1. stream' \o rest = stream \o out[s]
    <3>1. stream \in Seq(Out)
      BY <1>4
    <3>2. (stream \o chunk) \o rest = stream \o (chunk \o rest)
      BY <3>1, WrittenInTurn
    <3> QED BY <1>1, <1>2, <3>2, Zenon
  <2>2. CASE Begun(s)
    BY <1>2, <1>3, <1>11, <1>13, <2>1, <2>2 DEF StreamIsWanted
  <2>3. CASE ~Begun(s)
    <3>1. stream = wanted
      BY <1>3, <1>11, <1>13, <2>3 DEF StreamIsWanted
    <3> QED BY <1>2, <2>1, <2>3, <3>1
  <2> QED BY <2>2, <2>3
<1>14. StreamIsWanted'
  <2> SUFFICES ASSUME ~mixed'
      PROVE  /\ IsPrefix(stream', wanted')
             /\ \A r \in Senders : Begun(r)' => stream' \o out'[r] = wanted'
             /\ (\A r \in Senders : ~Begun(r)') => stream' = wanted'
    BY DEF StreamIsWanted
  <2>1. stream' \in Seq(Out) /\ stream' \o rest = wanted'
    BY <1>2, <1>4, <1>13, ConcatProperties
  <2>2. \A r \in Senders : Begun(r)' => r = s
    BY <1>8, <1>11
  <2>3. ~Begun(s)' => rest = <<>>
    BY <1>7
  <2>4. rest = <<>> => stream' = wanted'
    BY <2>1, ConcatEmptySeq
  <2>5. IsPrefix(stream', wanted')
    BY <2>1, PrefixOfConcat
  <2> QED BY <1>5, <2>1, <2>2, <2>3, <2>4, <2>5
<1> QED
  BY <1>9, <1>10, <1>12, <1>14

(* Every step keeps the outward invariant. *)
LEMMA OutInvariant == Spec => []OutInv
<1>1. OutInv /\ [Next]_vars => OutInv'
  BY ReadingKeepsOut, PackagingKeepsOut, SendKeepsOut DEF Next
<1> QED
  BY <1>1, InitOut, PTL DEF Spec

(* The client can take the stream apart into frames, unless a thread has written while another
   was waiting in the middle of its frame, for which a send() must have found too little space
   (SendData loops without a lock: server.cpp:318-326). *)
THEOREM StreamOfWholeFrames == Spec => []FramesStayWhole
<1>1. OutInv => FramesStayWhole
  BY DEF OutInv, OneBegun, StreamIsWanted, FramesStayWhole
<1> QED
  BY <1>1, OutInvariant, PTL

-----------------------------------------------------------------------------
(* Inwards: the frames that wait to be read *)

\* Frame i starts after off[i] of the bytes, the first of them where it is said to; the bytes
\* end with the last frame, or before it when the client has closed its end.
Offsets(off, first, start, frames, bytes, open) ==
    /\ frames \in Seq(Bodies) /\ bytes \in Seq(Byte)
    /\ first \in 1..(Len(frames) + 1) /\ off[first] = start
    /\ \A i \in first..(Len(frames) + 1) : off[i] \in Int /\ off[i] <= off[Len(frames) + 1]
    /\ \A i \in first..Len(frames) : off[i + 1] = off[i] + HeaderLength + Len(frames[i])
    /\ Len(bytes) <= off[Len(frames) + 1] /\ (open => Len(bytes) = off[Len(frames) + 1])
    /\ \A i \in first..Len(frames) : \A j \in 1..(HeaderLength + Len(frames[i])) :
        off[i] + j \in 1..Len(bytes) => bytes[off[i] + j] = PackageMessage(frames[i])[j]

(* The constants. *)
LEMMA ConstantFacts ==
    /\ HeaderLength \in Nat \ {0} /\ Capacity \in Nat /\ Bodies \subseteq Seq(Byte) /\ Reply \in Seq(Byte)
    /\ \A b \in Bodies : b \in Seq(Byte) /\ Len(b) \in Nat
BY FramingAssumption DEF Byte

(* The bytes of a frame: a header and the body. *)
LEMMA FrameOf ==
    ASSUME HeadersHoldLengths, NEW b \in Bodies
    PROVE  /\ b \in Seq(Byte) /\ Len(b) \in Nat
           /\ PackageMessage(b) \in Seq(Byte) /\ Len(PackageMessage(b)) = HeaderLength + Len(b)
           /\ \A j \in 1..Len(b) : PackageMessage(b)[HeaderLength + j] = b[j]
<1> DEFINE digit(i) == (Len(b) \div Base^(HeaderLength - i)) % Base
           header == [i \in 1..HeaderLength |-> digit(i)]
<1>1. HeaderLength \in Nat \ {0} /\ b \in Seq(Byte) /\ Len(b) \in Nat
  BY ConstantFacts
<1>2. PackageMessage(b) = header \o b /\ PackageMessage(b) \in Seq(Byte)
  BY DEF PackageMessage, HeadersHoldLengths, Byte
<1> HIDE DEF digit
<1> DEFINE S == Byte \cup {digit(i) : i \in 1..HeaderLength}
<1>3. header \in Seq(S) /\ Len(header) = HeaderLength
  BY <1>1
<1>4. b \in Seq(S)
  BY <1>1, SeqMonotonic, Zenon
<1> HIDE DEF header, S
<1>5. /\ Len(header \o b) = Len(header) + Len(b)
      /\ \A i \in 1..(Len(header) + Len(b)) : (header \o b)[i] = IF i <= Len(header) THEN header[i] ELSE b[i - Len(header)]
  BY <1>3, <1>4, ConcatProperties, Zenon
<1>6. \A x \in 1..(Len(header) + Len(b)) : ~(x <= Len(header)) => PackageMessage(b)[x] = b[x - Len(header)]
  BY <1>2, <1>5
<1>7. ASSUME NEW j \in 1..Len(b) PROVE PackageMessage(b)[HeaderLength + j] = b[j]
  <2>1. /\ HeaderLength + j \in 1..(Len(header) + Len(b))
        /\ ~(HeaderLength + j <= Len(header)) /\ (HeaderLength + j) - Len(header) = j
    BY <1>1, <1>3
  <2>2. PackageMessage(b)[HeaderLength + j] = b[(HeaderLength + j) - Len(header)]
    BY <1>6, <2>1
  <2> QED BY <2>1, <2>2, Zenon
<1> QED
  BY <1>1, <1>2, <1>3, <1>5, <1>7

(* Reading moves the frames to the front; a body that is complete leaves them. *)
LEMMA OffsetsShift ==
    ASSUME NEW off, NEW first, NEW start, NEW frames, NEW bytes, NEW open,
           Offsets(off, first, start, frames, bytes, open),
           NEW m \in 0..Len(bytes), NEW next \in first..(first + 1), next <= Len(frames) + 1
    PROVE  \E o : Offsets(o, next, off[next] - m, frames, SubSeq(bytes, m + 1, Len(bytes)), open)
<1> DEFINE H == HeaderLength
           N == Len(frames)
           B == Len(bytes)
           size(i) == H + Len(frames[i])
           o == [i \in first..(N + 1) |-> off[i] - m]
           rest == SubSeq(bytes, m + 1, Len(bytes))
<1>1. frames \in Seq(Bodies) /\ bytes \in Seq(Byte)
  BY DEF Offsets
<1>2. H \in Nat /\ N \in Nat /\ B \in Nat /\ \A i \in 1..N : size(i) \in Nat
  BY <1>1, ConstantFacts
<1>3. rest \in Seq(Byte) /\ Len(rest) = B - m /\ \A x \in 1..(B - m) : rest[x] = bytes[x + m]
  BY <1>1, SplitAt
<1>4. first \in 1..(N + 1) /\ B <= off[N + 1] /\ (open => B = off[N + 1])
  BY DEF Offsets
<1>5. \A i \in first..(N + 1) : off[i] \in Int /\ off[i] <= off[N + 1]
  BY DEF Offsets
<1>6. ASSUME NEW i \in first..N PROVE off[i + 1] = off[i] + size(i)
  <2>1. off[i + 1] = off[i] + H + Len(frames[i])
    BY DEF Offsets
  <2>2. off[i] \in Int /\ Len(frames[i]) \in Nat
    BY <1>1, <1>2, <1>4, <1>5, ConstantFacts
  <2> QED BY <1>2, <2>1, <2>2
<1>7. \A i \in first..N : \A j \in 1..size(i) :
            off[i] + j \in 1..B => bytes[off[i] + j] = PackageMessage(frames[i])[j]
  BY DEF Offsets
<1>8. m \in 0..B /\ next <= N + 1
  OBVIOUS
<1>9. \A i \in first..(N + 1) : o[i] = off[i] - m
  OBVIOUS
<1> HIDE DEF o, rest, N, B, H, size
<1>10. /\ next \in 1..(N + 1) /\ next \in first..(N + 1) /\ next..N \subseteq first..N
       /\ next..(N + 1) \subseteq first..(N + 1)
  BY <1>2, <1>4, <1>8
<1>11. \A i \in next..N : o[i + 1] = o[i] + size(i)
  <2> SUFFICES ASSUME NEW i \in next..N PROVE o[i + 1] = o[i] + size(i)
    OBVIOUS
  <2>1. i \in first..N /\ i \in first..(N + 1) /\ i + 1 \in first..(N + 1) /\ size(i) \in Nat
    BY <1>2, <1>4, <1>10
  <2> QED BY <1>5, <1>6, <1>8, <1>9, <2>1
<1>12. \A i \in next..(N + 1) : o[i] \in Int /\ o[i] <= o[N + 1]
  <2> SUFFICES ASSUME NEW i \in next..(N + 1) PROVE o[i] \in Int /\ o[i] <= o[N + 1]
    OBVIOUS
  <2>1. i \in first..(N + 1) /\ N + 1 \in first..(N + 1)
    BY <1>2, <1>4, <1>10
  <2> QED BY <1>2, <1>5, <1>8, <1>9, <2>1
<1>13. Len(rest) <= o[N + 1] /\ (open => Len(rest) = o[N + 1])
  <2>1. N + 1 \in first..(N + 1)
    BY <1>2, <1>4
  <2> QED BY <1>2, <1>3, <1>4, <1>5, <1>8, <1>9, <2>1
<1>14. \A i \in next..N : \A j \in 1..size(i) :
            o[i] + j \in 1..Len(rest) => rest[o[i] + j] = PackageMessage(frames[i])[j]
  <2> SUFFICES ASSUME NEW i \in next..N, NEW j \in 1..size(i), o[i] + j \in 1..Len(rest)
      PROVE  rest[o[i] + j] = PackageMessage(frames[i])[j]
    OBVIOUS
  <2>1. i \in first..N /\ i \in first..(N + 1) /\ size(i) \in Nat
    BY <1>2, <1>4, <1>10
  <2>2. o[i] = off[i] - m /\ off[i] \in Int
    BY <1>5, <1>9, <2>1
  <2>3. o[i] + j \in 1..(B - m)
    BY <1>3
  <2>4. (o[i] + j) + m = off[i] + j /\ off[i] + j \in 1..B
    <3>1. m \in Nat /\ B \in Nat /\ m <= B /\ j \in Int
      BY <1>2, <1>8, <2>1
    <3>2. (o[i] + j) + m = off[i] + j
      BY ONLY <2>2, <3>1
    <3> QED BY ONLY <2>2, <2>3, <3>1, <3>2
  <2>5. rest[o[i] + j] = bytes[(o[i] + j) + m]
    BY <1>3, <2>3
  <2>6. bytes[off[i] + j] = PackageMessage(frames[i])[j]
    BY <1>7, <2>1, <2>4
  <2> QED BY <2>4, <2>5, <2>6
<1>15. \A i \in next..N : o[i + 1] = o[i] + H + Len(frames[i])
  <2> SUFFICES ASSUME NEW i \in next..N PROVE o[i + 1] = o[i] + H + Len(frames[i])
    OBVIOUS
  <2>1. i \in 1..N /\ i \in next..(N + 1) /\ i \in DOMAIN frames
    BY <1>1, <1>2, <1>10 DEF N
  <2>2. Len(frames[i]) \in Nat /\ o[i] \in Int
    BY <1>1, <1>12, <2>1, ConstantFacts
  <2> QED BY <1>2, <1>11, <2>2 DEF size
<1>16. Offsets(o, next, off[next] - m, frames, rest, open)
  BY <1>1, <1>3, <1>9, <1>10, <1>12, <1>13, <1>14, <1>15, Zenon DEF Offsets, N, H, size
<1> QED
  BY <1>16 DEF rest

(* The client sends one more frame. *)
LEMMA OffsetsAppend ==
    ASSUME HeadersHoldLengths, NEW off, NEW first, NEW start, NEW frames, NEW bytes,
           Offsets(off, first, start, frames, bytes, TRUE), NEW b \in Bodies
    PROVE  \E o : Offsets(o, first, start, Append(frames, b), bytes \o PackageMessage(b), TRUE)
<1> DEFINE H == HeaderLength
           N == Len(frames)
           B == Len(bytes)
           size(i) == H + Len(frames[i])
           new == H + Len(b)
           more == Append(frames, b)
           all == bytes \o PackageMessage(b)
           o == [i \in first..(N + 2) |-> IF i = N + 2 THEN B + new ELSE off[i]]
<1>1. frames \in Seq(Bodies) /\ bytes \in Seq(Byte)
  BY DEF Offsets
<1>2. /\ H \in Nat /\ N \in Nat /\ B \in Nat /\ new \in Nat
      /\ \A i \in 1..N : size(i) \in Nat /\ Len(frames[i]) \in Nat
  BY <1>1, ConstantFacts
<1>3. first \in 1..(N + 1) /\ off[first] = start /\ B = off[N + 1]
  BY DEF Offsets
<1>4. \A i \in first..(N + 1) : off[i] \in Int /\ off[i] <= off[N + 1]
  BY DEF Offsets
<1>5. \A i \in first..N : off[i + 1] = off[i] + H + Len(frames[i])
  BY DEF Offsets
<1>6. \A i \in first..N : \A j \in 1..size(i) :
            off[i] + j \in 1..B => bytes[off[i] + j] = PackageMessage(frames[i])[j]
  BY DEF Offsets
<1>7. more \in Seq(Bodies) /\ Len(more) = N + 1 /\ more[N + 1] = b /\ \A i \in 1..N : more[i] = frames[i]
  BY <1>1
<1>8. /\ PackageMessage(b) \in Seq(Byte) /\ Len(PackageMessage(b)) = new
      /\ all \in Seq(Byte) /\ Len(all) = B + Len(PackageMessage(b))
      /\ \A x \in 1..(B + Len(PackageMessage(b))) :
            all[x] = IF x <= B THEN bytes[x] ELSE PackageMessage(b)[x - B]
  <2>1. PackageMessage(b) \in Seq(Byte) /\ Len(PackageMessage(b)) = new
    BY FrameOf
  <2> QED BY <1>1, <2>1, ConcatProperties, ZenonT(40)
<1>9. /\ o[N + 2] = B + new
      /\ \A i \in first..(N + 1) : o[i] = off[i]
  BY <1>2, <1>3
<1> HIDE DEF o, more, all, N, B, H, size, new
<1>10. Len(all) = B + new /\ \A x \in 1..(B + new) : all[x] = IF x <= B THEN bytes[x] ELSE PackageMessage(b)[x - B]
  BY <1>8
<1>11. ASSUME NEW x \in 1..B PROVE all[x] = bytes[x]
  BY <1>2, <1>10
<1>12. ASSUME NEW j \in 1..new PROVE all[B + j] = PackageMessage(b)[j]
  <2>1. B + j \in 1..(B + new) /\ ~(B + j <= B) /\ (B + j) - B = j
    BY <1>2
  <2> QED BY <1>10, <2>1
<1>13. \A i \in first..(N + 1) : o[i + 1] = o[i] + H + Len(more[i])
  <2> SUFFICES ASSUME NEW i \in first..(N + 1) PROVE o[i + 1] = o[i] + H + Len(more[i])
    OBVIOUS
  <2>1. CASE i = N + 1
    <3>1. more[i] = b /\ i + 1 = N + 2 /\ o[i] = off[N + 1] /\ o[i + 1] = B + new
      BY <1>2, <1>7, <1>9, <2>1
    <3>2. Len(more[i]) \in Nat /\ new = H + Len(more[i])
      BY <3>1, ConstantFacts DEF new
    <3> QED BY <1>2, <1>3, <3>1, <3>2
  <2>2. CASE i # N + 1
    <3>1. i \in first..N /\ i \in 1..N /\ i + 1 \in first..(N + 1)
      BY <1>2, <1>3, <2>2
    <3>2. more[i] = frames[i] /\ o[i] = off[i] /\ o[i + 1] = off[i + 1]
      BY <1>7, <1>9, <3>1
    <3> QED BY <1>5, <3>1, <3>2
  <2> QED BY <2>1, <2>2
<1>14. \A i \in first..(N + 2) : o[i] \in Int /\ o[i] <= o[N + 2]
  <2> SUFFICES ASSUME NEW i \in first..(N + 2) PROVE o[i] \in Int /\ o[i] <= o[N + 2]
    OBVIOUS
  <2>0. o[N + 2] = B + new /\ B + new \in Int /\ B <= B + new
    BY <1>2, <1>9
  <2>1. CASE i = N + 2
    BY <2>0, <2>1
  <2>2. CASE i # N + 2
    <3>1. i \in first..(N + 1)
      BY <1>2, <1>3, <2>2
    <3>2. o[i] = off[i] /\ off[i] \in Int /\ off[i] <= B
      BY <1>3, <1>4, <1>9, <3>1
    <3> QED BY <1>2, <2>0, <3>2
  <2> QED BY <2>1, <2>2
<1>15. Len(all) = o[N + 2]
  BY <1>9, <1>10
<1>16. \A i \in first..(N + 1) : \A j \in 1..(H + Len(more[i])) :
            o[i] + j \in 1..Len(all) => all[o[i] + j] = PackageMessage(more[i])[j]
  <2> SUFFICES ASSUME NEW i \in first..(N + 1), NEW j \in 1..(H + Len(more[i])), o[i] + j \in 1..Len(all)
      PROVE  all[o[i] + j] = PackageMessage(more[i])[j]
    OBVIOUS
  <2>1. CASE i = N + 1
    <3>1. more[i] = b /\ o[i] = B
      BY <1>3, <1>7, <1>9, <2>1
    <3>2. j \in 1..new
      BY <3>1 DEF new
    <3> QED BY <1>12, <3>1, <3>2
  <2>2. CASE i # N + 1
    <3>1. i \in first..N /\ i \in 1..N /\ i \in first..(N + 1) /\ i + 1 \in first..(N + 1)
      BY <1>2, <1>3, <2>2
    <3>2. more[i] = frames[i] /\ o[i] = off[i] /\ size(i) \in Nat
      BY <1>2, <1>7, <1>9, <3>1
    <3>3. size(i) = H + Len(frames[i]) /\ Len(frames[i]) \in Nat
      BY <1>2, <3>1 DEF size
    <3>4. off[i + 1] = off[i] + size(i) /\ off[i + 1] <= B /\ off[i] \in Int
      BY <1>2, <1>3, <1>4, <1>5, <3>1, <3>3
    <3>5. j \in 1..size(i) /\ off[i] + j \in 1..(B + new)
      BY <1>10, <3>2, <3>3
    <3>6. off[i] + j \in 1..B
      BY <1>2, <3>2, <3>4, <3>5
    <3>7. all[off[i] + j] = bytes[off[i] + j] /\ bytes[off[i] + j] = PackageMessage(frames[i])[j]
      BY <1>6, <1>11, <3>1, <3>5, <3>6
    <3> QED BY <3>2, <3>7
  <2> QED BY <2>1, <2>2
<1>17. first \in 1..(N + 2) /\ o[first] = start
  BY <1>2, <1>3, <1>9
<1>18. Len(more) + 1 = N + 2
  BY <1>2, <1>7
<1>19. Offsets(o, first, start, more, all, TRUE)
  BY <1>7, <1>8, <1>13, <1>14, <1>15, <1>16, <1>17, <1>18 DEF Offsets, H
<1> QED
  BY <1>19 DEF more, all

(* The client goes: what it has sent is cut off anywhere. *)
LEMMA OffsetsCut ==
    ASSUME NEW off, NEW first, NEW start, NEW frames, NEW bytes, NEW open,
           Offsets(off, first, start, frames, bytes, open), NEW m \in 0..Len(bytes)
    PROVE  Offsets(off, first, start, frames, SubSeq(bytes, 1, m), FALSE)
<1> DEFINE N == Len(frames)
           B == Len(bytes)
           size(i) == HeaderLength + Len(frames[i])
           cut == SubSeq(bytes, 1, m)
<1>1. frames \in Seq(Bodies) /\ bytes \in Seq(Byte)
  BY DEF Offsets
<1>2. N \in Nat /\ B \in Nat /\ m \in 0..B
  BY <1>1
<1>3. cut \in Seq(Byte) /\ Len(cut) = m /\ \A x \in 1..m : cut[x] = bytes[x]
  BY <1>1, SplitAt
<1>4. first \in 1..(N + 1) /\ off[first] = start /\ B <= off[N + 1]
  BY DEF Offsets
<1>5. \A i \in first..(N + 1) : off[i] \in Int /\ off[i] <= off[N + 1]
  BY DEF Offsets
<1>6. \A i \in first..N : off[i + 1] = off[i] + HeaderLength + Len(frames[i])
  BY DEF Offsets
<1>7. \A i \in first..N : \A j \in 1..size(i) :
            off[i] + j \in 1..B => bytes[off[i] + j] = PackageMessage(frames[i])[j]
  BY DEF Offsets
<1> HIDE DEF cut, N, B, size
<1>8. Len(cut) <= off[N + 1]
  <2>1. N + 1 \in first..(N + 1)
    BY <1>2, <1>4
  <2> QED BY <1>2, <1>3, <1>4, <1>5, <2>1
<1>9. \A i \in first..N : \A j \in 1..size(i) :
            off[i] + j \in 1..Len(cut) => cut[off[i] + j] = PackageMessage(frames[i])[j]
  <2> SUFFICES ASSUME NEW i \in first..N, NEW j \in 1..size(i), off[i] + j \in 1..Len(cut)
      PROVE  cut[off[i] + j] = PackageMessage(frames[i])[j]
    OBVIOUS
  <2>1. off[i] + j \in 1..m /\ off[i] + j \in 1..B
    BY <1>2, <1>3
  <2> QED BY <1>3, <1>7, <2>1, Zenon
<1>10. Offsets(off, first, start, frames, cut, FALSE)
  BY <1>1, <1>3, <1>4, <1>5, <1>6, <1>8, <1>9, Zenon DEF Offsets, N, size
<1> QED
  BY <1>10 DEF cut

-----------------------------------------------------------------------------
(* Inwards: the invariant *)

InTyped ==
    /\ inbound \in Seq(Byte) /\ sent \in Seq(Bodies) /\ received \in Seq(Seq(Byte))
    /\ length \in Nat /\ body \in Seq(Byte) /\ torn \in BOOLEAN /\ pushed \in 0..MaxPushes
    /\ at = "body" => Len(body) < length /\ length <= MaxBody
    /\ at \notin {"body", "done"} => body = <<>>

\* How far before the bytes that wait the frame began that is being read.
Start == IF at = "body" THEN -(HeaderLength + Len(body)) ELSE 0

\* The requests received are the first of those sent, and the frames of the others wait, of
\* the first of them what has not been read.
Intact ==
    ~torn =>
        /\ IsPrefix(received, sent)
        /\ at # "done" => \E off : Offsets(off, Len(received) + 1, Start, sent, inbound, clientOpen)
        /\ at = "body" =>
            LET request == sent[Len(received) + 1]
            IN  /\ Len(received) < Len(sent)
                /\ length = Len(request) /\ \A j \in 1..Len(body) : body[j] = request[j]

InInv == InTyped /\ Intact

(* What has been received and what has been sent, request by request. *)
LEMMA RequestByRequest ==
    ASSUME NEW p \in Seq(Seq(Byte)), NEW q \in Seq(Bodies)
    PROVE  IsPrefix(p, q) <=> Len(p) <= Len(q) /\ \A i \in 1..Len(p) : p[i] = q[i]
<1>1. q \in Seq(Seq(Byte))
  BY ConstantFacts, SeqMonotonic
<1>2. ASSUME NEW T, p \in Seq(T), q \in Seq(T)
      PROVE  IsPrefix(p, q) <=> Len(p) <= Len(q) /\ \A i \in 1..Len(p) : p[i] = q[i]
  BY ONLY <1>2, PrefixByElements
<1> QED
  BY <1>1, <1>2, Zenon

(* At the start nothing has been sent. *)
LEMMA InitIn == Init => InInv
<1> SUFFICES ASSUME Init PROVE InInv
  OBVIOUS
<1> USE DEF Init
<1>1. <<>> \in Seq(Bodies) /\ <<>> \in Seq(Byte) /\ <<>> \in Seq(Seq(Byte)) /\ Len(<<>>) = 0
  BY EmptySeq
<1>2. InTyped
  <2>1. 0 \in 0..MaxPushes
    BY FramingAssumption
  <2> QED BY <1>1, <2>1 DEF InTyped
<1>3. IsPrefix(received, sent)
  BY <1>1, PrefixOfConcat
<1>4. Offsets([i \in {1} |-> 0], 1, 0, sent, inbound, TRUE)
  BY <1>1 DEF Offsets
<1>5. Len(received) + 1 = 1 /\ Start = 0 /\ clientOpen = TRUE /\ at = "header"
  BY <1>1 DEF Start
<1>6. Intact
  BY <1>3, <1>4, <1>5 DEF Intact
<1> QED
  BY <1>2, <1>6 DEF InInv

(* Sending an answer or a notification leaves what is read alone. *)
LEMMA OutwardSteps ==
    ASSUME OutInv,
           \/ DispatchRequest \/ ClientReads \/ UNCHANGED vars
           \/ \E s \in Pushers : Push(s)
           \/ \E s \in Senders : Send(s) \/ SendFails(s)
    PROVE  /\ UNCHANGED inVars
           /\ at' = at \/ (at \in {"reply", "sending"} /\ at' \in {"header", "sending"})
           /\ pushed' = pushed \/ (pushed < MaxPushes /\ pushed' = pushed + 1)
<1>1. UNCHANGED inVars
  BY DEF DispatchRequest, ClientReads, vars, Push, Send, SendFails, Write
<1>2. pushed' = pushed \/ (pushed < MaxPushes /\ pushed' = pushed + 1)
  BY DEF DispatchRequest, ClientReads, vars, outVars, Push, Send, SendFails, Write
<1>3. ASSUME DispatchRequest \/ ClientReads \/ UNCHANGED vars \/ \E s \in Pushers : Push(s)
      PROVE  at' = at \/ (at \in {"reply", "sending"} /\ at' \in {"header", "sending"})
  BY <1>3 DEF DispatchRequest, ClientReads, vars, Push
<1>4. ASSUME \E s \in Senders : Send(s)
      PROVE  at' = at \/ (at \in {"reply", "sending"} /\ at' \in {"header", "sending"})
  <2>1. PICK s \in Senders : Send(s)
    BY <1>4
  <2>2. PICK chunk, rest \in Seq(Out) : Write(s, chunk, rest) /\ Len(rest) < Len(out[s])
    BY <2>1, SendSplits DEF OutInv
  <2>3. out[s] # <<>>
    <3>1. Len(rest) \in Nat /\ Len(<<>>) = 0
      BY EmptySeq
    <3> QED BY <2>2, <3>1
  <2>4. at' = at \/ (s = "handler" /\ at' = "header")
    BY <2>2 DEF Write
  <2> QED BY <2>3, <2>4 DEF OutInv, HandlerSends
<1>5. ASSUME \E s \in Senders : SendFails(s)
      PROVE  at' = at \/ (at \in {"reply", "sending"} /\ at' \in {"header", "sending"})
  BY <1>5 DEF SendFails, OutInv, HandlerSends
<1> QED
  BY <1>1, <1>2, <1>3, <1>4, <1>5

(* So they keep the inward invariant. *)
LEMMA OutwardKeepsIn ==
    ASSUME InInv, UNCHANGED inVars,
           at' = at \/ (at \in {"reply", "sending"} /\ at' \in {"header", "sending"}),
           pushed' = pushed \/ (pushed < MaxPushes /\ pushed' = pushed + 1)
    PROVE  InInv'
<1>1. UNCHANGED <<inbound, clientOpen, length, body, sent, received, torn>>
  BY DEF inVars
<1>2. Start' = Start /\ (at' = "done" <=> at = "done") /\ (at' = "body" <=> at = "body")
  BY <1>1 DEF Start
<1>3. InTyped'
  <2>1. pushed' \in 0..MaxPushes
    <3>1. MaxPushes \in Nat
      BY FramingAssumption
    <3>2. pushed \in 0..MaxPushes
      BY DEF InInv, InTyped
    <3> QED BY <3>1, <3>2
  <2> QED BY <1>1, <1>2, <2>1 DEF InInv, InTyped
<1>4. Intact'
  BY <1>1, <1>2 DEF InInv, Intact
<1> QED
  BY <1>3, <1>4 DEF InInv

(* A request more waits to be read. *)
LEMMA ClientSendsKeepsIn ==
    ASSUME HeadersHoldLengths, InInv, ClientSends
    PROVE  InInv'
<1>1. PICK b \in Bodies : sent' = Append(sent, b) /\ inbound' = inbound \o PackageMessage(b)
  BY DEF ClientSends
<1>2. UNCHANGED <<clientOpen, length, body, received, torn, pushed, at>> /\ clientOpen
  BY DEF ClientSends, outVars
<1>3. inbound \in Seq(Byte) /\ sent \in Seq(Bodies) /\ received \in Seq(Seq(Byte))
  BY DEF InInv, InTyped
<1>4. /\ sent' \in Seq(Bodies) /\ Len(sent') = Len(sent) + 1 /\ \A i \in 1..Len(sent) : sent'[i] = sent[i]
  BY <1>1, <1>3
<1>5. inbound' \in Seq(Byte)
  BY <1>1, <1>3, FrameOf, ConcatProperties, Zenon
<1>6. InTyped'
  BY <1>2, <1>4, <1>5 DEF InInv, InTyped
<1>7. ASSUME ~torn' PROVE IsPrefix(received', sent')
  <2>1. IsPrefix(received, sent)
    BY <1>2, <1>7 DEF InInv, Intact
  <2>2. received' \in Seq(Seq(Byte))
    BY <1>2, <1>3
  <2>3. Len(received) <= Len(sent) /\ \A i \in 1..Len(received) : received[i] = sent[i]
    BY <1>3, <2>1, RequestByRequest, Zenon
  <2>4. Len(received') <= Len(sent') /\ \A i \in 1..Len(received') : received'[i] = sent'[i]
    BY <1>2, <1>3, <1>4, <2>3
  <2> QED BY <1>4, <2>2, <2>4, RequestByRequest, Zenon
<1>8. ASSUME ~torn', at' # "done"
      PROVE  \E off : Offsets(off, Len(received') + 1, Start', sent', inbound', clientOpen')
  <2>1. PICK off : Offsets(off, Len(received) + 1, Start, sent, inbound, clientOpen)
    BY <1>2, <1>8 DEF InInv, Intact
  <2>2. Offsets(off, Len(received) + 1, Start, sent, inbound, TRUE)
    BY <1>2, <2>1 DEF Offsets
  <2>3. \E o : Offsets(o, Len(received) + 1, Start, sent', inbound', TRUE)
    BY <1>1, <2>2, OffsetsAppend
  <2>4. PICK o : Offsets(o, Len(received) + 1, Start, sent', inbound', TRUE)
    BY <2>3
  <2>5. Offsets(o, Len(received') + 1, Start', sent', inbound', clientOpen')
    BY <1>2, <2>4 DEF Offsets, Start
  <2> QED BY <2>5
<1>9. ASSUME ~torn', at' = "body"
      PROVE  /\ Len(received') < Len(sent') /\ length' = Len(sent'[Len(received') + 1])
             /\ \A j \in 1..Len(body') : body'[j] = sent'[Len(received') + 1][j]
  <2>1. /\ Len(received) < Len(sent) /\ length = Len(sent[Len(received) + 1])
        /\ \A j \in 1..Len(body) : body[j] = sent[Len(received) + 1][j]
    BY <1>2, <1>9 DEF InInv, Intact
  <2>2. Len(received) < Len(sent') /\ Len(received) + 1 \in 1..Len(sent)
    BY <1>3, <1>4, <2>1
  <2>3. sent'[Len(received) + 1] = sent[Len(received) + 1]
    BY <1>4, <2>2
  <2> QED BY <1>2, <2>1, <2>2, <2>3
<1> QED
  BY <1>6, <1>7, <1>8, <1>9 DEF InInv, Intact

(* What was on its way is cut off. *)
LEMMA ClientClosesKeepsIn ==
    ASSUME InInv, ClientCloses
    PROVE  InInv'
<1>1. PICK m \in 0..Len(inbound) : inbound' = SubSeq(inbound, 1, m)
  BY DEF ClientCloses
<1>2. UNCHANGED <<length, body, sent, received, torn, pushed, at>> /\ clientOpen' = FALSE
  BY DEF ClientCloses, outVars
<1>3. inbound' \in Seq(Byte)
  <2>1. inbound \in Seq(Byte)
    BY DEF InInv, InTyped
  <2> QED BY <1>1, <2>1, SplitAt
<1>4. InTyped'
  BY <1>2, <1>3 DEF InInv, InTyped
<1>5. ASSUME ~torn', at' # "done"
      PROVE  \E off : Offsets(off, Len(received') + 1, Start', sent', inbound', clientOpen')
  <2>1. PICK off : Offsets(off, Len(received) + 1, Start, sent, inbound, clientOpen)
    BY <1>2, <1>5 DEF InInv, Intact
  <2>2. Offsets(off, Len(received) + 1, Start, sent, inbound', FALSE)
    BY <1>1, <2>1, OffsetsCut
  <2>3. Offsets(off, Len(received') + 1, Start', sent', inbound', clientOpen')
    BY <1>2, <2>2 DEF Start
  <2> QED BY <2>3
<1>6. Intact'
  BY <1>2, <1>5 DEF InInv, Intact
<1> QED
  BY <1>4, <1>6 DEF InInv

(* The handler gives up. *)
LEMMA ReceiveNothingKeepsIn ==
    ASSUME InInv, ReceiveNothing
    PROVE  InInv'
<1>1. UNCHANGED <<inbound, clientOpen, length, body, sent, received, torn, pushed>> /\ at' = "done"
  BY DEF ReceiveNothing, inVars, outVars
<1> QED
  BY <1>1 DEF InInv, InTyped, Intact

(* A header in one piece is that of the next request. *)
LEMMA ReceiveHeaderKeepsIn ==
    ASSUME HeadersHoldLengths, InInv, ReceiveHeader
    PROVE  InInv'
<1>1. PICK n \in 1..HeaderLength, rest \in [1..HeaderLength -> 0..(Base - 1)] :
        /\ n <= Len(inbound)
        /\ length' = ParseMessageHeader([i \in 1..HeaderLength |-> IF i <= n THEN inbound[i] ELSE rest[i]])
        /\ inbound' = SubSeq(inbound, n + 1, Len(inbound))
        /\ torn' = (torn \/ n < HeaderLength)
  BY DEF ReceiveHeader
<1>2. /\ at = "header" /\ at' = IF length' = 0 \/ length' > MaxBody THEN "done" ELSE "body"
      /\ UNCHANGED <<clientOpen, body, sent, received, pushed>>
  BY DEF ReceiveHeader, outVars
<1>3. /\ inbound \in Seq(Byte) /\ Len(inbound) \in Nat /\ n \in 0..Len(inbound) /\ sent \in Seq(Bodies)
      /\ received \in Seq(Seq(Byte)) /\ body = <<>> /\ Len(body) = 0 /\ HeaderLength \in Nat \ {0}
  <2>1. inbound \in Seq(Byte) /\ sent \in Seq(Bodies) /\ received \in Seq(Seq(Byte)) /\ body = <<>>
    BY <1>2 DEF InInv, InTyped
  <2> QED BY <1>1, <2>1, EmptySeq, ConstantFacts
<1>4. inbound' \in Seq(Byte)
  BY <1>1, <1>3, SplitAt
<1>5. length' \in Nat
  <2> DEFINE h == [i \in 1..HeaderLength |-> IF i <= n THEN inbound[i] ELSE rest[i]]
  <2>1. \A i \in 1..HeaderLength : (IF i <= n THEN inbound[i] ELSE rest[i]) \in Byte
    <3>1. \A i \in 1..HeaderLength : i <= n => inbound[i] \in Byte
      BY <1>3
    <3>2. \A i \in 1..HeaderLength : rest[i] \in Byte
      BY DEF Byte
    <3> QED BY <3>1, <3>2, Zenon
  <2>2. h \in [1..HeaderLength -> 0..(Base - 1)]
    BY <2>1, Zenon DEF Byte
  <2> QED BY <1>1, <2>2, Zenon DEF HeadersHoldLengths
<1>6. InTyped'
  <2>1. torn' \in BOOLEAN
    BY <1>1, Zenon DEF InInv, InTyped
  <2>2. at' = "body" => 0 < length' /\ length' <= MaxBody
    <3>1. MaxBody \in Nat
      BY FramingAssumption
    <3> QED BY <1>2, <1>5, <3>1
  <2> QED BY <1>2, <1>3, <1>4, <1>5, <2>1, <2>2 DEF InInv, InTyped
<1>7. ASSUME ~torn', at' = "body"
      PROVE  /\ \E off : Offsets(off, Len(received) + 1, -(HeaderLength + Len(body)), sent, inbound', clientOpen)
             /\ Len(received) < Len(sent) /\ length' = Len(sent[Len(received) + 1])
  <2>1. ~torn /\ n = HeaderLength
    <3>1. ~torn /\ ~(n < HeaderLength)
      BY <1>1, <1>7, Zenon
    <3> QED BY <1>3, <3>1
  <2>2. PICK off : Offsets(off, Len(received) + 1, 0, sent, inbound, clientOpen)
    BY <1>2, <2>1 DEF InInv, Intact, Start
  <2> DEFINE k == Len(received)
             N == Len(sent)
  <2>3. k \in Nat /\ N \in Nat /\ k + 1 \in 1..(N + 1) /\ off[k + 1] = 0 /\ Len(inbound) <= off[N + 1]
    BY <1>3, <2>2 DEF Offsets
  <2>4. off[N + 1] \in Int
    BY <2>2, <2>3 DEF Offsets
  <2> HIDE DEF k, N
  <2>5. k < N /\ k + 1 \in 1..N
    <3>1. 0 < Len(inbound)
      BY <1>1, <1>3
    <3>2. off[N + 1] # 0
      BY <1>3, <2>3, <2>4, <3>1
    <3>3. N + 1 # k + 1
      BY <2>3, <3>2
    <3> QED BY <2>3, <3>3
  <2>6. sent[k + 1] \in Bodies
    BY <1>3, <2>5 DEF N
  <2>7. \A j \in 1..HeaderLength : inbound[j] = PackageMessage(sent[k + 1])[j]
    <3> SUFFICES ASSUME NEW j \in 1..HeaderLength PROVE inbound[j] = PackageMessage(sent[k + 1])[j]
      OBVIOUS
    <3>1. k + 1 \in (k + 1)..N /\ j \in 1..(HeaderLength + Len(sent[k + 1])) /\ off[k + 1] + j = j /\ j \in 1..Len(inbound)
      <4>1. Len(sent[k + 1]) \in Nat
        BY <2>6, ConstantFacts
      <4> QED BY <1>1, <1>3, <2>1, <2>3, <2>5, <4>1
    <3>2. off[k + 1] + j \in 1..Len(inbound) => inbound[off[k + 1] + j] = PackageMessage(sent[k + 1])[j]
      BY <2>2, <3>1, Zenon DEF Offsets, k, N
    <3> QED BY <3>1, <3>2
  <2>8. length' = Len(sent[k + 1])
    <3>1. \A i \in 1..HeaderLength : (IF i <= n THEN inbound[i] ELSE rest[i]) = PackageMessage(sent[k + 1])[i]
      BY <2>1, <2>7
    <3>2. [i \in 1..HeaderLength |-> IF i <= n THEN inbound[i] ELSE rest[i]] = [i \in 1..HeaderLength |-> PackageMessage(sent[k + 1])[i]]
      BY <3>1, Zenon
    <3>3. ParseMessageHeader([i \in 1..HeaderLength |-> PackageMessage(sent[k + 1])[i]]) = Len(sent[k + 1])
      BY <2>6, Zenon DEF HeadersHoldLengths
    <3> QED BY <1>1, <3>2, <3>3, Zenon
  <2>9. \E o : Offsets(o, k + 1, off[k + 1] - n, sent, inbound', clientOpen)
    <3>1. k + 1 \in (k + 1)..((k + 1) + 1) /\ k + 1 <= N + 1
      BY <2>3
    <3>2. Offsets(off, k + 1, 0, sent, inbound, clientOpen) /\ k + 1 <= Len(sent) + 1
      BY <2>2, <3>1 DEF k, N
    <3>3. \E o : Offsets(o, k + 1, off[k + 1] - n, sent, SubSeq(inbound, n + 1, Len(inbound)), clientOpen)
      BY <1>3, <3>1, <3>2, OffsetsShift, ZenonT(40)
    <3> QED BY <1>1, <3>3, Zenon
  <2>10. off[k + 1] - n = -(HeaderLength + Len(body))
    BY <1>3, <2>1, <2>3
  <2> QED BY <2>5, <2>8, <2>9, <2>10, Zenon DEF k, N
<1>8. Intact'
  <2>1. ~torn' => IsPrefix(received', sent')
    BY <1>1, <1>2 DEF InInv, Intact
  <2>2. at' # "done" => at' = "body"
    BY <1>2
  <2>3. Start' = IF at' = "body" THEN -(HeaderLength + Len(body)) ELSE 0
    BY <1>2 DEF Start
  <2>4. 1..Len(body') = {}
    BY <1>2, <1>3
  <2> QED BY <1>2, <1>7, <2>1, <2>2, <2>3, <2>4 DEF Intact
<1> QED
  BY <1>6, <1>8 DEF InInv

(* What a recv() adds to the body is what follows in the request, and the frames that wait are
   those of before; when the body is complete the next frame is at the front. *)
LEMMA BodyRead ==
    ASSUME HeadersHoldLengths, InInv, at = "body", ~torn, NEW n \in 1..(length - Len(body)), n <= Len(inbound)
    PROVE  LET read == body \o SubSeq(inbound, 1, n)
               rest == SubSeq(inbound, n + 1, Len(inbound))
               k == Len(received)
           IN  /\ k \in Nat /\ k < Len(sent) /\ length = Len(sent[k + 1]) /\ sent[k + 1] \in Seq(Byte)
               /\ \A j \in 1..Len(read) : read[j] = sent[k + 1][j]
               /\ \E off : Offsets(off, k + 1, -(HeaderLength + Len(read)), sent, rest, clientOpen)
               /\ Len(read) = length => \E off : Offsets(off, k + 2, 0, sent, rest, clientOpen)
<1> DEFINE chunk == SubSeq(inbound, 1, n)
           read == body \o chunk
           rest == SubSeq(inbound, n + 1, Len(inbound))
           k == Len(received)
           request == sent[k + 1]
<1>1. /\ inbound \in Seq(Byte) /\ sent \in Seq(Bodies) /\ received \in Seq(Seq(Byte)) /\ body \in Seq(Byte)
      /\ length \in Nat /\ Len(body) < length
  BY DEF InInv, InTyped
<1>2. /\ k < Len(sent) /\ length = Len(request) /\ \A j \in 1..Len(body) : body[j] = request[j]
  BY DEF InInv, Intact
<1>3. PICK off : Offsets(off, k + 1, -(HeaderLength + Len(body)), sent, inbound, clientOpen)
  BY DEF InInv, Intact, Start
<1>4. /\ Len(inbound) \in Nat /\ Len(body) \in Nat /\ k \in Nat /\ Len(sent) \in Nat /\ HeaderLength \in Nat
      /\ n \in Nat /\ n \in 0..Len(inbound)
  BY <1>1, ConstantFacts
<1>5. k + 1 \in 1..Len(sent) /\ request \in Bodies /\ request \in Seq(Byte)
  <2>1. k + 1 \in 1..Len(sent)
    BY <1>2, <1>4
  <2> QED BY <1>1, <2>1, ConstantFacts
<1>6. /\ off[k + 1] = -(HeaderLength + Len(body))
      /\ off[k + 2] = off[k + 1] + HeaderLength + length
  <2>1. off[k + 1] = -(HeaderLength + Len(body))
    BY <1>3 DEF Offsets
  <2>2. k + 1 \in (k + 1)..Len(sent) /\ (k + 1) + 1 = k + 2
    BY <1>2, <1>4
  <2>3. off[(k + 1) + 1] = off[k + 1] + HeaderLength + Len(request)
    BY <1>3, <2>2, Zenon DEF Offsets
  <2> QED BY <1>2, <2>1, <2>2, <2>3
<1>7. chunk \in Seq(Byte) /\ Len(chunk) = n /\ \A x \in 1..n : chunk[x] = inbound[x]
  BY <1>1, <1>4, SplitAt
<1> HIDE DEF chunk
<1>8. /\ Len(read) = Len(body) + n
      /\ \A j \in 1..Len(body) : read[j] = body[j]
      /\ \A x \in 1..n : read[Len(body) + x] = chunk[x]
  <2>1. /\ Len(read) = Len(body) + Len(chunk)
        /\ \A j \in 1..(Len(body) + Len(chunk)) : read[j] = IF j <= Len(body) THEN body[j] ELSE chunk[j - Len(body)]
    BY <1>1, <1>7, ConcatProperties, Zenon
  <2> HIDE DEF read
  <2>2. ASSUME NEW j \in 1..Len(body) PROVE read[j] = body[j]
    BY <1>4, <1>7, <2>1
  <2>3. ASSUME NEW x \in 1..n PROVE read[Len(body) + x] = chunk[x]
    <3>1. Len(body) + x \in 1..(Len(body) + Len(chunk)) /\ ~(Len(body) + x <= Len(body)) /\ (Len(body) + x) - Len(body) = x
      BY <1>4, <1>7
    <3> QED BY <2>1, <3>1
  <2> QED BY <1>7, <2>1, <2>2, <2>3
<1> HIDE DEF read
<1>9. ASSUME NEW x \in 1..n PROVE inbound[x] = request[Len(body) + x]
  <2> DEFINE j == HeaderLength + (Len(body) + x)
  <2>1. Len(body) + x \in 1..length
    BY <1>1, <1>4
  <2>2. j \in 1..(HeaderLength + Len(request)) /\ off[k + 1] + j = x /\ x \in 1..Len(inbound)
    BY <1>1, <1>2, <1>4, <1>6, <2>1
  <2> HIDE DEF j
  <2>3. k + 1 \in (k + 1)..Len(sent)
    BY <1>2, <1>4
  <2>4. off[k + 1] + j \in 1..Len(inbound) => inbound[off[k + 1] + j] = PackageMessage(request)[j]
    BY <1>3, <2>2, <2>3, Zenon DEF Offsets
  <2>5. inbound[x] = PackageMessage(request)[HeaderLength + (Len(body) + x)]
    BY <2>2, <2>4 DEF j
  <2>6. \A i \in 1..Len(request) : PackageMessage(request)[HeaderLength + i] = request[i]
    BY <1>5, FrameOf, Zenon
  <2> QED BY <1>2, <2>1, <2>5, <2>6
<1>10. \A j \in 1..Len(read) : read[j] = request[j]
  <2> SUFFICES ASSUME NEW j \in 1..Len(read) PROVE read[j] = request[j]
    OBVIOUS
  <2>1. CASE j <= Len(body)
    <3>1. j \in 1..Len(body)
      BY <1>4, <1>8, <2>1
    <3> QED BY <1>2, <1>8, <3>1
  <2>2. CASE ~(j <= Len(body))
    <3>1. PICK x \in 1..n : j = Len(body) + x
      <4>1. j - Len(body) \in 1..n /\ j = Len(body) + (j - Len(body))
        BY <1>4, <1>8, <2>2
      <4> QED BY <4>1
    <3>2. read[Len(body) + x] = inbound[x]
      BY <1>7, <1>8
    <3> QED BY <1>9, <3>1, <3>2
  <2> QED BY <2>1, <2>2
<1>11. \E o : Offsets(o, k + 1, -(HeaderLength + Len(read)), sent, rest, clientOpen)
  <2>1. k + 1 \in (k + 1)..((k + 1) + 1) /\ k + 1 <= Len(sent) + 1
    BY <1>2, <1>4
  <2>2. \E o : Offsets(o, k + 1, off[k + 1] - n, sent, rest, clientOpen)
    BY <1>3, <1>4, <2>1, OffsetsShift, Zenon
  <2>3. off[k + 1] - n = -(HeaderLength + Len(read))
    BY <1>4, <1>6, <1>8
  <2> QED BY <2>2, <2>3, Zenon
<1>12. ASSUME Len(read) = length PROVE \E o : Offsets(o, k + 2, 0, sent, rest, clientOpen)
  <2>1. k + 2 \in (k + 1)..((k + 1) + 1) /\ k + 2 <= Len(sent) + 1
    BY <1>2, <1>4
  <2>2. \E o : Offsets(o, k + 2, off[k + 2] - n, sent, rest, clientOpen)
    BY <1>3, <1>4, <2>1, OffsetsShift, Zenon
  <2>3. off[k + 2] - n = 0
    BY <1>1, <1>4, <1>6, <1>8, <1>12
  <2> QED BY <2>2, <2>3, Zenon
<1> QED
  BY <1>2, <1>4, <1>5, <1>10, <1>11, <1>12, Zenon DEF read, chunk

(* A body in any number of pieces. *)
LEMMA ReceiveBodyKeepsIn ==
    ASSUME HeadersHoldLengths, InInv, ReceiveBody
    PROVE  InInv'
<1>1. PICK n \in 1..(length - Len(body)) :
        LET read == body \o SubSeq(inbound, 1, n)
        IN  /\ n <= Len(inbound)
            /\ inbound' = SubSeq(inbound, n + 1, Len(inbound))
            /\ IF Len(read) = length THEN Dispatch(read)
               ELSE body' = read /\ UNCHANGED <<length, received, at>>
  BY DEF ReceiveBody
<1> DEFINE read == body \o SubSeq(inbound, 1, n)
           k == Len(received)
<1>2. at = "body" /\ UNCHANGED <<clientOpen, sent, torn, pushed>>
  BY DEF ReceiveBody, outVars
<1>3. /\ inbound \in Seq(Byte) /\ Len(inbound) \in Nat /\ n \in 0..Len(inbound) /\ n \in Nat
      /\ sent \in Seq(Bodies) /\ received \in Seq(Seq(Byte)) /\ body \in Seq(Byte) /\ Len(body) \in Nat
      /\ length \in Nat /\ Len(body) < length /\ length <= MaxBody /\ k \in Nat
  <2>1. /\ inbound \in Seq(Byte) /\ sent \in Seq(Bodies) /\ received \in Seq(Seq(Byte)) /\ body \in Seq(Byte)
        /\ length \in Nat /\ Len(body) < length /\ length <= MaxBody
    BY <1>2 DEF InInv, InTyped
  <2> QED BY <1>1, <2>1
<1>4. inbound' \in Seq(Byte) /\ SubSeq(inbound, 1, n) \in Seq(Byte) /\ Len(SubSeq(inbound, 1, n)) = n
  BY <1>1, <1>3, SplitAt
<1>5. read \in Seq(Byte) /\ Len(read) = Len(body) + n
  BY <1>3, <1>4, ConcatProperties, Zenon
<1>6. ASSUME ~torn'
      PROVE  /\ k < Len(sent) /\ length = Len(sent[k + 1]) /\ sent[k + 1] \in Seq(Byte)
             /\ \A j \in 1..Len(read) : read[j] = sent[k + 1][j]
             /\ \E off : Offsets(off, k + 1, -(HeaderLength + Len(read)), sent, inbound', clientOpen)
             /\ Len(read) = length => \E off : Offsets(off, k + 2, 0, sent, inbound', clientOpen)
  BY <1>1, <1>2, <1>6, BodyRead, Zenon
<1>7. ASSUME ~torn' PROVE Len(received) <= Len(sent) /\ \A i \in 1..Len(received) : received[i] = sent[i]
  <2>1. IsPrefix(received, sent)
    BY <1>2, <1>7 DEF InInv, Intact
  <2> QED BY <1>3, <2>1, RequestByRequest, Zenon
<1>8. CASE Len(read) = length
  <2>1. received' = Append(received, read) /\ body' = <<>> /\ length' = 0 /\ at' = "reply"
    BY <1>1, <1>8 DEF Dispatch
  <2> HIDE DEF read
  <2>2. /\ received' \in Seq(Seq(Byte)) /\ Len(received') = k + 1 /\ received'[k + 1] = read
        /\ \A i \in 1..k : received'[i] = received[i]
    BY <1>3, <1>5, <2>1
  <2>3. InTyped'
    BY <1>2, <1>3, <1>4, <2>1, <2>2, EmptySeq DEF InInv, InTyped
  <2>4. ASSUME ~torn' PROVE IsPrefix(received', sent')
    <3>1. k + 1 <= Len(sent)
      BY <1>3, <1>6, <2>4
    <3>2. read = sent[k + 1]
      <4>1. read \in Seq(Byte) /\ sent[k + 1] \in Seq(Byte) /\ Len(read) = Len(sent[k + 1])
        BY <1>5, <1>6, <1>8, <2>4
      <4>2. \A j \in 1..Len(read) : read[j] = sent[k + 1][j]
        BY <1>6, <2>4
      <4> QED BY <4>1, <4>2, SeqEqual, Zenon
    <3>3. \A i \in 1..(k + 1) : received'[i] = sent[i]
      <4> SUFFICES ASSUME NEW i \in 1..(k + 1) PROVE received'[i] = sent[i]
        OBVIOUS
      <4>1. i = k + 1 \/ i \in 1..k
        BY <1>3
      <4> QED BY <1>7, <2>2, <2>4, <3>2, <4>1
    <3>4. Len(received') <= Len(sent') /\ \A i \in 1..Len(received') : received'[i] = sent'[i]
      BY <1>2, <2>2, <3>1, <3>3
    <3> QED BY <1>2, <1>3, <2>2, <3>4, RequestByRequest, Zenon
  <2>5. ASSUME ~torn' PROVE \E off : Offsets(off, Len(received') + 1, Start', sent', inbound', clientOpen')
    <3>1. Len(received') + 1 = k + 2
      BY <1>3, <2>2
    <3>2. Start' = 0
      BY <2>1 DEF Start
    <3> QED BY <1>2, <1>6, <1>8, <2>5, <3>1, <3>2, Zenon
  <2> QED BY <2>1, <2>3, <2>4, <2>5 DEF InInv, Intact
<1>9. CASE Len(read) # length
  <2>1. body' = read /\ UNCHANGED <<length, received, at>>
    BY <1>1, <1>9
  <2> HIDE DEF read
  <2>2. Len(read) < length
    <3>1. Len(body) \in Nat /\ length \in Nat /\ n \in 1..(length - Len(body)) /\ Len(read) = Len(body) + n
      BY <1>3, <1>5, Zenon
    <3>2. Len(read) # length
      BY <1>9, Zenon
    <3> QED BY ONLY <3>1, <3>2
  <2>3. InTyped'
    BY <1>2, <1>3, <1>4, <1>5, <2>1, <2>2 DEF InInv, InTyped
  <2>4. ASSUME ~torn' PROVE IsPrefix(received', sent')
    BY <1>2, <2>1, <2>4 DEF InInv, Intact
  <2>5. Start' = -(HeaderLength + Len(read))
    BY <1>2, <2>1 DEF Start
  <2>6. Intact'
    BY <1>2, <1>6, <2>1, <2>4, <2>5 DEF Intact
  <2> QED BY <2>3, <2>6 DEF InInv
<1> QED
  BY <1>8, <1>9

(* Every step keeps the inward invariant. *)
LEMMA InInvariant ==
    ASSUME HeadersHoldLengths
    PROVE  Spec => []InInv
<1>1. ASSUME InInv, OutInv, [Next]_vars PROVE InInv'
  <2>1. CASE Next
    <3>1. CASE ClientSends
      BY <1>1, <3>1, ClientSendsKeepsIn
    <3>2. CASE ClientCloses
      BY <1>1, <3>2, ClientClosesKeepsIn
    <3>3. CASE Receive
      BY <1>1, <3>3, ReceiveHeaderKeepsIn, ReceiveBodyKeepsIn, ReceiveNothingKeepsIn DEF Receive
    <3>4. CASE \/ DispatchRequest \/ ClientReads
               \/ \E s \in Pushers : Push(s)
               \/ \E s \in Senders : Send(s) \/ SendFails(s)
      BY <1>1, <3>4, OutwardSteps, OutwardKeepsIn
    <3> QED BY <2>1, <3>1, <3>2, <3>3, <3>4 DEF Next
  <2>2. CASE UNCHANGED vars
    BY <1>1, <2>2, OutwardSteps, OutwardKeepsIn
  <2> QED BY <1>1, <2>1, <2>2
<1> QED
  BY <1>1, InitIn, OutInvariant, PTL DEF Spec

(* The digits of a header are bytes. *)
LEMMA OutIsByte ==
    ASSUME HeadersHoldLengths
    PROVE  Out = Byte
<1> DEFINE digit(i) == (Len(Reply) \div Base^(HeaderLength - i)) % Base
           header == [i \in 1..HeaderLength |-> digit(i)]
<1>1. HeaderLength \in Nat \ {0} /\ Reply \in Seq(Byte)
  BY ConstantFacts
<1>2. Frame = header \o Reply /\ Frame \in Seq(Byte)
  BY DEF Frame, PackageMessage, HeadersHoldLengths, Byte
<1>3. \A i \in 1..HeaderLength : digit(i) \in Out /\ header[i] = digit(i)
  BY Zenon DEF Out
<1>4. Out = Byte \cup {digit(i) : i \in 1..HeaderLength}
  BY Zenon DEF Out
<1> HIDE DEF digit
<1>5. header \in Seq(Out) /\ Len(header) = HeaderLength
  BY <1>1, <1>3
<1>6. Reply \in Seq(Out)
  BY <1>1, SeqMonotonic, Zenon DEF Out
<1> HIDE DEF header
<1>7. /\ Len(Frame) = Len(header) + Len(Reply)
      /\ \A i \in 1..Len(header) : Frame[i] = header[i]
  <2>1. /\ Len(Frame) = Len(header) + Len(Reply)
        /\ \A i \in 1..(Len(header) + Len(Reply)) : Frame[i] = IF i <= Len(header) THEN header[i] ELSE Reply[i - Len(header)]
    BY <1>2, <1>5, <1>6, ConcatProperties, Zenon
  <2>2. ASSUME NEW i \in 1..Len(header) PROVE i \in 1..(Len(header) + Len(Reply)) /\ i <= Len(header)
    BY <1>1, <1>5
  <2> QED BY <2>1, <2>2
<1>8. ASSUME NEW i \in 1..HeaderLength PROVE digit(i) \in Byte
  <2>1. i \in 1..Len(Frame) /\ Frame[i] = digit(i)
    BY <1>1, <1>3, <1>5, <1>7
  <2> QED BY <1>2, <2>1
<1> QED
  BY <1>4, <1>8, Zenon

(* Every variable has its type, and no body is longer than the limit, whatever the stack holds
   behind a header of which a part has come only (server.cpp:279-290). *)
THEOREM TypeCorrect ==
    ASSUME HeadersHoldLengths
    PROVE  Spec => []TypeOK
<1>1. ASSUME InInv, OutInv PROVE TypeOK
  <2>1. Out = Byte
    BY OutIsByte
  <2> QED BY <1>1, <2>1 DEF InInv, InTyped, OutInv, OutTyped, TypeOK
<1> QED
  BY <1>1, InInvariant, OutInvariant, PTL

(* What is dispatched is what the client has sent, request by request, however the bytes arrive,
   as long as each header comes in one piece (server.cpp:279 and 295-303). *)
THEOREM RequestsAsSent ==
    ASSUME HeadersHoldLengths
    PROVE  Spec => []RequestsArriveIntact
<1>1. InInv => RequestsArriveIntact
  BY DEF InInv, Intact, RequestsArriveIntact
<1> QED
  BY <1>1, InInvariant, PTL

=============================================================================
