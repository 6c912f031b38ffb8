------------------------------ MODULE Framing ------------------------------
(***************************************************************************)
(* The bytes of one connection (src/src/connection/server.cpp, ReceiveData *)
(* to PackageMessage): the handler reads requests from a stream and writes *)
(* answers to it, while other threads write notifications to the same      *)
(* socket.  TCP keeps the order of the bytes and nothing else: a recv()    *)
(* returns any part of what has arrived, a send() puts as much into the    *)
(* buffer of the socket as fits and waits for the client to read.          *)
(***************************************************************************)
EXTENDS Integers, SequencesExt

CONSTANTS
    Base,       \* values of a byte: 256
    HeaderLength, \* bytes of a header: 4
    MaxBody,    \* the longest body accepted: 65536
    Capacity,   \* bytes the socket buffers between a send() and the client
    Bodies,     \* the bodies clients send, sequences of bytes
    MaxRequests,
    Pushers,    \* threads that send to this client besides its handler
    MaxPushes,  \* bound on what they send
    Reply       \* the body of an answer or a notification

ASSUME FramingAssumption ==
    /\ Base \in Nat \ {0, 1} /\ {HeaderLength, Capacity} \subseteq Nat \ {0}
    /\ {MaxRequests, MaxPushes} \subseteq Nat
    /\ MaxBody \in 1..(Base^HeaderLength - 1)
    /\ Bodies \subseteq Seq(0..(Base - 1))
    /\ Reply \in Seq(0..(Base - 1))
    /\ "handler" \notin Pushers

Senders == Pushers \cup {"handler"}

VARIABLES
    inbound,    \* bytes on their way from the client, or arrived and not read
    clientOpen, \* the client has not closed its end
    at,         \* where the handler is
    length,     \* messageLength
    body,       \* messageBody up to totalRead
    out,        \* what each thread has still to send of its frame, from totalSent on
    buffer,     \* bytes sent that the client has not read
    \* What the properties are about; the code has no such variables.
    sent,       \* the bodies the client has sent
    received,   \* the bodies dispatched
    torn,       \* a recv() returned only a part of a header
    stream,     \* all bytes written to the socket
    wanted,     \* the frames written, one after the other
    pushed,     \* how many frames the other threads have begun
    waited,     \* a send() found too little space for the rest of its frame
    mixed       \* a thread wrote while another was in the middle of its frame

inVars == <<inbound, clientOpen, length, body, sent, received, torn>>
outVars == <<out, buffer, stream, wanted, pushed, waited, mixed>>
vars == <<inVars, outVars, at>>

Init ==
    /\ inbound = <<>> /\ clientOpen = TRUE
    /\ at = "header" /\ length = 0 /\ body = <<>>
    /\ out = [s \in Senders |-> <<>>] /\ buffer = <<>>
    /\ sent = <<>> /\ received = <<>> /\ torn = FALSE
    /\ stream = <<>> /\ wanted = <<>>
    /\ pushed = 0 /\ waited = FALSE /\ mixed = FALSE

-----------------------------------------------------------------------------
(* Headers *)

\* The length of a body, the highest byte first.
ParseMessageHeader(h) == FoldLeft(LAMBDA n, byte : n * Base + byte, 0, h)

PackageMessage(b) ==
    [i \in 1..HeaderLength |-> (Len(b) \div Base^(HeaderLength - i)) % Base] \o b

\* A header holds the length of its body, and any header holds some length.
HeadersHoldLengths ==
    /\ \A h \in [1..HeaderLength -> 0..(Base - 1)] : ParseMessageHeader(h) \in Nat
    /\ \A b \in Bodies \cup {Reply} :
        /\ PackageMessage(b) \in Seq(0..(Base - 1))
        /\ ParseMessageHeader([i \in 1..HeaderLength |-> PackageMessage(b)[i]]) = Len(b)

-----------------------------------------------------------------------------
(* The client *)

ClientSends ==
    /\ clientOpen
    /\ Len(sent) < MaxRequests
    /\ \E b \in Bodies :
        /\ sent' = Append(sent, b)
        /\ inbound' = inbound \o PackageMessage(b)
    /\ UNCHANGED <<clientOpen, length, body, received, torn, outVars, at>>

\* The client goes; the rest of what it was sending may be cut off anywhere.
ClientCloses ==
    /\ clientOpen
    /\ clientOpen' = FALSE
    /\ \E k \in 0..Len(inbound) : inbound' = SubSeq(inbound, 1, k)
    /\ UNCHANGED <<length, body, sent, received, torn, outVars, at>>

ClientReads ==
    /\ buffer # <<>>
    /\ buffer' = Tail(buffer)
    /\ UNCHANGED <<inVars, at, out, stream, wanted, pushed, waited, mixed>>

-----------------------------------------------------------------------------
(* ReceiveData *)

\* Slip: the length is not compared with the limit.
ReceiveHeaderUnlimited ==
    /\ at = "header"
    /\ HeaderLength <= Len(inbound)
    /\ length' = ParseMessageHeader(SubSeq(inbound, 1, HeaderLength))
    /\ inbound' = SubSeq(inbound, HeaderLength + 1, Len(inbound))
    /\ at' = IF length' = 0 THEN "done" ELSE "body"
    /\ UNCHANGED <<clientOpen, body, sent, received, torn, outVars>>

\* The header: one recv() of HeaderLength bytes.  When it returns fewer the rest of the array
\* is whatever the stack held.
ReceiveHeader ==
    /\ at = "header"
    /\ \E n \in 1..HeaderLength, rest \in [1..HeaderLength -> 0..(Base - 1)] :
        /\ n <= Len(inbound)
        /\ length' = ParseMessageHeader([i \in 1..HeaderLength |-> IF i <= n THEN inbound[i] ELSE rest[i]])
        /\ inbound' = SubSeq(inbound, n + 1, Len(inbound))
        /\ torn' = (torn \/ n < HeaderLength)
    /\ at' = IF length' = 0 \/ length' > MaxBody THEN "done" ELSE "body"
    /\ UNCHANGED <<clientOpen, body, sent, received, outVars>>

\* The body is complete: the request is dispatched.
Dispatch(b) ==
    /\ received' = Append(received, b)
    /\ body' = <<>> /\ length' = 0
    /\ at' = "reply"

\* Slip: the body is read with one recv().
ReceiveBodyOnce ==
    /\ at = "body"
    /\ \E n \in 1..length :
        /\ n <= Len(inbound)
        /\ Dispatch([i \in 1..length |-> IF i <= n THEN inbound[i] ELSE 0])
        /\ inbound' = SubSeq(inbound, n + 1, Len(inbound))
    /\ UNCHANGED <<clientOpen, sent, torn, outVars>>

\* Slip: totalRead <= messageLength; the last recv() asks for no bytes and gets none.
ReceiveBodyTooFar ==
    /\ at = "body"
    /\ \E n \in 1..(length - Len(body)) :
        LET read == body \o SubSeq(inbound, 1, n)
        IN  /\ n <= Len(inbound)
            /\ inbound' = SubSeq(inbound, n + 1, Len(inbound))
            /\ body' = read
            /\ at' = IF Len(read) = length THEN "done" ELSE "body"
    /\ UNCHANGED <<clientOpen, length, sent, received, torn, outVars>>

\* The body: recv() until messageLength bytes are there.
ReceiveBody ==
    /\ at = "body"
    /\ \E n \in 1..(length - Len(body)) :
        LET read == body \o SubSeq(inbound, 1, n)
        IN  /\ n <= Len(inbound)
            /\ inbound' = SubSeq(inbound, n + 1, Len(inbound))
            /\ IF Len(read) = length THEN Dispatch(read)
               ELSE body' = read /\ UNCHANGED <<length, received, at>>
    /\ UNCHANGED <<clientOpen, sent, torn, outVars>>

\* recv() returns 0 or an error: what was read of an incomplete body is dropped.
ReceiveNothing ==
    /\ at \in {"header", "body"}
    /\ inbound = <<>> /\ ~clientOpen
    /\ at' = "done"
    /\ UNCHANGED <<inVars, outVars>>

-----------------------------------------------------------------------------
(* SendData *)

\* Thread s begins a frame.
Package(s) == out[s] = <<>> /\ out' = [out EXCEPT ![s] = PackageMessage(Reply)]

\* The handler answers the request it has dispatched.
DispatchRequest ==
    /\ at = "reply"
    /\ Package("handler")
    /\ at' = "sending"
    /\ UNCHANGED <<inVars, buffer, stream, wanted, pushed, waited, mixed>>

\* Another thread has something for this client: KICKED, a status, a message.
Push(s) ==
    /\ at # "done"
    /\ pushed < MaxPushes
    /\ Package(s)
    /\ pushed' = pushed + 1
    /\ UNCHANGED <<inVars, buffer, stream, wanted, waited, mixed, at>>

Begun(s) == out[s] \notin {<<>>, PackageMessage(Reply)}

\* send() writes chunk for thread s, which has rest still to send.
Write(s, chunk, rest) ==
    /\ chunk # <<>>
    /\ buffer' = buffer \o chunk
    /\ stream' = stream \o chunk
    /\ out' = [out EXCEPT ![s] = rest]
    /\ wanted' = IF Begun(s) THEN wanted ELSE wanted \o out[s]
    /\ waited' = (waited \/ rest # <<>>)
    /\ mixed' = (mixed \/ \E r \in Senders \ {s} : Begun(r))
    /\ at' = IF s = "handler" /\ rest = <<>> THEN "header" ELSE at
    /\ UNCHANGED <<inVars, pushed>>

\* What fits into the buffer.
Space(s) == LET space == Capacity - Len(buffer) IN IF Len(out[s]) < space THEN Len(out[s]) ELSE space

\* Slip: every send() starts at the beginning of the frame.
SendFromStart(s) ==
    /\ at # "done" /\ clientOpen
    /\ Write(s, SubSeq(PackageMessage(Reply), 1, Space(s)), SubSeq(out[s], Space(s) + 1, Len(out[s])))

\* send() from totalSent on; when nothing fits it waits for the client to read.
Send(s) ==
    /\ at # "done" /\ clientOpen
    /\ Write(s, SubSeq(out[s], 1, Space(s)), SubSeq(out[s], Space(s) + 1, Len(out[s])))

\* send() fails and the rest of the frame is dropped; that it may also end the process
\* is modelled in Server.
SendFails(s) ==
    /\ at = "done" \/ ~clientOpen
    /\ out[s] # <<>>
    /\ out' = [out EXCEPT ![s] = <<>>]
    /\ at' = IF s = "handler" THEN "header" ELSE at
    /\ UNCHANGED <<inVars, buffer, stream, wanted, pushed, waited, mixed>>

-----------------------------------------------------------------------------
Receive == ReceiveHeader \/ ReceiveBody \/ ReceiveNothing

Next ==
    \/ ClientSends \/ ClientCloses \/ ClientReads
    \/ Receive \/ DispatchRequest
    \/ \E s \in Pushers : Push(s)
    \/ \E s \in Senders : Send(s) \/ SendFails(s)

Spec == Init /\ [][Next]_vars

\* The threads run, and this client reads what it is sent: nothing else makes a send()
\* return that waits for it.
FairSpec ==
    /\ Spec
    /\ WF_vars(ClientReads)
    /\ WF_vars(Receive \/ DispatchRequest)
    /\ \A s \in Senders : WF_vars(Send(s) \/ SendFails(s))

-----------------------------------------------------------------------------
(* Properties *)

Byte == 0..(Base - 1)

\* Every variable has its type; no body is longer than the limit, whatever the header
\* holds.
TypeOK ==
    /\ inbound \in Seq(Byte) /\ clientOpen \in BOOLEAN
    /\ at \in {"header", "body", "reply", "sending", "done"}
    /\ length \in Nat /\ body \in Seq(Byte)
    /\ at = "body" => Len(body) < length /\ length <= MaxBody
    /\ out \in [Senders -> Seq(Byte)]
    /\ buffer \in Seq(Byte) /\ Len(buffer) <= Capacity
    /\ sent \in Seq(Bodies) /\ received \in Seq(Seq(Byte))
    /\ stream \in Seq(Byte) /\ wanted \in Seq(Byte)
    /\ pushed \in 0..MaxPushes
    /\ {torn, waited, mixed} \subseteq BOOLEAN

\* Requests that arrive together or in pieces are taken apart where the client put them
\* together, and a request cut off by the end of the connection is not dispatched, as
\* long as no header comes in two pieces (server.cpp:279 and 295-303).
RequestsArriveIntact == ~torn => IsPrefix(received, sent)

\* The client can take the stream apart: it consists of whole frames, with at most the
\* last one incomplete, although several threads write to the socket without a lock and
\* a send() may write a part only (server.cpp:318-326).  That holds as long as no thread
\* writes while another waits in the middle of a frame, which takes a frame the buffer
\* had no room for.
FramesStayWhole ==
    /\ ~waited => ~mixed
    /\ ~mixed => /\ IsPrefix(stream, wanted)
                 /\ (\A s \in Senders : ~Begun(s)) /\ at # "done" /\ clientOpen => stream = wanted

Valid(b) == Len(b) \in 1..MaxBody

Answered(i) == Len(received) > i \/ (Len(received) = i /\ at \notin {"reply", "sending"})

\* A client that reads gets an answer to every valid request, also when the buffer is
\* smaller than a frame and others write to the same socket.
RequestsAreAnswered ==
    \A i \in 1..MaxRequests :
        Len(sent) >= i /\ (\A j \in 1..Len(sent) : j <= i => Valid(sent[j]))
            ~> Answered(i) \/ torn \/ ~clientOpen

=============================================================================
