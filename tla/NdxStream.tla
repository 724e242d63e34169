----------------------------- MODULE NdxStream ------------------------------
(***************************************************************************)
(* One direction of the connection as the index codec sees it: a writer    *)
(* that appends the bytes of one index after another, and a reader that    *)
(* takes them off again with a codec of its own.  Both codecs live as long *)
(* as the stream (how the transfer really keeps them is WireSession).      *)
(***************************************************************************)
EXTENDS NdxCodec

CONSTANTS
    Protos,      \* protocol versions to negotiate
    Indices,     \* the indices to write
    MaxWrites    \* bound: indices written in a behaviour

\* i32 without its extremes: no file list is that long.
ASSUME IndicesAssumption ==
    \A n \in Indices : n \in Int /\ -2147483646 <= n /\ n <= 2147483646
ASSUME ProtosAssumption == Protos \subseteq Nat
ASSUME MaxWritesAssumption == MaxWrites \in Nat

VARIABLES
    proto,    \* the negotiated version
    wst,      \* the writer's codec state
    rst,      \* the reader's codec state
    stream,   \* every byte written
    at,       \* the byte the reader is at
    sent,     \* ghost: every index written
    got,      \* ghost: every index read
    starts,   \* ghost: where each index starts, and the next one will
    states    \* ghost: the writer's state before each of them

ndxVars == <<proto, wst, rst, stream, at, sent, got, starts, states>>

NdxInit ==
    /\ proto \in Protos
    /\ wst = NewCodec /\ rst = NewCodec
    /\ stream = <<>> /\ at = 1
    /\ sent = <<>> /\ got = <<>>
    /\ starts = << 1 >> /\ states = <<NewCodec>>

WriteNdx(n) ==
    /\ Len(sent) < MaxWrites
    /\ stream' = stream \o EncodeNdx(proto, wst, n)
    /\ wst' = Advance(wst, n)
    /\ sent' = Append(sent, n)
    /\ starts' = Append(starts, Len(stream') + 1)
    /\ states' = Append(states, wst')
    /\ UNCHANGED <<proto, rst, at, got>>

\* Mutant: the reader counts NDX_DONE as the previous negative index.
MutReadNdx ==
    /\ at <= Len(stream)
    /\ LET d == DecodeNdx(proto, rst, at, stream) IN
       /\ at' = d.next
       /\ rst' = IF d.ndx < 0 THEN [rst EXCEPT !.neg = -d.ndx] ELSE [rst EXCEPT !.pos = d.ndx]
       /\ got' = Append(got, d.ndx)
    /\ UNCHANGED <<proto, wst, stream, sent, starts, states>>

ReadNdx ==
    /\ at <= Len(stream)
    /\ LET d == DecodeNdx(proto, rst, at, stream) IN
       /\ at' = d.next
       /\ rst' = Advance(rst, d.ndx)
       /\ got' = Append(got, d.ndx)
    /\ UNCHANGED <<proto, wst, stream, sent, starts, states>>

NdxDone == Len(sent) = MaxWrites /\ at > Len(stream) /\ UNCHANGED ndxVars

NdxNext == (\E n \in Indices : WriteNdx(n)) \/ ReadNdx \/ NdxDone

NdxSpec == NdxInit /\ [][NdxNext]_ndxVars

-----------------------------------------------------------------------------
Codec == [pos : Int, neg : Int]

NdxTypeOK ==
    /\ proto \in Protos
    /\ wst \in Codec /\ rst \in Codec
    /\ stream \in Seq(0 .. 255) /\ at \in 1 .. Len(stream) + 1
    /\ sent \in Seq(Int) /\ got \in Seq(Int)
    /\ starts \in Seq(Nat) /\ states \in Seq(Codec)

\* What read_ndx returns is what write_ndx was given, index by index, through
\* every mix of signs, jumps and repetitions (the redo pass repeats indices):
\* no form of the encoding is mistaken for another and none loses its place.
ReadsWhatWasWritten ==
    /\ Len(got) <= Len(sent)
    /\ \A i \in 1 .. Len(got) : got[i] = sent[i]

\* When the reader has taken every byte it has every index, and the two delta
\* states are equal: the codecs need no resynchronisation, whatever was sent.
CodecsAgree == at > Len(stream) => Len(got) = Len(sent) /\ rst = wst
=============================================================================
