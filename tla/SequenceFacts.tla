---------------------------- MODULE SequenceFacts ----------------------------
(***************************************************************************)
(* Facts about sequences whose elements are of no named set, shared by the *)
(* proofs about patches and about network fixtures.                        *)
(***************************************************************************)
EXTENDS Integers, Sequences, TLAPS, SequenceTheorems

IsSeq(f) == \E n \in Nat : f = [k \in 1 .. n |-> f[k]]

(* What the operators do to a sequence, whatever is in it.                 *)
LEMMA SeqFacts ==
    ASSUME NEW f, IsSeq(f)
    PROVE  /\ Len(f) \in Nat /\ DOMAIN f = 1 .. Len(f)
           /\ f \in Seq({f[k] : k \in DOMAIN f})
           /\ f = <<>> <=> Len(f) = 0
<1>1. PICK n \in Nat : f = [k \in 1 .. n |-> f[k]]
  BY DEF IsSeq
<1>2. f \in Seq({f[k] : k \in DOMAIN f})
  BY <1>1, IsASeq
<1> QED
  BY <1>2, EmptySeq, LenProperties

(* One more at the end.                                                    *)
LEMMA AppendSeq ==
    ASSUME NEW f, IsSeq(f), NEW e
    PROVE  /\ IsSeq(Append(f, e)) /\ Len(Append(f, e)) = Len(f) + 1
           /\ \A k \in 1 .. Len(f) : Append(f, e)[k] = f[k]
           /\ Append(f, e)[Len(f) + 1] = e
<1> DEFINE S == {f[k] : k \in DOMAIN f} \cup {e}
<1>1. f \in Seq({f[k] : k \in DOMAIN f})
  BY SeqFacts
<1>2. f \in Seq(S)
  BY <1>1, SeqMonotonic
<1> HIDE DEF S
<1>3. /\ Append(f, e) \in Seq(S) /\ Len(Append(f, e)) = Len(f) + 1
      /\ \A k \in 1 .. Len(f) : Append(f, e)[k] = f[k]
      /\ Append(f, e)[Len(f) + 1] = e
  BY <1>2, AppendProperties DEF S
<1>4. Append(f, e) = [k \in 1 .. Len(Append(f, e)) |-> Append(f, e)[k]]
      /\ Len(Append(f, e)) \in Nat
  BY <1>3, LenProperties
<1> QED
  BY <1>3, <1>4 DEF IsSeq

(* One less at the front.                                                  *)
LEMMA TailSeq ==
    ASSUME NEW f, IsSeq(f), f # <<>>
    PROVE  /\ IsSeq(Tail(f)) /\ Len(Tail(f)) = Len(f) - 1 /\ Len(f) > 0
           /\ \A k \in 1 .. Len(Tail(f)) : Tail(f)[k] = f[k + 1]
           /\ Head(f) = f[1]
<1>1. PICK S : f \in Seq(S)
  BY SeqFacts
<1>2. /\ Tail(f) \in Seq(S) /\ Len(Tail(f)) = Len(f) - 1
      /\ \A k \in 1 .. Len(Tail(f)) : Tail(f)[k] = f[k + 1]
  BY <1>1, HeadTailProperties
<1>3. Tail(f) = [k \in 1 .. Len(Tail(f)) |-> Tail(f)[k]] /\ Len(Tail(f)) \in Nat
  BY <1>2, LenProperties
<1>4. Head(f) = f[1] /\ Len(f) > 0
  BY <1>1, SeqFacts
<1> QED
  BY <1>2, <1>3, <1>4 DEF IsSeq

(* One entry replaced.                                                     *)
LEMMA ExceptIsSeq ==
    ASSUME NEW f, IsSeq(f), NEW i, NEW g, g = [f EXCEPT ![i] = g[i]]
    PROVE  IsSeq(g) /\ Len(g) = Len(f)
<1>1. PICK n \in Nat : f = [k \in 1 .. n |-> f[k]]
  BY DEF IsSeq
<1>2. PICK e : g = [f EXCEPT ![i] = e]
  OBVIOUS
<1>3. g = [k \in 1 .. n |-> g[k]]
  BY <1>1, <1>2
<1>4. IsSeq(g) /\ DOMAIN g = 1 .. n /\ DOMAIN f = 1 .. n
  BY <1>1, <1>3 DEF IsSeq
<1>5. Len(g) = n /\ Len(f) = n
  BY <1>4, SeqFacts
<1> QED
  BY <1>4, <1>5

(* A function on the first numbers is one.                                 *)
LEMMA FunctionIsSeq ==
    ASSUME NEW n \in Nat, NEW f, DOMAIN f = 1 .. n, f = [k \in 1 .. n |-> f[k]]
    PROVE  IsSeq(f) /\ Len(f) = n
<1>1. IsSeq(f)
  BY DEF IsSeq
<1>2. Len(f) \in Nat /\ 1 .. Len(f) = 1 .. n
  BY <1>1, SeqFacts
<1> QED
  BY <1>1, <1>2

(* The empty one.                                                          *)
LEMMA Len0 == IsSeq(<<>>) /\ Len(<<>>) = 0 /\ DOMAIN <<>> = {}
<1>1. <<>> = [k \in 1 .. 0 |-> <<>>[k]]
  OBVIOUS
<1> QED
  BY <1>1, EmptySeq DEF IsSeq
=============================================================================
