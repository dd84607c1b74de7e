-------------------------- MODULE Transport_proofs --------------------------
(***************************************************************************)
(* Transport implements MessageChannel, for messages of every size and     *)
(* pieces of every size, as long as the client connects once.              *)
(*                                                                         *)
(* The bytes an end has read and those on their way to it are one stream.  *)
(* The invariant describes it byte by byte: the stream begins where a      *)
(* frame begins, every byte is followed by the next one of its frame or by *)
(* the first of another frame, and it ends where a frame ends as long as   *)
(* the connection is up.  The messages in a stream are defined by          *)
(* recursion over its bytes; that those of two streams put together are    *)
(* the messages of the one and then those of the other is proved by        *)
(* induction, and every step of the transport is a step of the channel by  *)
(* this.                                                                   *)
(*                                                                         *)
(* Induction over the naturals is the statement that a set that has 0 and  *)
(* is closed under successors has all of them (Induction), which follows   *)
(* from the well-foundedness of the finite subsets of a set.               *)
(***************************************************************************)
EXTENDS Transport, SequenceTheorems, FiniteSetTheorems, WellFoundedInduction, TLAPS

(* A set of numbers that has 0, and with every number the next one, has    *)
(* all of them.                                                            *)
LEMMA Induction ==
  ASSUME NEW T, 0 \in T, \A n \in Nat : n \in T => n + 1 \in T
  PROVE  Nat \subseteq T
<1>. SUFFICES ASSUME NEW x \in Nat, x \notin T PROVE FALSE
  OBVIOUS
<1>. DEFINE Out == {1..n : n \in Nat \ T}
            R   == StrictSubsetOrdering(Nat)
<1>1. IsWellFoundedOn(R, FiniteSubsetsOf(Nat))
  BY FS_StrictSubsetOrderingWellFounded
<1>2. Out \subseteq FiniteSubsetsOf(Nat) /\ Out # {}
  <2>1. \A n \in Nat : IsFiniteSet(1..n)
    BY FS_Interval
  <2>. QED
    BY <2>1 DEF FiniteSubsetsOf
<1>3. PICK s \in Out : \A y \in Out : ~(<<y, s>> \in R)
  <2>. HIDE DEF R, Out
  <2>. QED
    BY <1>1, <1>2, WFMin, Zenon
<1>4. PICK n \in Nat \ T : s = 1..n
  BY <1>3
<1>5. n # 0 /\ n - 1 \in Nat /\ (n - 1) + 1 = n
  BY <1>4
<1>6. n - 1 \notin T
  BY <1>4, <1>5
<1>7. 1..(n - 1) \in Out
  BY <1>5, <1>6
<1>8. 1..(n - 1) \subseteq 1..n /\ n \in 1..n /\ n \notin 1..(n - 1)
  BY <1>5
<1>9. <<1..(n - 1), s>> \in R
  BY <1>4, <1>8 DEF StrictSubsetOrdering
<1>. QED
  BY <1>3, <1>7, <1>9

-----------------------------------------------------------------------------
(* The messages in a stream *)

Byte == {b \in Message \X Nat : 1 <= b[2] /\ b[2] <= Length(b[1])}

LEMMA Lengths ==
  /\ Header \in Nat \ {0}
  /\ \A m \in Message : /\ Size(m) \in Nat \ {0}
                        /\ Length(m) \in Nat /\ Length(m) > Header
                        /\ Length(m) = Header + Size(m)
BY TransportAssumption DEF Length

Step(bytes, upTo, i) ==
  IF i = 0 THEN << >>
  ELSE IF IsLast(bytes[i]) THEN Append(upTo[i - 1], bytes[i][1])
  ELSE upTo[i - 1]

UpTo(bytes) == CHOOSE f : f = [i \in 0..Len(bytes) |-> Step(bytes, f, i)]

LEMMA MessagesAreUpTo == \A bytes : MessagesIn(bytes) = UpTo(bytes)[Len(bytes)]
BY DEF MessagesIn, UpTo, Step

(* The recursion defines a function.                                       *)
LEMMA UpToDefined ==
  ASSUME NEW s \in Seq(Byte)
  PROVE  /\ UpTo(s) = [i \in 0..Len(s) |-> Step(s, UpTo(s), i)]
         /\ UpTo(s)[0] = << >>
         /\ \A i \in 1..Len(s) :
              UpTo(s)[i] = IF IsLast(s[i]) THEN Append(UpTo(s)[i - 1], s[i][1])
                           ELSE UpTo(s)[i - 1]
<1>. DEFINE Defines(f, n) == f = [i \in 0..n |-> Step(s, f, i)]
            T == {n \in Nat : \E f : Defines(f, n)}
<1>1. 0 \in T
  <2>. DEFINE f == [i \in 0..0 |-> << >>]
  <2>1. f = [i \in 0..0 |-> Step(s, f, i)]
    BY DEF Step
  <2>. QED
    BY <2>1
<1>2. ASSUME NEW n \in Nat, n \in T
      PROVE  n + 1 \in T
  <2>1. PICK f : Defines(f, n)
    BY <1>2
  <2>. DEFINE g == [i \in 0..(n + 1) |-> IF i = n + 1 THEN Step(s, f, n + 1) ELSE f[i]]
  <2>2. \A i \in 0..n : f[i] = Step(s, f, i)
    BY <2>1
  <2>3. \A i \in 0..n : g[i] = f[i]
    OBVIOUS
  <2>4. \A i \in 0..(n + 1) : Step(s, f, i) = Step(s, g, i)
    <3>. HIDE DEF g
    <3>. SUFFICES ASSUME NEW i \in 0..(n + 1) PROVE Step(s, f, i) = Step(s, g, i)
      OBVIOUS
    <3>1. CASE i = 0
      BY <3>1 DEF Step
    <3>2. CASE i # 0
      <4>1. i - 1 \in 0..n
        BY <3>2
      <4>2. f[i - 1] = g[i - 1]
        BY <2>3, <4>1
      <4>. QED
        BY <4>2 DEF Step
    <3>. QED
      BY <3>1, <3>2
  <2>5. \A i \in 0..(n + 1) : g[i] = Step(s, g, i)
    BY <2>2, <2>3, <2>4
  <2>6. g = [i \in 0..(n + 1) |-> g[i]]
    OBVIOUS
  <2>7. Defines(g, n + 1)
    <3>. HIDE DEF g
    <3>. QED
      BY <2>5, <2>6
  <2>8. \E h : Defines(h, n + 1)
    <3>. HIDE DEF g
    <3>. QED
      BY <2>7
  <2>. HIDE DEF Defines
  <2>. QED
    BY <2>8
<1>3. Nat \subseteq T
  <2>. HIDE DEF T
  <2>. QED
    BY <1>1, <1>2, Induction
<1>4. Len(s) \in Nat
  OBVIOUS
<1>5. Defines(UpTo(s), Len(s))
  BY <1>3, <1>4 DEF UpTo
<1>6. UpTo(s)[0] = Step(s, UpTo(s), 0)
  BY <1>4, <1>5
<1>7. \A i \in 1..Len(s) : UpTo(s)[i] = Step(s, UpTo(s), i) /\ i # 0
  BY <1>4, <1>5
<1>. QED
  BY <1>5, <1>6, <1>7 DEF Step

LEMMA UpToType ==
  ASSUME NEW s \in Seq(Byte)
  PROVE  \A i \in 0..Len(s) : UpTo(s)[i] \in Seq(Message)
<1>. DEFINE T == {n \in Nat : n <= Len(s) => UpTo(s)[n] \in Seq(Message)}
<1>1. 0 \in T
  <2>1. UpTo(s)[0] = << >> /\ << >> \in Seq(Message)
    BY UpToDefined, EmptySeq
  <2>. QED
    BY <2>1, Zenon
<1>2. ASSUME NEW n \in Nat, n \in T
      PROVE  n + 1 \in T
  <2>1. SUFFICES ASSUME n + 1 <= Len(s) PROVE UpTo(s)[n + 1] \in Seq(Message)
    OBVIOUS
  <2>2. UpTo(s)[n] \in Seq(Message) /\ n + 1 \in 1..Len(s) /\ (n + 1) - 1 = n
    BY <1>2, <2>1
  <2>3. s[n + 1][1] \in Message
    BY <2>2 DEF Byte
  <2>4. UpTo(s)[n + 1] = IF IsLast(s[n + 1]) THEN Append(UpTo(s)[n], s[n + 1][1])
                         ELSE UpTo(s)[n]
    BY <2>2, UpToDefined
  <2>. QED
    BY <2>2, <2>3, <2>4
<1>3. Nat \subseteq T
  <2>. HIDE DEF T
  <2>. QED
    BY <1>1, <1>2, Induction
<1>. QED
  BY <1>3

(* What comes later changes nothing of what came before.                   *)
LEMMA UpToBefore ==
  ASSUME NEW s \in Seq(Byte), NEW t \in Seq(Byte)
  PROVE  \A i \in 0..Len(s) : UpTo(s \o t)[i] = UpTo(s)[i]
<1>. DEFINE T == {n \in Nat : n <= Len(s) => UpTo(s \o t)[n] = UpTo(s)[n]}
<1>0. /\ s \o t \in Seq(Byte) /\ Len(s \o t) = Len(s) + Len(t)
      /\ Len(s) \in Nat /\ Len(t) \in Nat
      /\ \A i \in 1..Len(s) : (s \o t)[i] = s[i]
  OBVIOUS
<1>1. 0 \in T
  BY <1>0, UpToDefined
<1>2. ASSUME NEW n \in Nat, n \in T
      PROVE  n + 1 \in T
  <2>1. SUFFICES ASSUME n + 1 <= Len(s) PROVE UpTo(s \o t)[n + 1] = UpTo(s)[n + 1]
    OBVIOUS
  <2>2. /\ UpTo(s \o t)[n] = UpTo(s)[n] /\ (n + 1) - 1 = n
        /\ n + 1 \in 1..Len(s) /\ n + 1 \in 1..Len(s \o t)
    BY <1>0, <1>2, <2>1
  <2>3. UpTo(s)[n + 1] = IF IsLast(s[n + 1]) THEN Append(UpTo(s)[n], s[n + 1][1])
                         ELSE UpTo(s)[n]
    BY <2>2, UpToDefined
  <2>4. UpTo(s \o t)[n + 1] = IF IsLast((s \o t)[n + 1])
                              THEN Append(UpTo(s \o t)[n], (s \o t)[n + 1][1])
                              ELSE UpTo(s \o t)[n]
    BY <1>0, <2>2, UpToDefined
  <2>. QED
    BY <1>0, <2>2, <2>3, <2>4
<1>3. Nat \subseteq T
  <2>. HIDE DEF T
  <2>. QED
    BY <1>1, <1>2, Induction
<1>. QED
  BY <1>0, <1>3

LEMMA UpToJoin ==
  ASSUME NEW s \in Seq(Byte), NEW t \in Seq(Byte)
  PROVE  \A i \in 0..Len(t) :
           UpTo(s \o t)[Len(s) + i] = UpTo(s)[Len(s)] \o UpTo(t)[i]
<1>. DEFINE a == UpTo(s)[Len(s)]
            T == {n \in Nat : n <= Len(t) => UpTo(s \o t)[Len(s) + n] = a \o UpTo(t)[n]}
<1>0. /\ s \o t \in Seq(Byte) /\ Len(s \o t) = Len(s) + Len(t)
      /\ Len(s) \in Nat /\ Len(t) \in Nat
      /\ \A i \in 1..Len(t) : (s \o t)[Len(s) + i] = t[i]
  OBVIOUS
<1>a. a \in Seq(Message)
  BY <1>0, UpToType
<1>b. UpTo(s \o t)[Len(s)] = a
  BY <1>0, UpToBefore
<1>. HIDE DEF a
<1>1. 0 \in T
  <2>1. UpTo(s \o t)[Len(s) + 0] = a
    BY <1>0, <1>b
  <2>2. UpTo(t)[0] = << >>
    BY UpToDefined
  <2>. QED
    BY <1>0, <1>a, <2>1, <2>2
<1>2. ASSUME NEW n \in Nat, n \in T
      PROVE  n + 1 \in T
  <2>1. SUFFICES ASSUME n + 1 <= Len(t)
                 PROVE  UpTo(s \o t)[Len(s) + (n + 1)] = a \o UpTo(t)[n + 1]
    OBVIOUS
  <2>2. /\ UpTo(s \o t)[Len(s) + n] = a \o UpTo(t)[n]
        /\ n + 1 \in 1..Len(t) /\ (n + 1) - 1 = n
        /\ Len(s) + (n + 1) \in 1..Len(s \o t) /\ (Len(s) + (n + 1)) - 1 = Len(s) + n
        /\ (s \o t)[Len(s) + (n + 1)] = t[n + 1]
    BY <1>0, <1>2, <2>1
  <2>3. UpTo(t)[n + 1] = IF IsLast(t[n + 1]) THEN Append(UpTo(t)[n], t[n + 1][1])
                         ELSE UpTo(t)[n]
    BY <2>2, UpToDefined
  <2>4. UpTo(s \o t)[Len(s) + (n + 1)] =
          IF IsLast(t[n + 1]) THEN Append(UpTo(s \o t)[Len(s) + n], t[n + 1][1])
          ELSE UpTo(s \o t)[Len(s) + n]
    <3>. DEFINE k == Len(s) + (n + 1)
    <3>1. UpTo(s \o t)[k] = IF IsLast((s \o t)[k])
                            THEN Append(UpTo(s \o t)[k - 1], (s \o t)[k][1])
                            ELSE UpTo(s \o t)[k - 1]
      BY <1>0, <2>2, UpToDefined
    <3>. QED
      BY <2>2, <3>1
  <2>5. UpTo(t)[n] \in Seq(Message) /\ t[n + 1][1] \in Message
    <3>1. n \in 0..Len(t) /\ t[n + 1] \in Byte
      BY <2>2
    <3>. QED
      BY <3>1, UpToType DEF Byte
  <2>6. \A b \in Seq(Message), m \in Message : Append(a \o b, m) = a \o Append(b, m)
    <3>. SUFFICES ASSUME NEW b \in Seq(Message), NEW m \in Message
                  PROVE  Append(a \o b, m) = a \o Append(b, m)
      OBVIOUS
    <3>1. <<m>> \in Seq(Message) /\ a \o b \in Seq(Message)
      BY <1>a
    <3>2. (a \o b) \o <<m>> = a \o (b \o <<m>>)
      BY <1>a, <3>1, ConcatAssociative
    <3>. QED
      BY <1>a, <3>1, <3>2, AppendIsConcat
  <2>. QED
    BY <2>2, <2>3, <2>4, <2>5, <2>6
<1>3. Nat \subseteq T
  <2>. HIDE DEF T
  <2>. QED
    BY <1>1, <1>2, Induction
<1>4. \A i \in 0..Len(t) : UpTo(s \o t)[Len(s) + i] = a \o UpTo(t)[i]
  BY <1>3
<1>. QED
  BY <1>4 DEF a

(* The messages of two streams put together.                               *)
LEMMA MessagesJoin ==
  ASSUME NEW s \in Seq(Byte), NEW t \in Seq(Byte)
  PROVE  /\ MessagesIn(s) \in Seq(Message)
         /\ MessagesIn(s \o t) = MessagesIn(s) \o MessagesIn(t)
<1>1. /\ s \o t \in Seq(Byte) /\ Len(s \o t) = Len(s) + Len(t)
      /\ Len(s) \in 0..Len(s) /\ Len(t) \in 0..Len(t)
  OBVIOUS
<1>. QED
  BY <1>1, UpToJoin, UpToType, MessagesAreUpTo

LEMMA PrefixMessages ==
  ASSUME NEW s \in Seq(Byte), NEW n \in 0..Len(s)
  PROVE  /\ SubSeq(s, 1, n) \in Seq(Byte) /\ SubSeq(s, n + 1, Len(s)) \in Seq(Byte)
         /\ s = SubSeq(s, 1, n) \o SubSeq(s, n + 1, Len(s))
         /\ IsPrefix(MessagesIn(SubSeq(s, 1, n)), MessagesIn(s))
<1>. DEFINE a == SubSeq(s, 1, n)
            b == SubSeq(s, n + 1, Len(s))
<1>1. Len(s) \in Nat /\ \A i \in 1..Len(s) : s[i] \in Byte
  OBVIOUS
<1>2. a \in Seq(Byte) /\ b \in Seq(Byte) /\ Len(a) = n /\ Len(b) = Len(s) - n
  BY <1>1, SubSeqProperties
<1>3. s = a \o b
  <2>1. a \o b = SubSeq(s, 1, Len(s))
    <3>1. 1 \in 1..(Len(s) + 1) /\ n \in 1 - 1..Len(s) /\ Len(s) \in n..Len(s)
      BY <1>1
    <3>. QED
      BY <3>1, ConcatAdjacentSubSeq
  <2>. QED
    BY <2>1, SubSeqFull
<1>. HIDE DEF a, b
<1>4. /\ MessagesIn(a) \in Seq(Message) /\ MessagesIn(b) \in Seq(Message)
      /\ MessagesIn(s) = MessagesIn(a) \o MessagesIn(b)
  BY <1>2, <1>3, MessagesJoin
<1>5. \A x, y \in Seq(Message) : IsPrefix(x, x \o y)
  <2>. SUFFICES ASSUME NEW x \in Seq(Message), NEW y \in Seq(Message)
                PROVE  IsPrefix(x, x \o y)
    OBVIOUS
  <2>1. Len(x) <= Len(x \o y)
    OBVIOUS
  <2>2. SubSeq(x, 1, Len(x)) = SubSeq(x \o y, 1, Len(x))
    OBVIOUS
  <2>. QED
    BY <2>1, <2>2 DEF IsPrefix
<1>. QED
  BY <1>2, <1>3, <1>4, <1>5 DEF a, b

LEMMA JoinAssociative ==
  \A s, t, u \in Seq(Byte) : (s \o t) \o u = s \o (t \o u)
BY ConcatAssociative

LEMMA JoinCancels ==
  \A s, t, u \in Seq(Byte) : s \o t = s \o u => t = u
BY ConcatSimplifications

LEMMA JoinBegins ==
  ASSUME NEW s \in Seq(Byte), NEW t \in Seq(Byte)
  PROVE  /\ SubSeq(s \o t, 1, Len(s)) = s
         /\ Len(s) \in 0..Len(s \o t)
         /\ s # << >> => s \o t # << >> /\ (s \o t)[1] = s[1]
<1>1. /\ s \o t \in Seq(Byte) /\ Len(s \o t) = Len(s) + Len(t)
      /\ Len(s) \in Nat /\ Len(t) \in Nat
      /\ \A i \in 1..Len(s) : (s \o t)[i] = s[i]
  OBVIOUS
<1>2. SubSeq(s \o t, 1, Len(s)) = s
  <2>1. SubSeq(s \o t, 1, Len(s)) \in Seq(Byte) /\ Len(SubSeq(s \o t, 1, Len(s))) = Len(s)
    BY <1>1
  <2>2. \A i \in 1..Len(s) : SubSeq(s \o t, 1, Len(s))[i] = s[i]
    BY <1>1
  <2>. QED
    BY <2>1, <2>2, SeqEqual
<1>3. s # << >> => 1 \in 1..Len(s) /\ s \o t # << >>
  BY <1>1
<1>. QED
  BY <1>1, <1>2, <1>3

LEMMA CutJoin ==
  ASSUME NEW s \in Seq(Byte), NEW t \in Seq(Byte), NEW k \in 0..Len(t)
  PROVE  /\ s \o SubSeq(t, 1, k) = SubSeq(s \o t, 1, Len(s) + k)
         /\ Len(s) + k \in 0..Len(s \o t)
<1>. DEFINE a == SubSeq(t, 1, k)
            b == SubSeq(t, k + 1, Len(t))
<1>1. a \in Seq(Byte) /\ b \in Seq(Byte) /\ t = a \o b
  BY PrefixMessages
<1>a. Len(a) = k
  OBVIOUS
<1>. HIDE DEF a, b
<1>2. s \o t = (s \o a) \o b
  BY <1>1, JoinAssociative
<1>3. s \o a \in Seq(Byte) /\ Len(s \o a) = Len(s) + Len(a)
  BY <1>1, ConcatProperties
<1>4. /\ SubSeq((s \o a) \o b, 1, Len(s \o a)) = s \o a
      /\ Len(s \o a) \in 0..Len((s \o a) \o b)
  BY <1>1, <1>3, JoinBegins
<1>. QED
  BY <1>a, <1>2, <1>3, <1>4 DEF a

LEMMA Tails ==
  ASSUME NEW s \in Seq(Byte), NEW n \in 0..Len(s)
  PROVE  /\ Len(SubSeq(s, n + 1, Len(s))) = Len(s) - n
         /\ \A i \in 1..(Len(s) - n) : SubSeq(s, n + 1, Len(s))[i] = s[n + i]
<1>. DEFINE r == SubSeq(s, n + 1, Len(s))
<1>1. Len(s) \in Nat /\ n \in Nat /\ n <= Len(s)
  OBVIOUS
<1>2. n + 1 \in Int /\ Len(s) \in Int /\ \A i \in (n + 1)..Len(s) : s[i] \in Byte
  BY <1>1
<1>3. /\ Len(r) = IF n + 1 <= Len(s) THEN Len(s) - (n + 1) + 1 ELSE 0
      /\ \A i \in 1..(Len(s) - (n + 1) + 1) : r[i] = s[(n + 1) + i - 1]
  BY <1>2, SubSeqProperties
<1>. HIDE DEF r
<1>4. Len(r) = Len(s) - n
  BY <1>1, <1>3
<1>5. ASSUME NEW i \in 1..(Len(s) - n)
      PROVE  r[i] = s[n + i]
  <2>1. i \in 1..(Len(s) - (n + 1) + 1) /\ (n + 1) + i - 1 = n + i
    BY <1>1
  <2>. QED
    BY <1>3, <2>1
<1>. QED
  BY <1>4, <1>5 DEF r

-----------------------------------------------------------------------------
(* Streams *)

(* A stream begins where a frame begins, and a byte is followed by the     *)
(* next one of its frame or, if it is the last, by the first of another.   *)
Aligned(s) ==
  /\ s # << >> => s[1][2] = 1
  /\ \A i \in 1..(Len(s) - 1) :
       IF IsLast(s[i]) THEN s[i + 1][2] = 1 ELSE s[i + 1] = <<s[i][1], s[i][2] + 1>>

(* Its last frame is not cut off.                                          *)
Complete(s) == s # << >> => IsLast(s[Len(s)])

LEMMA Frames ==
  ASSUME NEW m \in Message
  PROVE  /\ Frame(m) \in Seq(Byte) /\ Len(Frame(m)) = Length(m)
         /\ \A i \in 1..Length(m) : Frame(m)[i] = <<m, i>>
         /\ Aligned(Frame(m)) /\ Complete(Frame(m))
         /\ MessagesIn(Frame(m)) = <<m>>
<1>. DEFINE s == Frame(m)
            n == Length(m)
<1>1. n \in Nat \ {0} /\ n > 0
  BY Lengths
<1>2. \A i \in 1..n : /\ <<m, i>> \in Byte
                       /\ s[i] = <<m, i>> /\ s[i][1] = m /\ s[i][2] = i
  BY <1>1 DEF Byte, Frame
<1>3. s \in Seq(Byte) /\ Len(s) = n /\ s # << >>
  BY <1>1, <1>2 DEF Frame
<1>4. \A i \in 1..n : IsLast(s[i]) <=> i = n
  <2>. SUFFICES ASSUME NEW i \in 1..n PROVE IsLast(s[i]) <=> i = n
    OBVIOUS
  <2>1. s[i][1] = m /\ s[i][2] = i
    BY <1>2
  <2>. HIDE DEF s
  <2>. QED
    BY <2>1 DEF IsLast
<1>. HIDE DEF s, n
<1>5. Aligned(s)
  <2>1. s[1][2] = 1
    <3>1. 1 \in 1..n
      BY <1>1
    <3>. QED
      BY <1>2, <3>1, Zenon
  <2>2. \A i \in 1..(n - 1) : ~IsLast(s[i]) /\ s[i + 1] = <<s[i][1], s[i][2] + 1>>
    <3>. SUFFICES ASSUME NEW i \in 1..(n - 1)
                  PROVE  ~IsLast(s[i]) /\ s[i + 1] = <<s[i][1], s[i][2] + 1>>
      OBVIOUS
    <3>1. i \in 1..n /\ i + 1 \in 1..n /\ i # n
      BY <1>1
    <3>. QED
      BY <1>2, <1>4, <3>1
  <2>. QED
    BY <1>3, <2>1, <2>2 DEF Aligned
<1>6. Complete(s)
  BY <1>1, <1>3, <1>4 DEF Complete
<1>7. MessagesIn(s) = <<m>>
  <2>. DEFINE T == {k \in Nat : k < n => UpTo(s)[k] = << >>}
  <2>1. 0 \in T
    BY <1>3, UpToDefined
  <2>2. ASSUME NEW k \in Nat, k \in T
        PROVE  k + 1 \in T
    <3>1. SUFFICES ASSUME k + 1 < n PROVE UpTo(s)[k + 1] = << >>
      OBVIOUS
    <3>2. UpTo(s)[k] = << >> /\ k + 1 \in 1..n /\ k + 1 # n /\ (k + 1) - 1 = k
      BY <1>1, <2>2, <3>1
    <3>3. ~IsLast(s[k + 1]) /\ k + 1 \in 1..Len(s)
      BY <1>3, <1>4, <3>2
    <3>4. UpTo(s)[k + 1] = UpTo(s)[(k + 1) - 1]
      BY <1>3, <3>3, UpToDefined
    <3>. QED
      BY <3>2, <3>4
  <2>3. Nat \subseteq T
    <3>. HIDE DEF T
    <3>. QED
      BY <2>1, <2>2, Induction
  <2>4. UpTo(s)[n - 1] = << >>
    BY <1>1, <2>3
  <2>5. IsLast(s[n]) /\ n \in 1..Len(s) /\ s[n][1] = m
    <3>1. n \in 1..n
      BY <1>1
    <3>. QED
      BY <1>2, <1>3, <1>4, <3>1, Zenon
  <2>6. UpTo(s)[n] = Append(UpTo(s)[n - 1], s[n][1])
    BY <1>3, <2>5, UpToDefined
  <2>7. Append(<< >>, m) = <<m>>
    OBVIOUS
  <2>. QED
    BY <1>3, <2>4, <2>5, <2>6, <2>7, MessagesAreUpTo
<1>. QED
  BY <1>2, <1>3, <1>5, <1>6, <1>7 DEF s, n

LEMMA StreamsJoin ==
  ASSUME NEW s \in Seq(Byte), NEW t \in Seq(Byte),
         Aligned(s), Complete(s), Aligned(t), Complete(t)
  PROVE  Aligned(s \o t) /\ Complete(s \o t)
<1>. DEFINE u == s \o t
<1>1. /\ Len(s) \in Nat /\ Len(t) \in Nat /\ Len(u) = Len(s) + Len(t) /\ u \in Seq(Byte)
      /\ \A i \in 1..Len(s) : u[i] = s[i]
      /\ \A i \in 1..Len(t) : u[Len(s) + i] = t[i]
      /\ s # << >> <=> Len(s) # 0
      /\ t # << >> <=> Len(t) # 0
      /\ u # << >> <=> Len(s) + Len(t) # 0
  OBVIOUS
<1>. HIDE DEF u
<1>2. u # << >> => u[1][2] = 1
  <2>1. CASE s # << >>
    BY <1>1, <2>1 DEF Aligned
  <2>2. CASE s = << >>
    <3>. SUFFICES ASSUME u # << >> PROVE u[1][2] = 1
      OBVIOUS
    <3>1. Len(s) = 0 /\ t # << >> /\ 1 \in 1..Len(t)
      BY <1>1, <2>2
    <3>2. u[Len(s) + 1] = t[1]
      <4>1. \A i \in 1..Len(t) : u[Len(s) + i] = t[i]
        BY <1>1
      <4>. QED
        BY <3>1, <4>1
    <3>3. Len(s) + 1 = 1
      BY <3>1
    <3>. QED
      BY <3>1, <3>2, <3>3 DEF Aligned
  <2>. QED
    BY <2>1, <2>2
<1>3. ASSUME NEW i \in 1..(Len(u) - 1)
      PROVE  IF IsLast(u[i]) THEN u[i + 1][2] = 1 ELSE u[i + 1] = <<u[i][1], u[i][2] + 1>>
  <2>1. CASE i < Len(s)
    <3>1. i \in 1..(Len(s) - 1) /\ u[i] = s[i] /\ u[i + 1] = s[i + 1]
      BY <1>1, <2>1
    <3>. QED
      BY <3>1 DEF Aligned
  <2>2. CASE i = Len(s)
    <3>1. u[i] = s[Len(s)] /\ s # << >> /\ t # << >> /\ u[i + 1] = t[1]
      BY <1>1, <2>2
    <3>. QED
      BY <3>1 DEF Aligned, Complete
  <2>3. CASE i > Len(s)
    <3>. DEFINE j == i - Len(s)
    <3>1. j \in 1..(Len(t) - 1) /\ i = Len(s) + j /\ i + 1 = Len(s) + (j + 1)
      BY <1>1, <2>3
    <3>. HIDE DEF j
    <3>2. u[i] = t[j] /\ u[i + 1] = t[j + 1]
      <4>1. j \in 1..Len(t) /\ j + 1 \in 1..Len(t)
        BY <1>1, <3>1
      <4>2. u[Len(s) + j] = t[j] /\ u[Len(s) + (j + 1)] = t[j + 1]
        BY <1>1, <4>1
      <4>. QED
        BY <3>1, <4>2
    <3>. QED
      BY <3>1, <3>2 DEF Aligned
  <2>. QED
    BY <1>1, <2>1, <2>2, <2>3
<1>4. Complete(u)
  <2>. SUFFICES ASSUME u # << >> PROVE IsLast(u[Len(u)])
    BY DEF Complete
  <2>1. CASE t = << >>
    BY <1>1, <2>1 DEF Complete
  <2>2. CASE t # << >>
    BY <1>1, <2>2 DEF Complete
  <2>. QED
    BY <2>1, <2>2
<1>. QED
  BY <1>2, <1>3, <1>4 DEF u, Aligned

LEMMA StreamsCut ==
  ASSUME NEW s \in Seq(Byte), NEW n \in 0..Len(s), Aligned(s)
  PROVE  Aligned(SubSeq(s, 1, n))
<1>. DEFINE t == SubSeq(s, 1, n)
<1>1. /\ Len(s) \in Nat /\ n \in Nat /\ n <= Len(s) /\ Len(t) = n
      /\ \A i \in 1..n : t[i] = s[i]
      /\ t # << >> <=> n # 0
      /\ s # << >> <=> Len(s) # 0
  OBVIOUS
<1>. HIDE DEF t
<1>2. t # << >> => t[1][2] = 1
  BY <1>1 DEF Aligned
<1>3. ASSUME NEW i \in 1..(Len(t) - 1)
      PROVE  IF IsLast(t[i]) THEN t[i + 1][2] = 1 ELSE t[i + 1] = <<t[i][1], t[i][2] + 1>>
  <2>1. i \in 1..(Len(s) - 1) /\ t[i] = s[i] /\ t[i + 1] = s[i + 1]
    BY <1>1, <1>3
  <2>. QED
    BY <2>1 DEF Aligned
<1>. QED
  BY <1>2, <1>3 DEF t, Aligned

(* A stream that is long enough begins with the frame of the message its   *)
(* first byte is of.                                                       *)
LEMMA FirstFrame ==
  ASSUME NEW s \in Seq(Byte), Aligned(s), s # << >>, Length(s[1][1]) <= Len(s)
  PROVE  LET m == s[1][1]
             r == SubSeq(s, Length(m) + 1, Len(s))
         IN /\ m \in Message
            /\ r \in Seq(Byte)
            /\ s = Frame(m) \o r
            /\ Aligned(r)
            /\ Complete(s) => Complete(r)
<1>. DEFINE m == s[1][1]
            n == Length(m)
            r == SubSeq(s, n + 1, Len(s))
<1>1. Len(s) \in Nat /\ 1 \in 1..Len(s) /\ \A i \in 1..Len(s) : s[i] \in Byte
  OBVIOUS
<1>2. m \in Message /\ n \in Nat /\ n > 0 /\ n <= Len(s)
  <2>1. s[1] \in Message \X Nat
    BY <1>1 DEF Byte
  <2>2. m \in Message
    BY <2>1
  <2>3. Header \in Nat \ {0} /\ n \in Nat /\ n > Header
    BY <2>2, Lengths
  <2>. QED
    BY <2>2, <2>3
<1>3. \A i \in 1..n : s[i] = <<m, i>>
  <2>. DEFINE T == {k \in Nat : k + 1 <= n => s[k + 1] = <<m, k + 1>>}
  <2>1. 0 \in T
    <3>1. s[1][2] = 1 /\ s[1] \in Message \X Nat
      BY <1>1 DEF Aligned, Byte
    <3>. QED
      BY <3>1
  <2>2. ASSUME NEW k \in Nat, k \in T
        PROVE  k + 1 \in T
    <3>1. SUFFICES ASSUME (k + 1) + 1 <= n PROVE s[(k + 1) + 1] = <<m, (k + 1) + 1>>
      OBVIOUS
    <3>2. s[k + 1] = <<m, k + 1>> /\ k + 1 # n /\ k + 1 \in 1..(Len(s) - 1)
      BY <1>1, <1>2, <2>2, <3>1
    <3>3. ~IsLast(s[k + 1])
      BY <3>2 DEF IsLast
    <3>4. s[(k + 1) + 1] = <<s[k + 1][1], s[k + 1][2] + 1>>
      BY <3>2, <3>3 DEF Aligned
    <3>. QED
      BY <3>2, <3>4
  <2>3. Nat \subseteq T
    <3>. HIDE DEF T
    <3>. QED
      BY <2>1, <2>2, Induction
  <2>. SUFFICES ASSUME NEW i \in 1..n PROVE s[i] = <<m, i>>
    OBVIOUS
  <2>. HIDE DEF n, m
  <2>4. i - 1 \in Nat /\ (i - 1) + 1 = i /\ i <= n
    BY <1>2
  <2>5. (i - 1) + 1 <= n => s[(i - 1) + 1] = <<m, (i - 1) + 1>>
    BY <2>3, <2>4
  <2>. QED
    BY <2>4, <2>5
<1>. HIDE DEF m, n
<1>4. SubSeq(s, 1, n) = Frame(m)
  <2>1. SubSeq(s, 1, n) \in Seq(Byte) /\ Frame(m) \in Seq(Byte) /\ Len(Frame(m)) = n
    BY <1>1, <1>2, Frames, SubSeqProperties DEF n
  <2>2. Len(SubSeq(s, 1, n)) = n /\ \A i \in 1..n : SubSeq(s, 1, n)[i] = <<m, i>>
    BY <1>1, <1>2, <1>3
  <2>3. \A i \in 1..n : Frame(m)[i] = <<m, i>>
    BY <1>2, Frames DEF n
  <2>. QED
    BY <2>1, <2>2, <2>3, SeqEqual
<1>5. r \in Seq(Byte) /\ s = SubSeq(s, 1, n) \o r
  <2>1. n \in 0..Len(s)
    BY <1>1, <1>2
  <2>. QED
    BY <2>1, PrefixMessages
<1>6. /\ Len(r) = Len(s) - n /\ \A i \in 1..(Len(s) - n) : r[i] = s[n + i]
      /\ r # << >> <=> n # Len(s)
  <2>1. n \in 0..Len(s)
    BY <1>1, <1>2
  <2>2. Len(r) = Len(s) - n /\ \A i \in 1..(Len(s) - n) : r[i] = s[n + i]
    BY <2>1, Tails
  <2>. HIDE DEF r
  <2>3. r # << >> <=> Len(r) # 0
    BY <1>5
  <2>. QED
    BY <1>1, <1>2, <2>2, <2>3
<1>. HIDE DEF r
<1>7. r # << >> => r[1][2] = 1
  <2>. SUFFICES ASSUME r # << >> PROVE r[1][2] = 1
    OBVIOUS
  <2>1. n \in 1..(Len(s) - 1) /\ r[1] = s[n + 1]
    BY <1>1, <1>2, <1>6
  <2>2. IsLast(s[n])
    BY <1>2, <1>3 DEF IsLast, n
  <2>. QED
    BY <2>1, <2>2 DEF Aligned
<1>8. ASSUME NEW i \in 1..(Len(r) - 1)
      PROVE  IF IsLast(r[i]) THEN r[i + 1][2] = 1 ELSE r[i + 1] = <<r[i][1], r[i][2] + 1>>
  <2>1. n + i \in 1..(Len(s) - 1) /\ r[i] = s[n + i] /\ r[i + 1] = s[(n + i) + 1]
    BY <1>1, <1>2, <1>6, <1>8
  <2>. QED
    BY <2>1 DEF Aligned
<1>9. Complete(s) => Complete(r)
  <2>. SUFFICES ASSUME Complete(s), r # << >> PROVE IsLast(r[Len(r)])
    BY DEF Complete
  <2>1. r[Len(r)] = s[Len(s)]
    BY <1>1, <1>2, <1>6
  <2>. QED
    BY <2>1 DEF Complete
<1>. QED
  BY <1>2, <1>4, <1>5, <1>7, <1>8, <1>9 DEF Aligned, m, n, r

-----------------------------------------------------------------------------
(* The transport *)

(* What an end has read and what is on its way to it.                      *)
Stream(e) == buffer[e] \o wire[e]

Queue == [e \in End |-> MessagesIn(Stream(e))]

(* Before the first connection there is nothing; the client has no second. *)
TransportInv ==
  /\ link \in BOOLEAN
  /\ connects \in Nat
  /\ wire \in [End -> Seq(Byte)]
  /\ buffer \in [End -> Seq(Byte)]
  /\ parsing \in [End -> BOOLEAN]
  /\ handled \in [End -> Seq(Message)]
  /\ \A e \in End : Aligned(Stream(e)) /\ (link => Complete(Stream(e)))
  /\ connects = 0 => ~link /\ \A e \in End : wire[e] = << >> /\ buffer[e] = << >>

LEMMA Peers ==
  /\ Peer("client") = "server" /\ Peer("server") = "client"
  /\ \A e \in End : Peer(e) \in End /\ Channel!Peer(e) = Peer(e)
BY DEF Peer, End, Channel!Peer, Channel!End

LEMMA NothingSent ==
  /\ << >> \in Seq(Byte) /\ << >> \in Seq(Message) /\ << >> \o << >> = << >>
  /\ Aligned(<< >>) /\ Complete(<< >>)
  /\ MessagesIn(<< >>) = << >>
<1>1. << >> \in Seq(Byte) /\ << >> \in Seq(Message) /\ Len(<< >>) = 0 /\ << >> \o << >> = << >>
  BY EmptySeq, ConcatEmptySeq
<1>2. Aligned(<< >>) /\ Complete(<< >>)
  BY <1>1 DEF Aligned, Complete
<1>. QED
  BY <1>1, <1>2, UpToDefined, MessagesAreUpTo

LEMMA Streams ==
  ASSUME TransportInv, NEW e \in End
  PROVE  /\ wire[e] \in Seq(Byte) /\ buffer[e] \in Seq(Byte) /\ Stream(e) \in Seq(Byte)
         /\ Aligned(Stream(e)) /\ (link => Complete(Stream(e)))
         /\ Queue[e] = MessagesIn(Stream(e)) /\ Queue[e] \in Seq(Message)
<1>1. wire[e] \in Seq(Byte) /\ buffer[e] \in Seq(Byte)
  BY DEF TransportInv
<1>2. Stream(e) \in Seq(Byte)
  BY <1>1 DEF Stream
<1>3. MessagesIn(Stream(e)) \in Seq(Message)
  BY <1>2, NothingSent, MessagesJoin
<1>. QED
  BY <1>1, <1>2, <1>3 DEF TransportInv, Queue

LEMMA SendStep ==
  ASSUME TransportInv, NEW e \in End, NEW m \in Message, SendMessage(e, m)
  PROVE  TransportInv' /\ Channel!Send(e, m)
<1>. DEFINE p == Peer(e)
<1>1. /\ link /\ p \in End /\ connects # 0
      /\ UNCHANGED <<link, connects, buffer, parsing, handled>>
      /\ wire' = [wire EXCEPT ![p] = @ \o Frame(m)]
  BY Peers DEF SendMessage, TransportInv
<1>. HIDE DEF p
<1>2. /\ Frame(m) \in Seq(Byte) /\ Aligned(Frame(m)) /\ Complete(Frame(m))
      /\ MessagesIn(Frame(m)) = <<m>>
  BY Frames
<1>3. /\ wire[p] \in Seq(Byte) /\ buffer[p] \in Seq(Byte) /\ Stream(p) \in Seq(Byte)
      /\ Aligned(Stream(p)) /\ Complete(Stream(p)) /\ MessagesIn(Stream(p)) \in Seq(Message)
      /\ Queue[p] = MessagesIn(Stream(p))
  BY <1>1, Streams
<1>4. /\ wire' \in [End -> Seq(Byte)] /\ wire'[p] = wire[p] \o Frame(m)
      /\ \A f \in End \ {p} : wire'[f] = wire[f]
  BY <1>1, <1>2, <1>3 DEF TransportInv
<1>5. buffer'[p] \o wire'[p] = Stream(p) \o Frame(m)
  <2>1. (buffer[p] \o wire[p]) \o Frame(m) = buffer[p] \o (wire[p] \o Frame(m))
    BY <1>2, <1>3, JoinAssociative
  <2>2. buffer'[p] = buffer[p]
    BY <1>1
  <2>. QED
    BY <1>4, <2>1, <2>2, Zenon DEF Stream
<1>6. /\ Aligned(Stream(p) \o Frame(m)) /\ Complete(Stream(p) \o Frame(m))
      /\ MessagesIn(Stream(p) \o Frame(m)) = MessagesIn(Stream(p)) \o <<m>>
  BY <1>2, <1>3, StreamsJoin, MessagesJoin
<1>7. \A f \in End \ {p} : buffer'[f] \o wire'[f] = Stream(f)
  BY <1>1, <1>4 DEF Stream
<1>8. TransportInv'
  <2>1. \A f \in End : /\ Aligned(buffer'[f] \o wire'[f])
                       /\ link' => Complete(buffer'[f] \o wire'[f])
    BY <1>1, <1>5, <1>6, <1>7 DEF TransportInv
  <2>. QED
    BY <1>1, <1>4, <2>1 DEF TransportInv, Stream
<1>9. Queue' = [Queue EXCEPT ![p] = Append(@, m)]
  <2>1. MessagesIn(buffer'[p] \o wire'[p]) = Append(Queue[p], m)
    BY <1>3, <1>5, <1>6, AppendIsConcat
  <2>2. \A f \in End \ {p} : MessagesIn(buffer'[f] \o wire'[f]) = Queue[f]
    BY <1>7 DEF Queue
  <2>3. Queue' = [f \in End |-> MessagesIn(buffer'[f] \o wire'[f])]
    BY DEF Queue, Stream
  <2>4. Queue = [f \in End |-> Queue[f]]
    BY DEF Queue
  <2>. HIDE DEF Queue
  <2>. QED
    BY <1>1, <2>1, <2>2, <2>3, <2>4
<1>. QED
  BY <1>1, <1>8, <1>9, Peers DEF Channel!Send, Queue, Stream, p

(* The bytes that are read stay in the stream.                             *)
LEMMA ReadStep ==
  ASSUME TransportInv, NEW e \in End, ReadyRead(e)
  PROVE  TransportInv' /\ UNCHANGED <<link, Queue, handled>>
<1>1. PICK n \in 1..Len(wire[e]) :
        /\ buffer' = [buffer EXCEPT ![e] = @ \o SubSeq(wire[e], 1, n)]
        /\ wire' = [wire EXCEPT ![e] = SubSeq(@, n + 1, Len(@))]
  BY DEF ReadyRead
<1>. DEFINE a == SubSeq(wire[e], 1, n)
            b == SubSeq(wire[e], n + 1, Len(wire[e]))
<1>2. /\ wire[e] \in Seq(Byte) /\ buffer[e] \in Seq(Byte)
      /\ a \in Seq(Byte) /\ b \in Seq(Byte) /\ wire[e] = a \o b /\ wire[e] # << >>
  <2>1. wire[e] \in Seq(Byte) /\ buffer[e] \in Seq(Byte)
    BY Streams
  <2>2. n \in 0..Len(wire[e]) /\ wire[e] # << >>
    BY <2>1
  <2>. QED
    BY <2>1, <2>2, PrefixMessages
<1>3. /\ buffer' \in [End -> Seq(Byte)] /\ wire' \in [End -> Seq(Byte)]
      /\ buffer'[e] = buffer[e] \o a /\ wire'[e] = b
      /\ \A f \in End \ {e} : buffer'[f] = buffer[f] /\ wire'[f] = wire[f]
  <2>1. buffer \in [End -> Seq(Byte)] /\ wire \in [End -> Seq(Byte)]
    BY DEF TransportInv
  <2>2. buffer' = [buffer EXCEPT ![e] = buffer[e] \o a] /\ wire' = [wire EXCEPT ![e] = b]
    BY <1>1, <2>1
  <2>. HIDE DEF a, b
  <2>3. buffer[e] \o a \in Seq(Byte)
    BY <1>2
  <2>. QED
    BY <1>2, <2>1, <2>2, <2>3
<1>. HIDE DEF a, b
<1>4. buffer'[e] \o wire'[e] = Stream(e)
  <2>1. (buffer[e] \o a) \o b = buffer[e] \o (a \o b)
    BY <1>2, JoinAssociative
  <2>. QED
    BY <1>2, <1>3, <2>1, Zenon DEF Stream
<1>5. \A f \in End : Stream(f)' = Stream(f)
  BY <1>3, <1>4 DEF Stream
<1>6. UNCHANGED <<link, connects, handled>> /\ connects # 0 /\ parsing' \in [End -> BOOLEAN]
  BY <1>2 DEF ReadyRead, TransportInv
<1>7. TransportInv'
  <2>1. \A f \in End : Aligned(Stream(f)') /\ (link' => Complete(Stream(f)'))
    BY <1>5, <1>6 DEF TransportInv
  <2>. QED
    BY <1>3, <1>6, <2>1 DEF TransportInv
<1>8. Queue' = Queue
  BY <1>5 DEF Queue
<1>. QED
  BY <1>6, <1>7, <1>8

(* What is read of a frame after its header is the message's alone.        *)
LEMMA Payloads ==
  ASSUME NEW m \in Message, NEW r \in Seq(Byte)
  PROVE  Deserialized(SubSeq(Frame(m) \o r, Header + 1, Length(m))) = {m}
<1>. DEFINE Payload(k) == SubSeq(Frame(k), Header + 1, Length(k))
            s == Frame(m) \o r
<1>1. \A k \in Message : Payload(k)[1] = <<k, Header + 1>>
  <2>. SUFFICES ASSUME NEW k \in Message PROVE Payload(k)[1] = <<k, Header + 1>>
    OBVIOUS
  <2>1. /\ Header + 1 \in 1..Length(k) /\ Header + 1 \in Int /\ Length(k) \in Int
        /\ 1 \in 1..(Length(k) - (Header + 1) + 1) /\ (Header + 1) + 1 - 1 = Header + 1
        /\ \A i \in (Header + 1)..Length(k) : i \in 1..Length(k)
    BY Lengths
  <2>2. \A i \in (Header + 1)..Length(k) : Frame(k)[i] \in Byte
    BY <2>1, Frames
  <2>3. Payload(k)[1] = Frame(k)[(Header + 1) + 1 - 1]
    BY <2>1, <2>2, SubSeqProperties
  <2>. HIDE DEF Payload
  <2>. QED
    BY <2>1, <2>3, Frames
<1>2. SubSeq(s, Header + 1, Length(m)) = Payload(m)
  <2>1. /\ Header + 1 \in 1..Length(m) /\ Length(m) \in 1..Length(m) /\ Length(m) \in Nat
    BY Lengths
  <2>2. Frame(m) \in Seq(Byte) /\ Len(Frame(m)) = Length(m)
    BY Frames
  <2>. QED
    BY <2>1, <2>2, SubSeqOfConcat1
<1>. HIDE DEF Payload, s
<1>3. \A k \in Message : Payload(m) = Payload(k) => k = m
  BY <1>1
<1>4. Deserialized(Payload(m)) = {k \in Message : Payload(m) = Payload(k)}
  BY DEF Deserialized, Payload
<1>5. Deserialized(Payload(m)) = {m}
  BY <1>3, <1>4
<1>. QED
  BY <1>2, <1>5 DEF s

(* The message that is handled is the first of the stream.                 *)
LEMMA ParseStep ==
  ASSUME TransportInv, NEW e \in End, ParseFrame(e)
  PROVE  TransportInv' /\ Channel!Handle(e)
<1>. DEFINE s == buffer[e]
            t == Stream(e)
            m == s[1][1]
            n == Length(m)
            b == SubSeq(s, n + 1, Len(s))
            r == SubSeq(t, n + 1, Len(t))
<1>1. /\ Len(s) >= Header /\ Len(s) >= n
      /\ UNCHANGED <<link, connects, sent, wire, parsing>>
      /\ buffer' = [buffer EXCEPT ![e] = b]
      /\ LET payload == SubSeq(s, Header + 1, n)
         IN IF Deserialized(payload) = {} THEN UNCHANGED handled
            ELSE \E k \in Deserialized(payload) :
                   handled' = [handled EXCEPT ![e] = Append(@, k)]
  BY DEF ParseFrame, HoldsFrame, Length
<1>2. /\ wire[e] \in Seq(Byte) /\ s \in Seq(Byte) /\ t \in Seq(Byte)
      /\ Aligned(t) /\ (link => Complete(t)) /\ Queue[e] = MessagesIn(t)
      /\ t = s \o wire[e]
  BY Streams DEF Stream
<1>3. Len(s) \in Nat /\ Header \in Nat \ {0} /\ s # << >> /\ 1 \in 1..Len(s)
  BY <1>1, <1>2, Lengths
<1>4. /\ Len(s) \in 0..Len(t) /\ Len(s) <= Len(t) /\ t # << >> /\ t[1] = s[1]
      /\ SubSeq(t, 1, Len(s)) = s
  <2>. HIDE DEF s, t
  <2>1. /\ SubSeq(s \o wire[e], 1, Len(s)) = s /\ Len(s) \in 0..Len(s \o wire[e])
        /\ s \o wire[e] # << >> /\ (s \o wire[e])[1] = s[1]
    BY <1>2, <1>3, JoinBegins
  <2>2. Len(t) \in Nat
    BY <1>2
  <2>. QED
    BY <1>2, <1>3, <2>1, <2>2
<1>5. Aligned(s)
  BY <1>2, <1>4, StreamsCut
<1>6. m \in Message /\ b \in Seq(Byte) /\ s = Frame(m) \o b
  BY <1>1, <1>2, <1>3, <1>5, FirstFrame
<1>7. n \in Nat /\ n <= Len(t)
  <2>. HIDE DEF t, m
  <2>1. Len(t) \in Nat
    <3>1. t \in Seq(Byte)
      BY <1>2
    <3>. QED
      BY <3>1
  <2>2. n \in Nat
    BY <1>6, Lengths
  <2>. QED
    BY <1>1, <1>3, <1>4, <2>1, <2>2
<1>8. /\ r \in Seq(Byte) /\ t = Frame(m) \o r
      /\ Aligned(r) /\ (Complete(t) => Complete(r))
  <2>1. t[1][1] = m
    BY <1>4
  <2>. HIDE DEF m, t
  <2>. QED
    BY <1>2, <1>4, <1>7, <2>1, FirstFrame
<1>. HIDE DEF s, t, n, b, r, m
<1>9. b \o wire[e] = r
  <2>1. Frame(m) \in Seq(Byte)
    BY <1>6, Frames
  <2>2. (Frame(m) \o b) \o wire[e] = Frame(m) \o (b \o wire[e])
    <3>1. wire[e] \in Seq(Byte) /\ b \in Seq(Byte)
      BY <1>2, <1>6
    <3>. QED
      BY <2>1, <3>1, JoinAssociative
  <2>3. Frame(m) \o (b \o wire[e]) = Frame(m) \o r
    BY <1>2, <1>6, <1>8, <2>2
  <2>4. b \o wire[e] \in Seq(Byte)
    BY <1>2, <1>6
  <2>. QED
    BY <1>8, <2>1, <2>3, <2>4, JoinCancels
<1>10. handled' = [handled EXCEPT ![e] = Append(@, m)]
  <2>1. Deserialized(SubSeq(s, Header + 1, n)) = {m}
    BY <1>6, Payloads DEF n
  <2>. QED
    BY <1>1, <2>1
<1>11. MessagesIn(r) \in Seq(Message) /\ MessagesIn(t) = <<m>> \o MessagesIn(r)
  BY <1>6, <1>8, Frames, MessagesJoin
<1>12. /\ buffer' \in [End -> Seq(Byte)] /\ Stream(e)' = r
       /\ \A f \in End \ {e} : Stream(f)' = Stream(f)
  <2>1. buffer' \in [End -> Seq(Byte)] /\ buffer'[e] = b
    BY <1>1, <1>6 DEF TransportInv
  <2>. QED
    BY <1>1, <1>9, <2>1 DEF Stream
<1>13. TransportInv'
  <2>1. \A f \in End : Aligned(Stream(f)') /\ (link' => Complete(Stream(f)'))
    BY <1>1, <1>2, <1>8, <1>12 DEF TransportInv
  <2>2. handled' \in [End -> Seq(Message)]
    BY <1>6, <1>10 DEF TransportInv
  <2>3. connects # 0
    BY <1>3 DEF TransportInv, s
  <2>. QED
    BY <1>1, <1>12, <2>1, <2>2, <2>3 DEF TransportInv
<1>14. Queue[e] # << >> /\ Head(Queue[e]) = m /\ Tail(Queue[e]) = MessagesIn(r)
  <2>1. Queue[e] = <<m>> \o MessagesIn(r)
    BY <1>2, <1>11
  <2>. QED
    BY <1>6, <1>11, <2>1
<1>15. Queue' = [Queue EXCEPT ![e] = Tail(@)]
  <2>1. MessagesIn(Stream(e)') = Tail(Queue[e])
    BY <1>12, <1>14
  <2>2. \A f \in End \ {e} : MessagesIn(Stream(f)') = Queue[f]
    BY <1>12 DEF Queue
  <2>3. Queue' = [f \in End |-> MessagesIn(Stream(f)')]
    BY DEF Queue
  <2>4. Queue = [f \in End |-> Queue[f]]
    BY DEF Queue
  <2>. HIDE DEF Queue
  <2>. QED
    BY <2>1, <2>2, <2>3, <2>4
<1>. QED
  BY <1>1, <1>10, <1>13, <1>14, <1>15 DEF Channel!Handle, Queue, Stream

(* What the end of the connection leaves of the streams.                   *)
LEMMA CloseStep ==
  ASSUME TransportInv, link' = FALSE,
         wire' \in [End -> Seq(Byte)], buffer' \in [End -> Seq(Byte)],
         \A e \in End : \E n \in 0..Len(Stream(e)) : Stream(e)' = SubSeq(Stream(e), 1, n),
         UNCHANGED <<connects, parsing, handled>>, connects # 0
  PROVE  TransportInv' /\ Channel!Close
<1>1. ASSUME NEW e \in End
      PROVE  /\ Aligned(Stream(e)') /\ MessagesIn(Stream(e)') \in Seq(Message)
             /\ IsPrefix(MessagesIn(Stream(e)'), Queue[e])
  <2>1. PICK n \in 0..Len(Stream(e)) : Stream(e)' = SubSeq(Stream(e), 1, n)
    OBVIOUS
  <2>2. /\ Stream(e) \in Seq(Byte) /\ Aligned(Stream(e))
        /\ Queue[e] = MessagesIn(Stream(e))
    BY Streams
  <2>3. /\ SubSeq(Stream(e), 1, n) \in Seq(Byte)
        /\ IsPrefix(MessagesIn(SubSeq(Stream(e), 1, n)), MessagesIn(Stream(e)))
    BY <2>2, PrefixMessages
  <2>4. Aligned(SubSeq(Stream(e), 1, n))
    BY <2>2, StreamsCut
  <2>5. MessagesIn(SubSeq(Stream(e), 1, n)) \in Seq(Message)
    BY <2>3, NothingSent, MessagesJoin
  <2>. QED
    BY <2>1, <2>2, <2>3, <2>4, <2>5
<1>2. TransportInv'
  BY <1>1 DEF TransportInv
<1>3. Queue' = [e \in End |-> MessagesIn(Stream(e)')]
  BY DEF Queue
<1>4. Queue' \in [End -> Seq(Message)] /\ \A e \in End : IsPrefix(Queue'[e], Queue[e])
  BY <1>1, <1>3
<1>5. \A e \in End : Channel!IsPrefix(Queue'[e], Queue[e])
  BY <1>4 DEF IsPrefix, Channel!IsPrefix
<1>. QED
  BY <1>2, <1>4, <1>5 DEF Channel!Close, Channel!End, End, Queue, Stream

LEMMA ConnectStep ==
  ASSUME TransportInv, ~Reconnects, Connect
  PROVE  TransportInv' /\ Channel!Open
<1>1. /\ connects = 0 /\ \A e \in End : wire[e] = << >> /\ buffer[e] = << >>
      /\ link' = TRUE /\ connects' = 1 /\ UNCHANGED <<wire, parsing, handled>>
      /\ buffer' = [buffer EXCEPT !["server"] = << >>]
  BY DEF Connect, TransportInv
<1>2. buffer' = buffer
  BY <1>1 DEF TransportInv, End
<1>3. \A e \in End : Stream(e)' = << >> /\ Stream(e) = << >>
  BY <1>1, <1>2, NothingSent DEF Stream
<1>4. TransportInv'
  <2>1. \A e \in End : Aligned(Stream(e)') /\ (link' => Complete(Stream(e)'))
    BY <1>3, NothingSent
  <2>2. /\ link' \in BOOLEAN /\ connects' \in Nat /\ connects' # 0
        /\ wire' \in [End -> Seq(Byte)] /\ buffer' \in [End -> Seq(Byte)]
        /\ parsing' \in [End -> BOOLEAN] /\ handled' \in [End -> Seq(Message)]
    <3>1. link' \in BOOLEAN /\ connects' \in Nat /\ connects' # 0
      BY <1>1
    <3>2. UNCHANGED <<wire, buffer, parsing, handled>>
      BY <1>1, <1>2
    <3>. QED
      BY <3>1, <3>2 DEF TransportInv
  <2>. QED
    BY <2>1, <2>2 DEF TransportInv
<1>5. Queue' = Queue
  BY <1>3 DEF Queue
<1>. QED
  BY <1>1, <1>4, <1>5 DEF Channel!Open, Queue, Stream

LEMMA EndOfLoopStep ==
  ASSUME TransportInv, NEW e \in End, EndOfLoop(e)
  PROVE  TransportInv' /\ UNCHANGED <<link, Queue, handled>>
<1>1. UNCHANGED <<link, connects, wire, buffer, handled>> /\ parsing' \in [End -> BOOLEAN]
  BY DEF EndOfLoop, TransportInv
<1>. QED
  BY <1>1 DEF TransportInv, Queue, Stream

LEMMA LoseStep ==
  ASSUME TransportInv, Lose
  PROVE  TransportInv' /\ Channel!Close
<1>1. PICK kept \in [End -> 0..Len(wire["client"]) + Len(wire["server"])] :
        /\ \A e \in End : kept[e] <= Len(wire[e])
        /\ wire' = [e \in End |-> SubSeq(wire[e], 1, kept[e])]
  BY DEF Lose
<1>2. link' = FALSE /\ connects # 0 /\ UNCHANGED <<connects, buffer, parsing, handled>>
  BY DEF Lose, TransportInv
<1>3. ASSUME NEW e \in End
      PROVE  /\ wire'[e] \in Seq(Byte)
             /\ \E n \in 0..Len(Stream(e)) : Stream(e)' = SubSeq(Stream(e), 1, n)
  <2>. DEFINE k == kept[e]
  <2>1. wire[e] \in Seq(Byte) /\ buffer[e] \in Seq(Byte)
    BY Streams
  <2>2. k \in 0..Len(wire[e])
    <3>1. /\ Len(wire[e]) \in Nat
          /\ Len(wire["client"]) \in Nat /\ Len(wire["server"]) \in Nat
      BY <2>1, Streams DEF End
    <3>2. kept[e] \in 0..(Len(wire["client"]) + Len(wire["server"]))
      BY <1>1
    <3>3. k \in Nat
      BY <3>1, <3>2
    <3>. QED
      BY <1>1, <3>1, <3>3
  <2>3. wire'[e] = SubSeq(wire[e], 1, k) /\ wire'[e] \in Seq(Byte)
    BY <1>1, <2>1, <2>2, PrefixMessages
  <2>. HIDE DEF k
  <2>4. /\ buffer[e] \o SubSeq(wire[e], 1, k)
             = SubSeq(buffer[e] \o wire[e], 1, Len(buffer[e]) + k)
        /\ Len(buffer[e]) + k \in 0..Len(buffer[e] \o wire[e])
    BY <2>1, <2>2, CutJoin
  <2>5. Stream(e)' = SubSeq(Stream(e), 1, Len(buffer[e]) + k)
    BY <1>2, <2>3, <2>4 DEF Stream
  <2>. QED
    BY <2>3, <2>4, <2>5 DEF Stream
<1>4. wire' \in [End -> Seq(Byte)] /\ buffer' \in [End -> Seq(Byte)]
  BY <1>1, <1>2, <1>3 DEF TransportInv
<1>. QED
  BY <1>2, <1>3, <1>4, CloseStep

LEMMA DisconnectedStep ==
  ASSUME TransportInv, NEW e \in End, OnDisconnected(e)
  PROVE  TransportInv' /\ Channel!Close
<1>1. /\ link' = FALSE /\ connects # 0 /\ UNCHANGED <<connects, parsing, handled>>
      /\ wire' = [wire EXCEPT ![e] = << >>]
      /\ buffer' = IF e = "server" THEN [buffer EXCEPT ![e] = << >>] ELSE buffer
  BY DEF OnDisconnected, TransportInv
<1>2. /\ wire' \in [End -> Seq(Byte)] /\ buffer' \in [End -> Seq(Byte)]
      /\ wire'[e] = << >> /\ buffer'[e] \in {buffer[e], << >>}
      /\ \A f \in End \ {e} : wire'[f] = wire[f] /\ buffer'[f] = buffer[f]
  BY <1>1, NothingSent DEF TransportInv
<1>3. ASSUME NEW f \in End
      PROVE  \E n \in 0..Len(Stream(f)) : Stream(f)' = SubSeq(Stream(f), 1, n)
  <2>1. wire[f] \in Seq(Byte) /\ buffer[f] \in Seq(Byte) /\ Stream(f) \in Seq(Byte)
    BY Streams
  <2>2. CASE f # e
    <3>1. Stream(f)' = Stream(f)
      BY <1>2, <2>2 DEF Stream
    <3>2. Len(Stream(f)) \in 0..Len(Stream(f)) /\ SubSeq(Stream(f), 1, Len(Stream(f))) = Stream(f)
      BY <2>1, SubSeqFull
    <3>. QED
      BY <3>1, <3>2
  <2>3. CASE f = e /\ buffer'[e] = buffer[e]
    <3>1. Stream(f)' = buffer[f]
      BY <1>2, <2>1, <2>3, ConcatEmptySeq DEF Stream
    <3>. QED
      BY <2>1, <3>1, JoinBegins DEF Stream
  <2>4. CASE f = e /\ buffer'[e] = << >>
    <3>1. Stream(f)' = << >>
      BY <1>2, <2>4, NothingSent DEF Stream
    <3>2. 0 \in 0..Len(Stream(f)) /\ SubSeq(Stream(f), 1, 0) = << >>
      BY <2>1, SubSeqEmpty
    <3>. QED
      BY <3>1, <3>2
  <2>. QED
    BY <1>2, <2>2, <2>3, <2>4
<1>. QED
  BY <1>1, <1>2, <1>3, CloseStep

(* No byte is invented, and no frame is cut off while the connection is up *)
(* (TransportInv).                                                         *)
THEOREM StreamsAreFrames ==
  ASSUME ~Reconnects
  PROVE  TransportSpec => []TransportInv
<1>1. TransportInit => TransportInv
  <2>. SUFFICES ASSUME TransportInit PROVE TransportInv
    OBVIOUS
  <2>1. \A e \in End : Stream(e) = << >> /\ wire[e] = << >> /\ buffer[e] = << >>
    BY NothingSent DEF TransportInit, Stream
  <2>. QED
    BY <2>1, NothingSent DEF TransportInit, TransportInv
<1>2. TransportInv /\ [TransportNext]_transportVars => TransportInv'
  <2>. SUFFICES ASSUME TransportInv, [TransportNext]_transportVars
                PROVE  TransportInv'
    OBVIOUS
  <2>1. CASE Connect
    BY <2>1, ConnectStep
  <2>2. CASE Lose
    BY <2>2, LoseStep
  <2>3. ASSUME NEW e \in End, ReadyRead(e)
        PROVE  TransportInv'
    BY <2>3, ReadStep
  <2>4. ASSUME NEW e \in End, ParseFrame(e)
        PROVE  TransportInv'
    BY <2>4, ParseStep
  <2>5. ASSUME NEW e \in End, EndOfLoop(e)
        PROVE  TransportInv'
    BY <2>5, EndOfLoopStep
  <2>6. ASSUME NEW e \in End, OnDisconnected(e)
        PROVE  TransportInv'
    BY <2>6, DisconnectedStep
  <2>7. ASSUME NEW e \in End, NEW m \in Message, SendMessage(e, m)
        PROVE  TransportInv'
    BY <2>7, SendStep
  <2>8. CASE UNCHANGED transportVars
    BY <2>8 DEF transportVars, TransportInv, Stream
  <2>. QED
    BY <2>1, <2>2, <2>3, <2>4, <2>5, <2>6, <2>7, <2>8 DEF TransportNext
<1>. QED
  BY <1>1, <1>2, PTL DEF TransportSpec

(* In whatever pieces the bytes come and wherever the connection cuts them *)
(* off, each end handles the messages that were sent to it once each and   *)
(* in their order: every step of the transport is a step of the channel    *)
(* whose queues are the messages in the streams, or changes nothing of it. *)
THEOREM TransportIsChannel ==
  ASSUME ~Reconnects
  PROVE  TransportSpec => TransportImplements
<1>1. TransportInit => Channel!Init
  <2>. SUFFICES ASSUME TransportInit PROVE Channel!Init
    OBVIOUS
  <2>1. \A e \in End : MessagesIn(buffer[e] \o wire[e]) = << >>
    BY NothingSent DEF TransportInit
  <2>. QED
    BY <2>1 DEF TransportInit, Channel!Init, Channel!End, End
<1>2. TransportInv /\ [TransportNext]_transportVars => [Channel!Next]_(Channel!vars)
  <2>. SUFFICES ASSUME TransportInv, [TransportNext]_transportVars
                PROVE  Channel!Next \/ UNCHANGED Channel!vars
    OBVIOUS
  <2>0. Channel!End = End
    BY DEF Channel!End, End
  <2>1. CASE Connect
    BY <2>1, ConnectStep DEF Channel!Next
  <2>2. CASE Lose
    BY <2>2, LoseStep DEF Channel!Next
  <2>3. ASSUME NEW e \in End, ReadyRead(e)
        PROVE  UNCHANGED Channel!vars
    BY <2>3, ReadStep DEF Channel!vars, Queue, Stream
  <2>4. ASSUME NEW e \in End, ParseFrame(e)
        PROVE  Channel!Next
    BY <2>0, <2>4, ParseStep DEF Channel!Next
  <2>5. ASSUME NEW e \in End, EndOfLoop(e)
        PROVE  UNCHANGED Channel!vars
    BY <2>5, EndOfLoopStep DEF Channel!vars, Queue, Stream
  <2>6. ASSUME NEW e \in End, OnDisconnected(e)
        PROVE  Channel!Next
    BY <2>6, DisconnectedStep DEF Channel!Next
  <2>7. ASSUME NEW e \in End, NEW m \in Message, SendMessage(e, m)
        PROVE  Channel!Next
    BY <2>0, <2>7, SendStep DEF Channel!Next
  <2>8. CASE UNCHANGED transportVars
    BY <2>8 DEF transportVars, Channel!vars
  <2>. QED
    BY <2>1, <2>2, <2>3, <2>4, <2>5, <2>6, <2>7, <2>8 DEF TransportNext
<1>. QED
  BY <1>1, <1>2, StreamsAreFrames, PTL DEF TransportSpec, TransportImplements, Channel!Spec
=============================================================================
