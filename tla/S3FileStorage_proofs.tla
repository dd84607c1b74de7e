------------------------- MODULE S3FileStorage_proofs -------------------------
(***************************************************************************)
(* A storage in an S3 bucket implements FileStorage, whatever the service  *)
(* refuses and whatever answers are lost; its completions are accepted     *)
(* unless a part was sent twice; and a call that succeeds leaves nothing   *)
(* behind: for all users, names, data and numbers of parts.                *)
(***************************************************************************)
EXTENDS S3FileStorage, FiniteSetTheorems, FunctionTheorems, SequenceTheorems, TLAPS

Part   == [number : 1..Parts, etag : Data]
Upload == [f : Storage!File, parts : Storage!Contents]

(* The index of the part of the number that was sent last.                 *)
LastOf(parts, n, i) ==
  /\ i \in DOMAIN parts /\ parts[i].number = n
  /\ \A j \in DOMAIN parts : parts[j].number = n => j <= i

(* An upload that is known has an id of its own, lists parts the service   *)
(* has, and of each number lists one last.                                 *)
Known(f) ==
  LET parts == active[f].parts
  IN /\ f \in Storage!File
     /\ active[f] \in [id : 1..created, parts : Seq(Part)]
     /\ active[f].id \in DOMAIN uploads
     /\ uploads[active[f].id].f = f
     /\ Numbers(parts) \subseteq DOMAIN uploads[active[f].id].parts
     /\ \A n \in Numbers(parts) : \E i : LastOf(parts, n, i)

SInv ==
  /\ DOMAIN objects \subseteq Storage!File
  /\ \A f \in DOMAIN objects : objects[f] \in Storage!Contents
  /\ created \in 0..MaxUploads
  /\ DOMAIN uploads \subseteq 1..created
  /\ \A id \in DOMAIN uploads : uploads[id] \in Upload
  /\ \A f \in DOMAIN active : Known(f)

-----------------------------------------------------------------------------
(* Lists of parts                                                          *)

LEMMA NumbersOf ==
  ASSUME NEW S, NEW parts \in Seq(S)
  PROVE  Numbers(parts) = {parts[i].number : i \in DOMAIN parts}
BY DEF Numbers, ToSet

LEMMA SentIsLast ==
  ASSUME NEW parts \in Seq(Part), NEW n, NEW i, LastOf(parts, n, i)
  PROVE  n \in Numbers(parts) /\ Sent(parts)[n] = parts[i].etag
<1>1. n \in Numbers(parts)
  BY NumbersOf DEF LastOf
<1>. DEFINE last == CHOOSE k \in DOMAIN parts :
                      /\ parts[k].number = n
                      /\ \A j \in DOMAIN parts : parts[j].number = n => j <= k
<1>2. last = i
  <2>1. LastOf(parts, n, last)
    BY DEF LastOf
  <2>2. last <= i /\ i <= last /\ last \in Nat /\ i \in Nat
    BY <2>1 DEF LastOf
  <2>. QED
    BY <2>2
<1>3. Sent(parts)[n] = parts[last].etag
  BY <1>1 DEF Sent
<1>. QED
  BY <1>1, <1>2, <1>3

(* A part that is sent is the last one of its number.                      *)
LEMMA LastAfterSending ==
  ASSUME NEW parts \in Seq(Part), NEW part \in Part
  PROVE  LET sent == Append(parts, part)
         IN /\ Numbers(sent) = Numbers(parts) \cup {part.number}
            /\ LastOf(sent, part.number, Len(parts) + 1)
            /\ sent[Len(parts) + 1] = part
            /\ \A n, i : n # part.number /\ LastOf(parts, n, i)
                  => LastOf(sent, n, i) /\ sent[i] = parts[i]
<1>. DEFINE sent == Append(parts, part)
            l == Len(parts) + 1
<1>1. /\ sent \in Seq(Part) /\ l \in DOMAIN sent /\ sent[l] = part
      /\ \A i \in DOMAIN parts : i \in DOMAIN sent /\ sent[i] = parts[i] /\ i <= l
      /\ \A i \in DOMAIN sent : i = l \/ i \in DOMAIN parts
      /\ l <= l
  OBVIOUS
<1>. HIDE DEF sent, l
<1>2. Numbers(sent) = Numbers(parts) \cup {part.number}
  <2>1. /\ Numbers(sent) = {sent[i].number : i \in DOMAIN sent}
        /\ Numbers(parts) = {parts[i].number : i \in DOMAIN parts}
    BY <1>1, NumbersOf
  <2>. QED
    BY <1>1, <2>1
<1>3. LastOf(sent, part.number, l)
  BY <1>1 DEF LastOf
<1>4. ASSUME NEW n, NEW i, n # part.number, LastOf(parts, n, i)
      PROVE  LastOf(sent, n, i) /\ sent[i] = parts[i]
  BY <1>1, <1>4 DEF LastOf
<1>. QED
  BY <1>1, <1>2, <1>3, <1>4 DEF sent, l

LEMMA SentAfterSending ==
  ASSUME NEW parts \in Seq(Part), NEW part \in Part,
         \A n \in Numbers(parts) : \E i : LastOf(parts, n, i)
  PROVE  Sent(Append(parts, part)) = Storage!With(Sent(parts), part.number, part.etag)
<1>. DEFINE sent == Append(parts, part)
<1>1. /\ Numbers(sent) = Numbers(parts) \cup {part.number}
      /\ LastOf(sent, part.number, Len(parts) + 1)
      /\ sent[Len(parts) + 1] = part
      /\ \A n, i : n # part.number /\ LastOf(parts, n, i)
            => LastOf(sent, n, i) /\ sent[i] = parts[i]
  BY LastAfterSending
<1>2. sent \in Seq(Part)
  OBVIOUS
<1>. HIDE DEF sent
<1>3. DOMAIN Sent(sent) = Numbers(sent) /\ DOMAIN Sent(parts) = Numbers(parts)
  BY DEF Sent
<1>4. Sent(sent)[part.number] = part.etag
  BY <1>1, <1>2, SentIsLast
<1>5. ASSUME NEW n \in Numbers(parts), n # part.number
      PROVE  Sent(sent)[n] = Sent(parts)[n]
  <2>1. PICK i : LastOf(parts, n, i)
    OBVIOUS
  <2>2. LastOf(sent, n, i) /\ sent[i] = parts[i]
    BY <1>1, <1>5, <2>1
  <2>. QED
    BY <1>2, <2>1, <2>2, SentIsLast
<1>6. Sent(sent) = [n \in Numbers(sent) |-> Sent(sent)[n]]
  BY DEF Sent
<1>7. Sent(sent) = [n \in DOMAIN Sent(parts) \cup {part.number} |->
                      IF n = part.number THEN part.etag ELSE Sent(parts)[n]]
  BY <1>1, <1>3, <1>4, <1>5, <1>6
<1>. QED
  BY <1>7 DEF Storage!With, sent

-----------------------------------------------------------------------------
(* The sort                                                                *)

Places(parts) ==
  {place \in [DOMAIN parts -> DOMAIN parts] :
     \A i, j \in DOMAIN parts : i < j => Before(parts, place[i], place[j])}

LEMMA BeforeOrders ==
  ASSUME NEW parts \in Seq(Part)
  PROVE  /\ \A i \in DOMAIN parts : ~Before(parts, i, i)
         /\ \A i, j \in DOMAIN parts : i = j \/ Before(parts, i, j) \/ Before(parts, j, i)
         /\ \A i, j, k \in DOMAIN parts :
              Before(parts, i, j) /\ Before(parts, j, k) => Before(parts, i, k)
<1>1. \A i \in DOMAIN parts : i \in Nat /\ parts[i].number \in Nat
  <2>1. \A i \in DOMAIN parts : i \in Nat /\ parts[i] \in Part
    OBVIOUS
  <2>2. \A part \in Part : part.number \in Nat
    BY SizeAssumption DEF Part
  <2>. QED
    BY <2>1, <2>2
<1>. QED
  BY <1>1 DEF Before

(* Every list can be sorted: a part goes to the place that leaves room for *)
(* the parts before it.                                                    *)
LEMMA PlacesExist ==
  ASSUME NEW parts \in Seq(Part)
  PROVE  Places(parts) # {}
<1>. DEFINE D == DOMAIN parts
            n == Len(parts)
            Lower(i) == {j \in D : Before(parts, j, i)}
            rank == [i \in D |-> Cardinality(Lower(i)) + 1]
            place == [k \in D |-> CHOOSE i \in D : rank[i] = k]
<1>1. D = 1..n /\ n \in Nat
  OBVIOUS
<1>2. IsFiniteSet(D) /\ Cardinality(D) = n
  BY <1>1, FS_Interval
<1>3. ASSUME NEW i \in D
      PROVE  IsFiniteSet(Lower(i)) /\ Cardinality(Lower(i)) \in Nat
  BY <1>2, FS_Subset, FS_CardinalityType
<1>4. ASSUME NEW i \in D
      PROVE  rank[i] \in D
  <2>1. Lower(i) \subseteq D \ {i}
    BY BeforeOrders
  <2>2. IsFiniteSet(D \ {i}) /\ Cardinality(D \ {i}) = Cardinality(D) - 1
    BY <1>2, FS_RemoveElement
  <2>3. Cardinality(Lower(i)) <= Cardinality(D \ {i})
    BY <2>1, <2>2, FS_Subset
  <2>4. Cardinality(Lower(i)) \in Nat
    BY <1>3
  <2>. HIDE DEF Lower
  <2>. QED
    BY <1>1, <1>2, <2>2, <2>3, <2>4
<1>5. ASSUME NEW i \in D, NEW j \in D, Before(parts, i, j)
      PROVE  rank[i] < rank[j]
  <2>1. Lower(i) \subseteq Lower(j) /\ i \in Lower(j) /\ i \notin Lower(i)
    BY <1>5, BeforeOrders
  <2>2. /\ IsFiniteSet(Lower(i)) /\ Cardinality(Lower(i)) \in Nat
        /\ IsFiniteSet(Lower(j)) /\ Cardinality(Lower(j)) \in Nat
    BY <1>3
  <2>. HIDE DEF Lower
  <2>3. /\ Cardinality(Lower(i)) <= Cardinality(Lower(j))
        /\ Cardinality(Lower(j)) = Cardinality(Lower(i)) => Lower(j) = Lower(i)
    BY <2>1, <2>2, FS_Subset
  <2>4. Cardinality(Lower(i)) < Cardinality(Lower(j))
    BY <2>1, <2>2, <2>3
  <2>. QED
    BY <2>2, <2>4
<1>6. \A i \in D : rank[i] \in Nat
  BY <1>1, <1>4
<1>. HIDE DEF Lower, rank
<1>7. \A i, j \in D : rank[i] = rank[j] => i = j
  <2>. SUFFICES ASSUME NEW i \in D, NEW j \in D, i # j PROVE rank[i] # rank[j]
    OBVIOUS
  <2>1. Before(parts, i, j) \/ Before(parts, j, i)
    BY BeforeOrders
  <2>. QED
    BY <1>5, <1>6, <2>1
<1>8. \A k \in D : \E i \in D : rank[i] = k
  <2>1. rank \in [D -> D]
    BY <1>4 DEF rank
  <2>2. rank \in Injection(D, D)
    BY <1>7, <2>1, Fun_IsInj
  <2>3. rank \in Surjection(D, D)
    BY <1>2, <2>2, FS_Injection
  <2>. QED
    BY <2>3, Fun_SurjectionProperties
<1>9. \A k \in D : place[k] \in D /\ rank[place[k]] = k
  BY <1>8
<1>10. place \in [D -> D]
  BY <1>9
<1>. HIDE DEF place
<1>11. ASSUME NEW k \in D, NEW l \in D, k < l
       PROVE  Before(parts, place[k], place[l])
  <2>1. k \in Nat /\ l \in Nat
    BY <1>1
  <2>2. place[k] \in D /\ place[l] \in D /\ rank[place[k]] = k /\ rank[place[l]] = l
    BY <1>9
  <2>3. place[k] # place[l]
    BY <1>11, <2>1, <2>2
  <2>4. ~Before(parts, place[l], place[k])
    BY <1>5, <1>11, <2>1, <2>2
  <2>. QED
    BY <2>2, <2>3, <2>4, BeforeOrders
<1>12. place \in Places(parts)
  BY <1>10, <1>11 DEF Places
<1>. QED
  BY <1>12

(* The sorted list has the parts of the list, in order.                    *)
LEMMA SortedList ==
  ASSUME NEW parts \in Seq(Part)
  PROVE  /\ Sorted(parts) \in Seq(Part) /\ Len(Sorted(parts)) = Len(parts)
         /\ ToSet(Sorted(parts)) = ToSet(parts)
         /\ Numbers(Sorted(parts)) = Numbers(parts)
         /\ \E place \in Places(parts) :
              Sorted(parts) = [i \in DOMAIN parts |-> parts[place[i]]]
<1>. DEFINE D == DOMAIN parts
            n == Len(parts)
<1>1. D = 1..n /\ n \in Nat
  OBVIOUS
<1>2. PICK place \in Places(parts) : Sorted(parts) = [i \in D |-> parts[place[i]]]
  BY PlacesExist DEF Places, Sorted
<1>3. place \in [D -> D] /\ \A i, j \in D : i < j => Before(parts, place[i], place[j])
  BY DEF Places
<1>4. \A i, j \in D : place[i] = place[j] => i = j
  <2>. SUFFICES ASSUME NEW i \in D, NEW j \in D, i # j PROVE place[i] # place[j]
    OBVIOUS
  <2>1. i < j \/ j < i
    BY <1>1
  <2>. QED
    BY <1>3, <2>1, BeforeOrders
<1>5. \A k \in D : \E i \in D : place[i] = k
  <2>1. IsFiniteSet(D)
    BY <1>1, FS_Interval
  <2>2. place \in Injection(D, D)
    BY <1>3, <1>4, Fun_IsInj
  <2>3. place \in Surjection(D, D)
    BY <2>1, <2>2, FS_Injection
  <2>. QED
    BY <2>3, Fun_SurjectionProperties
<1>6. Sorted(parts) \in Seq(Part) /\ Len(Sorted(parts)) = n
  BY <1>1, <1>2, <1>3
<1>7. ToSet(Sorted(parts)) = ToSet(parts)
  BY <1>2, <1>3, <1>5 DEF ToSet
<1>8. Numbers(Sorted(parts)) = Numbers(parts)
  BY <1>7 DEF Numbers
<1>. QED
  BY <1>2, <1>6, <1>7, <1>8

-----------------------------------------------------------------------------
(* What is accepted                                                        *)

LEMMA NoPartTwice ==
  ASSUME NEW parts \in Seq(Part), ~(Cardinality(Numbers(parts)) < Len(parts))
  PROVE  \A i, j \in DOMAIN parts : parts[i].number = parts[j].number => i = j
<1>. DEFINE D == DOMAIN parts
            n == Len(parts)
            f == [i \in D |-> parts[i].number]
<1>1. D = 1..n /\ n \in Nat /\ IsFiniteSet(D) /\ Cardinality(D) = n
  BY FS_Interval
<1>2. Numbers(parts) = {parts[i].number : i \in D}
  BY NumbersOf
<1>3. f \in Surjection(D, Numbers(parts))
  <2>1. f \in [D -> Numbers(parts)] /\ \A m \in Numbers(parts) : \E i \in D : f[i] = m
    BY <1>2
  <2>. QED
    BY <2>1, Fun_IsSurj
<1>4. /\ IsFiniteSet(Numbers(parts)) /\ Cardinality(Numbers(parts)) <= n
      /\ Cardinality(Numbers(parts)) = n => f \in Injection(D, Numbers(parts))
  BY <1>1, <1>3, FS_Surjection
<1>5. Cardinality(Numbers(parts)) \in Nat
  BY <1>4, FS_CardinalityType
<1>6. f \in Injection(D, Numbers(parts))
  BY <1>1, <1>4, <1>5
<1>7. \A i, j \in D : f[i] = f[j] => i = j
  BY <1>6, Fun_InjectionProperties
<1>. QED
  BY <1>7

LEMMA AcceptedUnlessAgain ==
  ASSUME NEW parts \in Seq(Part), parts # << >>, NEW upload,
         Numbers(parts) \subseteq DOMAIN upload.parts,
         ~(Cardinality(Numbers(parts)) < Len(parts)),
         \A part \in ToSet(parts) : part.etag = upload.parts[part.number]
  PROVE  Accepts(upload, Sorted(parts))
<1>1. /\ Sorted(parts) \in Seq(Part) /\ Len(Sorted(parts)) = Len(parts)
      /\ ToSet(Sorted(parts)) = ToSet(parts)
  BY SortedList
<1>2. PICK place \in Places(parts) :
        Sorted(parts) = [i \in DOMAIN parts |-> parts[place[i]]]
  BY SortedList
<1>3. /\ place \in [DOMAIN parts -> DOMAIN parts]
      /\ \A i, j \in DOMAIN parts : i < j => Before(parts, place[i], place[j])
  BY DEF Places
<1>4. \A i, j \in DOMAIN parts : parts[i].number = parts[j].number => i = j
  BY NoPartTwice
<1>5. ASSUME NEW i \in 1..(Len(parts) - 1)
      PROVE  Sorted(parts)[i].number < Sorted(parts)[i + 1].number
  <2>1. i \in DOMAIN parts /\ i + 1 \in DOMAIN parts /\ i < i + 1
    OBVIOUS
  <2>2. Before(parts, place[i], place[i + 1])
    BY <1>3, <2>1
  <2>3. place[i] \in DOMAIN parts /\ place[i + 1] \in DOMAIN parts
    BY <1>3, <2>1
  <2>4. ~(place[i] < place[i + 1] /\ parts[place[i]].number = parts[place[i + 1]].number)
    <3>1. \A j, k \in DOMAIN parts : j < k => j # k
      OBVIOUS
    <3>. QED
      BY <1>4, <2>3, <3>1
  <2>. QED
    BY <1>2, <2>1, <2>2, <2>4 DEF Before
<1>6. Sorted(parts) # << >>
  BY <1>1
<1>7. \A part \in ToSet(parts) : part.number \in DOMAIN upload.parts
  BY DEF Numbers
<1>. QED
  BY <1>1, <1>5, <1>6, <1>7 DEF Accepts

(* A completion that is accepted stores what was sent.                     *)
LEMMA AcceptedIsSent ==
  ASSUME NEW parts \in Seq(Part), NEW upload, Accepts(upload, Sorted(parts)),
         \A n \in Numbers(parts) : \E i : LastOf(parts, n, i)
  PROVE  [n \in Numbers(Sorted(parts)) |-> upload.parts[n]] = Sent(parts)
<1>1. ToSet(Sorted(parts)) = ToSet(parts) /\ Numbers(Sorted(parts)) = Numbers(parts)
  BY SortedList
<1>2. ASSUME NEW n \in Numbers(parts)
      PROVE  Sent(parts)[n] = upload.parts[n]
  <2>1. PICK i : LastOf(parts, n, i)
    BY <1>2
  <2>2. parts[i] \in ToSet(parts) /\ parts[i].number = n
    BY <2>1 DEF LastOf, ToSet
  <2>3. parts[i].etag = upload.parts[n]
    BY <1>1, <2>2 DEF Accepts
  <2>. QED
    BY <2>1, <2>3, SentIsLast
<1>3. Sent(parts) = [n \in Numbers(parts) |-> Sent(parts)[n]]
  BY DEF Sent
<1>. QED
  BY <1>1, <1>2, <1>3

-----------------------------------------------------------------------------
(* The invariant                                                           *)

LEMMA ContentGrows ==
  ASSUME NEW c \in Storage!Contents, NEW p \in 1..Parts, NEW x \in Data
  PROVE  /\ Storage!With(c, p, x) \in Storage!Contents
         /\ DOMAIN Storage!With(c, p, x) = DOMAIN c \cup {p}
<1>1. PICK S \in SUBSET (1..Parts) : c \in [S -> Data]
  BY DEF Storage!Contents
<1>2. Storage!With(c, p, x) \in [S \cup {p} -> Data] /\ S \cup {p} \in SUBSET (1..Parts)
  BY <1>1 DEF Storage!With
<1>. QED
  BY <1>1, <1>2 DEF Storage!Contents, Storage!With

LEMMA NothingIsContent == Storage!Nothing \in Storage!Contents
<1>1. Storage!Nothing \in [{} -> Data]
  BY DEF Storage!Nothing
<1>. QED
  BY <1>1 DEF Storage!Contents

(* Part of a content is one.                                               *)
LEMMA ContentShrinks ==
  ASSUME NEW c \in Storage!Contents, NEW N \in SUBSET (DOMAIN c)
  PROVE  [n \in N |-> c[n]] \in Storage!Contents
<1>1. PICK S \in SUBSET (1..Parts) : c \in [S -> Data]
  BY DEF Storage!Contents
<1>2. [n \in N |-> c[n]] \in [N -> Data] /\ N \in SUBSET (1..Parts)
  BY <1>1
<1>. QED
  BY <1>2 DEF Storage!Contents

LEMMA NumbersTyped ==
  ASSUME NEW parts \in Seq(Part)
  PROVE  Numbers(parts) \subseteq 1..Parts
<1>1. \A i \in DOMAIN parts : parts[i] \in Part
  OBVIOUS
<1>. QED
  BY <1>1, NumbersOf DEF Part

LEMMA NoPartsSent ==
  /\ << >> \in Seq(Part) /\ Numbers(<< >>) = {} /\ Sent(<< >>) = Storage!Nothing
<1>1. Numbers(<< >>) = {}
  BY DEF Numbers, ToSet
<1>2. Sent(<< >>) = Storage!Nothing
  BY <1>1 DEF Sent, Storage!Nothing
<1>. QED
  BY <1>1, <1>2

(* What a step leaves alone of an upload keeps it known.                   *)
LEMMA StaysKnown ==
  ASSUME SInv, NEW f \in DOMAIN active, f \in DOMAIN active', active'[f] = active[f],
         active[f].id \in DOMAIN uploads', created' \in Nat, created <= created',
         uploads'[active[f].id].f = uploads[active[f].id].f,
         DOMAIN uploads[active[f].id].parts \subseteq DOMAIN uploads'[active[f].id].parts
  PROVE  Known(f)'
<1>1. Known(f)
  BY DEF SInv
<1>2. active[f].id \in 1..created'
  BY <1>1 DEF Known, SInv
<1>3. active'[f] \in [id : 1..created', parts : Seq(Part)]
  BY <1>1, <1>2 DEF Known
<1>. QED
  BY <1>1, <1>3 DEF Known

(* Two files have two uploads.                                             *)
LEMMA OwnUpload ==
  ASSUME SInv, NEW f \in DOMAIN active, NEW g \in DOMAIN active, active[f].id = active[g].id
  PROVE  f = g
BY DEF SInv, Known

-----------------------------------------------------------------------------
LEMMA InitSInv == S3Init => SInv
BY SizeAssumption DEF S3Init, SInv

LEMMA BeginWriteSInv ==
  ASSUME SInv, NEW f \in Storage!File, NEW ok \in BOOLEAN, BeginWrite(f, ok)
  PROVE  SInv'
<1>. DEFINE new == [f |-> f, parts |-> Storage!Nothing]
<1>1. created \in Nat /\ MaxUploads \in Nat /\ created < MaxUploads
      /\ UNCHANGED objects /\ f \notin DOMAIN active
  BY SizeAssumption DEF SInv, BeginWrite
<1>2. new \in Upload
  BY NothingIsContent DEF Upload
<1>3. \/ /\ created' = created + 1
         /\ uploads' = Storage!With(uploads, created', new)
      \/ UNCHANGED <<created, uploads>> /\ ~ok
  BY DEF BeginWrite, Carried
<1>4. active' = IF ok THEN Storage!With(active, f, [id |-> created', parts |-> << >>])
                ELSE active
  BY DEF BeginWrite
<1>. HIDE DEF new
<1>5. /\ created' \in Nat /\ created <= created' /\ created' \in 0..MaxUploads
      /\ DOMAIN uploads' \subseteq 1..created'
      /\ \A id \in DOMAIN uploads' : uploads'[id] \in Upload
      /\ \A id \in DOMAIN uploads : id \in DOMAIN uploads' /\ uploads'[id] = uploads[id]
  <2>1. CASE /\ created' = created + 1
             /\ uploads' = Storage!With(uploads, created', new)
    <3>1. /\ DOMAIN uploads' = DOMAIN uploads \cup {created'}
          /\ uploads'[created'] = new
          /\ \A id \in DOMAIN uploads : id # created' => uploads'[id] = uploads[id]
      BY <2>1 DEF Storage!With
    <3>2. created' \notin DOMAIN uploads
      BY <1>1, <2>1 DEF SInv
    <3>. QED
      BY <1>1, <1>2, <2>1, <3>1, <3>2 DEF SInv
  <2>2. CASE UNCHANGED <<created, uploads>>
    BY <1>1, <2>2 DEF SInv
  <2>. QED
    BY <1>3, <2>1, <2>2
<1>6. ASSUME NEW g \in DOMAIN active, g \in DOMAIN active', active'[g] = active[g]
      PROVE  Known(g)'
  <2>1. active[g].id \in DOMAIN uploads
    BY DEF SInv, Known
  <2>. QED
    BY <1>5, <1>6, <2>1, StaysKnown
<1>7. ASSUME ok
      PROVE  Known(f)'
  <2>1. /\ created' = created + 1
        /\ uploads' = Storage!With(uploads, created', new)
    BY <1>3, <1>7
  <2>2. created' \in DOMAIN uploads' /\ uploads'[created'] = new /\ created' \in 1..created'
    BY <1>1, <2>1 DEF Storage!With
  <2>3. active'[f] = [id |-> created', parts |-> << >>]
    BY <1>4, <1>7 DEF Storage!With
  <2>. QED
    BY <2>2, <2>3, NoPartsSent DEF Known, new
<1>8. \A g \in DOMAIN active' : \/ g \in DOMAIN active /\ active'[g] = active[g]
                                \/ g = f /\ ok
  BY <1>1, <1>4 DEF Storage!With
<1>9. \A g \in DOMAIN active' : Known(g)'
  BY <1>6, <1>7, <1>8
<1>. QED
  BY <1>1, <1>5, <1>9 DEF SInv

LEMMA WriteRangeSInv ==
  ASSUME SInv, NEW f \in Storage!File, NEW ok \in BOOLEAN, NEW p \in 1..Parts,
         NEW x \in Data, WriteRange(f, p, x, ok)
  PROVE  SInv'
<1>. DEFINE part == [number |-> p, etag |-> x]
<1>0. PICK id : id = active[f].id
  OBVIOUS
<1>1. /\ f \in DOMAIN active /\ Known(f) /\ id \in DOMAIN uploads
      /\ uploads[id] \in Upload /\ UNCHANGED <<objects, created>>
  BY <1>0 DEF WriteRange, SInv, Known
<1>2. part \in Part
  BY DEF Part
<1>3. \/ uploads' = [uploads EXCEPT ![id].parts = Storage!With(@, p, x)]
      \/ uploads' = uploads /\ ~ok
  BY <1>0 DEF WriteRange, Carried
<1>4. active' = IF ok THEN [active EXCEPT ![f].parts = Append(@, part)] ELSE active
  BY DEF WriteRange
<1>5. /\ Storage!With(uploads[id].parts, p, x) \in Storage!Contents
      /\ DOMAIN Storage!With(uploads[id].parts, p, x) = DOMAIN uploads[id].parts \cup {p}
  BY <1>1, ContentGrows DEF Upload
<1>6. /\ DOMAIN uploads' = DOMAIN uploads
      /\ \A i \in DOMAIN uploads :
           /\ uploads'[i] \in Upload /\ uploads'[i].f = uploads[i].f
           /\ DOMAIN uploads[i].parts \subseteq DOMAIN uploads'[i].parts
      /\ ok => p \in DOMAIN uploads'[id].parts
  <2>1. CASE uploads' = [uploads EXCEPT ![id].parts = Storage!With(@, p, x)]
    <3>1. /\ DOMAIN uploads' = DOMAIN uploads
          /\ \A i \in DOMAIN uploads \ {id} : uploads'[i] = uploads[i]
          /\ uploads'[id] = [uploads[id] EXCEPT !.parts = Storage!With(uploads[id].parts, p, x)]
      BY <1>1, <2>1
    <3>2. uploads'[id] \in Upload /\ uploads'[id].f = uploads[id].f
          /\ uploads'[id].parts = Storage!With(uploads[id].parts, p, x)
      BY <1>1, <1>5, <3>1 DEF Upload
    <3>. QED
      BY <1>1, <1>5, <3>1, <3>2 DEF SInv
  <2>2. CASE uploads' = uploads /\ ~ok
    BY <2>2 DEF SInv
  <2>. QED
    BY <1>3, <2>1, <2>2
<1>7. ASSUME NEW g \in DOMAIN active, g \in DOMAIN active', active'[g] = active[g]
      PROVE  Known(g)'
  <2>1. active[g].id \in DOMAIN uploads /\ created \in Nat /\ created' = created
    BY <1>1, SizeAssumption DEF SInv, Known
  <2>. QED
    BY <1>6, <1>7, <2>1, StaysKnown
<1>8. ASSUME ok
      PROVE  Known(f)'
  <2>. DEFINE parts == active[f].parts
  <2>1. /\ active[f] \in [id : 1..created, parts : Seq(Part)]
        /\ uploads[id].f = f /\ Numbers(parts) \subseteq DOMAIN uploads[id].parts
        /\ \A n \in Numbers(parts) : \E i : LastOf(parts, n, i)
    BY <1>0, <1>1 DEF Known
  <2>2. active'[f] = [active[f] EXCEPT !.parts = Append(active[f].parts, part)]
    BY <1>1, <1>4, <1>8
  <2>3. active'[f].id = id /\ active'[f].parts = Append(parts, part)
        /\ active'[f] \in [id : 1..created, parts : Seq(Part)]
    BY <1>0, <1>2, <2>1, <2>2, SMTT(30)
  <2>4. /\ Numbers(Append(parts, part)) = Numbers(parts) \cup {p}
        /\ LastOf(Append(parts, part), p, Len(parts) + 1)
        /\ \A n, i : n # p /\ LastOf(parts, n, i) => LastOf(Append(parts, part), n, i)
    <3>1. parts \in Seq(Part) /\ part.number = p
      BY <2>1
    <3>. HIDE DEF parts, part
    <3>. QED
      BY <1>2, <3>1, LastAfterSending
  <2>5. Numbers(Append(parts, part)) \subseteq DOMAIN uploads'[id].parts
    BY <1>1, <1>6, <1>8, <2>1, <2>4
  <2>6. \A n \in Numbers(Append(parts, part)) : \E i : LastOf(Append(parts, part), n, i)
    BY <2>1, <2>4
  <2>. HIDE DEF parts, part
  <2>. QED
    BY <1>1, <1>6, <2>1, <2>3, <2>5, <2>6 DEF Known
<1>9. /\ DOMAIN active' = DOMAIN active
      /\ \A g \in DOMAIN active : active'[g] = active[g] \/ (g = f /\ ok)
  BY <1>1, <1>4
<1>10. \A g \in DOMAIN active' : Known(g)'
  BY <1>7, <1>8, <1>9
<1>. QED
  BY <1>1, <1>6, <1>10 DEF SInv

(* Uploads that are forgotten, and those the service has dropped.          *)
LEMMA Forgotten ==
  ASSUME SInv, UNCHANGED created,
         DOMAIN uploads' \subseteq DOMAIN uploads,
         \A id \in DOMAIN uploads' : uploads'[id] = uploads[id],
         \A f \in DOMAIN active' : /\ f \in DOMAIN active /\ active'[f] = active[f]
                                   /\ active[f].id \in DOMAIN uploads',
         DOMAIN objects' \subseteq Storage!File,
         \A f \in DOMAIN objects' : objects'[f] \in Storage!Contents
  PROVE  SInv'
<1>1. ASSUME NEW f \in DOMAIN active'
      PROVE  Known(f)'
  <2>1. /\ f \in DOMAIN active /\ active'[f] = active[f]
        /\ active[f].id \in DOMAIN uploads' /\ created \in Nat
    BY <1>1, SizeAssumption DEF SInv
  <2>. QED
    BY <2>1, StaysKnown
<1>. QED
  BY <1>1 DEF SInv

LEMMA FinishWriteSInv ==
  ASSUME SInv, NEW f \in Storage!File, NEW ok \in BOOLEAN, FinishWrite(f, ok)
  PROVE  SInv'
<1>. DEFINE upload == uploads[active[f].id]
            parts  == Sorted(active[f].parts)
            stored == [n \in Numbers(parts) |-> upload.parts[n]]
<1>1. /\ f \in DOMAIN active /\ Known(f) /\ UNCHANGED created
      /\ active' = Storage!Without(active, {f})
  BY DEF FinishWrite, SInv
<1>2. stored \in Storage!Contents
  <2>1. upload \in Upload /\ active[f].parts \in Seq(Part)
        /\ Numbers(active[f].parts) \subseteq DOMAIN upload.parts
    BY <1>1 DEF Known, SInv
  <2>2. upload.parts \in Storage!Contents
    BY <2>1 DEF Upload
  <2>3. Numbers(parts) \subseteq DOMAIN upload.parts
    BY <2>1, SortedList
  <2>. HIDE DEF upload, parts
  <2>. QED
    BY <2>2, <2>3, ContentShrinks
<1>3. \/ /\ objects' = Storage!With(objects, f, stored)
         /\ uploads' = Storage!Without(uploads, {active[f].id})
      \/ UNCHANGED <<objects, uploads>>
  BY DEF FinishWrite
<1>4. \A g \in DOMAIN active' :
        g \in DOMAIN active /\ g # f /\ active'[g] = active[g]
  BY <1>1 DEF Storage!Without
<1>5. \A g \in DOMAIN active' : active[g].id \in DOMAIN uploads /\ active[g].id # active[f].id
  BY <1>1, <1>4, OwnUpload DEF SInv, Known
<1>. HIDE DEF stored
<1>6. CASE /\ objects' = Storage!With(objects, f, stored)
           /\ uploads' = Storage!Without(uploads, {active[f].id})
  <2>1. /\ DOMAIN objects' \subseteq Storage!File
        /\ \A g \in DOMAIN objects' : objects'[g] \in Storage!Contents
    BY <1>2, <1>6 DEF Storage!With, SInv
  <2>2. /\ DOMAIN uploads' = DOMAIN uploads \ {active[f].id}
        /\ \A id \in DOMAIN uploads' : uploads'[id] = uploads[id]
    BY <1>6 DEF Storage!Without
  <2>. QED
    BY <1>1, <1>4, <1>5, <2>1, <2>2, Forgotten
<1>7. CASE UNCHANGED <<objects, uploads>>
  <2>1. /\ DOMAIN objects' \subseteq Storage!File
        /\ \A g \in DOMAIN objects' : objects'[g] \in Storage!Contents
    BY <1>7 DEF SInv
  <2>. QED
    BY <1>1, <1>4, <1>5, <1>7, <2>1, Forgotten
<1>. QED
  BY <1>3, <1>6, <1>7

LEMMA AbortWriteSInv ==
  ASSUME SInv, NEW f \in Storage!File, NEW ok \in BOOLEAN, AbortWrite(f, ok)
  PROVE  SInv'
<1>1. /\ f \in DOMAIN active /\ UNCHANGED <<objects, created>>
      /\ active' = Storage!Without(active, {f})
      /\ \/ uploads' = Storage!Without(uploads, {active[f].id})
         \/ uploads' = uploads
  BY DEF AbortWrite
<1>2. \A g \in DOMAIN active' :
        g \in DOMAIN active /\ g # f /\ active'[g] = active[g]
  BY <1>1 DEF Storage!Without
<1>3. \A g \in DOMAIN active' : active[g].id \in DOMAIN uploads /\ active[g].id # active[f].id
  BY <1>1, <1>2, OwnUpload DEF SInv, Known
<1>4. /\ DOMAIN uploads \ {active[f].id} \subseteq DOMAIN uploads'
      /\ DOMAIN uploads' \subseteq DOMAIN uploads
      /\ \A id \in DOMAIN uploads' : uploads'[id] = uploads[id]
  BY <1>1 DEF Storage!Without
<1>5. /\ DOMAIN objects' \subseteq Storage!File
      /\ \A g \in DOMAIN objects' : objects'[g] \in Storage!Contents
  BY <1>1 DEF SInv
<1>6. \A g \in DOMAIN active' : active[g].id \in DOMAIN uploads'
  BY <1>3, <1>4
<1>. QED
  BY <1>1, <1>2, <1>4, <1>5, <1>6, Forgotten

LEMMA CleanupSInv ==
  ASSUME SInv, NEW u \in User, Cleanup(u)
  PROVE  SInv'
<1>. DEFINE mine == Storage!Filed(u) \cap DOMAIN active
            ids  == {active[f].id : f \in mine}
<1>1. PICK left \in SUBSET ids : uploads' = Storage!Without(uploads, ids \ left)
  BY DEF Cleanup
<1>2. PICK kept \in SUBSET (Storage!Filed(u) \cap DOMAIN objects) :
        objects' = Storage!Without(objects, Storage!Filed(u) \ kept)
  BY DEF Cleanup
<1>3. active' = Storage!Without(active, mine) /\ UNCHANGED created
  BY DEF Cleanup
<1>4. \A g \in DOMAIN active' :
        g \in DOMAIN active /\ g \notin mine /\ active'[g] = active[g]
  BY <1>3 DEF Storage!Without
<1>5. \A g \in DOMAIN active' : active[g].id \in DOMAIN uploads /\ active[g].id \notin ids
  BY <1>4, OwnUpload DEF SInv, Known
<1>. HIDE DEF ids
<1>6. /\ DOMAIN uploads' = DOMAIN uploads \ (ids \ left)
      /\ \A id \in DOMAIN uploads' : uploads'[id] = uploads[id]
  BY <1>1 DEF Storage!Without
<1>7. /\ DOMAIN objects' \subseteq Storage!File
      /\ \A g \in DOMAIN objects' : objects'[g] \in Storage!Contents
  BY <1>2 DEF Storage!Without, SInv
<1>8. \A g \in DOMAIN active' : active[g].id \in DOMAIN uploads'
  BY <1>5, <1>6
<1>. QED
  BY <1>3, <1>4, <1>6, <1>7, <1>8, Forgotten

(* Calls that leave the open uploads alone, and a restart.                 *)
LEMMA WholeFileSInv ==
  ASSUME SInv, NEW f \in Storage!File, NEW ok \in BOOLEAN,
         \/ \E c \in Storage!Contents : WriteFile(f, c, ok)
         \/ DeleteFile(f, ok)
  PROVE  SInv'
<1>1. /\ UNCHANGED <<uploads, created, active>>
      /\ DOMAIN objects' \subseteq Storage!File
      /\ \A g \in DOMAIN objects' : objects'[g] \in Storage!Contents
  BY DEF WriteFile, DeleteFile, Storage!With, Storage!Without, SInv
<1>2. \A g \in DOMAIN active : active[g].id \in DOMAIN uploads
  BY DEF SInv, Known
<1>. QED
  BY <1>1, <1>2, Forgotten

LEMMA RestartSInv ==
  ASSUME SInv, Restart
  PROVE  SInv'
BY Forgotten DEF Restart, SInv

LEMMA Invariant == S3Spec => []SInv
<1>1. SInv /\ [S3Next]_s3Vars => SInv'
  <2>. SUFFICES ASSUME SInv, [S3Next]_s3Vars
                PROVE  SInv'
    OBVIOUS
  <2>1. CASE UNCHANGED s3Vars
    <3>1. \A g \in DOMAIN active : active[g].id \in DOMAIN uploads
      BY DEF SInv, Known
    <3>. QED
      BY <2>1, <3>1, Forgotten DEF s3Vars, SInv
  <2>. QED
    BY <2>1, BeginWriteSInv, WriteRangeSInv, FinishWriteSInv, AbortWriteSInv,
       WholeFileSInv, CleanupSInv, RestartSInv DEF S3Next
<1>. QED
  BY <1>1, InitSInv, PTL DEF S3Spec

-----------------------------------------------------------------------------
(* The bucket and the uploads keep their types, and every upload that is   *)
(* known is one of the service's, for the same object (S3TypeOK).          *)
THEOREM S3TypeCorrect == S3Spec => []S3TypeOK
<1>1. SInv => S3TypeOK
  BY DEF SInv, Known, S3TypeOK
<1>. QED
  BY <1>1, Invariant, PTL

(* However the answers were lost and in whatever order the parts were      *)
(* sent, the list that finishWrite sends is accepted, unless a part was    *)
(* sent again (the sort in finishWrite).                                   *)
THEOREM CompletionsAccepted == S3Spec => []CompletionIsAccepted
<1>1. SInv => CompletionIsAccepted
  <2>. SUFFICES ASSUME SInv, NEW f \in DOMAIN active, active[f].parts # << >>,
                       ~(Cardinality(Numbers(active[f].parts)) < Len(active[f].parts)),
                       \A part \in ToSet(active[f].parts) :
                         part.etag = uploads[active[f].id].parts[part.number]
                PROVE  Accepts(uploads[active[f].id], Sorted(active[f].parts))
    BY Zenon DEF CompletionIsAccepted
  <2>1. /\ active[f].parts \in Seq(Part)
        /\ Numbers(active[f].parts) \subseteq DOMAIN uploads[active[f].id].parts
    BY DEF SInv, Known
  <2>. QED
    BY <2>1, AcceptedUnlessAgain
<1>. QED
  BY <1>1, Invariant, PTL

(* A call that succeeds leaves nothing at the service that the program has *)
(* forgotten: an upload is begun with its id, and given up or completed    *)
(* with it.                                                                *)
THEOREM NoOrphans == S3Spec => SuccessLeavesNoOrphans
<1>. DEFINE Success == \E r \in reply' : r.ok
<1>1. SInv /\ [S3Next]_s3Vars => [Success => Orphans' \subseteq Orphans]_s3Vars
  <2>. SUFFICES ASSUME SInv, S3Next, Success
                PROVE  Orphans' \subseteq Orphans
    OBVIOUS
  <2>1. ASSUME NEW f \in Storage!File, BeginWrite(f, TRUE)
        PROVE  Orphans' \subseteq Orphans
    <3>1. /\ DOMAIN uploads' = DOMAIN uploads \cup {created'}
          /\ DOMAIN active' = DOMAIN active \cup {f} /\ f \notin DOMAIN active
          /\ active'[f].id = created'
          /\ \A g \in DOMAIN active : active'[g] = active[g]
      BY <2>1 DEF BeginWrite, Carried, Storage!With
    <3>. QED
      BY <3>1 DEF Orphans
  <2>2. ASSUME NEW f \in Storage!File, NEW p \in 1..Parts, NEW x \in Data,
               WriteRange(f, p, x, TRUE)
        PROVE  Orphans' \subseteq Orphans
    <3>1. /\ DOMAIN uploads' = DOMAIN uploads /\ DOMAIN active' = DOMAIN active
          /\ \A g \in DOMAIN active \ {f} : active'[g] = active[g]
          /\ active' = [active EXCEPT ![f].parts = Append(@, [number |-> p, etag |-> x])]
      BY <2>2 DEF WriteRange, Carried
    <3>2. f \in DOMAIN active /\ active[f] \in [id : 1..created, parts : Seq(Part)]
      BY <2>2 DEF WriteRange, SInv, Known
    <3>3. active'[f].id = active[f].id
      BY <3>1, <3>2
    <3>. QED
      BY <3>1, <3>3 DEF Orphans
  <2>3. ASSUME NEW f \in Storage!File, FinishWrite(f, TRUE) \/ AbortWrite(f, TRUE)
        PROVE  Orphans' \subseteq Orphans
    <3>1. /\ f \in DOMAIN active
          /\ DOMAIN uploads' = DOMAIN uploads \ {active[f].id}
          /\ DOMAIN active' = DOMAIN active \ {f}
          /\ \A g \in DOMAIN active' : active'[g] = active[g]
      BY <2>3 DEF FinishWrite, AbortWrite, Carried, Storage!Without
    <3>. QED
      BY <3>1 DEF Orphans
  <2>4. ASSUME UNCHANGED <<uploads, active>>
        PROVE  Orphans' \subseteq Orphans
    BY <2>4 DEF Orphans
  <2>5. ASSUME NEW f \in Storage!File, NEW ok \in BOOLEAN, ~ok,
               \/ BeginWrite(f, ok) \/ FinishWrite(f, ok) \/ AbortWrite(f, ok)
               \/ \E p \in 1..Parts, x \in Data : WriteRange(f, p, x, ok)
        PROVE  FALSE
    <3>1. \E op : reply' = {Storage!Reply(op, f, ok)}
      BY <2>5, Zenon DEF BeginWrite, FinishWrite, AbortWrite, WriteRange
    <3>2. \A r \in reply' : ~r.ok
      BY <2>5, <3>1 DEF Storage!Reply
    <3>. QED
      BY <3>2
  <2>6. ASSUME \/ \E u \in User : Cleanup(u)
               \/ Restart
        PROVE  FALSE
    BY <2>6 DEF Cleanup, Restart
  <2>7. ASSUME NEW f \in Storage!File, NEW ok \in BOOLEAN,
               \/ DeleteFile(f, ok)
               \/ \E c \in Storage!Contents : WriteFile(f, c, ok)
        PROVE  Orphans' \subseteq Orphans
    BY <2>4, <2>7 DEF DeleteFile, WriteFile
  <2>. QED
    BY <2>1, <2>2, <2>3, <2>5, <2>6, <2>7 DEF S3Next
<1>. QED
  BY <1>1, Invariant, PTL DEF S3Spec, SuccessLeavesNoOrphans

-----------------------------------------------------------------------------
(* The writes that FileStorage speaks of.                                  *)
Written(table) == [f \in DOMAIN table |-> Sent(table[f].parts)]

LEMMA WrittenWith ==
  ASSUME NEW table, NEW f, NEW s
  PROVE  Written(Storage!With(table, f, s)) = Storage!With(Written(table), f, Sent(s.parts))
BY DEF Written, Storage!With

LEMMA WrittenWithout ==
  ASSUME NEW table, NEW S
  PROVE  Written(Storage!Without(table, S)) = Storage!Without(Written(table), S)
BY DEF Written, Storage!Without

(* A content is a beginning of itself: the service stores whole objects.   *)
LEMMA WholeIsBeginning ==
  ASSUME NEW c \in Storage!Contents
  PROVE  c \in Storage!Beginnings(c)
<1>1. PICK S \in SUBSET (1..Parts) : c \in [S -> Data]
  BY DEF Storage!Contents
<1>2. c = [p \in DOMAIN c \cap 1..Parts |-> c[p]]
  BY <1>1
<1>3. Parts \in 0..Parts
  BY SizeAssumption
<1>4. \A n \in 0..Parts :
        [p \in DOMAIN c \cap 1..n |-> c[p]] \in Storage!Beginnings(c)
  BY DEF Storage!Beginnings
<1>5. [p \in DOMAIN c \cap 1..Parts |-> c[p]] \in Storage!Beginnings(c)
  BY <1>3, <1>4
<1>. QED
  BY <1>2, <1>5

(* Every step of a storage in a bucket is one that FileStorage allows:     *)
(* what is written is what the list of parts says, an object that is       *)
(* completed holds just that, and a request that fails is carried out as a *)
(* whole or not at all.                                                    *)
THEOREM S3StorageIsFileStorage == S3Spec => S3Implements
<1>1. S3Init => Storage!Init
  BY DEF S3Init, Storage!Init, Storage!Nothing
<1>2. SInv /\ [S3Next]_s3Vars => [Storage!Next]_(Storage!vars)
  <2>. SUFFICES ASSUME SInv, [S3Next]_s3Vars
                PROVE  Storage!Next \/ UNCHANGED Storage!vars
    OBVIOUS
  <2>. DEFINE W == Written(active)
  <2>0. /\ W = [f \in DOMAIN active |-> Sent(active[f].parts)]
        /\ W' = [f \in DOMAIN active' |-> Sent(active'[f].parts)]
        /\ DOMAIN W = DOMAIN active
    BY DEF Written
  <2>1. ASSUME NEW f \in Storage!File, NEW ok \in BOOLEAN, BeginWrite(f, ok)
        PROVE  Storage!BeginWrite(f, ok)
    <3>1. CASE ok
      <4>1. W' = Storage!With(W, f, Sent(<< >>))
        BY <2>1, <3>1, WrittenWith DEF BeginWrite
      <4>. QED
        BY <2>0, <2>1, <3>1, <4>1, NoPartsSent DEF BeginWrite, Storage!BeginWrite
    <3>2. CASE ~ok
      BY <2>0, <2>1, <3>2 DEF BeginWrite, Storage!BeginWrite
    <3>. QED
      BY <3>1, <3>2
  <2>2. ASSUME NEW f \in Storage!File, NEW ok \in BOOLEAN, NEW p \in 1..Parts,
               NEW x \in Data, WriteRange(f, p, x, ok)
        PROVE  Storage!WriteRange(f, p, x, ok)
    <3>. DEFINE part == [number |-> p, etag |-> x]
    <3>1. /\ f \in DOMAIN active /\ active[f].parts \in Seq(Part)
          /\ \A n \in Numbers(active[f].parts) : \E i : LastOf(active[f].parts, n, i)
      BY <2>2 DEF WriteRange, SInv, Known
    <3>2. CASE ok
      <4>1. /\ DOMAIN active' = DOMAIN active
            /\ \A g \in DOMAIN active \ {f} : active'[g] = active[g]
            /\ active'[f].parts = Append(active[f].parts, part)
        BY <2>2, <3>1, <3>2 DEF WriteRange, SInv, Known
      <4>2. part \in Part /\ part.number = p /\ part.etag = x
        BY DEF Part
      <4>. HIDE DEF part
      <4>3. Sent(active'[f].parts) = Storage!With(Sent(active[f].parts), p, x)
        BY <3>1, <4>1, <4>2, SentAfterSending
      <4>4. W[f] = Sent(active[f].parts)
        BY <2>0, <3>1
      <4>5. W' = [g \in DOMAIN active |-> IF g = f THEN Storage!With(W[f], p, x) ELSE W[g]]
        BY <2>0, <3>1, <4>1, <4>3, <4>4
      <4>6. DOMAIN active = DOMAIN W \cup {f}
        BY <2>0, <3>1
      <4>7. W' = Storage!With(W, f, Storage!With(W[f], p, x))
        BY <4>5, <4>6, Zenon DEF Storage!With
      <4>. QED
        BY <2>0, <2>2, <3>1, <3>2, <4>7 DEF WriteRange, Storage!WriteRange
    <3>3. CASE ~ok
      BY <2>0, <2>2, <3>1, <3>3 DEF WriteRange, Storage!WriteRange
    <3>. QED
      BY <3>2, <3>3
  <2>3. ASSUME NEW f \in Storage!File, NEW ok \in BOOLEAN, FinishWrite(f, ok)
        PROVE  Storage!FinishWrite(f, ok)
    <3>. DEFINE upload == uploads[active[f].id]
                parts  == Sorted(active[f].parts)
                stored == [n \in Numbers(parts) |-> upload.parts[n]]
    <3>1. W' = Storage!Without(W, {f})
      BY <2>3, WrittenWithout DEF FinishWrite
    <3>2. f \in DOMAIN W /\ W[f] = Sent(active[f].parts)
      BY <2>0, <2>3 DEF FinishWrite
    <3>3. \/ objects' = Storage!With(objects, f, stored) /\ Accepts(upload, parts)
          \/ objects' = objects /\ ~ok
      BY <2>3 DEF FinishWrite, Carried
    <3>4. Accepts(upload, parts) => stored = W[f]
      <4>1. /\ active[f].parts \in Seq(Part)
            /\ \A n \in Numbers(active[f].parts) : \E i : LastOf(active[f].parts, n, i)
        BY <2>3 DEF FinishWrite, SInv, Known
      <4>. QED
        BY <3>2, <4>1, AcceptedIsSent
    <3>5. reply' = {Storage!Reply("finishWrite", f, ok)}
      BY <2>3 DEF FinishWrite
    <3>. HIDE DEF stored, upload, parts
    <3>. QED
      BY <2>0, <3>1, <3>2, <3>3, <3>4, <3>5 DEF Storage!FinishWrite
  <2>4. ASSUME NEW f \in Storage!File, NEW ok \in BOOLEAN, AbortWrite(f, ok)
        PROVE  Storage!AbortWrite(f, ok)
    <3>1. W' = Storage!Without(W, {f})
      BY <2>4, WrittenWithout DEF AbortWrite
    <3>. QED
      BY <2>0, <2>4, <3>1 DEF AbortWrite, Storage!AbortWrite
  <2>5. ASSUME NEW f \in Storage!File, NEW ok \in BOOLEAN, NEW c \in Storage!Contents,
               WriteFile(f, c, ok)
        PROVE  Storage!WriteFile(f, c, ok)
    <3>1. \/ objects' = Storage!With(objects, f, c)
          \/ ~ok /\ UNCHANGED objects
      BY <2>5 DEF WriteFile, Carried
    <3>. QED
      BY <2>0, <2>5, <3>1, WholeIsBeginning DEF WriteFile, Storage!WriteFile
  <2>6. ASSUME NEW f \in Storage!File, NEW ok \in BOOLEAN, DeleteFile(f, ok)
        PROVE  Storage!DeleteFile(f, ok)
    BY <2>0, <2>6 DEF DeleteFile, Storage!DeleteFile, Carried
  <2>7. ASSUME NEW u \in User, Cleanup(u)
        PROVE  Storage!Cleanup(u)
    <3>1. W' = Storage!Without(W, Storage!Filed(u))
      <4>1. W' = Storage!Without(W, Storage!Filed(u) \cap DOMAIN active)
        BY <2>7, WrittenWithout DEF Cleanup
      <4>. QED
        BY <2>0, <4>1 DEF Storage!Without
    <3>2. \E kept \in SUBSET Storage!Filed(u) :
            objects' = Storage!Without(objects, Storage!Filed(u) \ kept)
      BY <2>7 DEF Cleanup
    <3>. QED
      BY <2>0, <2>7, <3>1, <3>2 DEF Cleanup, Storage!Cleanup
  <2>8. ASSUME Restart
        PROVE  Storage!Restart
    <3>1. W' = [f \in {} |-> Storage!Nothing]
      BY <2>0, <2>8 DEF Restart
    <3>. QED
      BY <2>0, <2>8, <3>1 DEF Restart, Storage!Restart
  <2>9. CASE UNCHANGED s3Vars
    BY <2>9 DEF s3Vars, Storage!vars
  <2>. QED
    BY <2>1, <2>2, <2>3, <2>4, <2>5, <2>6, <2>7, <2>8, <2>9
    DEF S3Next, Storage!Next
<1>. QED
  BY <1>1, <1>2, Invariant, PTL DEF S3Spec, S3Implements, Storage!Spec
=============================================================================
