--------------------------- MODULE JsonParserProofs ---------------------------
(***************************************************************************)
(* json::parse, for documents of any length and depth.                     *)
(*                                                                         *)
(* First, parser and builder agree on the open containers.  StacksAgree is *)
(* not inductive: it depends on the kind of the nodes on ref_stack, and a  *)
(* value is written over the node that object_element refers to.  That     *)
(* this is never an open container is because a node lies behind the       *)
(* container it is in: IInv says so, and that the open containers lie one  *)
(* behind the other.                                                       *)
(*                                                                         *)
(* Then the document is the one the text denotes, and a text is refused    *)
(* only when none begins with it.  DocInv says, for each open container,   *)
(* what is done of it and from where on the text denotes the rest of it,   *)
(* however the text goes on; and, of a refused text, that nothing that     *)
(* begins with it is a document.                                           *)
(***************************************************************************)
EXTENDS MCJsonParser, SequenceTheorems, FiniteSetTheorems, WellFoundedInduction, TLAPS

Node == [kind : {"scalar"}, value : Scalars \cup {"null"}]
        \cup [kind : {"array"}, items : Seq(Nat)]
        \cup [kind : {"object"}, members : UNION {[D -> Nat] : D \in SUBSET Strings}]

Top    == ref_stack[Len(ref_stack)]
IsList(i) == heap[ref_stack[i]].kind = "array"

\* The document and the references into it.
Nodes ==
    /\ heap \in Seq(Node)
    /\ \A n \in 1 .. Len(heap) : heap[n].kind = "object" =>
          \A k \in DOMAIN heap[n].members : heap[n].members[k] \in n + 1 .. Len(heap)
References ==
    /\ ref_stack \in Seq(1 .. Len(heap))
    /\ \A i, j \in 1 .. Len(ref_stack) : i < j => ref_stack[i] < ref_stack[j]
    /\ \A i \in 1 .. Len(ref_stack) : heap[ref_stack[i]].kind \in Containers

\* object_element is an element of the container that is open.
Slot == object_element \in Nat /\ Top < object_element /\ object_element <= Len(heap)

\* The containers that are on `states'.
Depth(w) == IF w \in {"first item", "first key", "first colon"}
            THEN Len(ref_stack) - 1 ELSE Len(ref_stack)
Agree ==
    /\ states \in Seq(BOOLEAN)
    /\ Len(states) = Depth(wants)
    /\ \A i \in 1 .. Len(states) : states[i] <=> IsList(i)

Place ==
    /\ wants \in {"value", "first item", "first key", "key", "first colon", "colon", "comma",
                  "end", "parsed"}
    /\ wants \in {"first item", "first key", "key", "first colon", "colon", "comma"} => ref_stack # <<>>
    /\ wants \in {"end", "parsed"} => ref_stack = <<>>
    /\ wants = "first item" => IsList(Len(ref_stack))
    /\ wants \in {"first key", "key", "first colon", "colon"} => ~IsList(Len(ref_stack))
    /\ wants \in {"first colon", "colon"} => Slot
    /\ wants = "value" => IF ref_stack = <<>> THEN heap = <<>> ELSE IsList(Len(ref_stack)) \/ Slot

IInv == wants = "refused" \/ (Nodes /\ References /\ Agree /\ Place)

-----------------------------------------------------------------------------
NewValues == {Scalar(t) : t \in Scalars} \cup {EmptyArray, EmptyObject}

LEMMA NewValuesAreNodes ==
    ASSUME NEW v \in NewValues
    PROVE  v \in Node /\ (v.kind = "object" => v.members = [k \in {} |-> 0])
  <1>1. CASE v \in {Scalar(t) : t \in Scalars}
    BY <1>1 DEF Scalar, Node
  <1>2. CASE v = EmptyArray
    BY <1>2 DEF EmptyArray, Node
  <1>3. CASE v = EmptyObject
    <2>1. [k \in {} |-> 0] \in [{} -> Nat]
      OBVIOUS
    <2>2. [k \in {} |-> 0] \in UNION {[D -> Nat] : D \in SUBSET Strings}
      BY <2>1
    <2> QED
      BY <1>3, <2>2 DEF EmptyObject, Node
  <1> QED
    BY <1>1, <1>2, <1>3 DEF NewValues

\* handle_value puts the value behind everything that is open, and opens and closes nothing.
LEMMA HandleValueKeeps ==
    ASSUME Nodes, References, NEW v \in NewValues, HandleValue(v),
           IF ref_stack = <<>> THEN heap = <<>> ELSE IsList(Len(ref_stack)) \/ Slot
    PROVE  /\ Nodes'
           /\ Len(heap) <= Len(heap')
           /\ \A i \in 1 .. Len(ref_stack) : heap'[ref_stack[i]].kind = heap[ref_stack[i]].kind
           /\ Target \in 1 .. Len(heap') /\ heap'[Target] = v
           /\ \A i \in 1 .. Len(ref_stack) : ref_stack[i] < Target
  <1> DEFINE N == Len(ref_stack)
             L == Len(heap)
  <1>0. /\ v \in Node /\ (v.kind = "object" => v.members = [k \in {} |-> 0])
        /\ heap \in Seq(Node) /\ L \in Nat /\ N \in Nat /\ ref_stack \in Seq(1 .. L)
    BY NewValuesAreNodes DEF Nodes, References
  <1>1. CASE ref_stack = <<>>
    <2>1. Target = 1 /\ heap' = <<v>>
      BY <1>1 DEF Target, HandleValue
    <2> QED
      BY <1>0, <1>1, <2>1 DEF Nodes
  <1>2. CASE ref_stack # <<>> /\ IsList(N)
    <2>1. N \in 1 .. N /\ Top \in 1 .. L /\ heap[Top].kind = "array" /\ heap[Top] \in Node
      BY <1>0, <1>2 DEF Top, IsList
    <2>2. heap[Top].items \in Seq(Nat)
      BY <2>1 DEF Node
    <2>3. Target = L + 1
      BY <1>2, <2>1 DEF Target, Last, Top
    <2> DEFINE a == [heap[Top] EXCEPT !.items = Append(@, L + 1)]
               h == [heap EXCEPT ![Top] = a]
    <2>4. a \in Node /\ a.kind = "array"
      <3>1. heap[Top] \in [kind : {"array"}, items : Seq(Nat)]
        BY <2>1 DEF Node
      <3>2. PICK s \in Seq(Nat) : heap[Top] = [kind |-> "array", items |-> s]
        BY <3>1
      <3>3. a = [kind |-> "array", items |-> Append(s, L + 1)]
        <4>1. heap[Top].items = s
          BY <3>2
        <4>2. a = [heap[Top] EXCEPT !.items = Append(s, L + 1)]
          BY <4>1
        <4>3. ASSUME NEW x, NEW y, x = [kind |-> "array", items |-> s]
              PROVE  [x EXCEPT !.items = y] = [kind |-> "array", items |-> y]
          BY <4>3
        <4> QED
          BY <3>2, <4>2, <4>3
      <3>4. Append(s, L + 1) \in Seq(Nat)
        BY <1>0
      <3> QED
        BY <3>3, <3>4 DEF Node
    <2>5. heap' = Append(h, v)
      BY <1>2, <2>1, <2>3 DEF HandleValue, Last, Top
    <2> HIDE DEF a
    <2>6. /\ heap' \in Seq(Node) /\ Len(heap') = L + 1 /\ heap'[L + 1] = v
          /\ \A n \in 1 .. L : heap'[n] = IF n = Top THEN a ELSE heap[n]
      BY <1>0, <2>1, <2>4, <2>5
    <2>7. Nodes'
      <3> SUFFICES ASSUME NEW n \in 1 .. L + 1, heap'[n].kind = "object",
                          NEW k \in DOMAIN heap'[n].members
                   PROVE  heap'[n].members[k] \in n + 1 .. L + 1
        BY <2>6 DEF Nodes
      <3>1. CASE n = L + 1
        BY <1>0, <2>6, <3>1
      <3>2. CASE n \in 1 .. L
        <4>1. heap'[n] = heap[n]
          BY <2>4, <2>6, <3>2
        <4> QED
          BY <1>0, <3>2, <4>1 DEF Nodes
      <3> QED
        BY <1>0, <3>1, <3>2
    <2>8. \A i \in 1 .. N : ref_stack[i] \in 1 .. L
      BY <1>0
    <2>9. \A i \in 1 .. N : heap'[ref_stack[i]].kind = heap[ref_stack[i]].kind
      BY <2>1, <2>4, <2>6, <2>8
    <2>10. \A i \in 1 .. N : ref_stack[i] < Target
      BY <1>0, <2>3, <2>8
    <2> QED
      BY <1>0, <2>3, <2>6, <2>7, <2>9, <2>10
  <1>3. CASE ref_stack # <<>> /\ ~IsList(N)
    <2>1. N \in 1 .. N /\ Top \in 1 .. L /\ heap[Top].kind = "object"
      BY <1>0, <1>3 DEF Top, IsList, References, Containers
    <2>2. Target = object_element /\ object_element \in Top + 1 .. L
      BY <1>3, <2>1 DEF Target, Last, Top, Slot
    <2>3. heap' = [heap EXCEPT ![object_element] = v]
      BY <1>3, <2>1 DEF HandleValue, Last, Top
    <2>4. /\ heap' \in Seq(Node) /\ Len(heap') = L
          /\ \A n \in 1 .. L : heap'[n] = IF n = object_element THEN v ELSE heap[n]
      BY <1>0, <2>1, <2>2, <2>3
    <2>5. Nodes'
      <3> SUFFICES ASSUME NEW n \in 1 .. L, heap'[n].kind = "object",
                          NEW k \in DOMAIN heap'[n].members
                   PROVE  heap'[n].members[k] \in n + 1 .. L
        BY <2>4 DEF Nodes
      <3>1. CASE n = object_element
        BY <1>0, <2>4, <3>1
      <3>2. CASE n # object_element
        BY <1>0, <2>4, <3>2 DEF Nodes
      <3> QED
        BY <3>1, <3>2
    <2>6. \A i \in 1 .. N : ref_stack[i] \in 1 .. L /\ ref_stack[i] <= Top
      BY <1>0, <2>1 DEF References, Top
    <2>7. \A i \in 1 .. N : ref_stack[i] < object_element
      BY <1>0, <2>1, <2>2, <2>6
    <2>8. \A i \in 1 .. N : heap'[ref_stack[i]].kind = heap[ref_stack[i]].kind
      BY <1>0, <2>2, <2>4, <2>6, <2>7
    <2>9. Len(heap) <= Len(heap') /\ Target \in 1 .. Len(heap') /\ heap'[Target] = v
      BY <1>0, <2>1, <2>2, <2>4
    <2>10. \A i \in 1 .. N : ref_stack[i] < Target
      BY <2>2, <2>7
    <2> QED
      BY <2>5, <2>8, <2>9, <2>10
  <1> QED
    BY <1>1, <1>2, <1>3

\* A container that begins is the innermost one.
LEMMA StartContainerKeeps ==
    ASSUME Nodes, References, NEW v \in {EmptyArray, EmptyObject}, StartContainer(v),
           IF ref_stack = <<>> THEN heap = <<>> ELSE IsList(Len(ref_stack)) \/ Slot
    PROVE  /\ Nodes' /\ References'
           /\ Len(ref_stack') = Len(ref_stack) + 1 /\ ref_stack' # <<>>
           /\ \A i \in 1 .. Len(ref_stack) : IsList(i)' <=> IsList(i)
           /\ IsList(Len(ref_stack))' <=> v = EmptyArray
  <1> DEFINE N == Len(ref_stack)
             r == Target
  <1>1. /\ v \in NewValues /\ HandleValue(v) /\ ref_stack' = Append(ref_stack, r)
        /\ v.kind = IF v = EmptyArray THEN "array" ELSE "object"
    BY DEF NewValues, StartContainer, EmptyArray, EmptyObject
  <1>2. /\ Nodes' /\ Len(heap) <= Len(heap')
        /\ \A i \in 1 .. N : heap'[ref_stack[i]].kind = heap[ref_stack[i]].kind
        /\ r \in 1 .. Len(heap') /\ heap'[r] = v
        /\ \A i \in 1 .. N : ref_stack[i] < r
    BY <1>1, HandleValueKeeps
  <1> HIDE DEF r
  <1>3. /\ ref_stack \in Seq(1 .. Len(heap)) /\ N \in Nat /\ Len(heap) \in Nat /\ Len(heap') \in Nat
    BY <1>2 DEF References, Nodes
  <1>4. ref_stack \in Seq(1 .. Len(heap'))
    BY <1>2, <1>3
  <1>5. /\ ref_stack' \in Seq(1 .. Len(heap')) /\ Len(ref_stack') = N + 1
        /\ \A i \in 1 .. N : ref_stack'[i] = ref_stack[i]
        /\ ref_stack'[N + 1] = r
    BY <1>1, <1>2, <1>3, <1>4
  <1>6. \A i, j \in 1 .. Len(ref_stack') : i < j => ref_stack'[i] < ref_stack'[j]
    <2> SUFFICES ASSUME NEW i \in 1 .. N + 1, NEW j \in 1 .. N + 1, i < j
                 PROVE  ref_stack'[i] < ref_stack'[j]
      BY <1>5
    <2>1. i \in 1 .. N
      BY <1>3
    <2>2. CASE j = N + 1
      BY <1>2, <1>5, <2>1, <2>2
    <2>3. CASE j \in 1 .. N
      BY <1>5, <2>1, <2>3 DEF References
    <2> QED
      BY <1>3, <2>2, <2>3
  <1>7. \A i \in 1 .. N : IsList(i)' <=> IsList(i)
    BY <1>2, <1>5 DEF IsList
  <1>8. IsList(N)' <=> v = EmptyArray
    <2>1. heap'[ref_stack'[Len(ref_stack')]] = v
      BY <1>2, <1>5
    <2> QED
      BY <1>1, <2>1 DEF IsList
  <1>9. \A i \in 1 .. Len(ref_stack') : heap'[ref_stack'[i]].kind \in Containers
    <2> SUFFICES ASSUME NEW i \in 1 .. N + 1
                 PROVE  heap'[ref_stack'[i]].kind \in Containers
      BY <1>5
    <2>1. CASE i = N + 1
      BY <1>1, <1>2, <1>5, <2>1 DEF Containers
    <2>2. CASE i \in 1 .. N
      BY <1>2, <1>5, <2>2 DEF References
    <2> QED
      BY <1>3, <2>1, <2>2
  <1>10. References'
    BY <1>5, <1>6, <1>9 DEF References
  <1>11. ref_stack' # <<>>
    BY <1>3, <1>5
  <1> QED
    BY <1>2, <1>5, <1>7, <1>8, <1>10, <1>11

\* A value that is no container leaves the open ones alone.
LEMMA ScalarKeeps ==
    ASSUME Nodes, References, NEW v \in NewValues, HandleValue(v), UNCHANGED ref_stack,
           IF ref_stack = <<>> THEN heap = <<>> ELSE IsList(Len(ref_stack)) \/ Slot
    PROVE  /\ Nodes' /\ References'
           /\ \A i \in 1 .. Len(ref_stack) : IsList(i)' <=> IsList(i)
  <1>1. /\ Nodes' /\ Len(heap) <= Len(heap')
        /\ \A i \in 1 .. Len(ref_stack) : heap'[ref_stack[i]].kind = heap[ref_stack[i]].kind
    BY HandleValueKeeps
  <1>2. ref_stack \in Seq(1 .. Len(heap')) /\ Len(heap') \in Nat
    <2>1. ref_stack \in Seq(1 .. Len(heap)) /\ Len(heap) \in Nat /\ Len(heap') \in Nat
      BY <1>1 DEF References, Nodes
    <2> QED
      BY <1>1, <2>1
  <1>3. References'
    BY <1>1, <1>2 DEF References
  <1> QED
    BY <1>1, <1>3 DEF IsList

\* A sequence without its last element.
LEMMA FrontOfSeq ==
    ASSUME NEW S, NEW s \in Seq(S), Len(s) >= 1
    PROVE  LET f == SubSeq(s, 1, Len(s) - 1)
           IN  /\ f \in Seq(S) /\ Len(f) = Len(s) - 1
               /\ \A i \in 1 .. Len(s) - 1 : f[i] = s[i]
  <1> DEFINE N == Len(s)
             f == SubSeq(s, 1, N - 1)
  <1>1. N \in Nat /\ N >= 1 /\ \A i \in 1 .. N - 1 : s[i] \in S
    OBVIOUS
  <1>2. /\ f \in Seq(S)
        /\ Len(f) = IF 1 <= N - 1 THEN N - 1 - 1 + 1 ELSE 0
        /\ \A i \in 1 .. N - 1 - 1 + 1 : f[i] = s[1 + i - 1]
    <2>1. 1 \in Int /\ N - 1 \in Int
      BY <1>1
    <2> QED
      BY <1>1, <2>1, SubSeqProperties
  <1> HIDE DEF f, N
  <1>3. /\ N - 1 - 1 + 1 = N - 1 /\ \A i \in 1 .. N - 1 : 1 + i - 1 = i
        /\ ~(1 <= N - 1) => N - 1 = 0
    BY <1>1
  <1>4. Len(f) = N - 1
    BY <1>2, <1>3, Zenon
  <1>5. ASSUME NEW i \in 1 .. N - 1 PROVE f[i] = s[i]
    BY <1>2, <1>3
  <1> QED
    BY <1>2, <1>4, <1>5 DEF f, N

\* The container around the one that ends is the innermost one again.
LEMMA EndContainerKeeps ==
    ASSUME Nodes, References, EndContainer, ref_stack # <<>>
    PROVE  /\ Nodes' /\ References'
           /\ Len(ref_stack') = Len(ref_stack) - 1
           /\ \A i \in 1 .. Len(ref_stack) - 1 : IsList(i)' <=> IsList(i)
  <1> DEFINE N == Len(ref_stack)
  <1>1. /\ heap' = heap /\ ref_stack' = SubSeq(ref_stack, 1, N - 1)
    BY DEF EndContainer, Front
  <1>2. ref_stack \in Seq(1 .. Len(heap)) /\ N \in Nat /\ N >= 1
    BY DEF References
  <1>3. /\ ref_stack' \in Seq(1 .. Len(heap)) /\ Len(ref_stack') = N - 1
        /\ \A i \in 1 .. N - 1 : ref_stack'[i] = ref_stack[i]
    BY <1>1, <1>2, FrontOfSeq
  <1>4. Nodes'
    BY <1>1 DEF Nodes
  <1>5. References'
    <2>1. \A i, j \in 1 .. Len(ref_stack') : i < j => ref_stack'[i] < ref_stack'[j]
      <3> SUFFICES ASSUME NEW i \in 1 .. N - 1, NEW j \in 1 .. N - 1, i < j
                   PROVE  ref_stack'[i] < ref_stack'[j]
        BY <1>3
      <3>1. i \in 1 .. N /\ j \in 1 .. N /\ ref_stack'[i] = ref_stack[i] /\ ref_stack'[j] = ref_stack[j]
        BY <1>2, <1>3, SMTT(30)
      <3> QED
        BY <3>1 DEF References
    <2>2. \A i \in 1 .. Len(ref_stack') : heap'[ref_stack'[i]].kind \in Containers
      <3> SUFFICES ASSUME NEW i \in 1 .. N - 1 PROVE heap'[ref_stack'[i]].kind \in Containers
        BY <1>3
      <3> QED
        BY <1>1, <1>2, <1>3 DEF References
    <2> QED
      BY <1>1, <1>3, <2>1, <2>2 DEF References
  <1> QED
    BY <1>1, <1>3, <1>4, <1>5 DEF IsList

\* A key gives object_element an element of the innermost container.
LEMMA KeyKeeps ==
    ASSUME Nodes, References, ref_stack # <<>>, ~IsList(Len(ref_stack)),
           NEW k \in Strings, Key(k), UNCHANGED ref_stack
    PROVE  /\ Nodes' /\ References' /\ Slot'
           /\ \A i \in 1 .. Len(ref_stack) : IsList(i)' <=> IsList(i)
  <1> DEFINE N == Len(ref_stack)
             L == Len(heap)
             members == heap[Top].members
  <1>1. /\ ref_stack \in Seq(1 .. L) /\ N \in 1 .. N /\ L \in Nat /\ N \in Nat
        /\ heap \in Seq(Node) /\ Top \in 1 .. L /\ heap[Top].kind = "object" /\ heap[Top] \in Node
    BY DEF References, Nodes, Top, IsList, Containers
  <1>2. \A x \in DOMAIN members : members[x] \in Top + 1 .. L
    BY <1>1 DEF Nodes
  <1>3. Top' = Top
    BY DEF Top
  <1>4. CASE k \in DOMAIN members
    <2>1. object_element' = members[k] /\ heap' = heap
      BY <1>4 DEF Key, Last, Top
    <2>2. Slot'
      BY <1>1, <1>2, <1>3, <1>4, <2>1 DEF Slot
    <2> QED
      BY <2>1, <2>2 DEF Nodes, References, IsList
  <1>5. CASE k \notin DOMAIN members
    <2> DEFINE inserted == Insert(members, k, L + 1)
               o == [heap[Top] EXCEPT !.members = inserted]
               h == [heap EXCEPT ![Top] = o]
    <2>1. object_element' = L + 1 /\ heap' = Append(h, Scalar("null"))
      BY <1>5 DEF Key, Last, Top
    <2>2. PICK D \in SUBSET Strings : members \in [D -> Nat]
                /\ heap[Top] = [kind |-> "object", members |-> members]
      <3>1. heap[Top] \in [kind : {"object"}, members : UNION {[E -> Nat] : E \in SUBSET Strings}]
        BY <1>1 DEF Node
      <3> QED
        BY <3>1
    <2>3. inserted \in [D \cup {k} -> Nat] /\ D \cup {k} \in SUBSET Strings
      BY <1>1, <2>2 DEF Insert
    <2>4. \A x \in DOMAIN inserted : inserted[x] \in Top + 1 .. L + 1
      BY <1>1, <1>2, <2>2 DEF Insert
    <2>5. o = [kind |-> "object", members |-> inserted]
      <3> HIDE DEF inserted, members
      <3>1. ASSUME NEW x, NEW y, NEW z, x = [kind |-> "object", members |-> z]
            PROVE  [x EXCEPT !.members = y] = [kind |-> "object", members |-> y]
        BY <3>1
      <3> QED
        BY <2>2, <3>1
    <2>6. o \in Node /\ o.kind = "object" /\ o.members = inserted
      <3> HIDE DEF inserted, o
      <3>1. inserted \in UNION {[E -> Nat] : E \in SUBSET Strings}
        BY <2>3
      <3> QED
        BY <2>5, <3>1 DEF Node
    <2> HIDE DEF o, inserted
    <2>7. Scalar("null") \in Node /\ Scalar("null").kind = "scalar"
      BY DEF Scalar, Node
    <2>8. /\ heap' \in Seq(Node) /\ Len(heap') = L + 1 /\ heap'[L + 1] = Scalar("null")
          /\ \A n \in 1 .. L : heap'[n] = IF n = Top THEN o ELSE heap[n]
      BY <1>1, <2>1, <2>6, <2>7
    <2>9. Nodes'
      <3> SUFFICES ASSUME NEW n \in 1 .. L + 1, heap'[n].kind = "object",
                          NEW x \in DOMAIN heap'[n].members
                   PROVE  heap'[n].members[x] \in n + 1 .. L + 1
        BY <2>8 DEF Nodes
      <3>1. n \in 1 .. L
        <4>1. n # L + 1
          BY <2>7, <2>8
        <4> QED
          BY <1>1, <4>1, SMTT(30)
      <3>2. CASE n = Top
        BY <2>4, <2>6, <2>8, <3>1, <3>2
      <3>3. CASE n # Top
        <4>1. heap'[n] = heap[n]
          BY <2>8, <3>1, <3>3
        <4> QED
          BY <1>1, <3>1, <4>1 DEF Nodes
      <3> QED
        BY <3>2, <3>3
    <2>10. \A i \in 1 .. N : ref_stack[i] \in 1 .. L
      BY <1>1
    <2>11. \A i \in 1 .. N : heap'[ref_stack[i]].kind = heap[ref_stack[i]].kind
      BY <1>1, <2>6, <2>8, <2>10
    <2>12. ref_stack \in Seq(1 .. L + 1)
      BY <1>1
    <2>13. References'
      BY <2>8, <2>11, <2>12 DEF References
    <2>14. Slot'
      BY <1>1, <1>3, <2>1, <2>8 DEF Slot
    <2> QED
      BY <2>9, <2>11, <2>13, <2>14 DEF IsList
  <1> QED
    BY <1>4, <1>5

-----------------------------------------------------------------------------
LEMMA BeginValueKeeps ==
    ASSUME Nodes, References, NEW t \in Tokens \cup {"end"}, NEW stack \in Seq(BOOLEAN),
           Len(stack) = Len(ref_stack),
           \A i \in 1 .. Len(stack) : stack[i] <=> IsList(i),
           IF ref_stack = <<>> THEN heap = <<>> ELSE IsList(Len(ref_stack)) \/ Slot,
           BeginValue(t, stack)
    PROVE  IInv'
  <1> DEFINE N == Len(ref_stack)
  <1>0. states' = stack /\ N \in Nat /\ (stack = <<>> <=> ref_stack = <<>>)
    <2>1. states' = stack
      BY DEF BeginValue
    <2>2. ref_stack \in Seq(1 .. Len(heap))
      BY DEF References
    <2> QED
      BY <2>1, <2>2
  <1>1. CASE t \in {"{", "["}
    <2> DEFINE v == IF t = "{" THEN EmptyObject ELSE EmptyArray
               w == IF t = "{" THEN "first key" ELSE "first item"
    <2>1. v \in {EmptyArray, EmptyObject} /\ StartContainer(v) /\ wants' = w
      <3>1. CASE t = "{"
        BY <3>1 DEF BeginValue, Scalars, Strings
      <3>2. CASE t = "["
        BY <3>2 DEF BeginValue, Scalars, Strings
      <3> QED
        BY <1>1, <3>1, <3>2
    <2>2. v = EmptyArray <=> t = "["
      BY <1>1 DEF EmptyArray, EmptyObject
    <2> HIDE DEF v
    <2>3. /\ Nodes' /\ References'
          /\ Len(ref_stack') = N + 1 /\ ref_stack' # <<>>
          /\ \A i \in 1 .. N : IsList(i)' <=> IsList(i)
          /\ IsList(Len(ref_stack))' <=> v = EmptyArray
      BY <2>1, StartContainerKeeps
    <2>4. Agree'
      <3>1. Depth(wants)' = N
        <4>1. wants' \in {"first key", "first item"}
          BY <2>1
        <4>2. Depth(wants)' = Len(ref_stack') - 1
          BY <4>1 DEF Depth
        <4> QED
          BY <1>0, <2>3, <4>2
      <3> QED
        BY <1>0, <2>3, <3>1 DEF Agree
    <2>5. Place'
      <3>1. CASE t = "{"
        BY <2>1, <2>2, <2>3, <3>1 DEF Place
      <3>2. CASE t = "["
        BY <2>1, <2>2, <2>3, <3>2 DEF Place
      <3> QED
        BY <1>1, <3>1, <3>2
    <2> QED
      BY <2>3, <2>4, <2>5 DEF IInv
  <1>2. CASE t \in Scalars
    <2>1. /\ HandleValue(Scalar(t)) /\ ref_stack' = ref_stack
          /\ wants' = IF stack = <<>> THEN "end" ELSE "comma"
      BY <1>2 DEF BeginValue, AfterValue, Scalars, Strings
    <2>2. Scalar(t) \in NewValues
      BY <1>2 DEF NewValues
    <2>3. Nodes' /\ References' /\ \A i \in 1 .. N : IsList(i)' <=> IsList(i)
      BY <2>1, <2>2, ScalarKeeps
    <2>4. Agree'
      BY <1>0, <2>1, <2>3 DEF Agree, Depth
    <2>5. Place'
      BY <1>0, <2>1 DEF Place
    <2> QED
      BY <2>3, <2>4, <2>5 DEF IInv
  <1>3. CASE t \notin {"{", "["} \cup Scalars
    BY <1>3 DEF BeginValue, IInv
  <1> QED
    BY <1>1, <1>2, <1>3

LEMMA InitIInv == Init => IInv
  BY DEF Init, IInv, Nodes, References, Agree, Place, Depth

LEMMA ValueKeeps == ASSUME IInv, NEW t \in Tokens \cup {"end"}, Value(t) PROVE IInv'
  <1>1. wants = "value" /\ BeginValue(t, states)
    BY DEF Value
  <1>2. Nodes /\ References /\ Agree /\ Place
    BY <1>1 DEF IInv
  <1>3. /\ states \in Seq(BOOLEAN) /\ Len(states) = Len(ref_stack)
        /\ \A i \in 1 .. Len(states) : states[i] <=> IsList(i)
    BY <1>1, <1>2 DEF Agree, Depth
  <1>4. IF ref_stack = <<>> THEN heap = <<>> ELSE IsList(Len(ref_stack)) \/ Slot
    BY <1>1, <1>2 DEF Place
  <1> QED
    BY <1>1, <1>2, <1>3, <1>4, BeginValueKeeps

\* After a container that is not on `states' has ended, a value has.
LEMMA Ended ==
    ASSUME Nodes, References, EndContainer, ref_stack # <<>>,
           NEW stack \in Seq(BOOLEAN), Len(stack) = Len(ref_stack) - 1,
           \A i \in 1 .. Len(stack) : stack[i] <=> IsList(i),
           states' = stack, wants' = AfterValue(stack)
    PROVE  IInv'
  <1>1. /\ Nodes' /\ References' /\ Len(ref_stack') = Len(ref_stack) - 1
        /\ \A i \in 1 .. Len(ref_stack) - 1 : IsList(i)' <=> IsList(i)
    BY EndContainerKeeps
  <1>2. wants' = IF ref_stack' = <<>> THEN "end" ELSE "comma"
    BY <1>1 DEF AfterValue, References
  <1>3. Agree'
    BY <1>1, <1>2 DEF Agree, Depth
  <1>4. Place'
    BY <1>2 DEF Place
  <1> QED
    BY <1>1, <1>3, <1>4 DEF IInv

LEMMA FirstItemKeeps == ASSUME IInv, NEW t \in Tokens \cup {"end"}, FirstItem(t) PROVE IInv'
  <1> DEFINE N == Len(ref_stack)
             stack == Append(states, TRUE)
  <1>1. wants = "first item"
    BY DEF FirstItem
  <1>2. Nodes /\ References /\ Agree /\ Place
    BY <1>1 DEF IInv
  <1>3. /\ states \in Seq(BOOLEAN) /\ Len(states) = N - 1 /\ N \in Nat
        /\ \A i \in 1 .. N - 1 : states[i] <=> IsList(i)
        /\ ref_stack # <<>> /\ IsList(N)
    <2>1. ref_stack \in Seq(1 .. Len(heap))
      BY <1>2 DEF References
    <2>2. Depth(wants) = N - 1
      BY <1>1 DEF Depth
    <2>3. ref_stack # <<>> /\ IsList(N)
      BY <1>1, <1>2 DEF Place
    <2>4. /\ states \in Seq(BOOLEAN) /\ Len(states) = N - 1
          /\ \A i \in 1 .. Len(states) : states[i] <=> IsList(i)
      BY <1>2, <2>2 DEF Agree
    <2> QED
      BY <2>1, <2>3, <2>4
  <1>4. CASE t = "]"
    BY <1>2, <1>3, <1>4, Ended DEF FirstItem
  <1>5. CASE t # "]"
    <2>1. BeginValue(t, stack)
      BY <1>5 DEF FirstItem
    <2>2. stack \in Seq(BOOLEAN) /\ Len(stack) = N
      BY <1>3
    <2>3. \A i \in 1 .. N : stack[i] <=> IsList(i)
      <3> SUFFICES ASSUME NEW i \in 1 .. N PROVE stack[i] <=> IsList(i)
        OBVIOUS
      <3>1. CASE i = N
        BY <1>3, <3>1
      <3>2. CASE i \in 1 .. N - 1
        BY <1>3, <3>2
      <3> QED
        BY <1>3, <3>1, <3>2
    <2> QED
      BY <1>2, <1>3, <2>1, <2>2, <2>3, BeginValueKeeps
  <1> QED
    BY <1>4, <1>5

LEMMA FirstKeyKeeps == ASSUME IInv, NEW t \in Tokens \cup {"end"}, FirstKey(t) PROVE IInv'
  <1> DEFINE N == Len(ref_stack)
  <1>1. wants \in {"first key", "key"}
    BY DEF FirstKey
  <1>2. Nodes /\ References /\ Agree /\ Place
    BY <1>1 DEF IInv
  <1>3. /\ states \in Seq(BOOLEAN) /\ Len(states) = Depth(wants) /\ N \in Nat
        /\ \A i \in 1 .. Len(states) : states[i] <=> IsList(i)
        /\ ref_stack # <<>> /\ ~IsList(N)
    <2>1. ref_stack \in Seq(1 .. Len(heap))
      BY <1>2 DEF References
    <2>2. ref_stack # <<>> /\ ~IsList(N)
      BY <1>1, <1>2 DEF Place
    <2> QED
      BY <1>2, <2>1, <2>2 DEF Agree
  <1>4. CASE t = "}" /\ wants = "first key"
    <2>1. EndContainer /\ wants' = AfterValue(states) /\ states' = states
      BY <1>4 DEF FirstKey, Strings
    <2>2. Len(states) = N - 1
      BY <1>3, <1>4 DEF Depth
    <2> QED
      BY <1>2, <1>3, <2>1, <2>2, Ended
  <1>5. CASE t \in Strings
    <2>1. /\ Key(t) /\ UNCHANGED <<states, ref_stack>>
          /\ wants' = IF wants = "key" THEN "colon" ELSE "first colon"
      BY <1>5 DEF FirstKey, Strings
    <2>2. Nodes' /\ References' /\ Slot' /\ \A i \in 1 .. N : IsList(i)' <=> IsList(i)
      BY <1>2, <1>3, <1>5, <2>1, KeyKeeps
    <2>3. Depth(wants)' = Depth(wants) /\ Depth(wants) <= N
      <3>1. /\ Depth(wants) = IF wants = "first key" THEN N - 1 ELSE N
            /\ Depth(wants)' = IF wants = "first key" THEN N - 1 ELSE N
        BY <1>1, <2>1 DEF Depth
      <3>2. N \in Nat
        BY <1>3
      <3>3. Depth(wants)' = Depth(wants)
        BY <3>1
      <3>4. Depth(wants) <= N
        <4>1. ASSUME NEW n \in Nat, NEW d, d = n - 1 \/ d = n PROVE d <= n
          BY <4>1
        <4>2. Depth(wants) = N - 1 \/ Depth(wants) = N
          BY <3>1
        <4> HIDE DEF N
        <4> QED
          BY <3>2, <4>1, <4>2, Zenon
      <3> QED
        BY <3>3, <3>4
    <2>4. Agree'
      <3>1. states' = states /\ Len(states) = Depth(wants)'
        BY <1>3, <2>1, <2>3
      <3>2. ASSUME NEW i \in 1 .. Len(states) PROVE states[i] <=> IsList(i)'
        <4>1. i \in 1 .. N
          BY <1>3, <2>3
        <4> QED
          BY <1>3, <2>2, <4>1
      <3> QED
        BY <1>3, <3>1, <3>2 DEF Agree
    <2>5. ~IsList(Len(ref_stack))'
      <3>1. N \in 1 .. N /\ N' = N
        <4>1. ref_stack \in Seq(1 .. Len(heap)) /\ ref_stack # <<>> /\ ref_stack' = ref_stack
          BY <1>2, <1>3, <2>1 DEF References
        <4> QED
          BY <4>1
      <3> QED
        BY <1>3, <2>2, <3>1 DEF IsList
    <2>6. Place'
      BY <1>1, <1>3, <2>1, <2>2, <2>5 DEF Place
    <2> QED
      BY <2>2, <2>4, <2>6 DEF IInv
  <1>6. CASE ~(t = "}" /\ wants = "first key") /\ t \notin Strings
    BY <1>6 DEF FirstKey, Refuse, IInv
  <1> QED
    BY <1>4, <1>5, <1>6

LEMMA ColonKeeps == ASSUME IInv, NEW t \in Tokens \cup {"end"}, Colon(t) PROVE IInv'
  <1> DEFINE N == Len(ref_stack)
             stack == IF wants = "colon" THEN states ELSE Append(states, FALSE)
  <1>1. wants \in {"first colon", "colon"}
    BY DEF Colon
  <1>2. Nodes /\ References /\ Agree /\ Place
    BY <1>1 DEF IInv
  <1>3. /\ states \in Seq(BOOLEAN) /\ N \in Nat
        /\ Len(states) = IF wants = "colon" THEN N ELSE N - 1
        /\ \A i \in 1 .. Len(states) : states[i] <=> IsList(i)
        /\ ref_stack # <<>> /\ ~IsList(N) /\ Slot
    <2>1. ref_stack \in Seq(1 .. Len(heap))
      BY <1>2 DEF References
    <2>2. Depth(wants) = IF wants = "colon" THEN N ELSE N - 1
      BY <1>1 DEF Depth
    <2>3. ref_stack # <<>> /\ ~IsList(N) /\ Slot
      BY <1>1, <1>2 DEF Place
    <2>4. /\ states \in Seq(BOOLEAN) /\ Len(states) = Depth(wants)
          /\ \A i \in 1 .. Len(states) : states[i] <=> IsList(i)
      BY <1>2 DEF Agree
    <2> QED
      BY <2>1, <2>2, <2>3, <2>4
  <1>4. CASE t = ":"
    <2>1. wants' = "value" /\ states' = stack /\ UNCHANGED document
      BY <1>4 DEF Colon
    <2>2. stack \in Seq(BOOLEAN) /\ Len(stack) = N
      <3>1. CASE wants = "colon"
        BY <1>3, <3>1
      <3>2. CASE wants # "colon"
        BY <1>3, <3>2
      <3> QED
        BY <3>1, <3>2
    <2>3. \A i \in 1 .. N : stack[i] <=> IsList(i)
      <3> SUFFICES ASSUME NEW i \in 1 .. N PROVE stack[i] <=> IsList(i)
        OBVIOUS
      <3>1. CASE wants = "colon"
        BY <1>3, <3>1
      <3>2. CASE wants # "colon" /\ i = N
        BY <1>3, <3>2
      <3>3. CASE wants # "colon" /\ i \in 1 .. N - 1
        BY <1>3, <3>3
      <3> QED
        BY <1>3, <3>1, <3>2, <3>3
    <2> HIDE DEF stack
    <2>4. Nodes' /\ References' /\ Slot' /\ N' = N /\ \A i \in 1 .. N : IsList(i)' <=> IsList(i)
      BY <1>2, <1>3, <2>1 DEF document, Nodes, References, Slot, Top, IsList
    <2>5. Agree'
      BY <2>1, <2>2, <2>3, <2>4 DEF Agree, Depth
    <2>6. Place'
      BY <1>3, <2>1, <2>4 DEF Place, document
    <2> QED
      BY <2>4, <2>5, <2>6 DEF IInv
  <1>5. CASE t # ":"
    BY <1>5 DEF Colon, Refuse, IInv
  <1> QED
    BY <1>4, <1>5

LEMMA CommaKeeps == ASSUME IInv, NEW t \in Tokens \cup {"end"}, Comma(t) PROVE IInv'
  <1> DEFINE N == Len(ref_stack)
             list == states[Len(states)]
  <1>1. wants = "comma"
    BY DEF Comma
  <1>2. Nodes /\ References /\ Agree /\ Place
    BY <1>1 DEF IInv
  <1>3. /\ states \in Seq(BOOLEAN) /\ Len(states) = N /\ N \in 1 .. N /\ N \in Nat
        /\ \A i \in 1 .. N : states[i] <=> IsList(i)
        /\ ref_stack # <<>>
    <2>1. ref_stack \in Seq(1 .. Len(heap))
      BY <1>2 DEF References
    <2>2. Depth(wants) = N
      BY <1>1 DEF Depth
    <2>3. ref_stack # <<>>
      BY <1>1, <1>2 DEF Place
    <2>4. /\ states \in Seq(BOOLEAN) /\ Len(states) = N
          /\ \A i \in 1 .. Len(states) : states[i] <=> IsList(i)
      BY <1>2, <2>2 DEF Agree
    <2> QED
      BY <2>1, <2>3, <2>4
  <1>4. list \in BOOLEAN /\ (list <=> IsList(N))
    BY <1>3
  <1>5. CASE t = ","
    <2>1. wants' = (IF list THEN "value" ELSE "key") /\ UNCHANGED <<states, document>>
      BY <1>5 DEF Comma, Last
    <2>2. /\ Nodes' /\ References' /\ ref_stack' = ref_stack
          /\ IsList(Len(ref_stack))' <=> IsList(N)
      BY <1>2, <2>1 DEF Nodes, References, IsList, document
    <2>3. Agree'
      <3>1. Depth(wants)' = N
        BY <2>1, <2>2 DEF Depth
      <3>2. states' = states /\ \A i \in 1 .. N : IsList(i)' <=> IsList(i)
        BY <2>1 DEF IsList, document
      <3> QED
        BY <1>3, <3>1, <3>2 DEF Agree
    <2>4. Place'
      BY <1>3, <1>4, <2>1, <2>2 DEF Place
    <2> QED
      BY <2>2, <2>3, <2>4 DEF IInv
  <1>6. CASE t = IF list THEN "]" ELSE "}"
    <2>1. EndContainer /\ states' = SubSeq(states, 1, N - 1) /\ wants' = AfterValue(states')
      <3>1. t # ","
        BY <1>4, <1>6
      <3>2. Close
        BY <1>6, <3>1 DEF Comma, Last
      <3> QED
        BY <1>3, <3>2 DEF Close, Front
    <2> DEFINE stack == SubSeq(states, 1, N - 1)
    <2>2. /\ stack \in Seq(BOOLEAN) /\ Len(stack) = N - 1
          /\ \A i \in 1 .. N - 1 : stack[i] = states[i]
      BY <1>3, FrontOfSeq
    <2> HIDE DEF stack
    <2>3. \A i \in 1 .. Len(stack) : stack[i] <=> IsList(i)
      BY <1>3, <2>2
    <2>4. states' = stack
      BY <2>1 DEF stack
    <2> QED
      BY <1>2, <1>3, <2>1, <2>2, <2>3, <2>4, Ended
  <1>7. CASE t # "," /\ t # IF list THEN "]" ELSE "}"
    BY <1>7 DEF Comma, Last, Refuse, IInv
  <1> QED
    BY <1>5, <1>6, <1>7

LEMMA EndKeeps == ASSUME IInv, NEW t \in Tokens \cup {"end"}, End(t) PROVE IInv'
  <1>1. wants = "end"
    BY DEF End
  <1>2. Nodes /\ References /\ Agree /\ Place
    BY <1>1 DEF IInv
  <1>3. CASE t = "end"
    <2>1. wants' = "parsed" /\ UNCHANGED <<states, document>>
      BY <1>3 DEF End
    <2>2. Nodes' /\ References'
      BY <1>2, <2>1 DEF Nodes, References, document
    <2>3. Agree'
      BY <1>1, <1>2, <2>1 DEF Agree, Depth, IsList, document
    <2>4. Place'
      BY <1>1, <1>2, <2>1 DEF Place, document
    <2> QED
      BY <2>2, <2>3, <2>4 DEF IInv
  <1>4. CASE t # "end"
    BY <1>4 DEF End, Refuse, IInv
  <1> QED
    BY <1>3, <1>4

LEMMA NextIInv == IInv /\ [Next]_vars => IInv'
  <1> SUFFICES ASSUME IInv, [Next]_vars PROVE IInv'
    OBVIOUS
  <1>1. CASE UNCHANGED vars
    BY <1>1 DEF vars, IInv, Nodes, References, Agree, Place, Depth, Slot, Top, IsList
  <1>2. CASE Next
    BY <1>2, ValueKeeps, FirstItemKeeps, FirstKeyKeeps, ColonKeeps, CommaKeeps, EndKeeps DEF Next
  <1> QED
    BY <1>1, <1>2

LEMMA IInvImpliesStacksAgree == IInv => StacksAgree
  <1> SUFFICES ASSUME IInv, wants # "refused" PROVE StacksAgree
    BY DEF StacksAgree
  <1> DEFINE N == Len(ref_stack)
             kinds == [i \in DOMAIN ref_stack |-> heap[ref_stack[i]].kind = "array"]
  <1>1. Nodes /\ References /\ Agree /\ Place
    BY DEF IInv
  <1>2. ref_stack \in Seq(1 .. Len(heap)) /\ DOMAIN ref_stack = 1 .. N /\ N \in Nat
    BY <1>1 DEF References
  <1>3. kinds \in Seq(BOOLEAN) /\ Len(kinds) = N /\ \A i \in 1 .. N : kinds[i] = IsList(i)
    BY <1>2 DEF IsList
  <1> HIDE DEF kinds
  <1>4. states \in Seq(BOOLEAN) /\ \A i \in 1 .. Len(states) : states[i] <=> IsList(i)
    BY <1>1 DEF Agree
  <1>5. CASE wants \in {"first item", "first key", "first colon"}
    <2>1. Len(states) = N - 1 /\ N >= 1
      <3>1. ref_stack # <<>>
        BY <1>1, <1>5 DEF Place
      <3>2. Depth(wants) = N - 1
        BY <1>5 DEF Depth
      <3> QED
        BY <1>1, <1>2, <3>1, <3>2 DEF Agree
    <2>2. /\ Front(kinds) \in Seq(BOOLEAN) /\ Len(Front(kinds)) = N - 1
          /\ \A i \in 1 .. N - 1 : Front(kinds)[i] = kinds[i]
      BY <1>3, <2>1, FrontOfSeq DEF Front
    <2>3. \A i \in 1 .. N - 1 : states[i] = Front(kinds)[i]
      <3> SUFFICES ASSUME NEW i \in 1 .. N - 1 PROVE states[i] = Front(kinds)[i]
        OBVIOUS
      <3>1. i \in 1 .. N /\ i \in 1 .. Len(states)
        BY <1>2, <2>1
      <3>2. states[i] \in BOOLEAN
        BY <1>4, <3>1
      <3>3. Front(kinds)[i] = IsList(i) /\ (states[i] <=> IsList(i))
        BY <1>3, <1>4, <2>2, <3>1
      <3>4. IsList(i) \in BOOLEAN
        BY DEF IsList
      <3> QED
        BY <3>2, <3>3, <3>4, Zenon
    <2>4. states = Front(kinds)
      BY <1>4, <2>1, <2>2, <2>3
    <2>5. Last(kinds) <=> wants = "first item"
      <3>1. Last(kinds) = IsList(N)
        BY <1>2, <1>3, <2>1 DEF Last
      <3>2. IsList(N) <=> wants = "first item"
        BY <1>1, <1>5 DEF Place
      <3> QED
        BY <3>1, <3>2
    <2> QED
      BY <1>5, <2>4, <2>5 DEF StacksAgree, kinds
  <1>6. CASE wants \notin {"first item", "first key", "first colon"}
    <2>1. Len(states) = N
      BY <1>1, <1>6 DEF Agree, Depth
    <2>2. \A i \in 1 .. N : states[i] = kinds[i]
      <3> SUFFICES ASSUME NEW i \in 1 .. N PROVE states[i] = kinds[i]
        OBVIOUS
      <3>1. states[i] \in BOOLEAN
        BY <1>4, <2>1
      <3>2. kinds[i] = IsList(i) /\ (states[i] <=> IsList(i))
        BY <1>3, <1>4, <2>1
      <3>3. IsList(i) \in BOOLEAN
        BY DEF IsList
      <3> QED
        BY <3>1, <3>2, <3>3, Zenon
    <2>3. states = kinds
      BY <1>3, <1>4, <2>1, <2>2
    <2> QED
      BY <1>6, <2>3 DEF StacksAgree, kinds
  <1> QED
    BY <1>5, <1>6

\* The assertions of json_sax_dom_parser hold, and the parser takes a "]" for the end of the
\* container that the builder has open, for every text of any length.
THEOREM StacksAgreeAlways == Spec => []StacksAgree
  <1>1. Spec => []IInv
    BY InitIInv, NextIInv, PTL DEF Spec
  <1> QED
    BY <1>1, IInvImpliesStacksAgree, PTL

-----------------------------------------------------------------------------
(***************************************************************************)
(* The references are a path.  What is written is the innermost container  *)
(* or what object_element refers to, so that the links between the         *)
(* containers further out stay as they are.                                *)
(***************************************************************************)
\* Node n is what was last put into the container `outer'.
Linked(outer, n) == IF outer.kind = "array" THEN Last(outer.items) = n ELSE n \in Range(outer.members)

Path ==
    /\ ref_stack # <<>> => ref_stack[1] = 1
    /\ \A i \in 1 .. Len(ref_stack) - 1 : Linked(heap[ref_stack[i]], ref_stack[i + 1])

\* object_element is where the next value goes, or the one after the colon.
InObject == ref_stack # <<>> /\ ~IsList(Len(ref_stack))
Member   == object_element \in Range(heap[Top].members)

PathInv == /\ Path
           /\ wants \in {"first colon", "colon"} \/ (wants = "value" /\ InObject) => Member

LEMMA LastOfAppend ==
    ASSUME NEW s \in Seq(Nat), NEW n PROVE Last(Append(s, n)) = n
  BY DEF Last

\* A value is linked to the innermost container and touches none of the others.
LEMMA HandleValueLinks ==
    ASSUME Nodes, References, NEW v \in NewValues, HandleValue(v), ref_stack # <<>>,
           InObject => Slot /\ Member
    PROVE  /\ \A i \in 1 .. Len(ref_stack) - 1 : heap'[ref_stack[i]] = heap[ref_stack[i]]
           /\ Linked(heap'[Top], Target)
  <1> DEFINE N == Len(ref_stack)
             L == Len(heap)
  <1>1. /\ heap \in Seq(Node) /\ L \in Nat /\ N \in Nat /\ N >= 1 /\ N \in 1 .. N
        /\ ref_stack \in Seq(1 .. L) /\ Top \in 1 .. L /\ heap[Top] \in Node
        /\ heap[Top].kind \in Containers
    BY DEF Nodes, References, Top
  <1>2. \A i \in 1 .. N - 1 : ref_stack[i] \in 1 .. L /\ ref_stack[i] < Top
    <2> SUFFICES ASSUME NEW i \in 1 .. N - 1 PROVE ref_stack[i] \in 1 .. L /\ ref_stack[i] < Top
      OBVIOUS
    <2>1. i \in 1 .. N /\ i < N
      BY <1>1
    <2> QED
      BY <1>1, <2>1 DEF References, Top
  <1>3. v \in Node
    BY NewValuesAreNodes
  <1>4. CASE IsList(N)
    <2>1. heap[Top].kind = "array" /\ Target = L + 1
      BY <1>1, <1>4 DEF IsList, Top, Target, Last
    <2>2. PICK s \in Seq(Nat) : heap[Top] = [kind |-> "array", items |-> s]
      BY <1>1, <2>1 DEF Node
    <2> DEFINE a == [kind |-> "array", items |-> Append(s, L + 1)]
    <2>3. heap' = Append([heap EXCEPT ![Top] = a], v)
      <3>1. heap' = Append([heap EXCEPT ![Top].items = Append(@, L + 1)], v)
        BY <1>1, <2>1 DEF HandleValue, Last, Top
      <3>2. [heap EXCEPT ![Top].items = Append(@, L + 1)] = [heap EXCEPT ![Top] = a]
        <4>1. heap[Top].items = s
          BY <2>2
        <4>2. [heap[Top] EXCEPT !.items = Append(@, L + 1)] = [heap[Top] EXCEPT !.items = Append(s, L + 1)]
          BY <4>1
        <4>3. ASSUME NEW x, NEW y, x = [kind |-> "array", items |-> s]
              PROVE  [x EXCEPT !.items = y] = [kind |-> "array", items |-> y]
          BY <4>3
        <4>4. [heap[Top] EXCEPT !.items = Append(@, L + 1)] = a
          BY <2>2, <4>2, <4>3
        <4> QED
          BY <4>4
      <3> QED
        BY <3>1, <3>2
    <2>4. a \in Node /\ a.kind = "array" /\ Last(a.items) = L + 1
      <3>1. Append(s, L + 1) \in Seq(Nat)
        BY <1>1
      <3> QED
        BY <3>1, LastOfAppend DEF Node
    <2> HIDE DEF a
    <2>5. \A n \in 1 .. L : heap'[n] = IF n = Top THEN a ELSE heap[n]
      BY <1>1, <1>3, <2>3, <2>4
    <2>6. Linked(heap'[Top], Target)
      BY <1>1, <2>1, <2>4, <2>5 DEF Linked
    <2>7. ASSUME NEW i \in 1 .. N - 1 PROVE heap'[ref_stack[i]] = heap[ref_stack[i]]
      <3>1. ref_stack[i] \in 1 .. L /\ ref_stack[i] # Top
        BY <1>1, <1>2
      <3> QED
        BY <2>5, <3>1
    <2> QED
      BY <2>6, <2>7
  <1>5. CASE ~IsList(N)
    <2>1. heap[Top].kind = "object"
      BY <1>1, <1>5 DEF IsList, Top, Containers
    <2>2. Slot /\ Member
      BY <1>5 DEF InObject
    <2>3. heap' = [heap EXCEPT ![object_element] = v] /\ Target = object_element
      BY <1>1, <2>1 DEF HandleValue, Target, Last, Top
    <2>4. object_element \in Nat /\ Top < object_element /\ object_element <= L
      BY <2>2 DEF Slot
    <2>5. \A n \in 1 .. L : n # object_element => heap'[n] = heap[n]
      BY <1>1, <2>3
    <2>6. heap'[Top] = heap[Top]
      BY <1>1, <2>4, <2>5
    <2>7. Linked(heap'[Top], Target)
      BY <2>1, <2>2, <2>3, <2>6 DEF Linked, Member
    <2>8. ASSUME NEW i \in 1 .. N - 1 PROVE heap'[ref_stack[i]] = heap[ref_stack[i]]
      BY <1>1, <1>2, <2>4, <2>5
    <2> QED
      BY <2>7, <2>8
  <1> QED
    BY <1>4, <1>5

\* The path stays when the references do and the outer containers do.
LEMMA PathStays ==
    ASSUME Path, References, ref_stack' = ref_stack,
           \A i \in 1 .. Len(ref_stack) - 1 : heap'[ref_stack[i]] = heap[ref_stack[i]]
    PROVE  Path'
  <1>1. \A i \in 1 .. Len(ref_stack) - 1 : Linked(heap'[ref_stack[i]], ref_stack[i + 1])
    BY DEF Path
  <1>2. \A i \in 1 .. Len(ref_stack') - 1 : Linked(heap[ref_stack[i]], ref_stack[i + 1])'
    BY <1>1 DEF Linked
  <1> QED
    BY <1>2 DEF Path

LEMMA ValuePath ==
    ASSUME Nodes, References, Path, NEW v \in NewValues, HandleValue(v),
           ref_stack = <<>> => heap = <<>>, InObject => Slot /\ Member
    PROVE  /\ ref_stack' = ref_stack => Path'
           /\ ref_stack' = Append(ref_stack, Target) => Path'
  <1> DEFINE N == Len(ref_stack)
             r == Target
  <1>1. ref_stack \in Seq(1 .. Len(heap)) /\ N \in Nat
    BY DEF References
  <1>2. CASE ref_stack = <<>>
    <2>1. r = 1
      BY <1>2 DEF Target
    <2>2. ASSUME ref_stack' = ref_stack PROVE Path'
      BY <1>2, <2>2 DEF Path
    <2>3. ASSUME ref_stack' = Append(ref_stack, r) PROVE Path'
      <3>1. ref_stack' = <<1>>
        BY <1>2, <2>1, <2>3
      <3> QED
        BY <3>1 DEF Path
    <2> QED
      BY <2>2, <2>3
  <1>3. CASE ref_stack # <<>>
    <2>1. /\ \A i \in 1 .. N - 1 : heap'[ref_stack[i]] = heap[ref_stack[i]]
          /\ Linked(heap'[Top], r)
      BY <1>3, HandleValueLinks
    <2>2. ASSUME ref_stack' = ref_stack PROVE Path'
      BY <2>1, <2>2, PathStays
    <2>3. ASSUME ref_stack' = Append(ref_stack, r) PROVE Path'
      <3> HIDE DEF r
      <3>1. N >= 1 /\ Top = ref_stack[N]
        BY <1>1, <1>3 DEF Top
      <3>2. /\ Len(ref_stack') = N + 1 /\ ref_stack'[N + 1] = r
            /\ \A i \in 1 .. N : ref_stack'[i] = ref_stack[i]
        BY <1>1, <2>3
      <3>3. ref_stack'[1] = 1
        BY <1>1, <1>3, <3>1, <3>2 DEF Path
      <3>4. ASSUME NEW i \in 1 .. N PROVE Linked(heap'[ref_stack'[i]], ref_stack'[i + 1])
        <4>1. CASE i = N
          BY <1>1, <2>1, <3>1, <3>2, <4>1
        <4>2. CASE i # N
          <5>1. i \in 1 .. N - 1 /\ i + 1 \in 1 .. N
            BY <1>1, <4>2
          <5>2. Linked(heap[ref_stack[i]], ref_stack[i + 1])
            BY <5>1 DEF Path
          <5> QED
            BY <2>1, <3>2, <5>1, <5>2
        <4> QED
          BY <4>1, <4>2
      <3>5. \A i \in 1 .. Len(ref_stack') - 1 : Linked(heap[ref_stack[i]], ref_stack[i + 1])'
        BY <1>1, <3>2, <3>4 DEF Linked
      <3> QED
        BY <3>3, <3>5 DEF Path
    <2> QED
      BY <2>2, <2>3
  <1> QED
    BY <1>2, <1>3

LEMMA EndContainerPath ==
    ASSUME References, Path, EndContainer, ref_stack # <<>> PROVE Path'
  <1> DEFINE N == Len(ref_stack)
  <1>1. /\ heap' = heap /\ ref_stack' = SubSeq(ref_stack, 1, N - 1)
    BY DEF EndContainer, Front
  <1>2. ref_stack \in Seq(1 .. Len(heap)) /\ N \in Nat /\ N >= 1
    BY DEF References
  <1>3. /\ ref_stack' \in Seq(1 .. Len(heap)) /\ Len(ref_stack') = N - 1
        /\ \A i \in 1 .. N - 1 : ref_stack'[i] = ref_stack[i]
    BY <1>1, <1>2, FrontOfSeq
  <1>4. ref_stack' # <<>> => ref_stack'[1] = 1
    <2> SUFFICES ASSUME ref_stack' # <<>> PROVE ref_stack'[1] = 1
      OBVIOUS
    <2>1. Len(ref_stack') # 0
      BY <1>3
    <2>2. 1 \in 1 .. N - 1
      BY <1>2, <1>3, <2>1
    <2> QED
      BY <1>3, <2>2 DEF Path
  <1>5. ASSUME NEW i \in 1 .. Len(ref_stack') - 1
        PROVE  Linked(heap'[ref_stack'[i]], ref_stack'[i + 1])
    <2>1. i \in 1 .. N - 1 /\ i + 1 \in 1 .. N - 1
      BY <1>2, <1>3
    <2>2. Linked(heap[ref_stack[i]], ref_stack[i + 1])
      BY <2>1 DEF Path
    <2> QED
      BY <1>1, <1>3, <2>1, <2>2
  <1>6. \A i \in 1 .. Len(ref_stack') - 1 : Linked(heap[ref_stack[i]], ref_stack[i + 1])'
    BY <1>5 DEF Linked
  <1> QED
    BY <1>4, <1>6 DEF Path

LEMMA KeyPath ==
    ASSUME Nodes, References, Path, ref_stack # <<>>, ~IsList(Len(ref_stack)),
           NEW k \in Strings, Key(k), UNCHANGED ref_stack
    PROVE  Path' /\ Member'
  <1> DEFINE N == Len(ref_stack)
             L == Len(heap)
             members == heap[Top].members
  <1>1. /\ ref_stack \in Seq(1 .. L) /\ N \in 1 .. N /\ L \in Nat /\ N \in Nat
        /\ heap \in Seq(Node) /\ Top \in 1 .. L /\ heap[Top].kind = "object" /\ heap[Top] \in Node
    BY DEF References, Nodes, Top, IsList, Containers
  <1>2. Top' = Top
    BY DEF Top
  <1>3. CASE k \in DOMAIN members
    <2>1. object_element' = members[k] /\ heap' = heap
      BY <1>3 DEF Key, Last, Top
    <2>2. Member'
      BY <1>2, <1>3, <2>1 DEF Member, Range
    <2>3. Path'
      BY <2>1, PathStays
    <2> QED
      BY <2>2, <2>3
  <1>4. CASE k \notin DOMAIN members
    <2> DEFINE inserted == Insert(members, k, L + 1)
               o == [heap[Top] EXCEPT !.members = inserted]
               h == [heap EXCEPT ![Top] = o]
    <2>1. object_element' = L + 1 /\ heap' = Append(h, Scalar("null"))
      BY <1>4 DEF Key, Last, Top
    <2>2. k \in DOMAIN inserted /\ inserted[k] = L + 1
      BY <1>4 DEF Insert
    <2>3. o.members = inserted
      <3>1. "members" \in DOMAIN heap[Top]
        BY <1>1 DEF Node
      <3> QED
        BY <3>1
    <2>4. h \in Seq(Node \cup {o}) /\ Len(h) = L
          /\ \A n \in 1 .. L : h[n] = IF n = Top THEN o ELSE heap[n]
      <3> HIDE DEF o
      <3>1. heap \in Seq(Node \cup {o})
        BY <1>1
      <3> QED
        BY <1>1, <3>1
    <2> HIDE DEF o, inserted, h
    <2>5. \A n \in 1 .. L : heap'[n] = IF n = Top THEN o ELSE heap[n]
      <3>1. \A n \in 1 .. L : heap'[n] = h[n]
        BY <1>1, <2>1, <2>4
      <3> QED
        BY <2>4, <3>1
    <2>6. Member'
      BY <1>1, <1>2, <2>1, <2>2, <2>3, <2>5 DEF Member, Range
    <2>7. ASSUME NEW i \in 1 .. N - 1 PROVE heap'[ref_stack[i]] = heap[ref_stack[i]]
      <3>1. i \in 1 .. N /\ i < N /\ N \in 1 .. N
        BY <1>1
      <3>2. ref_stack[i] \in 1 .. L /\ ref_stack[i] < Top
        BY <1>1, <3>1 DEF References, Top
      <3> QED
        BY <1>1, <2>5, <3>2
    <2>8. Path'
      BY <2>7, PathStays
    <2> QED
      BY <2>6, <2>8
  <1> QED
    BY <1>3, <1>4

LEMMA BeginValuePath ==
    ASSUME Nodes, References, Path, NEW t \in Tokens \cup {"end"}, NEW stack,
           ref_stack = <<>> => heap = <<>>, InObject => Slot /\ Member,
           BeginValue(t, stack)
    PROVE  PathInv'
  <1>1. CASE t \in {"{", "["}
    <2> DEFINE v == IF t = "{" THEN EmptyObject ELSE EmptyArray
    <2>1. StartContainer(v) /\ wants' \in {"first key", "first item"}
      <3>1. CASE t = "{"
        BY <3>1 DEF BeginValue, Scalars, Strings
      <3>2. CASE t = "["
        BY <3>2 DEF BeginValue, Scalars, Strings
      <3> QED
        BY <1>1, <3>1, <3>2
    <2>2. v \in NewValues
      BY DEF NewValues
    <2> HIDE DEF v
    <2>3. Path'
      BY <2>1, <2>2, ValuePath DEF StartContainer
    <2> QED
      BY <2>1, <2>3 DEF PathInv
  <1>2. CASE t \in Scalars
    <2>1. /\ HandleValue(Scalar(t)) /\ ref_stack' = ref_stack
          /\ wants' \in {"end", "comma"}
      BY <1>2 DEF BeginValue, AfterValue, Scalars, Strings
    <2>2. Scalar(t) \in NewValues
      BY <1>2 DEF NewValues
    <2>3. Path'
      BY <2>1, <2>2, ValuePath
    <2> QED
      BY <2>1, <2>3 DEF PathInv
  <1>3. CASE t \notin {"{", "["} \cup Scalars
    <2>1. wants' = "refused" /\ UNCHANGED document
      BY <1>3 DEF BeginValue
    <2>2. Path'
      BY <2>1, PathStays DEF document
    <2> QED
      BY <2>1, <2>2 DEF PathInv
  <1> QED
    BY <1>1, <1>2, <1>3

LEMMA InitPathInv == Init => PathInv
  BY DEF Init, PathInv, Path, InObject

\* What refuses a token leaves the document as it is.
LEMMA RefusePath == ASSUME References, PathInv, Refuse PROVE PathInv'
  <1>1. wants' = "refused" /\ ref_stack' = ref_stack /\ heap' = heap
    BY DEF Refuse, document
  <1>2. Path'
    BY <1>1, PathStays DEF PathInv
  <1> QED
    BY <1>1, <1>2 DEF PathInv

LEMMA EndedPath ==
    ASSUME References, PathInv, EndContainer, ref_stack # <<>>, NEW stack, wants' = AfterValue(stack)
    PROVE  PathInv'
  <1>1. wants' \in {"end", "comma"}
    BY DEF AfterValue
  <1>2. Path'
    BY EndContainerPath DEF PathInv
  <1> QED
    BY <1>1, <1>2 DEF PathInv

LEMMA NextPathInv == IInv /\ PathInv /\ [Next]_vars => PathInv'
  <1> SUFFICES ASSUME IInv, PathInv, [Next]_vars PROVE PathInv'
    OBVIOUS
  <1>1. CASE UNCHANGED vars
    BY <1>1 DEF vars, PathInv, Path, InObject, Member, IsList, Top, Linked
  <1>2. CASE Next
    <2>1. wants # "refused"
      BY <1>2 DEF Next, Value, FirstItem, FirstKey, Colon, Comma, End
    <2>2. Nodes /\ References /\ Agree /\ Place /\ Path
      BY <2>1 DEF IInv, PathInv
    <2>3. ASSUME NEW t \in Tokens \cup {"end"}, Value(t) PROVE PathInv'
      <3>1. wants = "value" /\ BeginValue(t, states)
        BY <2>3 DEF Value
      <3>2. /\ ref_stack = <<>> => heap = <<>>
            /\ InObject => Slot /\ Member
        BY <2>2, <3>1 DEF Place, InObject, PathInv
      <3> QED
        BY <2>2, <3>1, <3>2, BeginValuePath
    <2>4. ASSUME NEW t \in Tokens \cup {"end"}, FirstItem(t) PROVE PathInv'
      <3>1. wants = "first item" /\ ref_stack # <<>> /\ ~InObject
        BY <2>2, <2>4 DEF FirstItem, Place, InObject
      <3>2. CASE t = "]"
        BY <2>2, <2>4, <3>1, <3>2, EndedPath DEF FirstItem
      <3>3. CASE t # "]"
        <4>1. BeginValue(t, Append(states, TRUE))
          BY <2>4, <3>3 DEF FirstItem
        <4> QED
          BY <2>2, <3>1, <4>1, BeginValuePath
      <3> QED
        BY <3>2, <3>3
    <2>5. ASSUME NEW t \in Tokens \cup {"end"}, FirstKey(t) PROVE PathInv'
      <3>1. wants \in {"first key", "key"} /\ ref_stack # <<>> /\ ~IsList(Len(ref_stack))
        BY <2>2, <2>5 DEF FirstKey, Place
      <3>2. CASE t = "}" /\ wants = "first key"
        <4>1. EndContainer /\ wants' = AfterValue(states)
          BY <2>5, <3>2 DEF FirstKey, Strings
        <4> QED
          BY <2>2, <3>1, <4>1, EndedPath
      <3>3. CASE t \in Strings
        <4>1. Key(t) /\ ref_stack' = ref_stack
          BY <2>5, <3>3 DEF FirstKey, Strings
        <4>2. Path' /\ Member'
          BY <2>2, <3>1, <3>3, <4>1, KeyPath
        <4> QED
          BY <4>2 DEF PathInv
      <3>4. CASE ~(t = "}" /\ wants = "first key") /\ t \notin Strings
        <4>1. Refuse
          BY <2>5, <3>4 DEF FirstKey
        <4> QED
          BY <2>2, <4>1, RefusePath
      <3> QED
        BY <3>2, <3>3, <3>4
    <2>6. ASSUME NEW t \in Tokens \cup {"end"}, Colon(t) PROVE PathInv'
      <3>1. wants \in {"first colon", "colon"} /\ Member
        BY <2>6 DEF Colon, PathInv
      <3>2. CASE t = ":"
        <4>1. UNCHANGED document
          BY <2>6, <3>2 DEF Colon
        <4>2. Path'
          BY <2>2, <4>1, PathStays DEF document
        <4>3. Member'
          BY <3>1, <4>1 DEF Member, Top, document
        <4> QED
          BY <4>2, <4>3 DEF PathInv
      <3>3. CASE t # ":"
        <4>1. Refuse
          BY <2>6, <3>3 DEF Colon
        <4> QED
          BY <2>2, <4>1, RefusePath
      <3> QED
        BY <3>2, <3>3
    <2>7. ASSUME NEW t \in Tokens \cup {"end"}, Comma(t) PROVE PathInv'
      <3> DEFINE list == states[Len(states)]
      <3>1. wants = "comma" /\ ref_stack # <<>>
        BY <2>2, <2>7 DEF Comma, Place
      <3>2. list <=> IsList(Len(ref_stack))
        <4>1. ref_stack \in Seq(1 .. Len(heap)) /\ Len(states) = Len(ref_stack)
          BY <2>2, <3>1 DEF References, Agree, Depth
        <4>2. Len(states) \in 1 .. Len(states)
          BY <3>1, <4>1
        <4> QED
          BY <2>2, <4>1, <4>2 DEF Agree
      <3>3. CASE t = ","
        <4>1. wants' = (IF list THEN "value" ELSE "key") /\ UNCHANGED document
          BY <2>7, <3>3 DEF Comma, Last
        <4>2. Path'
          BY <2>2, <4>1, PathStays DEF document
        <4>3. IsList(Len(ref_stack))' <=> IsList(Len(ref_stack))
          BY <4>1 DEF IsList, document
        <4>4. ~(wants' \in {"first colon", "colon"} \/ (wants' = "value" /\ InObject'))
          BY <3>2, <4>1, <4>3 DEF InObject
        <4> QED
          BY <4>2, <4>4 DEF PathInv
      <3>4. CASE t # "," /\ t = IF list THEN "]" ELSE "}"
        <4>1. EndContainer /\ wants' = AfterValue(states')
          BY <2>7, <3>4 DEF Comma, Last, Close
        <4> QED
          BY <2>2, <3>1, <4>1, EndedPath
      <3>5. CASE t # "," /\ t # IF list THEN "]" ELSE "}"
        <4>1. Refuse
          BY <2>7, <3>5 DEF Comma, Last
        <4> QED
          BY <2>2, <4>1, RefusePath
      <3> QED
        BY <3>3, <3>4, <3>5
    <2>8. ASSUME NEW t \in Tokens \cup {"end"}, End(t) PROVE PathInv'
      <3>1. CASE t = "end"
        <4>1. wants' = "parsed" /\ UNCHANGED document
          BY <2>8, <3>1 DEF End
        <4>2. Path'
          BY <2>2, <4>1, PathStays DEF document
        <4> QED
          BY <4>1, <4>2 DEF PathInv
      <3>2. CASE t # "end"
        <4>1. Refuse
          BY <2>8, <3>2 DEF End
        <4> QED
          BY <2>2, <4>1, RefusePath
      <3> QED
        BY <3>1, <3>2
    <2> QED
      BY <1>2, <2>3, <2>4, <2>5, <2>6, <2>7, <2>8 DEF Next
  <1> QED
    BY <1>1, <1>2

LEMMA InvImpliesReferencesAreAPath == IInv /\ PathInv => ReferencesAreAPath
  <1> SUFFICES ASSUME IInv, PathInv PROVE ReferencesAreAPath
    OBVIOUS
  <1>1. /\ ref_stack # <<>> => ref_stack[1] = 1
        /\ \A i \in 1 .. Len(ref_stack) - 1 :
              LET outer == heap[ref_stack[i]] IN
              IF outer.kind = "array" THEN Last(outer.items) = ref_stack[i + 1]
                                      ELSE ref_stack[i + 1] \in Range(outer.members)
    BY DEF PathInv, Path, Linked
  <1>2. ASSUME wants \in {"first colon", "colon"} PROVE Member
    BY <1>2 DEF PathInv
  <1>3. ASSUME wants = "value", states # <<>>, ~Last(states) PROVE Member
    <2>1. References /\ Agree
      BY <1>3 DEF IInv
    <2>2. ref_stack \in Seq(1 .. Len(heap)) /\ states \in Seq(BOOLEAN) /\ Len(states) = Len(ref_stack)
      BY <1>3, <2>1 DEF References, Agree, Depth
    <2>3. Len(states) \in 1 .. Len(states) /\ ref_stack # <<>>
      BY <1>3, <2>2
    <2>4. ~IsList(Len(ref_stack))
      BY <1>3, <2>1, <2>2, <2>3 DEF Agree, Last
    <2> QED
      BY <1>3, <2>3, <2>4 DEF PathInv, InObject
  <1>4. Member <=> object_element \in Range(heap[Last(ref_stack)].members)
    BY DEF Member, Top, Last
  <1> QED
    BY <1>1, <1>2, <1>3, <1>4 DEF ReferencesAreAPath

\* The builder's references stay good for every text of any length: each open container is
\* the last item or a member of the one around it, the outermost is the root, and a value
\* that is awaited after a colon goes into the innermost one.
THEOREM ReferencesAlwaysGood == Spec => []ReferencesAreAPath
  <1>1. Spec => []IInv
    BY InitIInv, NextIInv, PTL DEF Spec
  <1>2. Spec => []PathInv
    BY <1>1, InitPathInv, NextPathInv, PTL DEF Spec
  <1> QED
    BY <1>1, <1>2, InvImpliesReferencesAreAPath, PTL

-----------------------------------------------------------------------------
(***************************************************************************)
(* Numbers, and what a recursive function on phrases is: Denoted satisfies *)
(* its own definition, since a phrase denotes what fewer tokens do.        *)
(***************************************************************************)
\* A set of numbers has a least one.
LEMMA LeastNumber == \A T \in SUBSET Nat : T # {} => \E x \in T : \A y \in T : x <= y
  <1> DEFINE R == {ss \in Nat \X Nat : ss[1] < ss[2]}
  <1>1. IsWellFoundedOn(R, Nat)
    BY NatLessThanWellFounded DEF OpToRel
  <1> SUFFICES ASSUME NEW T \in SUBSET Nat, T # {} PROVE \E x \in T : \A y \in T : x <= y
    OBVIOUS
  <1>2. PICK x \in T : \A y \in T : ~(<<y, x>> \in R)
    <2> HIDE DEF R
    <2>1. T \subseteq Nat
      OBVIOUS
    <2> QED
      BY <1>1, <2>1, WFMin, Zenon
  <1>3. \A y \in T : ~(y < x)
    BY <1>2
  <1> QED
    BY <1>3

\* Induction over numbers, for the set of those that have a property.
LEMMA NumberInduction ==
    ASSUME NEW P, 0 \in P, \A n \in Nat : n \in P => n + 1 \in P
    PROVE  Nat \subseteq P
  <1> SUFFICES ASSUME Nat \ P # {} PROVE FALSE
    OBVIOUS
  <1>1. PICK x \in Nat \ P : \A y \in Nat \ P : x <= y
    BY LeastNumber
  <1>2. x # 0 /\ x - 1 \in Nat
    BY <1>1
  <1>3. x - 1 \in P
    BY <1>1, <1>2
  <1> QED
    BY <1>1, <1>2, <1>3

-----------------------------------------------------------------------------
(***************************************************************************)
(* The grammar: the function Denoted(s) exists, and what it says of the    *)
(* tokens i to j of s.                                                     *)
(***************************************************************************)
Size(x) == IF x[2] <= x[3] THEN x[3] - x[2] + 1 ELSE 0

\* The right-hand side of the definition, for a function D.
PhraseRule(D, s, x) ==
    IF x[1] = "value" THEN Values(D, s, x[2], x[3]) ELSE Elements(D, s, x[1], x[2], x[3])

\* Denoted(s) as the choice it abbreviates.
LEMMA DenotedIs == \A s : Denoted(s) = CHOOSE D : D = [x \in Phrases |-> PhraseRule(D, s, x)]
  BY Zenon DEF Denoted, PhraseRule

\* Where the value of an element may end.
LEMMA EndsAre == \A s, i, j, c : c \in Ends(s, i, j) <=> c \in i .. j /\ (c = j \/ s[c] = ",")
  BY Zenon DEF Ends

\* What tokens denote depends on fewer tokens only.
LEMMA RuleIsNarrow ==
    ASSUME NEW s, NEW f, NEW g, NEW x \in Phrases,
           \A r \in Phrases : Size(r) < Size(x) => f[r] = g[r]
    PROVE  PhraseRule(f, s, x) = PhraseRule(g, s, x)
  <1>1. PICK kind \in Containers \cup {"value"}, i \in Nat, j \in Nat : x = <<kind, i, j>>
    BY DEF Phrases
  <1>2. x[1] = kind /\ x[2] = i /\ x[3] = j
    BY <1>1
  <1>3. ASSUME i < j, NEW k \in Containers \cup {"value"}, NEW a \in Nat, NEW b \in Nat,
               a >= i, b <= j, a > i \/ b < j
        PROVE  f[<<k, a, b>>] = g[<<k, a, b>>]
    <2>1. <<k, a, b>> \in Phrases
      BY DEF Phrases
    <2>2. Size(<<k, a, b>>) < Size(x)
      BY <1>2, <1>3 DEF Size
    <2> QED
      BY <2>1, <2>2
  <1>4. CASE kind # "value"
    <2>0. kind \in Containers
      BY <1>4
    <2> DEFINE C == Ends(s, ValueAt(kind, i) + 1, j)
               E(D, c) == AllJoined(kind, s[i], D[<<"value", ValueAt(kind, i), c - 1>>], Others(D, kind, c, j))
    <2>1. ASSUME i < j, NEW c \in C
          PROVE  E(f, c) = E(g, c)
      <3>1. /\ ValueAt(kind, i) \in Nat /\ ValueAt(kind, i) >= i
            /\ c \in Nat /\ c - 1 \in Nat /\ c - 1 < j /\ c <= j /\ c + 1 \in Nat /\ c + 1 > i
        <4>1. c \in ValueAt(kind, i) + 1 .. j
          BY <2>1, EndsAre, Zenon
        <4> HIDE DEF C
        <4> QED
          BY <2>0, <4>1 DEF ValueAt, Containers
      <3>2. f[<<"value", ValueAt(kind, i), c - 1>>] = g[<<"value", ValueAt(kind, i), c - 1>>]
        BY <1>3, <2>1, <3>1
      <3>3. c # j => f[<<kind, c + 1, j>>] = g[<<kind, c + 1, j>>]
        BY <1>3, <2>0, <2>1, <3>1
      <3>4. Others(f, kind, c, j) = Others(g, kind, c, j)
        BY <3>3, Zenon DEF Others
      <3> QED
        BY <3>2, <3>4, Zenon
    <2>2. i < j => UNION {E(f, c) : c \in C} = UNION {E(g, c) : c \in C}
      <3> HIDE DEF C, E
      <3> QED
        BY <2>1
    <2>3. Elements(f, s, kind, i, j) = Elements(g, s, kind, i, j)
      BY <2>2, Zenon DEF Elements
    <2> QED
      BY <1>2, <1>4, <2>3, Zenon DEF PhraseRule
  <1>5. CASE kind = "value"
    <2> DEFINE E(D, k) == AllMade(k, IF j = i + 1 THEN {Nothing(k)} ELSE D[<<k, i + 1, j>>])
               C == {k \in Containers : s[i] = Opener(k) /\ s[j] = Closer(k)}
    <2>1. ASSUME i < j, NEW k \in Containers PROVE E(f, k) = E(g, k)
      <3>1. f[<<k, i + 1, j>>] = g[<<k, i + 1, j>>]
        BY <1>3, <2>1
      <3> QED
        BY <3>1, Zenon
    <2>2. i < j => UNION {E(f, k) : k \in C} = UNION {E(g, k) : k \in C}
      <3>1. C \subseteq Containers
        OBVIOUS
      <3> HIDE DEF C, E
      <3> QED
        BY <2>1, <3>1
    <2>3. Values(f, s, i, j) = Values(g, s, i, j)
      BY <2>2, Zenon DEF Values
    <2> QED
      BY <1>2, <1>5, <2>3, Zenon DEF PhraseRule
  <1> QED
    BY <1>4, <1>5

LEMMA SizeOfPhrase == \A x \in Phrases : Size(x) \in Nat
  BY DEF Phrases, Size

\* A function that is right for all phrases shorter than n.
UpTo(f, s, n) == \A x \in Phrases : Size(x) < n => f[x] = PhraseRule(f, s, x)

\* There is one for every n.
LEMMA UpToExists == \A s : \A n \in Nat : \E f : UpTo(f, s, n)
  <1> TAKE s
  <1> DEFINE P == {n \in Nat : \E f : UpTo(f, s, n)}
  <1>1. 0 \in P
    BY SizeOfPhrase DEF UpTo
  <1>2. ASSUME NEW n \in Nat, n \in P PROVE n + 1 \in P
    <2>1. PICK f : UpTo(f, s, n)
      BY <1>2
    <2> DEFINE g == [x \in Phrases |-> PhraseRule(f, s, x)]
    <2>2. ASSUME NEW x \in Phrases, Size(x) < n PROVE g[x] = f[x]
      BY <2>1, <2>2 DEF UpTo
    <2>3. ASSUME NEW x \in Phrases, Size(x) < n + 1 PROVE g[x] = PhraseRule(g, s, x)
      <3>1. \A r \in Phrases : Size(r) < Size(x) => f[r] = g[r]
        <4> SUFFICES ASSUME NEW r \in Phrases, Size(r) < Size(x) PROVE f[r] = g[r]
          OBVIOUS
        <4>1. Size(r) < n
          BY <2>3, SizeOfPhrase
        <4> QED
          BY <2>2, <4>1
      <3> HIDE DEF g
      <3>2. PhraseRule(f, s, x) = PhraseRule(g, s, x)
        BY <3>1, RuleIsNarrow
      <3>3. g[x] = PhraseRule(f, s, x)
        BY DEF g
      <3> QED
        BY <3>2, <3>3
    <2> HIDE DEF g
    <2>4. UpTo(g, s, n + 1)
      BY <2>3 DEF UpTo
    <2> QED
      BY <2>4
  <1> HIDE DEF P
  <1>3. Nat \subseteq P
    BY <1>1, <1>2, NumberInduction
  <1> QED
    BY <1>3 DEF P

\* Two such functions agree there.
LEMMA UpToAgree ==
    ASSUME NEW s, NEW f, NEW g, NEW m \in Nat, UpTo(f, s, m), UpTo(g, s, m)
    PROVE  \A x \in Phrases : Size(x) < m => f[x] = g[x]
  <1> DEFINE P == {n \in Nat : \A x \in Phrases : Size(x) < n /\ Size(x) < m => f[x] = g[x]}
  <1>1. 0 \in P
    BY SizeOfPhrase
  <1>2. ASSUME NEW n \in Nat, n \in P PROVE n + 1 \in P
    <2> SUFFICES ASSUME NEW x \in Phrases, Size(x) < n + 1, Size(x) < m PROVE f[x] = g[x]
      OBVIOUS
    <2>1. \A r \in Phrases : Size(r) < Size(x) => f[r] = g[r]
      BY <1>2, SizeOfPhrase
    <2>2. PhraseRule(f, s, x) = PhraseRule(g, s, x)
      BY <2>1, RuleIsNarrow
    <2> QED
      BY <2>2 DEF UpTo
  <1> HIDE DEF P
  <1>3. Nat \subseteq P
    BY <1>1, <1>2, NumberInduction
  <1> QED
    BY <1>3, SizeOfPhrase DEF P

\* The denotation of a text satisfies its own definition.
LEMMA DenotedRule == \A s : \A x \in Phrases : Denoted(s)[x] = PhraseRule(Denoted(s), s, x)
  <1> TAKE s
  <1> DEFINE F(n) == CHOOSE f : UpTo(f, s, n)
             g == [x \in Phrases |-> F(Size(x) + 1)[x]]
  <1>1. \A n \in Nat : UpTo(F(n), s, n)
    BY UpToExists
  <1> HIDE DEF F
  <1>2. ASSUME NEW x \in Phrases PROVE g[x] = PhraseRule(g, s, x)
    <2> DEFINE n == Size(x) + 1
    <2>1. n \in Nat /\ Size(x) < n
      BY SizeOfPhrase
    <2>2. \A r \in Phrases : Size(r) < Size(x) => F(n)[r] = g[r]
      <3> SUFFICES ASSUME NEW r \in Phrases, Size(r) < Size(x) PROVE F(n)[r] = g[r]
        OBVIOUS
      <3> DEFINE m == Size(r) + 1
      <3>1. m \in Nat /\ Size(r) < m /\ m < n /\ Size(r) \in Nat
        BY <2>1, SizeOfPhrase
      <3>2. g[r] = F(m)[r]
        OBVIOUS
      <3> HIDE DEF m, n
      <3>3. UpTo(F(m), s, m) /\ UpTo(F(n), s, n)
        BY <1>1, <2>1, <3>1
      <3>4. UpTo(F(n), s, m)
        BY <2>1, <3>1, <3>3, SizeOfPhrase DEF UpTo
      <3>5. F(n)[r] = F(m)[r]
        BY <3>1, <3>3, <3>4, UpToAgree
      <3> QED
        BY <3>2, <3>5
    <2>3. g[x] = F(n)[x]
      OBVIOUS
    <2> HIDE DEF g, n
    <2>4. PhraseRule(F(n), s, x) = PhraseRule(g, s, x)
      BY <2>2, RuleIsNarrow
    <2>5. F(n)[x] = PhraseRule(F(n), s, x)
      BY <1>1, <2>1 DEF UpTo
    <2> QED
      BY <2>3, <2>4, <2>5
  <1>3. g = [x \in Phrases |-> PhraseRule(g, s, x)]
    <2>1. g = [x \in Phrases |-> g[x]]
      OBVIOUS
    <2> HIDE DEF g
    <2> QED
      BY <1>2, <2>1
  <1> HIDE DEF g
  <1>4. Denoted(s) = [x \in Phrases |-> PhraseRule(Denoted(s), s, x)]
    BY <1>3, DenotedIs, Zenon
  <1> DEFINE D == Denoted(s)
  <1>5. D = [x \in Phrases |-> PhraseRule(D, s, x)]
    BY <1>4
  <1> HIDE DEF D
  <1>6. \A x \in Phrases : D[x] = PhraseRule(D, s, x)
    BY <1>5
  <1> QED
    BY <1>6 DEF D

-----------------------------------------------------------------------------
\* What tokens i to j of s denote, as a value and as elements.
ValueDocs(s, i, j)      == Denoted(s)[<<"value", i, j>>]
ElementDocs(s, k, i, j) == Denoted(s)[<<k, i, j>>]
IsComma(s, c) == s[c] = ","

LEMMA EndsOf == \A s, i, j, c : c \in Ends(s, i, j) <=> c \in i .. j /\ (c = j \/ IsComma(s, c))
  BY EndsAre, Zenon DEF IsComma

\* A comma is no bracket and no scalar.
LEMMA CommaIs ==
    ASSUME NEW s, NEW c, IsComma(s, c), NEW k
    PROVE  s[c] # Closer(k) /\ s[c] # Opener(k) /\ s[c] \notin Scalars
  <1>1. s[c] = ","
    BY DEF IsComma
  <1>2. "," # "]" /\ "," # "}" /\ "," # "[" /\ "," # "{" /\ "," # "k" /\ "," # "l" /\ "," # "v"
    OBVIOUS
  <1> QED
    BY <1>1, <1>2, Zenon DEF Closer, Opener, Scalars, Strings

LEMMA ContainersAre == \A k \in Containers : k # "value" /\ (k = "array" \/ k = "object")
  BY DEF Containers

\* y is an element that begins at i, joined with the others.
FirstAndOthers(s, k, i, j, y) ==
    /\ i < j /\ s[j] = Closer(k) /\ Begins(s, k, i)
    /\ \E c \in Ends(s, ValueAt(k, i) + 1, j) :
          \E v \in ValueDocs(s, ValueAt(k, i), c - 1) :
             \E z \in Others(Denoted(s), k, c, j) : y = Join(k, One(k, s[i], v), z)

\* The elements that begin at i, as the first of them and the others.
LEMMA ElementsAre ==
    ASSUME NEW s, NEW k \in Containers, NEW i \in Nat, NEW j \in Nat, NEW y
    PROVE  y \in ElementDocs(s, k, i, j) <=> FirstAndOthers(s, k, i, j, y)
  <1> DEFINE x == <<k, i, j>>
             D == Denoted(s)
  <1>1. x \in Phrases /\ x[1] # "value" /\ x[1] = k /\ x[2] = i /\ x[3] = j
    BY ContainersAre DEF Phrases
  <1> HIDE DEF x
  <1>2. D[x] = Elements(D, s, k, i, j)
    BY <1>1, DenotedRule, Zenon DEF PhraseRule
  <1>3. ElementDocs(s, k, i, j) = Elements(D, s, k, i, j)
    BY <1>2 DEF ElementDocs, x
  <1> HIDE DEF D
  <1>4. CASE i < j /\ s[j] = Closer(k) /\ Begins(s, k, i)
    <2> DEFINE J(c) == AllJoined(k, s[i], D[<<"value", ValueAt(k, i), c - 1>>], Others(D, k, c, j))
    <2>1. Elements(D, s, k, i, j) = UNION {J(c) : c \in Ends(s, ValueAt(k, i) + 1, j)}
      BY <1>4, Zenon DEF Elements
    <2>2. y \in Elements(D, s, k, i, j) <=> \E c \in Ends(s, ValueAt(k, i) + 1, j) : y \in J(c)
      <3> HIDE DEF J
      <3> QED
        BY <2>1, Zenon
    <2>3. \A c : y \in J(c) <=>
             \E v \in D[<<"value", ValueAt(k, i), c - 1>>] :
                \E z \in Others(D, k, c, j) : y = Join(k, One(k, s[i], v), z)
      <3> TAKE c
      <3> DEFINE A == D[<<"value", ValueAt(k, i), c - 1>>]
                 B == Others(D, k, c, j)
      <3> HIDE DEF A, B, D
      <3>1. y \in AllJoined(k, s[i], A, B) <=> \E v \in A : \E z \in B : y = Join(k, One(k, s[i], v), z)
        BY DEF AllJoined
      <3> QED
        BY <3>1 DEF A, B
    <2> HIDE DEF J
    <2> QED
      BY <1>3, <1>4, <2>2, <2>3, Zenon DEF ValueDocs, D, FirstAndOthers
  <1>5. CASE ~(i < j /\ s[j] = Closer(k) /\ Begins(s, k, i))
    <2>1. Elements(D, s, k, i, j) = {}
      BY <1>5, Zenon DEF Elements
    <2> QED
      BY <1>3, <1>5, <2>1, Zenon DEF FirstAndOthers
  <1> QED
    BY <1>4, <1>5, Zenon

LEMMA OthersAre ==
    ASSUME NEW s, NEW k, NEW c, NEW j
    PROVE  /\ c = j => Others(Denoted(s), k, c, j) = {Nothing(k)}
           /\ c # j => Others(Denoted(s), k, c, j) = ElementDocs(s, k, c + 1, j)
  BY Zenon DEF Others, ElementDocs

\* What may stand in the brackets i and j.
Inner(s, k, i, j) == IF j = i + 1 THEN {Nothing(k)} ELSE ElementDocs(s, k, i + 1, j)

\* What tokens i to j denote as a value.
LEMMA ValuesAre ==
    ASSUME NEW s, NEW i \in Nat, NEW j \in Nat, NEW d
    PROVE  d \in ValueDocs(s, i, j) <=>
           \/ i = j /\ s[i] \in Scalars /\ d = Scalar(s[i])
           \/ /\ i < j
              /\ \E k \in Containers :
                    /\ s[i] = Opener(k) /\ s[j] = Closer(k)
                    /\ \E y \in Inner(s, k, i, j) : d = Made(k, y)
  <1> DEFINE x == <<"value", i, j>>
             D == Denoted(s)
  <1>1. x \in Phrases /\ x[1] = "value" /\ x[2] = i /\ x[3] = j
    BY DEF Phrases
  <1> HIDE DEF x
  <1>2. D[x] = Values(D, s, i, j)
    BY <1>1, DenotedRule, Zenon DEF PhraseRule
  <1>3. ValueDocs(s, i, j) = Values(D, s, i, j)
    BY <1>2 DEF ValueDocs, x
  <1> HIDE DEF D
  <1>4. CASE i = j
    <2>1. Values(D, s, i, j) = {Scalar(t) : t \in {s[i]} \cap Scalars}
      BY <1>4, Zenon DEF Values
    <2>2. ~(i < j)
      BY <1>4
    <2> QED
      BY <1>3, <1>4, <2>1, <2>2, Zenon
  <1>5. CASE i < j
    <2>1. i # j
      BY <1>5
    <2> DEFINE C == {k \in Containers : s[i] = Opener(k) /\ s[j] = Closer(k)}
               Y(k) == IF j = i + 1 THEN {Nothing(k)} ELSE D[<<k, i + 1, j>>]
               M(k) == AllMade(k, Y(k))
    <2>2. Values(D, s, i, j) = UNION {M(k) : k \in C}
      BY <1>5, <2>1, Zenon DEF Values
    <2>3. \A k : d \in M(k) <=> \E y \in Y(k) : d = Made(k, y)
      <3> HIDE DEF Y
      <3> QED
        BY Zenon DEF AllMade
    <2>4. \A k : Y(k) = Inner(s, k, i, j)
      BY Zenon DEF Inner, ElementDocs, D
    <2>5. \A k : k \in C <=> k \in Containers /\ s[i] = Opener(k) /\ s[j] = Closer(k)
      BY Zenon
    <2> HIDE DEF C, M, Y
    <2>6. d \in Values(D, s, i, j) <=> \E k \in C : d \in M(k)
      BY <2>2, Zenon
    <2> QED
      BY <1>3, <1>5, <2>1, <2>3, <2>4, <2>5, <2>6, Zenon
  <1>6. CASE ~(i = j) /\ ~(i < j)
    <2>1. Values(D, s, i, j) = {}
      BY <1>6, Zenon DEF Values
    <2> QED
      BY <1>3, <1>6, <2>1, Zenon
  <1> QED
    BY <1>4, <1>5, <1>6, Zenon

-----------------------------------------------------------------------------
\* The tokens a phrase begins with.
Starters == Scalars \cup {"[", "{"}

\* A value begins with a scalar or an opening bracket.
LEMMA ValueBegins ==
    ASSUME NEW s, NEW i \in Nat, NEW j \in Nat, ValueDocs(s, i, j) # {}
    PROVE  i <= j /\ s[i] \in Starters
  <1>1. PICK d : d \in ValueDocs(s, i, j)
    OBVIOUS
  <1>2. \/ i = j /\ s[i] \in Scalars
        \/ i < j /\ \E k \in Containers : s[i] = Opener(k)
    BY <1>1, ValuesAre
  <1>3. \A k \in Containers : Opener(k) \in Starters
    BY DEF Opener, Starters
  <1>4. Scalars \subseteq Starters
    BY DEF Starters
  <1> QED
    BY <1>2, <1>3, <1>4

\* Elements begin with a value, and go on with a comma or end.
LEMMA ElementsBegin ==
    ASSUME NEW s, NEW k \in Containers, NEW i \in Nat, NEW j \in Nat, ElementDocs(s, k, i, j) # {}
    PROVE  /\ i < j /\ s[j] = Closer(k) /\ Begins(s, k, i)
           /\ \E c \in Nat : /\ ValueAt(k, i) < c /\ c <= j
                             /\ ValueDocs(s, ValueAt(k, i), c - 1) # {}
                             /\ \/ c = j
                                \/ c < j /\ IsComma(s, c) /\ ElementDocs(s, k, c + 1, j) # {}
  <1>1. PICK y : y \in ElementDocs(s, k, i, j)
    OBVIOUS
  <1> DEFINE a == ValueAt(k, i)
  <1>2. a \in Nat
    BY DEF ValueAt
  <1> HIDE DEF a
  <1>3. /\ i < j /\ s[j] = Closer(k) /\ Begins(s, k, i)
        /\ \E c \in Ends(s, a + 1, j) :
              \E v \in ValueDocs(s, a, c - 1) :
                 \E z \in Others(Denoted(s), k, c, j) : y = Join(k, One(k, s[i], v), z)
    <2>1. /\ i < j /\ s[j] = Closer(k) /\ Begins(s, k, i)
          /\ \E c \in Ends(s, ValueAt(k, i) + 1, j) :
                \E v \in ValueDocs(s, ValueAt(k, i), c - 1) :
                   \E z \in Others(Denoted(s), k, c, j) : y = Join(k, One(k, s[i], v), z)
      BY <1>1, ElementsAre DEF FirstAndOthers
    <2> QED
      BY <2>1 DEF a
  <1>4a. PICK c \in Ends(s, a + 1, j) :
             \E v \in ValueDocs(s, a, c - 1) : \E z \in Others(Denoted(s), k, c, j) : y = Join(k, One(k, s[i], v), z)
    BY <1>3, Zenon
  <1>4b. PICK v \in ValueDocs(s, a, c - 1) : \E z \in Others(Denoted(s), k, c, j) : y = Join(k, One(k, s[i], v), z)
    BY <1>4a, Zenon
  <1>4. PICK z \in Others(Denoted(s), k, c, j) : y = Join(k, One(k, s[i], v), z)
    BY <1>4b, Zenon
  <1>5. c \in a + 1 .. j /\ (c = j \/ IsComma(s, c))
    BY <1>4, EndsOf, Zenon
  <1>6. c # j => z \in ElementDocs(s, k, c + 1, j)
    <2>1. c # j => Others(Denoted(s), k, c, j) = ElementDocs(s, k, c + 1, j)
      BY ONLY OthersAre
    <2> QED
      BY <1>4, <2>1, Zenon
  <1>7. c \in Nat /\ a < c /\ c <= j /\ (c # j => c < j)
    BY <1>2, <1>5
  <1>8. ValueDocs(s, a, c - 1) # {} /\ (c # j => ElementDocs(s, k, c + 1, j) # {})
    BY <1>4, <1>6
  <1> QED
    BY <1>3, <1>5, <1>7, <1>8, Zenon DEF a

\* No phrase of one kind goes on where another one ends.
Phrase(s, kind, i, j) == IF kind = "value" THEN ValueDocs(s, i, j) ELSE ElementDocs(s, kind, i, j)

LEMMA OneEnd ==
    ASSUME NEW s, NEW kind \in Containers \cup {"value"},
           NEW i \in Nat, NEW j \in Nat, NEW jj \in Nat,
           Phrase(s, kind, i, j) # {}, Phrase(s, kind, i, jj) # {}
    PROVE  j = jj
  <1> DEFINE P == {n \in Nat : \A k \in Containers \cup {"value"}, a, b, bb \in Nat :
                      b < a + n /\ bb < a + n /\ Phrase(s, k, a, b) # {} /\ Phrase(s, k, a, bb) # {} => b = bb}
  <1>0. ASSUME NEW k \in Containers \cup {"value"}, NEW a \in Nat, NEW b \in Nat, Phrase(s, k, a, b) # {}
        PROVE  a <= b
    <2>1. CASE k = "value"
      BY <1>0, <2>1, ValueBegins DEF Phrase
    <2>2. CASE k # "value"
      <3>1. k \in Containers /\ ElementDocs(s, k, a, b) # {}
        BY <1>0, <2>2 DEF Phrase
      <3>2. a < b
        BY <3>1, ElementsBegin
      <3> QED
        BY <3>2
    <2> QED
      BY <2>1, <2>2
  <1>1. 0 \in P
    <2> SUFFICES ASSUME NEW k \in Containers \cup {"value"}, NEW a \in Nat, NEW b \in Nat,
                        b < a + 0, Phrase(s, k, a, b) # {}
                 PROVE  FALSE
      BY Zenon
    <2> QED
      BY <1>0
  <1>2. ASSUME NEW n \in Nat, n \in P PROVE n + 1 \in P
    <2> SUFFICES ASSUME NEW k \in Containers \cup {"value"}, NEW a \in Nat, NEW b \in Nat, NEW bb \in Nat,
                        b < a + (n + 1), bb < a + (n + 1), Phrase(s, k, a, b) # {}, Phrase(s, k, a, bb) # {}
                 PROVE  b = bb
      <3>1. n + 1 \in Nat
        OBVIOUS
      <3> QED
        BY <3>1, Zenon
    <2>1. ASSUME NEW q \in Containers \cup {"value"}, NEW x \in Nat, NEW y \in Nat, NEW yy \in Nat,
                 y < x + n, yy < x + n, Phrase(s, q, x, y) # {}, Phrase(s, q, x, yy) # {}
          PROVE  y = yy
      BY <1>2, <2>1, Zenon
    <2> HIDE DEF P
    <2>2. CASE k = "value"
      <3>1. ValueDocs(s, a, b) # {} /\ ValueDocs(s, a, bb) # {}
        BY <2>2 DEF Phrase
      <3>2. ASSUME NEW e \in Nat, ValueDocs(s, a, e) # {}
            PROVE  \/ e = a /\ s[a] \in Scalars
                   \/ /\ a < e
                      /\ \E q \in Containers : /\ s[a] = Opener(q) /\ s[e] = Closer(q)
                                               /\ e = a + 1 \/ ElementDocs(s, q, a + 1, e) # {}
        <4>1. PICK d : d \in ValueDocs(s, a, e)
          BY <3>2
        <4>2. ASSUME NEW q \in Containers, NEW y \in Inner(s, q, a, e)
              PROVE  e = a + 1 \/ ElementDocs(s, q, a + 1, e) # {}
          BY <4>2 DEF Inner
        <4>3. \/ e = a /\ s[a] \in Scalars
              \/ a < e /\ \E q \in Containers : /\ s[a] = Opener(q) /\ s[e] = Closer(q)
                                                /\ \E y \in Inner(s, q, a, e) : d = Made(q, y)
          BY <4>1, ValuesAre
        <4> QED
          BY <4>2, <4>3, Zenon
      <3>3. \A q \in Containers : Opener(q) \notin Scalars
        BY DEF Opener, Scalars, Strings
      <3>4. CASE s[a] \in Scalars
        BY <3>1, <3>2, <3>3, <3>4, Zenon
      <3>5. CASE s[a] \notin Scalars
        <4>1. PICK q \in Containers : /\ a < b /\ s[a] = Opener(q) /\ s[b] = Closer(q)
                                      /\ b = a + 1 \/ ElementDocs(s, q, a + 1, b) # {}
          BY <3>1, <3>2, <3>5, Zenon
        <4>2. PICK r \in Containers : /\ a < bb /\ s[a] = Opener(r) /\ s[bb] = Closer(r)
                                      /\ bb = a + 1 \/ ElementDocs(s, r, a + 1, bb) # {}
          BY <3>1, <3>2, <3>5, Zenon
        <4>3. q = r
          BY <4>1, <4>2, ContainersAre DEF Opener
        <4>4. ASSUME NEW e \in Nat, ElementDocs(s, q, a + 1, e) # {} PROVE s[a + 1] # Closer(q)
          <5>0. a + 1 \in Nat
            OBVIOUS
          <5>1. Begins(s, q, a + 1) /\ \E c \in Nat : ValueDocs(s, ValueAt(q, a + 1), c - 1) # {} /\ ValueAt(q, a + 1) < c
            <6> DEFINE x == a + 1
            <6> HIDE DEF x
            <6>1. x \in Nat /\ ElementDocs(s, q, x, e) # {}
              BY <4>4, <5>0 DEF x
            <6>2. Begins(s, q, x) /\ \E c \in Nat : ValueDocs(s, ValueAt(q, x), c - 1) # {} /\ ValueAt(q, x) < c
              <7>1. Begins(s, q, x)
                BY <6>1, ElementsBegin
              <7>2. \E c \in Nat : ValueAt(q, x) < c /\ ValueDocs(s, ValueAt(q, x), c - 1) # {}
                <8>1. PICK c \in Nat : /\ ValueAt(q, x) < c /\ c <= e
                                       /\ ValueDocs(s, ValueAt(q, x), c - 1) # {}
                                       /\ \/ c = e
                                          \/ c < e /\ IsComma(s, c) /\ ElementDocs(s, q, c + 1, e) # {}
                  BY <6>1, ElementsBegin, ZenonT(60)
                <8> QED
                  BY <8>1
              <7> QED
                BY <7>1, <7>2
            <6> QED
              BY <6>2 DEF x
          <5>2. CASE q = "array"
            <6>1. PICK c \in Nat : ValueDocs(s, a + 1, c - 1) # {} /\ a + 1 < c
              BY <5>1, <5>2 DEF ValueAt
            <6>2. a + 1 \in Nat /\ c - 1 \in Nat
              BY <6>1
            <6>3. s[a + 1] \in Starters
              BY <6>1, <6>2, ValueBegins
            <6> QED
              BY <5>2, <6>3 DEF Closer, Starters, Scalars, Strings
          <5>3. CASE q = "object"
            BY <5>1, <5>3 DEF Begins, Closer, Strings
          <5> QED
            BY <5>2, <5>3, ContainersAre
        <4>5. CASE b = a + 1 \/ bb = a + 1
          BY <4>1, <4>2, <4>3, <4>4, <4>5
        <4>6. CASE b # a + 1 /\ bb # a + 1
          <5>1. Phrase(s, q, a + 1, b) # {} /\ Phrase(s, q, a + 1, bb) # {}
            BY <4>1, <4>2, <4>3, <4>6, ContainersAre DEF Phrase
          <5> QED
            BY <2>1, <5>1
        <4> QED
          BY <4>5, <4>6
      <3> QED
        BY <3>4, <3>5
    <2>3. CASE k # "value"
      <3>0. k \in Containers
        BY <2>3
      <3> DEFINE v == ValueAt(k, a)
      <3>1. v \in Nat /\ v >= a
        BY DEF ValueAt
      <3> HIDE DEF v
      <3>2. PICK c \in Nat : /\ v < c /\ c <= b /\ ValueDocs(s, v, c - 1) # {} /\ s[b] = Closer(k)
                             /\ c = b \/ (c < b /\ IsComma(s, c) /\ ElementDocs(s, k, c + 1, b) # {})
        BY <2>3, <3>0, ElementsBegin DEF Phrase, v
      <3>3. PICK cc \in Nat : /\ v < cc /\ cc <= bb /\ ValueDocs(s, v, cc - 1) # {} /\ s[bb] = Closer(k)
                              /\ cc = bb \/ (cc < bb /\ IsComma(s, cc) /\ ElementDocs(s, k, cc + 1, bb) # {})
        BY <2>3, <3>0, ElementsBegin DEF Phrase, v
      <3>4. c = cc
        <4>1. c - 1 \in Nat /\ cc - 1 \in Nat /\ c - 1 < v + n /\ cc - 1 < v + n
          BY <3>1, <3>2, <3>3
        <4>2. Phrase(s, "value", v, c - 1) # {} /\ Phrase(s, "value", v, cc - 1) # {}
          BY <3>2, <3>3 DEF Phrase
        <4>3. c - 1 = cc - 1
          BY <2>1, <3>1, <4>1, <4>2
        <4> QED
          BY <4>3
      <3>5. CASE c = b
        <4>1. ~IsComma(s, cc)
          BY <3>2, <3>4, <3>5, CommaIs
        <4> QED
          BY <3>3, <3>4, <3>5, <4>1
      <3>6. CASE c # b
        <4>1. cc # bb
          BY <3>2, <3>3, <3>4, <3>6, CommaIs
        <4>2. Phrase(s, k, c + 1, b) # {} /\ Phrase(s, k, c + 1, bb) # {}
          BY <2>3, <3>2, <3>3, <3>4, <3>6, <4>1 DEF Phrase
        <4>3. c + 1 \in Nat /\ b < c + 1 + n /\ bb < c + 1 + n
          BY <3>1, <3>2, <3>3, <3>4
        <4> QED
          BY <2>1, <4>2, <4>3
      <3> QED
        BY <3>5, <3>6
    <2> QED
      BY <2>2, <2>3
  <1> HIDE DEF P
  <1>3. Nat \subseteq P
    BY <1>1, <1>2, NumberInduction
  <1>4. j + jj + 1 \in P /\ j < i + (j + jj + 1) /\ jj < i + (j + jj + 1)
    BY <1>3
  <1> QED
    BY <1>4, Zenon DEF P

\* No value goes on where another one ends: the grammar is free of prefixes.
LEMMA OneValueEnd ==
    ASSUME NEW s, NEW i \in Nat, NEW j \in Nat, NEW jj \in Nat,
           ValueDocs(s, i, j) # {}, ValueDocs(s, i, jj) # {}
    PROVE  j = jj
  BY OneEnd DEF Phrase

-----------------------------------------------------------------------------
\* Sequences and functions, of which containers are made.
Partial(k, x) == IF k = "array" THEN \E S : x \in Seq(S) ELSE x = [m \in DOMAIN x |-> x[m]]

\* The members of f and of g, those of f where a key is in both.
Merge(f, g) == Join("object", g, f)

IsMerge(h, f, g) ==
    /\ h = [m \in DOMAIN h |-> h[m]]
    /\ DOMAIN h = DOMAIN f \cup DOMAIN g
    /\ \A m \in DOMAIN f : h[m] = f[m]
    /\ \A m \in DOMAIN g : m \notin DOMAIN f => h[m] = g[m]

LEMMA MergeIs == \A f, g : IsMerge(Merge(f, g), f, g)
  BY DEF Merge, Join, IsMerge

LEMMA SameFunction ==
    ASSUME NEW f, NEW g, f = [m \in DOMAIN f |-> f[m]], g = [m \in DOMAIN g |-> g[m]],
           DOMAIN f = DOMAIN g, \A m \in DOMAIN f : f[m] = g[m]
    PROVE  f = g
  OBVIOUS

\* Of members with one key the last counts, however they are joined.
LEMMA MergeAssoc == \A f, g, h : Merge(f, Merge(g, h)) = Merge(Merge(f, g), h)
  <1> TAKE f, g, h
  <1> DEFINE a == Merge(f, Merge(g, h))
             b == Merge(Merge(f, g), h)
             gh == Merge(g, h)
             fg == Merge(f, g)
  <1>1. IsMerge(a, f, gh) /\ IsMerge(b, fg, h) /\ IsMerge(gh, g, h) /\ IsMerge(fg, f, g)
    BY MergeIs
  <1> HIDE DEF a, b, gh, fg
  <1>4. DOMAIN a = DOMAIN b
    BY <1>1 DEF IsMerge
  <1>5. \A m \in DOMAIN a : a[m] = b[m]
    BY <1>1 DEF IsMerge
  <1>6. a = b
    BY <1>1, <1>4, <1>5, SameFunction, Zenon DEF IsMerge
  <1> QED
    BY <1>6 DEF a, b

LEMMA MergeNothing == ASSUME NEW f, f = [m \in DOMAIN f |-> f[m]] PROVE Merge(f, Nothing("object")) = f
  <1> DEFINE e == Nothing("object")
             a == Merge(f, e)
  <1>1. DOMAIN e = {}
    BY DEF Nothing
  <1> HIDE DEF e
  <1>2. IsMerge(a, f, e)
    BY MergeIs
  <1> HIDE DEF a
  <1>3. DOMAIN a = DOMAIN f
    BY <1>1, <1>2 DEF IsMerge
  <1>4. a = f
    BY <1>2, <1>3, SameFunction, Zenon DEF IsMerge
  <1> QED
    BY <1>4 DEF a, e

\* Elements can be joined from either end.
LEMMA JoinAssoc ==
    ASSUME NEW k \in Containers, NEW x, NEW z, NEW t, NEW v, Partial(k, x), Partial(k, z)
    PROVE  Join(k, x, Join(k, One(k, t, v), z)) = Join(k, Join(k, x, One(k, t, v)), z)
  <1>1. CASE k = "array"
    <2>1. PICK S : x \in Seq(S)
      BY <1>1 DEF Partial
    <2>2. PICK R : z \in Seq(R)
      BY <1>1 DEF Partial
    <2> DEFINE U == S \cup R \cup {v}
    <2>3. x \in Seq(U) /\ z \in Seq(U) /\ <<v>> \in Seq(U)
      <3>1. S \subseteq U /\ R \subseteq U /\ v \in U
        OBVIOUS
      <3> HIDE DEF U
      <3> QED
        BY <2>1, <2>2, <3>1
    <2> HIDE DEF U
    <2>4. x \o (<<v>> \o z) = (x \o <<v>>) \o z
      BY <2>3, ConcatAssociative
    <2> QED
      BY <1>1, <2>4 DEF Join, One
  <1>2. CASE k # "array"
    <2> DEFINE o == One(k, t, v)
    <2>1. k = "object"
      BY <1>2, ContainersAre
    <2>2. Merge(Merge(z, o), x) = Merge(z, Merge(o, x))
      BY MergeAssoc
    <2> QED
      BY <2>1, <2>2, Zenon DEF Merge
  <1> QED
    BY <1>1, <1>2

LEMMA JoinNothing ==
    ASSUME NEW k \in Containers, NEW z, Partial(k, z)
    PROVE  Join(k, Nothing(k), z) = z
  <1>1. CASE k = "array"
    <2>1. PICK S : z \in Seq(S)
      BY <1>1 DEF Partial
    <2>2. <<>> \o z = z
      BY <2>1
    <2> QED
      BY <1>1, <2>2 DEF Join, Nothing
  <1>2. CASE k # "array"
    <2>1. k = "object" /\ z = [m \in DOMAIN z |-> z[m]]
      BY <1>2, ContainersAre DEF Partial
    <2>2. Merge(z, Nothing("object")) = z
      BY <2>1, MergeNothing, Zenon
    <2> QED
      BY <2>1, <2>2, Zenon DEF Merge
  <1> QED
    BY <1>1, <1>2

\* What Nothing, One and Join give is what a container is made of.
LEMMA PartialNothing == \A k \in Containers : Partial(k, Nothing(k))
  <1> TAKE k \in Containers
  <1>1. CASE k = "array"
    <2>1. <<>> \in Seq({})
      OBVIOUS
    <2> QED
      BY <1>1, <2>1 DEF Partial, Nothing
  <1>2. CASE k # "array"
    <2> DEFINE e == [m \in {} |-> 0]
    <2>1. e = [m \in DOMAIN e |-> e[m]]
      OBVIOUS
    <2>2. Nothing(k) = e
      BY <1>2 DEF Nothing
    <2> HIDE DEF e
    <2> QED
      BY <1>2, <2>1, <2>2, Zenon DEF Partial
  <1> QED
    BY <1>1, <1>2

LEMMA PartialOne == \A k \in Containers : \A t, v : Partial(k, One(k, t, v))
  <1> TAKE k \in Containers
  <1> TAKE t, v
  <1>1. CASE k = "array"
    <2>1. <<v>> \in Seq({v})
      OBVIOUS
    <2> QED
      BY <1>1, <2>1 DEF Partial, One
  <1>2. CASE k # "array"
    <2> DEFINE o == [m \in {t} |-> v]
    <2>1. o = [m \in DOMAIN o |-> o[m]]
      OBVIOUS
    <2>2. One(k, t, v) = o
      BY <1>2 DEF One
    <2> HIDE DEF o
    <2> QED
      BY <1>2, <2>1, <2>2, Zenon DEF Partial
  <1> QED
    BY <1>1, <1>2

LEMMA PartialJoin ==
    ASSUME NEW k \in Containers, NEW x, NEW y, Partial(k, x), Partial(k, y)
    PROVE  Partial(k, Join(k, x, y))
  <1>1. CASE k = "array"
    <2>1. PICK S : x \in Seq(S)
      BY <1>1 DEF Partial
    <2>2. PICK R : y \in Seq(R)
      BY <1>1 DEF Partial
    <2>3. x \o y \in Seq(S \cup R)
      <3>1. S \subseteq S \cup R /\ R \subseteq S \cup R
        OBVIOUS
      <3> DEFINE U == S \cup R
      <3> HIDE DEF U
      <3>2. x \in Seq(U) /\ y \in Seq(U)
        BY <2>1, <2>2, <3>1 DEF U
      <3>3. x \o y \in Seq(U)
        BY <3>2
      <3> QED
        BY <3>3 DEF U
    <2> QED
      BY <1>1, <2>3 DEF Partial, Join
  <1>2. CASE k # "array"
    <2>1. Merge(y, x) = [m \in DOMAIN Merge(y, x) |-> Merge(y, x)[m]]
      BY MergeIs DEF IsMerge
    <2>2. k = "object"
      BY <1>2, ContainersAre
    <2> QED
      BY <1>2, <2>1, <2>2, Zenon DEF Partial, Merge
  <1> QED
    BY <1>1, <1>2

\* What elements denote is a sequence, or a function.
LEMMA ElementDocsPartial ==
    ASSUME NEW s, NEW k \in Containers
    PROVE  \A i, j \in Nat : \A y \in ElementDocs(s, k, i, j) : Partial(k, y)
  <1> DEFINE P == {n \in Nat : \A i, j \in Nat : j < i + n => \A y \in ElementDocs(s, k, i, j) : Partial(k, y)}
  <1>1. 0 \in P
    <2> SUFFICES ASSUME NEW i \in Nat, NEW j \in Nat, j < i + 0, NEW y \in ElementDocs(s, k, i, j) PROVE FALSE
      BY Zenon
    <2>1. i < j
      BY ElementsBegin
    <2> QED
      BY <2>1
  <1>2. ASSUME NEW n \in Nat, n \in P PROVE n + 1 \in P
    <2>0. n + 1 \in Nat
      OBVIOUS
    <2> SUFFICES ASSUME NEW i \in Nat, NEW j \in Nat, j < i + (n + 1), NEW y \in ElementDocs(s, k, i, j)
                 PROVE  Partial(k, y)
      BY <2>0, Zenon
    <2>1. \A a, b \in Nat : b < a + n => \A z \in ElementDocs(s, k, a, b) : Partial(k, z)
      BY <1>2
    <2> HIDE DEF P
    <2> DEFINE a == ValueAt(k, i)
    <2>2. a \in Nat /\ a >= i
      BY DEF ValueAt
    <2>3. \E c \in Ends(s, a + 1, j) :
             \E v \in ValueDocs(s, a, c - 1) :
                \E z \in Others(Denoted(s), k, c, j) : y = Join(k, One(k, s[i], v), z)
      <3>1. /\ i < j /\ s[j] = Closer(k) /\ Begins(s, k, i)
            /\ \E c \in Ends(s, ValueAt(k, i) + 1, j) :
                  \E v \in ValueDocs(s, ValueAt(k, i), c - 1) :
                     \E z \in Others(Denoted(s), k, c, j) : y = Join(k, One(k, s[i], v), z)
        BY ElementsAre DEF FirstAndOthers
      <3> QED
        BY <3>1
    <2> HIDE DEF a
    <2>4. PICK c \in Ends(s, a + 1, j) :
             \E v \in ValueDocs(s, a, c - 1) :
                \E z \in Others(Denoted(s), k, c, j) : y = Join(k, One(k, s[i], v), z)
      BY <2>3, Zenon
    <2>5. PICK v \in ValueDocs(s, a, c - 1) :
                \E z \in Others(Denoted(s), k, c, j) : y = Join(k, One(k, s[i], v), z)
      BY <2>4, Zenon
    <2>6. PICK z \in Others(Denoted(s), k, c, j) : y = Join(k, One(k, s[i], v), z)
      BY <2>5, Zenon
    <2>7. c \in a + 1 .. j
      BY <2>4, EndsOf, Zenon
    <2>8. Partial(k, z)
      <3>1. CASE c = j
        <4>1. Others(Denoted(s), k, c, j) = {Nothing(k)}
          BY <3>1, OthersAre
        <4>2. z = Nothing(k)
          BY <4>1
        <4> QED
          BY <4>2, PartialNothing
      <3>2. CASE c # j
        <4>1. Others(Denoted(s), k, c, j) = ElementDocs(s, k, c + 1, j)
          BY <3>2, OthersAre
        <4>2. c + 1 \in Nat /\ j < (c + 1) + n
          BY <2>2, <2>7
        <4>3. z \in ElementDocs(s, k, c + 1, j)
          BY <4>1
        <4> QED
          BY <2>1, <4>2, <4>3, Zenon
      <3> QED
        BY <3>1, <3>2
    <2> QED
      BY <2>6, <2>8, PartialOne, PartialJoin
  <1> HIDE DEF P
  <1>3. Nat \subseteq P
    BY <1>1, <1>2, NumberInduction
  <1>4. ASSUME NEW i \in Nat, NEW j \in Nat, NEW y \in ElementDocs(s, k, i, j) PROVE Partial(k, y)
    <2>1. j + 1 \in P /\ j < i + (j + 1)
      BY <1>3
    <2> QED
      BY <2>1, Zenon DEF P
  <1> QED
    BY <1>4

-----------------------------------------------------------------------------
\* What follows the first of the elements says what they are.
After(s, k, q, m) ==
    q \in Nat /\ m \in Nat /\ ValueAt(k, q) <= m /\ Begins(s, k, q)

ElementEnds(s, k, q, m, d) == After(s, k, q, m) /\ ValueDocs(s, ValueAt(k, q), m) = {d}
FirstThen(s, k, q, m, d, b, y) ==
    /\ q < b /\ s[b] = Closer(k) /\ m + 1 <= b
    /\ \/ m + 1 = b /\ y = Join(k, One(k, s[q], d), Nothing(k))
       \/ /\ m + 1 # b /\ IsComma(s, m + 1)
          /\ \E z \in ElementDocs(s, k, m + 2, b) : y = Join(k, One(k, s[q], d), z)

\* Once the value of the first element is known, the others decide.
LEMMA FirstOfElements ==
    ASSUME NEW s, NEW k \in Containers, NEW q \in Nat, NEW m \in Nat, NEW d,
           ElementEnds(s, k, q, m, d), NEW b \in Nat, NEW y
    PROVE  y \in ElementDocs(s, k, q, b) <=> FirstThen(s, k, q, m, d, b, y)
  <1> DEFINE a == ValueAt(k, q)
             E == Ends(s, a + 1, b)
             O(c) == Others(Denoted(s), k, c, b)
  <1>0. a \in Nat /\ a <= m /\ Begins(s, k, q)
    BY DEF ElementEnds, After, ValueAt
  <1>1. y \in ElementDocs(s, k, q, b) <=>
           /\ q < b /\ s[b] = Closer(k) /\ Begins(s, k, q)
           /\ \E c \in E : \E v \in ValueDocs(s, a, c - 1) : \E z \in O(c) : y = Join(k, One(k, s[q], v), z)
    <2>1. y \in ElementDocs(s, k, q, b) <=>
           /\ q < b /\ s[b] = Closer(k) /\ Begins(s, k, q)
           /\ \E c \in Ends(s, ValueAt(k, q) + 1, b) :
                 \E v \in ValueDocs(s, ValueAt(k, q), c - 1) :
                    \E z \in Others(Denoted(s), k, c, b) : y = Join(k, One(k, s[q], v), z)
      <3>1. y \in ElementDocs(s, k, q, b) <=> FirstAndOthers(s, k, q, b, y)
        BY ElementsAre
      <3> QED
        BY <3>1 DEF FirstAndOthers
    <2> QED
      BY <2>1
  <1>2. \A c : c \in E <=> c \in a + 1 .. b /\ (c = b \/ IsComma(s, c))
    BY EndsOf
  <1>3. ASSUME NEW c \in E, NEW v \in ValueDocs(s, a, c - 1) PROVE c = m + 1 /\ v = d
    <2>1. c \in a + 1 .. b
      BY <1>2
    <2> HIDE DEF E, O, a
    <2>2. c - 1 \in Nat /\ ValueDocs(s, a, c - 1) # {}
      BY <1>0, <1>3, <2>1
    <2>3. ValueDocs(s, a, m) = {d}
      BY DEF a, ElementEnds
    <2>4. c - 1 = m
      BY <1>0, <2>2, <2>3, OneValueEnd
    <2> QED
      BY <2>1, <2>3, <2>4, <1>0
  <1>4. m + 1 - 1 = m /\ d \in ValueDocs(s, a, m) /\ (m + 1) + 1 = m + 2
    BY DEF ElementEnds
  <1>5. m + 1 \in E <=> m + 1 <= b /\ (m + 1 = b \/ IsComma(s, m + 1))
    <2> HIDE DEF a, E
    <2>1. m + 1 \in a + 1 .. b <=> m + 1 <= b
      BY <1>0
    <2> QED
      BY <1>2, <2>1
  <1>6. m + 1 = b => O(m + 1) = {Nothing(k)}
    BY OthersAre
  <1>7. m + 1 # b => O(m + 1) = ElementDocs(s, k, m + 2, b)
    BY <1>4, OthersAre
  <1> HIDE DEF E, O, a
  <1>8. (\E c \in E : \E v \in ValueDocs(s, a, c - 1) : \E z \in O(c) : y = Join(k, One(k, s[q], v), z))
           <=> m + 1 \in E /\ \E z \in O(m + 1) : y = Join(k, One(k, s[q], d), z)
    <2>1. ASSUME NEW c \in E, NEW v \in ValueDocs(s, a, c - 1), NEW z \in O(c), y = Join(k, One(k, s[q], v), z)
          PROVE  m + 1 \in E /\ \E zz \in O(m + 1) : y = Join(k, One(k, s[q], d), zz)
      <3>1. c = m + 1 /\ v = d
        BY <1>3
      <3> QED
        BY <2>1, <3>1
    <2>2. ASSUME m + 1 \in E, NEW z \in O(m + 1), y = Join(k, One(k, s[q], d), z)
          PROVE  \E c \in E : \E v \in ValueDocs(s, a, c - 1) : \E zz \in O(c) : y = Join(k, One(k, s[q], v), zz)
      <3>1. d \in ValueDocs(s, a, (m + 1) - 1)
        BY <1>4
      <3> DEFINE c == m + 1
      <3>2. c \in E /\ d \in ValueDocs(s, a, c - 1) /\ z \in O(c)
        BY <2>2, <3>1
      <3> HIDE DEF c
      <3> QED
        BY <2>2, <3>2
    <2> QED
      BY <2>1, <2>2, Zenon
  <1>9. ASSUME m + 1 = b
        PROVE  y \in ElementDocs(s, k, q, b) <=>
               q < b /\ s[b] = Closer(k) /\ m + 1 <= b /\ y = Join(k, One(k, s[q], d), Nothing(k))
    BY <1>0, <1>1, <1>5, <1>6, <1>8, <1>9
  <1>10. ASSUME m + 1 # b
         PROVE  y \in ElementDocs(s, k, q, b) <=>
                /\ q < b /\ s[b] = Closer(k) /\ m + 1 <= b /\ IsComma(s, m + 1)
                /\ \E z \in ElementDocs(s, k, m + 2, b) : y = Join(k, One(k, s[q], d), z)
    BY <1>0, <1>1, <1>5, <1>7, <1>8, <1>10, Zenon
  <1> QED
    BY <1>9, <1>10, Zenon DEF FirstThen

-----------------------------------------------------------------------------
(***************************************************************************)
(* The documents below the nodes of a heap.                                *)
(***************************************************************************)
\* The references a node holds.
Parts(v) == IF v.kind = "array" THEN v.items ELSE IF v.kind = "object" THEN v.members ELSE <<>>

\* Every reference leads to a later node, and no two lead to one node.
Forward(h) == \A n \in 1 .. Len(h) : \A x \in DOMAIN Parts(h[n]) : Parts(h[n])[x] \in n + 1 .. Len(h)
Single(h)  == \A m, n \in 1 .. Len(h) : \A x \in DOMAIN Parts(h[m]), y \in DOMAIN Parts(h[n]) :
                 Parts(h[m])[x] = Parts(h[n])[y] => m = n /\ x = y
Heap(h) == h \in Seq(Node) /\ Forward(h) /\ Single(h)

TreeRule(T, v) ==
    IF v.kind = "array" THEN [kind |-> "array", items |-> [i \in DOMAIN v.items |-> T[v.items[i]]]]
    ELSE IF v.kind = "object"
    THEN [kind |-> "object", members |-> [k \in DOMAIN v.members |-> T[v.members[k]]]]
    ELSE v
TreeOf(h) == CHOOSE T : T = [n \in DOMAIN h |-> TreeRule(T, h[n])]

\* The document of the model is that of its heap.
LEMMA TreeIs == Tree = TreeOf(heap)
  BY Zenon DEF Tree, TreeOf, TreeRule

LEMMA TreeIsNarrow ==
    ASSUME NEW T, NEW U, NEW v, \A x \in DOMAIN Parts(v) : T[Parts(v)[x]] = U[Parts(v)[x]]
    PROVE  TreeRule(T, v) = TreeRule(U, v)
  <1>1. CASE v.kind = "array"
    <2>1. Parts(v) = v.items
      BY <1>1 DEF Parts
    <2> DEFINE s == v.items
    <2>2. [i \in DOMAIN s |-> T[s[i]]] = [i \in DOMAIN s |-> U[s[i]]]
      <3> HIDE DEF s
      <3>1. \A i \in DOMAIN s : T[s[i]] = U[s[i]]
        BY <2>1 DEF s
      <3> QED
        BY <3>1
    <2> QED
      BY <1>1, <2>2, Zenon DEF TreeRule
  <1>2. CASE v.kind # "array" /\ v.kind = "object"
    <2>1. Parts(v) = v.members
      BY <1>2 DEF Parts
    <2> DEFINE s == v.members
    <2>2. [i \in DOMAIN s |-> T[s[i]]] = [i \in DOMAIN s |-> U[s[i]]]
      <3> HIDE DEF s
      <3>1. \A i \in DOMAIN s : T[s[i]] = U[s[i]]
        BY <2>1 DEF s
      <3> QED
        BY <3>1
    <2> QED
      BY <1>2, <2>2, Zenon DEF TreeRule
  <1>3. CASE v.kind # "array" /\ v.kind # "object"
    BY <1>3, Zenon DEF TreeRule
  <1> QED
    BY <1>1, <1>2, <1>3

\* In a heap whose references lead forward every node has its document.
LEMMA TreeExists ==
    ASSUME NEW h, Heap(h)
    PROVE  \A n \in 1 .. Len(h) : TreeOf(h)[n] = TreeRule(TreeOf(h), h[n])
  <1> DEFINE L == Len(h)
             P == {m \in Nat : \E T : \A n \in 1 .. L : n + m > L => T[n] = TreeRule(T, h[n])}
  <1>1. L \in Nat /\ DOMAIN h = 1 .. L
    BY DEF Heap
  <1>2. 0 \in P
    BY <1>1
  <1>3. ASSUME NEW m \in Nat, m \in P PROVE m + 1 \in P
    <2>1. PICK T : \A n \in 1 .. L : n + m > L => T[n] = TreeRule(T, h[n])
      BY <1>3
    <2> DEFINE U == [n \in 1 .. L |-> TreeRule(T, h[n])]
    <2>2. \A n \in 1 .. L : n + m > L => U[n] = T[n]
      BY <2>1
    <2>3. ASSUME NEW n \in 1 .. L, n + (m + 1) > L PROVE U[n] = TreeRule(U, h[n])
      <3>1. U[n] = TreeRule(T, h[n])
        OBVIOUS
      <3>2. \A x \in DOMAIN Parts(h[n]) : Parts(h[n])[x] \in n + 1 .. L
        BY DEF Heap, Forward
      <3>3. \A c \in n + 1 .. L : c \in 1 .. L /\ c + m > L
        BY <1>1, <2>3
      <3> HIDE DEF U
      <3>4. \A x \in DOMAIN Parts(h[n]) : T[Parts(h[n])[x]] = U[Parts(h[n])[x]]
        BY <2>2, <3>2, <3>3
      <3>5. TreeRule(T, h[n]) = TreeRule(U, h[n])
        BY <3>4, TreeIsNarrow
      <3> QED
        BY <3>1, <3>5
    <2> HIDE DEF U
    <2> QED
      BY <2>3
  <1> HIDE DEF P
  <1>4. Nat \subseteq P
    BY <1>2, <1>3, NumberInduction
  <1>5. L \in P
    BY <1>1, <1>4
  <1>6. PICK T : \A n \in 1 .. L : n + L > L => T[n] = TreeRule(T, h[n])
    BY <1>5 DEF P
  <1>7. \A n \in 1 .. L : T[n] = TreeRule(T, h[n])
    BY <1>1, <1>6
  <1> DEFINE G == [n \in DOMAIN h |-> T[n]]
  <1>8. ASSUME NEW n \in DOMAIN h PROVE G[n] = TreeRule(G, h[n])
    <2>1. n \in 1 .. L /\ G[n] = T[n]
      BY <1>1
    <2>2. \A x \in DOMAIN Parts(h[n]) : Parts(h[n])[x] \in DOMAIN h
      <3>1. \A x \in DOMAIN Parts(h[n]) : Parts(h[n])[x] \in n + 1 .. L
        BY <2>1 DEF Heap, Forward
      <3> QED
        BY <1>1, <2>1, <3>1
    <2>3. \A x \in DOMAIN Parts(h[n]) : T[Parts(h[n])[x]] = G[Parts(h[n])[x]]
      BY <2>2
    <2> HIDE DEF G
    <2>4. TreeRule(T, h[n]) = TreeRule(G, h[n])
      BY <2>3, TreeIsNarrow
    <2> QED
      BY <1>7, <2>1, <2>4
  <1>9. G = [n \in DOMAIN h |-> TreeRule(G, h[n])]
    <2>1. G = [n \in DOMAIN h |-> G[n]]
      OBVIOUS
    <2> HIDE DEF G
    <2> QED
      BY <1>8, <2>1
  <1> HIDE DEF G
  <1>10. TreeOf(h) = [n \in DOMAIN h |-> TreeRule(TreeOf(h), h[n])]
    BY <1>9, Zenon DEF TreeOf
  <1> DEFINE W == TreeOf(h)
  <1>11. W = [n \in DOMAIN h |-> TreeRule(W, h[n])]
    BY <1>10
  <1> HIDE DEF W
  <1>12. \A n \in DOMAIN h : W[n] = TreeRule(W, h[n])
    BY <1>11
  <1> QED
    BY <1>1, <1>12 DEF W

SameTrees(g, h, S) == \A n \in S : TreeOf(g)[n] = TreeOf(h)[n]
Kept(g, h, S) ==
    /\ S \subseteq 1 .. Len(h) /\ S \subseteq 1 .. Len(g)
    /\ \A n \in S : g[n] = h[n] /\ \A x \in DOMAIN Parts(h[n]) : Parts(h[n])[x] \in S

\* Nodes that stay as they are, with all that is below them, keep their documents.
LEMMA TreesStay ==
    ASSUME NEW h, NEW g, Heap(h), Heap(g), NEW S, Kept(g, h, S)
    PROVE  SameTrees(g, h, S)
  <1> USE DEF Kept
  <1> SUFFICES \A n \in S : TreeOf(g)[n] = TreeOf(h)[n]
    BY DEF SameTrees
  <1> DEFINE L == Len(h)
             P == {m \in Nat : \A n \in S : n + m > L => TreeOf(g)[n] = TreeOf(h)[n]}
  <1>1. L \in Nat
    BY DEF Heap
  <1>2. 0 \in P
    BY <1>1
  <1>3. ASSUME NEW m \in Nat, m \in P PROVE m + 1 \in P
    <2> SUFFICES ASSUME NEW n \in S, n + (m + 1) > L PROVE TreeOf(g)[n] = TreeOf(h)[n]
      OBVIOUS
    <2> DEFINE T == TreeOf(g)
               U == TreeOf(h)
    <2>1. T[n] = TreeRule(T, h[n]) /\ U[n] = TreeRule(U, h[n])
      BY TreeExists
    <2>2. \A c \in S : c + m > L => T[c] = U[c]
      BY <1>3
    <2> HIDE DEF T, U
    <2>3. ASSUME NEW x \in DOMAIN Parts(h[n]) PROVE T[Parts(h[n])[x]] = U[Parts(h[n])[x]]
      <3>1. Parts(h[n])[x] \in n + 1 .. L /\ Parts(h[n])[x] \in S
        BY DEF Heap, Forward
      <3>2. n \in 1 .. L
        OBVIOUS
      <3>3. \A c \in n + 1 .. L : c + m > L
        BY <1>1, <3>2
      <3> QED
        BY <2>2, <3>1, <3>3
    <2>4. TreeRule(T, h[n]) = TreeRule(U, h[n])
      BY <2>3, TreeIsNarrow
    <2> QED
      BY <2>1, <2>4 DEF T, U
  <1> HIDE DEF P
  <1>4. Nat \subseteq P
    BY <1>2, <1>3, NumberInduction
  <1>5. L \in P
    BY <1>1, <1>4
  <1>6. \A n \in S : n + L > L
    BY <1>1
  <1> QED
    BY <1>5, <1>6 DEF P

-----------------------------------------------------------------------------
(***************************************************************************)
(* What a step writes: the innermost container, or what object_element     *)
(* refers to.  The nodes that are not open keep their documents.           *)
(***************************************************************************)
\* The open containers r: each holds a reference to the next one.
Holds(v, e) == \E x \in DOMAIN Parts(v) : Parts(v)[x] = e
Chain(h, r) ==
    /\ r \in Seq(1 .. Len(h)) /\ (r # <<>> => r[1] = 1)
    /\ \A i, j \in 1 .. Len(r) : i < j => r[i] < r[j]
    /\ \A i \in 1 .. Len(r) - 1 : Holds(h[r[i]], r[i + 1])

\* A node that is not open, nor e.
Rest(h, r, e) == {n \in 1 .. Len(h) : n # e /\ \A j \in 1 .. Len(r) : r[j] # n}

Refers(h, m, x, c) == m \in 1 .. Len(h) /\ x \in DOMAIN Parts(h[m]) /\ Parts(h[m])[x] = c

\* There is one reference to a node, and one node that holds it.
LEMMA OneReference ==
    ASSUME NEW h, Heap(h), NEW m, NEW n, NEW x, NEW y, NEW c, Refers(h, m, x, c), Refers(h, n, y, c)
    PROVE  m = n /\ x = y
  BY DEF Heap, Single, Refers

LEMMA OneHolder ==
    ASSUME NEW h, Heap(h), NEW m \in 1 .. Len(h), NEW n \in 1 .. Len(h), NEW e, Holds(h[m], e), Holds(h[n], e)
    PROVE  m = n
  <1>1. PICK x \in DOMAIN Parts(h[m]) : Parts(h[m])[x] = e
    BY DEF Holds
  <1>2. PICK y \in DOMAIN Parts(h[n]) : Parts(h[n])[y] = e
    BY DEF Holds
  <1>3. Single(h)
    BY DEF Heap
  <1> QED
    BY <1>1, <1>2, <1>3, ZenonT(30) DEF Single

\* An open container is held by the one around it.
LEMMA OpenIsHeld ==
    ASSUME NEW h, Heap(h), NEW r, Chain(h, r), NEW m \in 1 .. Len(h), NEW j \in 1 .. Len(r), Holds(h[m], r[j])
    PROVE  j - 1 \in 1 .. Len(r) /\ m = r[j - 1]
  <1>1. Len(r) \in Nat /\ Len(h) \in Nat /\ r # <<>> /\ \A i \in 1 .. Len(r) : r[i] \in 1 .. Len(h)
    BY DEF Chain, Heap
  <1>2. r[j] \in m + 1 .. Len(h)
    BY DEF Heap, Forward, Holds
  <1>3. j # 1
    BY <1>1, <1>2 DEF Chain
  <1>4. j - 1 \in 1 .. Len(r) - 1 /\ j - 1 \in 1 .. Len(r) /\ (j - 1) + 1 = j
    BY <1>1, <1>3
  <1> DEFINE i == j - 1
  <1> HIDE DEF i
  <1>5. i \in 1 .. Len(r) - 1 /\ i \in 1 .. Len(r) /\ i + 1 = j
    BY <1>4 DEF i
  <1>6. Holds(h[r[i]], r[j])
    BY <1>5 DEF Chain
  <1>7. r[i] \in 1 .. Len(h)
    BY <1>1, <1>5
  <1>8. m = r[i]
    BY <1>6, <1>7, OneHolder
  <1> QED
    BY <1>4, <1>8 DEF i

\* The other references of an open container.
LEMMA OtherParts ==
    ASSUME NEW h, Heap(h), NEW r, Chain(h, r), NEW e, e = 0 \/ Holds(h[r[Len(r)]], e),
           NEW i \in 1 .. Len(r), NEW x \in DOMAIN Parts(h[r[i]]),
           i < Len(r) => Parts(h[r[i]])[x] # r[i + 1],
           i = Len(r) => Parts(h[r[i]])[x] # e
    PROVE  Parts(h[r[i]])[x] \in Rest(h, r, e)
  <1> DEFINE c == Parts(h[r[i]])[x]
             N == Len(r)
  <1>1. N \in Nat /\ N \in 1 .. N /\ \A j \in 1 .. N : r[j] \in 1 .. Len(h)
    BY DEF Chain
  <1>2. c \in r[i] + 1 .. Len(h) /\ r[i] \in 1 .. Len(h) /\ Len(h) \in Nat
    <2>1. r[i] \in 1 .. Len(h) /\ Len(h) \in Nat
      BY <1>1 DEF Heap
    <2>2. \A n \in 1 .. Len(h) : \A y \in DOMAIN Parts(h[n]) : Parts(h[n])[y] \in n + 1 .. Len(h)
      BY DEF Heap, Forward
    <2> QED
      BY <2>1, <2>2
  <1>3. Holds(h[r[i]], c)
    BY DEF Holds
  <1>4. \A a, b \in 1 .. N : r[a] = r[b] => a = b
    <2> SUFFICES ASSUME NEW a \in 1 .. N, NEW b \in 1 .. N, r[a] = r[b], a # b PROVE FALSE
      OBVIOUS
    <2>1. a < b \/ b < a
      OBVIOUS
    <2>2. r[a] \in Nat /\ r[b] \in Nat
      BY <1>1
    <2> QED
      BY <2>1, <2>2 DEF Chain
  <1> HIDE DEF c
  <1>5. ASSUME NEW j \in 1 .. N, r[j] = c PROVE FALSE
    <2>1. j - 1 \in 1 .. N /\ r[i] = r[j - 1]
      BY <1>1, <1>3, <1>5, OpenIsHeld
    <2>2. i = j - 1
      BY <1>4, <2>1
    <2>3. i < N /\ r[i + 1] = c
      BY <1>1, <1>5, <2>2
    <2> QED
      BY <2>3 DEF c
  <1>6. c # e
    <2> SUFFICES ASSUME c = e PROVE FALSE
      OBVIOUS
    <2>1. e # 0
      BY <1>2
    <2>2. r[i] = r[N]
      BY <1>1, <1>3, <2>1, OneHolder
    <2>3. i = N
      BY <1>1, <1>4, <2>2
    <2> QED
      BY <2>3 DEF c
  <1>7. c \in 1 .. Len(h)
    BY <1>2
  <1> QED
    BY <1>5, <1>6, <1>7 DEF Rest, c

\* The nodes that are neither open nor e keep their documents.
LEMMA RestStays ==
    ASSUME NEW h, Heap(h), NEW g, Heap(g), Len(h) <= Len(g), NEW r, Chain(h, r), r # <<>>,
           NEW e, e = 0 \/ Holds(h[r[Len(r)]], e),
           \A n \in Rest(h, r, e) : g[n] = h[n]
    PROVE  SameTrees(g, h, Rest(h, r, e))
  <1> DEFINE S == Rest(h, r, e)
             N == Len(r)
  <1>1. Len(h) \in Nat /\ Len(g) \in Nat /\ N \in 1 .. N /\ N \in Nat /\ \A j \in 1 .. N : r[j] \in 1 .. Len(h)
    BY DEF Heap, Chain
  <1>2. S \subseteq 1 .. Len(h)
    BY DEF Rest
  <1>3. S \subseteq 1 .. Len(g)
    BY <1>1, <1>2
  <1>4. ASSUME NEW n \in S, NEW x \in DOMAIN Parts(h[n]) PROVE Parts(h[n])[x] \in S
    <2> DEFINE c == Parts(h[n])[x]
    <2>1. n \in 1 .. Len(h) /\ n # e /\ \A j \in 1 .. N : r[j] # n
      BY DEF Rest
    <2>2. c \in n + 1 .. Len(h) /\ Holds(h[n], c)
      BY <2>1 DEF Heap, Forward, Holds
    <2> HIDE DEF c, S
    <2>3. ASSUME NEW j \in 1 .. N, r[j] = c PROVE FALSE
      <3>1. j - 1 \in 1 .. N /\ n = r[j - 1]
        BY <2>1, <2>2, <2>3, OpenIsHeld
      <3> QED
        BY <2>1, <3>1
    <2>4. c # e
      <3> SUFFICES ASSUME c = e PROVE FALSE
        OBVIOUS
      <3>1. e # 0
        BY <2>1, <2>2
      <3>2. n = r[N]
        BY <1>1, <2>1, <2>2, <3>1, OneHolder
      <3> QED
        BY <1>1, <2>1, <3>2
    <2>5. c \in 1 .. Len(h)
      BY <2>1, <2>2
    <2> QED
      BY <2>3, <2>4, <2>5 DEF Rest, c, S
  <1> HIDE DEF S
  <1>5. Kept(g, h, S)
    BY <1>2, <1>3, <1>4 DEF S, Kept
  <1>6. SameTrees(g, h, S)
    BY <1>5, TreesStay
  <1> QED
    BY <1>6 DEF S

\* A heap to which a node and the reference to it are added is a heap.
LEMMA HeapGrows ==
    ASSUME NEW h, Heap(h), NEW g \in Seq(Node), Len(g) = Len(h) + 1, NEW t \in 1 .. Len(h), NEW z,
           DOMAIN Parts(g[Len(h) + 1]) = {},
           \A n \in 1 .. Len(h) : n # t => g[n] = h[n],
           z \notin DOMAIN Parts(h[t]),
           DOMAIN Parts(g[t]) = DOMAIN Parts(h[t]) \cup {z},
           Parts(g[t])[z] = Len(h) + 1,
           \A x \in DOMAIN Parts(h[t]) : Parts(g[t])[x] = Parts(h[t])[x]
    PROVE  Heap(g)
  <1> DEFINE L == Len(h)
  <1>1. L \in Nat
    BY DEF Heap
  <1>2. ASSUME NEW n \in 1 .. L + 1, NEW x \in DOMAIN Parts(g[n])
        PROVE  \/ n = t /\ x = z /\ Parts(g[n])[x] = L + 1
               \/ /\ n \in 1 .. L /\ x \in DOMAIN Parts(h[n]) /\ Parts(g[n])[x] = Parts(h[n])[x]
                  /\ Parts(g[n])[x] \in n + 1 .. L
    <2>1. n \in 1 .. L
      BY <1>1, <1>2
    <2>2. \A y \in DOMAIN Parts(h[n]) : Parts(h[n])[y] \in n + 1 .. L
      BY <2>1 DEF Heap, Forward
    <2>3. CASE n = t
      BY <1>2, <2>1, <2>2, <2>3
    <2>4. CASE n # t
      <3>1. g[n] = h[n]
        BY <2>1, <2>4
      <3> QED
        BY <1>2, <2>1, <2>2, <3>1
    <2> QED
      BY <2>3, <2>4
  <1>3. Forward(g)
    <2> SUFFICES ASSUME NEW n \in 1 .. L + 1, NEW x \in DOMAIN Parts(g[n])
                 PROVE  Parts(g[n])[x] \in n + 1 .. L + 1
      BY DEF Forward
    <2>1. CASE n = t /\ x = z /\ Parts(g[n])[x] = L + 1
      BY <1>1, <2>1
    <2>2. CASE Parts(g[n])[x] \in n + 1 .. L
      BY <1>1, <2>2
    <2> QED
      BY <1>2, <2>1, <2>2
  <1>4. Single(g)
    <2> SUFFICES ASSUME NEW m \in 1 .. L + 1, NEW n \in 1 .. L + 1,
                        NEW x \in DOMAIN Parts(g[m]), NEW y \in DOMAIN Parts(g[n]),
                        Parts(g[m])[x] = Parts(g[n])[y]
                 PROVE  m = n /\ x = y
      BY DEF Single
    <2>1. ASSUME NEW e, e = L + 1, NEW k, e \in k + 1 .. L PROVE FALSE
      BY <1>1, <2>1
    <2>2. \/ m = t /\ x = z /\ Parts(g[m])[x] = L + 1
          \/ /\ m \in 1 .. L /\ x \in DOMAIN Parts(h[m]) /\ Parts(g[m])[x] = Parts(h[m])[x]
             /\ Parts(g[m])[x] \in m + 1 .. L
      BY <1>2
    <2>3. \/ n = t /\ y = z /\ Parts(g[n])[y] = L + 1
          \/ /\ n \in 1 .. L /\ y \in DOMAIN Parts(h[n]) /\ Parts(g[n])[y] = Parts(h[n])[y]
             /\ Parts(g[n])[y] \in n + 1 .. L
      BY <1>2
    <2>4. CASE m = t /\ x = z /\ Parts(g[m])[x] = L + 1
      BY <2>1, <2>3, <2>4
    <2>5. CASE n = t /\ y = z /\ Parts(g[n])[y] = L + 1
      BY <2>1, <2>2, <2>5
    <2>6. CASE /\ m \in 1 .. L /\ x \in DOMAIN Parts(h[m]) /\ Parts(g[m])[x] = Parts(h[m])[x]
               /\ n \in 1 .. L /\ y \in DOMAIN Parts(h[n]) /\ Parts(g[n])[y] = Parts(h[n])[y]
      <3> DEFINE c == Parts(g[m])[x]
      <3>1. Refers(h, m, x, c) /\ Refers(h, n, y, c)
        BY <2>6 DEF Refers
      <3> HIDE DEF c
      <3> QED
        BY <3>1, OneReference
    <2> QED
      BY <2>2, <2>3, <2>4, <2>5, <2>6
  <1> QED
    BY <1>3, <1>4 DEF Heap

\* So is one where a node is written over by one without references.
LEMMA HeapWritten ==
    ASSUME NEW h, Heap(h), NEW g \in Seq(Node), Len(g) = Len(h), NEW e \in 1 .. Len(h),
           DOMAIN Parts(g[e]) = {}, \A n \in 1 .. Len(h) : n # e => g[n] = h[n]
    PROVE  Heap(g)
  <1> DEFINE L == Len(h)
  <1>1. ASSUME NEW n \in 1 .. L, NEW x \in DOMAIN Parts(g[n]) PROVE g[n] = h[n]
    BY <1>1
  <1>2. Forward(g)
    BY <1>1 DEF Forward, Heap
  <1>3. Single(g)
    <2> SUFFICES ASSUME NEW m \in 1 .. L, NEW n \in 1 .. L,
                        NEW x \in DOMAIN Parts(g[m]), NEW y \in DOMAIN Parts(g[n]),
                        Parts(g[m])[x] = Parts(g[n])[y]
                 PROVE  m = n /\ x = y
      BY DEF Single
    <2>1. g[m] = h[m] /\ g[n] = h[n]
      BY <1>1
    <2> DEFINE c == Parts(g[m])[x]
    <2>2. Refers(h, m, x, c) /\ Refers(h, n, y, c)
      BY <2>1 DEF Refers
    <2> HIDE DEF c
    <2> QED
      BY <2>2, OneReference
  <1> QED
    BY <1>2, <1>3 DEF Heap

-----------------------------------------------------------------------------
(***************************************************************************)
(* The place of the parser in the text: one frame for each open container, *)
(* where it began (at), where the element it is in began (elem), and what  *)
(* is done of it before that (done).                                       *)
(***************************************************************************)
\* The texts that begin with s.
Extends(s, w) == w \in Seq(Tokens) /\ Len(s) <= Len(w) /\ \A i \in 1 .. Len(s) : w[i] = s[i]

\* However the text goes on, the elements of the container are what is done and what
\* the text denotes from elem on.
AllAfter(k, x, ys) == {Join(k, x, y) : y \in ys}
Contents(s, k, fr) ==
    \A w \in Seq(Tokens) : Extends(s, w) => \A b \in 1 .. Len(w) :
        ElementDocs(w, k, fr.at + 1, b) = AllAfter(k, fr.done, ElementDocs(w, k, fr.elem, b))
FrameOK(s, k, fr) ==
    /\ k \in Containers
    /\ fr.at \in 1 .. Len(s) /\ fr.elem \in fr.at + 1 .. Len(s) + 1
    /\ s[fr.at] = Opener(k) /\ (fr.at < Len(s) => s[fr.at + 1] # Closer(k))
    /\ Partial(k, fr.done) /\ Contents(s, k, fr)

\* The node o shows x; it shows x except for its part z, which is not done.
Shows(o, x, T)       == DOMAIN Parts(o) = DOMAIN x /\ \A m \in DOMAIN x : T[Parts(o)[m]] = x[m]
ShowsBut(o, x, z, T) == /\ DOMAIN Parts(o) = DOMAIN x \cup {z}
                        /\ \A m \in DOMAIN x : m # z => T[Parts(o)[m]] = x[m]
PlaceOf(k, x, t) == IF k = "array" THEN Len(x) + 1 ELSE t

\* The element the container o is in has begun: its value begins at a and goes to node e.
Begun(s, o, fr, a, e, T) ==
    /\ a = ValueAt(o.kind, fr.elem) /\ a <= Len(s) + 1 /\ Begins(s, o.kind, fr.elem)
    /\ PlaceOf(o.kind, fr.done, s[fr.elem]) \in DOMAIN Parts(o)
    /\ Parts(o)[PlaceOf(o.kind, fr.done, s[fr.elem])] = e
    /\ ShowsBut(o, fr.done, PlaceOf(o.kind, fr.done, s[fr.elem]), T)

Frames(f, s, h, r) ==
    /\ Heap(h) /\ Chain(h, r)
    /\ \A i \in 1 .. Len(r) : FrameOK(s, h[r[i]].kind, f[i])
    /\ r # <<>> => f[1].at = 1
    /\ \A i \in 1 .. Len(r) - 1 : Begun(s, h[r[i]], f[i], f[i + 1].at, r[i + 1], TreeOf(h))

LEMMA ExtendsItself == \A s \in Seq(Tokens) : Extends(s, s)
  BY DEF Extends

\* Texts go on.
LEMMA ExtendsTrans ==
    ASSUME NEW s \in Seq(Tokens), NEW u \in Seq(Tokens), NEW w, Extends(s, u), Extends(u, w)
    PROVE  Extends(s, w)
  <1>1. Len(s) \in Nat /\ Len(u) \in Nat /\ Len(s) <= Len(u) /\ Len(u) <= Len(w) /\ w \in Seq(Tokens)
    BY DEF Extends
  <1>2. Len(w) \in Nat
    BY <1>1
  <1>3. ASSUME NEW i \in 1 .. Len(s) PROVE w[i] = s[i]
    BY <1>1 DEF Extends
  <1> QED
    BY <1>1, <1>2, <1>3 DEF Extends

LEMMA ExtendsAppend ==
    ASSUME NEW s \in Seq(Tokens), NEW t \in Tokens
    PROVE  /\ Append(s, t) \in Seq(Tokens) /\ Extends(s, Append(s, t))
           /\ Len(Append(s, t)) = Len(s) + 1 /\ Append(s, t)[Len(s) + 1] = t
  BY DEF Extends

\* What holds of all texts that begin with s holds of those that begin with u.
LEMMA ContentsStay ==
    ASSUME NEW s \in Seq(Tokens), NEW u \in Seq(Tokens), Extends(s, u), NEW k, NEW fr, Contents(s, k, fr)
    PROVE  Contents(u, k, fr)
  <1>1. \A w \in Seq(Tokens) : Extends(u, w) => Extends(s, w)
    BY ExtendsTrans
  <1> QED
    BY <1>1 DEF Contents

\* A frame is right for a longer text.
LEMMA FrameStays ==
    ASSUME NEW s \in Seq(Tokens), NEW u \in Seq(Tokens), Extends(s, u), NEW k, NEW fr, FrameOK(s, k, fr),
           fr.at = Len(s) /\ Len(s) < Len(u) => u[Len(s) + 1] # Closer(k)
    PROVE  FrameOK(u, k, fr)
  <1>1. /\ Len(s) \in Nat /\ Len(u) \in Nat /\ Len(s) <= Len(u)
        /\ \A i \in 1 .. Len(s) : u[i] = s[i]
    BY DEF Extends
  <1>2. fr.at \in 1 .. Len(s) /\ fr.elem \in fr.at + 1 .. Len(s) + 1
    BY DEF FrameOK
  <1>3. fr.at \in 1 .. Len(u) /\ fr.elem \in fr.at + 1 .. Len(u) + 1 /\ u[fr.at] = s[fr.at]
    BY <1>1, <1>2
  <1>4. ASSUME fr.at < Len(u) PROVE u[fr.at + 1] # Closer(k)
    <2>1. CASE fr.at < Len(s)
      <3>1. fr.at + 1 \in 1 .. Len(s)
        BY <1>1, <1>2, <2>1
      <3>2. u[fr.at + 1] = s[fr.at + 1]
        BY <1>1, <3>1
      <3> QED
        BY <2>1, <3>2 DEF FrameOK
    <2>2. CASE fr.at = Len(s)
      BY <1>4, <2>2
    <2> QED
      BY <1>1, <1>2, <2>1, <2>2
  <1>5. Contents(u, k, fr)
    BY ContentsStay DEF FrameOK
  <1> QED
    BY <1>3, <1>4, <1>5 DEF FrameOK

\* An element that has begun has begun in a longer text.
LEMMA BegunExtends ==
    ASSUME NEW s \in Seq(Tokens), NEW u \in Seq(Tokens), Extends(s, u), NEW o, NEW fr, FrameOK(s, o.kind, fr),
           NEW a, NEW e, NEW T, Begun(s, o, fr, a, e, T)
    PROVE  Begun(u, o, fr, a, e, T)
  <1>1. /\ Len(s) \in Nat /\ Len(u) \in Nat /\ Len(s) <= Len(u)
        /\ \A i \in 1 .. Len(s) : u[i] = s[i]
    BY DEF Extends
  <1>2. o.kind \in Containers /\ fr.elem \in Nat /\ fr.elem >= 1
    BY <1>1 DEF FrameOK
  <1>3. a = ValueAt(o.kind, fr.elem) /\ a <= Len(s) + 1
    BY DEF Begun
  <1>4. Begins(u, o.kind, fr.elem) /\ PlaceOf(o.kind, fr.done, u[fr.elem]) = PlaceOf(o.kind, fr.done, s[fr.elem])
    <2>1. CASE o.kind = "array"
      BY <2>1 DEF PlaceOf, Begins
    <2>2. CASE o.kind = "object"
      <3>1. fr.elem \in 1 .. Len(s) /\ fr.elem + 1 \in 1 .. Len(s)
        BY <1>1, <1>2, <1>3, <2>2 DEF ValueAt
      <3>2. u[fr.elem] = s[fr.elem] /\ u[fr.elem + 1] = s[fr.elem + 1]
        BY <1>1, <3>1
      <3> QED
        BY <3>2 DEF Begun, Begins
    <2> QED
      BY <1>2, <2>1, <2>2, ContainersAre
  <1>5. a <= Len(u) + 1
    <2>1. a \in Nat
      BY <1>2, <1>3 DEF ValueAt
    <2> QED
      BY <1>1, <1>3, <2>1
  <1> QED
    BY <1>3, <1>4, <1>5 DEF Begun

\* It has begun whatever the document of its value is.
LEMMA BegunTrees ==
    ASSUME NEW s, NEW o, NEW fr, NEW a, NEW e, NEW T, NEW U, Begun(s, o, fr, a, e, T),
           \A x, y \in DOMAIN Parts(o) : Parts(o)[x] = Parts(o)[y] => x = y,
           \A x \in DOMAIN Parts(o) : Parts(o)[x] # e => U[Parts(o)[x]] = T[Parts(o)[x]]
    PROVE  Begun(s, o, fr, a, e, U)
  <1> DEFINE z == PlaceOf(o.kind, fr.done, s[fr.elem])
  <1>1. z \in DOMAIN Parts(o) /\ Parts(o)[z] = e /\ ShowsBut(o, fr.done, z, T)
    BY DEF Begun
  <1> HIDE DEF z
  <1>2. ShowsBut(o, fr.done, z, U)
    <2> SUFFICES ASSUME NEW m \in DOMAIN fr.done, m # z PROVE U[Parts(o)[m]] = fr.done[m]
      BY <1>1 DEF ShowsBut
    <2>1. m \in DOMAIN Parts(o) /\ T[Parts(o)[m]] = fr.done[m]
      BY <1>1 DEF ShowsBut
    <2>2. Parts(o)[m] # e
      BY <1>1, <2>1
    <2> QED
      BY <2>1, <2>2
  <1> QED
    BY <1>2 DEF Begun, z

LEMMA SeqOfMore ==
    ASSUME NEW A, NEW B, A \subseteq B, NEW q \in Seq(A)
    PROVE  q \in Seq(B)
OBVIOUS

\* All that the step from heap h to g may change is the innermost container and node e below it.
Changes(h, g, r, e) ==
    /\ Heap(g) /\ Len(h) <= Len(g)
    /\ e = 0 \/ Holds(h[r[Len(r)]], e)
    /\ \A n \in Rest(h, r, e) : g[n] = h[n]
    /\ \A i \in 1 .. Len(r) - 1 : g[r[i]] = h[r[i]]
    /\ g[r[Len(r)]].kind = h[r[Len(r)]].kind

\* A step that writes the innermost container or e keeps the frames.
LEMMA FramesStay ==
    ASSUME NEW s \in Seq(Tokens), NEW u \in Seq(Tokens), Extends(s, u),
           NEW f, NEW h, NEW r, Frames(f, s, h, r), r # <<>>, NEW g, NEW e, Changes(h, g, r, e),
           f[Len(r)].at = Len(s) /\ Len(s) < Len(u) => u[Len(s) + 1] # Closer(h[r[Len(r)]].kind)
    PROVE  Frames(f, u, g, r) /\ SameTrees(g, h, Rest(h, r, e))
  <1> DEFINE N == Len(r)
  <1>0. /\ Heap(g) /\ Len(h) <= Len(g)
        /\ e = 0 \/ Holds(h[r[N]], e)
        /\ \A n \in Rest(h, r, e) : g[n] = h[n]
        /\ \A i \in 1 .. N - 1 : g[r[i]] = h[r[i]]
        /\ g[r[N]].kind = h[r[N]].kind
    BY DEF Changes
  <1>1. /\ N \in Nat /\ N >= 1 /\ N \in 1 .. N /\ Len(h) \in Nat /\ Len(g) \in Nat
        /\ \A i \in 1 .. N : r[i] \in 1 .. Len(h)
        /\ Heap(h) /\ Chain(h, r)
    BY DEF Frames, Chain, Heap
  <1>2. SameTrees(g, h, Rest(h, r, e))
    BY <1>0, <1>1, RestStays
  <1>3. Chain(g, r)
    <2>1. r \in Seq(1 .. Len(g))
      <3>1. r \in Seq(1 .. Len(h)) /\ 1 .. Len(h) \subseteq 1 .. Len(g)
        BY <1>0, <1>1 DEF Chain
      <3> QED
        BY <3>1, SeqOfMore
    <2>2. \A i \in 1 .. N - 1 : Holds(g[r[i]], r[i + 1])
      BY <1>0, <1>1 DEF Chain, N
    <2> QED
      BY <1>1, <2>1, <2>2 DEF Chain
  <1>4. ASSUME NEW i \in 1 .. N PROVE FrameOK(u, g[r[i]].kind, f[i])
    <2>1. FrameOK(s, h[r[i]].kind, f[i])
      BY DEF Frames
    <2>2. g[r[i]].kind = h[r[i]].kind
      <3>1. i = N \/ i \in 1 .. N - 1
        BY <1>1
      <3> QED
        BY <1>0, <3>1
    <2>3. f[i].at = Len(s) /\ Len(s) < Len(u) => u[Len(s) + 1] # Closer(h[r[i]].kind)
      <3>1. CASE i = N
        BY <3>1
      <3>2. CASE i \in 1 .. N - 1
        <4>1. i + 1 \in 1 .. N
          BY <1>1, <3>2
        <4>2. Begun(s, h[r[i]], f[i], f[i + 1].at, r[i + 1], TreeOf(h)) /\ FrameOK(s, h[r[i + 1]].kind, f[i + 1])
          BY <3>2, <4>1 DEF Frames
        <4>3. f[i + 1].at = ValueAt(h[r[i]].kind, f[i].elem) /\ f[i + 1].at \in 1 .. Len(s)
          BY <4>2 DEF Begun, FrameOK
        <4>4. f[i].elem \in f[i].at + 1 .. Len(s) + 1 /\ f[i].at \in 1 .. Len(s)
          BY <2>1 DEF FrameOK
        <4>5. f[i].at < Len(s)
          BY <4>3, <4>4 DEF ValueAt
        <4> QED
          BY <4>4, <4>5
      <3> QED
        BY <1>1, <3>1, <3>2
    <2>4. FrameOK(u, h[r[i]].kind, f[i])
      BY <2>1, <2>3, FrameStays
    <2> QED
      BY <2>2, <2>4
  <1>5. ASSUME NEW i \in 1 .. N - 1 PROVE Begun(u, g[r[i]], f[i], f[i + 1].at, r[i + 1], TreeOf(g))
    <2> DEFINE o == h[r[i]]
               T == TreeOf(h)
               U == TreeOf(g)
    <2>1. i \in 1 .. N /\ i # N
      BY <1>1
    <2>2. Begun(s, o, f[i], f[i + 1].at, r[i + 1], T) /\ FrameOK(s, o.kind, f[i])
      BY <2>1 DEF Frames
    <2>3. Begun(u, o, f[i], f[i + 1].at, r[i + 1], T)
      BY <2>2, BegunExtends
    <2>4. r[i] \in 1 .. Len(h)
      BY <1>1, <2>1
    <2>5. ASSUME NEW x \in DOMAIN Parts(o), NEW y \in DOMAIN Parts(o), Parts(o)[x] = Parts(o)[y]
          PROVE  x = y
      <3> DEFINE c == Parts(o)[x]
      <3>1. Refers(h, r[i], x, c) /\ Refers(h, r[i], y, c)
        BY <2>4, <2>5 DEF Refers
      <3> HIDE DEF c
      <3> QED
        BY <1>1, <3>1, OneReference
    <2>6. ASSUME NEW x \in DOMAIN Parts(o), Parts(o)[x] # r[i + 1] PROVE U[Parts(o)[x]] = T[Parts(o)[x]]
      <3>1. Parts(o)[x] \in Rest(h, r, e)
        BY <1>0, <1>1, <2>1, <2>6, OtherParts
      <3> QED
        BY <1>2, <3>1 DEF SameTrees
    <2> HIDE DEF o, T, U
    <2>7. Begun(u, o, f[i], f[i + 1].at, r[i + 1], U)
      BY <2>3, <2>5, <2>6, BegunTrees
    <2>8. g[r[i]] = o
      BY <1>0 DEF o
    <2> QED
      BY <2>7, <2>8 DEF U
  <1>6. f[1].at = 1
    BY DEF Frames
  <1> QED
    BY <1>0, <1>2, <1>3, <1>4, <1>5, <1>6 DEF Frames

-----------------------------------------------------------------------------
(***************************************************************************)
(* What a step does to heap h, with the containers r open, to get heap g.  *)
(***************************************************************************)
\* A value v gets node c: a new item of the innermost array, or what a member refers to.
Landed(h, g, r, v, c) ==
    LET p == r[Len(r)] IN
    /\ g \in Seq(Node) /\ v \in NewValues /\ c \in 1 .. Len(g) /\ g[c] = v
    /\ \/ /\ h[p].kind = "array" /\ Len(g) = Len(h) + 1 /\ c = Len(h) + 1
          /\ g[p] = [kind |-> "array", items |-> Append(h[p].items, c)]
          /\ \A n \in 1 .. Len(h) : n # p => g[n] = h[n]
       \/ /\ h[p].kind = "object" /\ Len(g) = Len(h) /\ Holds(h[p], c)
          /\ \A n \in 1 .. Len(h) : n # c => g[n] = h[n]

\* A member named t of the innermost object refers to node c.
Keyed(h, g, r, t, c) ==
    LET p == r[Len(r)] IN
    /\ g \in Seq(Node) /\ h[p].kind = "object"
    /\ \/ t \in DOMAIN h[p].members /\ g = h /\ c = h[p].members[t]
       \/ /\ t \notin DOMAIN h[p].members /\ Len(g) = Len(h) + 1 /\ c = Len(h) + 1
          /\ g[p] = [kind |-> "object", members |-> Insert(h[p].members, t, c)]
          /\ g[c] = Scalar("null")
          /\ \A n \in 1 .. Len(h) : n # p => g[n] = h[n]

\* A new value holds no references: it is its own document.
LEMMA NewValueParts ==
    ASSUME NEW v \in NewValues
    PROVE  v \in Node /\ DOMAIN Parts(v) = {} /\ \A T : TreeRule(T, v) = v
  <1>1. CASE v \in {Scalar(t) : t \in Scalars}
    BY <1>1 DEF Scalar, Node, Parts, TreeRule
  <1>2. CASE v = EmptyArray
    <2>1. v \in Node
      BY <1>2, NewValuesAreNodes
    <2>2. v.kind = "array" /\ v.items = <<>>
      BY <1>2 DEF EmptyArray
    <2>3. DOMAIN Parts(v) = {}
      BY <2>2 DEF Parts
    <2>4. ASSUME NEW T PROVE TreeRule(T, v) = v
      <3>1. [i \in DOMAIN v.items |-> T[v.items[i]]] = <<>>
        BY <2>2
      <3> QED
        BY <1>2, <2>2, <3>1 DEF TreeRule, EmptyArray
    <2> QED
      BY <2>1, <2>3, <2>4
  <1>3. CASE v = EmptyObject
    <2>1. v \in Node
      BY <1>3, NewValuesAreNodes
    <2>2. v.kind = "object" /\ v.members = [k \in {} |-> 0]
      BY <1>3 DEF EmptyObject
    <2>3. DOMAIN Parts(v) = {}
      BY <2>2 DEF Parts
    <2>4. ASSUME NEW T PROVE TreeRule(T, v) = v
      <3>1. [k \in DOMAIN v.members |-> T[v.members[k]]] = [k \in {} |-> 0]
        BY <2>2
      <3> QED
        BY <1>3, <2>2, <3>1 DEF TreeRule, EmptyObject
    <2> QED
      BY <2>1, <2>3, <2>4
  <1> QED
    BY <1>1, <1>2, <1>3 DEF NewValues

\* The innermost container is the last of those open.
LEMMA OpenNodes ==
    ASSUME NEW h, Heap(h), NEW r, Chain(h, r), r # <<>>
    PROVE  /\ Len(r) \in 1 .. Len(r) /\ Len(h) \in Nat /\ r[Len(r)] \in 1 .. Len(h)
           /\ \A i \in 1 .. Len(r) : r[i] \in 1 .. Len(h) /\ r[i] <= r[Len(r)]
           /\ \A i \in 1 .. Len(r) - 1 : r[i] # r[Len(r)]
  <1>1. r \in Seq(1 .. Len(h)) /\ Len(r) \in Nat /\ Len(r) >= 1 /\ Len(h) \in Nat
    BY DEF Chain, Heap
  <1>2. \A i \in 1 .. Len(r) : r[i] \in 1 .. Len(h)
    BY <1>1
  <1>3. ASSUME NEW i \in 1 .. Len(r) - 1 PROVE r[i] < r[Len(r)]
    BY <1>1 DEF Chain
  <1>4. ASSUME NEW i \in 1 .. Len(r) PROVE r[i] <= r[Len(r)]
    <2>1. i = Len(r) \/ i \in 1 .. Len(r) - 1
      BY <1>1
    <2>2. r[i] \in Nat /\ r[Len(r)] \in Nat
      BY <1>1, <1>2
    <2>3. CASE i = Len(r)
      BY <2>2, <2>3
    <2>4. CASE i \in 1 .. Len(r) - 1
      BY <1>3, <2>2, <2>4
    <2> QED
      BY <2>1, <2>3, <2>4
  <1>5. \A i \in 1 .. Len(r) - 1 : r[i] # r[Len(r)]
    BY <1>1, <1>2, <1>3
  <1> QED
    BY <1>1, <1>2, <1>4, <1>5
TopKind(h, r) == h[r[Len(r)]].kind
NewItem(h, g, r, v, c) ==
    LET p == r[Len(r)] IN
    /\ Changes(h, g, r, 0) /\ c = Len(h) + 1 /\ c \in 1 .. Len(g) /\ g[c] = v
    /\ g[p].kind = "array" /\ Parts(g[p]) = Append(Parts(h[p]), c)

\* What a value in an array changes.
LEMMA ItemLands ==
    ASSUME NEW h, Heap(h), NEW g, NEW r, Chain(h, r), r # <<>>, NEW v, NEW c, Landed(h, g, r, v, c),
           TopKind(h, r) = "array"
    PROVE  NewItem(h, g, r, v, c)
  <1> DEFINE p == r[Len(r)]
  <1>1. /\ p \in 1 .. Len(h) /\ Len(h) \in Nat /\ \A i \in 1 .. Len(r) - 1 : r[i] \in 1 .. Len(h) /\ r[i] # p
    BY OpenNodes
  <1>2. /\ g \in Seq(Node) /\ v \in NewValues /\ g[c] = v
        /\ Len(g) = Len(h) + 1 /\ c = Len(h) + 1
        /\ g[p] = [kind |-> "array", items |-> Append(h[p].items, c)]
        /\ \A n \in 1 .. Len(h) : n # p => g[n] = h[n]
    BY DEF Landed, TopKind
  <1>3. /\ Parts(h[p]) = h[p].items /\ Parts(g[p]) = Append(h[p].items, c) /\ g[p].kind = "array"
        /\ Parts(g[p]) = Append(Parts(h[p]), c)
    BY <1>2 DEF Parts, TopKind
  <1>4. h[p].items \in Seq(Nat)
    <2>1. h[p] \in Node
      BY <1>1 DEF Heap
    <2> QED
      BY <2>1 DEF Node, TopKind
  <1>5. Heap(g)
    <2> DEFINE s == h[p].items
               z == Len(s) + 1
    <2>1. /\ DOMAIN s = 1 .. Len(s) /\ Len(s) \in Nat
          /\ DOMAIN Append(s, c) = 1 .. Len(s) + 1 /\ Append(s, c)[z] = c
          /\ \A x \in 1 .. Len(s) : Append(s, c)[x] = s[x]
      BY <1>1, <1>2, <1>4
    <2>2. z \notin DOMAIN Parts(h[p]) /\ DOMAIN Parts(g[p]) = DOMAIN Parts(h[p]) \cup {z}
      <3>1. DOMAIN Parts(h[p]) = 1 .. Len(s) /\ DOMAIN Parts(g[p]) = 1 .. Len(s) + 1
        BY <1>3, <2>1
      <3>2. 1 .. Len(s) + 1 = (1 .. Len(s)) \cup {z} /\ z \notin 1 .. Len(s)
        BY <2>1
      <3> QED
        BY <3>1, <3>2
    <2>3. Parts(g[p])[z] = Len(h) + 1 /\ \A x \in DOMAIN Parts(h[p]) : Parts(g[p])[x] = Parts(h[p])[x]
      BY <1>2, <1>3, <2>1
    <2>4. DOMAIN Parts(g[Len(h) + 1]) = {}
      BY <1>2, NewValueParts
    <2> HIDE DEF z, p
    <2> QED
      BY <1>1, <1>2, <2>2, <2>3, <2>4, HeapGrows
  <1>6. ASSUME NEW n \in Rest(h, r, 0) PROVE g[n] = h[n]
    <2>1. n \in 1 .. Len(h) /\ \A j \in 1 .. Len(r) : r[j] # n
      BY Zenon DEF Rest
    <2>2. Len(r) \in 1 .. Len(r)
      BY OpenNodes
    <2>3. n # p
      BY <2>1, <2>2
    <2> QED
      BY <1>2, <2>1, <2>3, Zenon
  <1>7. \A i \in 1 .. Len(r) - 1 : g[r[i]] = h[r[i]]
    BY <1>1, <1>2
  <1> HIDE DEF p
  <1>8. Changes(h, g, r, 0)
    <2>1. Len(h) <= Len(g)
      BY <1>1, <1>2
    <2>2. g[r[Len(r)]].kind = h[r[Len(r)]].kind
      BY <1>3 DEF p, TopKind
    <2> QED
      BY <1>5, <1>6, <1>7, <2>1, <2>2, Zenon DEF Changes
  <1>9. c \in 1 .. Len(g)
    BY <1>1, <1>2
  <1>10. g[p].kind = "array" /\ Parts(g[p]) = Append(Parts(h[p]), c)
    BY <1>3
  <1> QED
    BY <1>2, <1>8, <1>9, <1>10 DEF p, NewItem

\* What a value in an object changes: the node of the member only.
LEMMA MemberLands ==
    ASSUME NEW h, Heap(h), NEW g, NEW r, Chain(h, r), r # <<>>, NEW v, NEW c, Landed(h, g, r, v, c),
           TopKind(h, r) = "object"
    PROVE  /\ Changes(h, g, r, c) /\ c \in 1 .. Len(g) /\ g[c] = v /\ r[Len(r)] < c
           /\ g[r[Len(r)]] = h[r[Len(r)]]
  <1> DEFINE p == r[Len(r)]
  <1>1. /\ p \in 1 .. Len(h) /\ Len(h) \in Nat
        /\ \A i \in 1 .. Len(r) : r[i] \in 1 .. Len(h) /\ r[i] <= p
    BY OpenNodes
  <1>2. /\ g \in Seq(Node) /\ v \in NewValues /\ c \in 1 .. Len(g) /\ g[c] = v
        /\ Len(g) = Len(h) /\ Holds(h[p], c)
        /\ \A n \in 1 .. Len(h) : n # c => g[n] = h[n]
    BY DEF Landed, TopKind
  <1>3. p < c
    <2>1. PICK x \in DOMAIN Parts(h[p]) : Parts(h[p])[x] = c
      BY <1>2 DEF Holds
    <2>2. c \in p + 1 .. Len(h)
      BY <1>1, <2>1 DEF Heap, Forward
    <2> QED
      BY <1>1, <2>2
  <1>4. \A i \in 1 .. Len(r) : r[i] # c
    BY <1>1, <1>2, <1>3
  <1>5. Heap(g)
    <2>1. DOMAIN Parts(g[c]) = {}
      BY <1>2, NewValueParts
    <2> QED
      BY <1>1, <1>2, <2>1, HeapWritten
  <1>6. \A n \in Rest(h, r, c) : g[n] = h[n]
    BY <1>2 DEF Rest
  <1>7. \A i \in 1 .. Len(r) : g[r[i]] = h[r[i]]
    BY <1>1, <1>2, <1>4
  <1>8. g[p] = h[p]
    BY <1>7, OpenNodes
  <1>9. \A i \in 1 .. Len(r) - 1 : g[r[i]] = h[r[i]]
    BY <1>7, OpenNodes
  <1> HIDE DEF p
  <1>10. Changes(h, g, r, c)
    BY <1>1, <1>2, <1>5, <1>6, <1>8, <1>9 DEF Changes, p
  <1> QED
    BY <1>2, <1>3, <1>8, <1>10 DEF p
NewMember(h, g, r, t, c) ==
    LET o == h[r[Len(r)]]  w == g[r[Len(r)]] IN
    /\ Changes(h, g, r, 0) /\ w.kind = "object" /\ o.kind = "object"
    /\ DOMAIN Parts(w) = DOMAIN Parts(o) \cup {t} /\ Parts(w)[t] = c
    /\ \A x \in DOMAIN Parts(o) : Parts(w)[x] = Parts(o)[x]

\* What a key changes: the innermost object, and the node of the member.
LEMMA KeyLands ==
    ASSUME NEW h, Heap(h), NEW g, NEW r, Chain(h, r), r # <<>>, NEW t \in Strings, NEW c, Keyed(h, g, r, t, c)
    PROVE  NewMember(h, g, r, t, c)
  <1> DEFINE p == r[Len(r)]
             o == h[p]
             w == g[p]
  <1>1. /\ p \in 1 .. Len(h) /\ Len(h) \in Nat /\ \A i \in 1 .. Len(r) - 1 : r[i] \in 1 .. Len(h) /\ r[i] # p
        /\ o.kind = "object" /\ g \in Seq(Node)
    BY OpenNodes DEF Keyed
  <1>2. CASE t \in DOMAIN o.members /\ g = h /\ c = o.members[t]
    <2>1. Changes(h, g, r, 0)
      BY <1>1, <1>2 DEF Changes
    <2>2. Parts(o) = o.members /\ w = o
      BY <1>1, <1>2 DEF Parts
    <2> QED
      BY <1>1, <1>2, <2>1, <2>2 DEF NewMember
  <1>3. CASE /\ t \notin DOMAIN o.members /\ Len(g) = Len(h) + 1 /\ c = Len(h) + 1
             /\ w = [kind |-> "object", members |-> Insert(o.members, t, c)]
             /\ g[c] = Scalar("null")
             /\ \A n \in 1 .. Len(h) : n # p => g[n] = h[n]
    <2>1. Parts(o) = o.members /\ Parts(w) = Insert(o.members, t, c) /\ w.kind = "object"
      BY <1>1, <1>3 DEF Parts
    <2>2. /\ DOMAIN Parts(w) = DOMAIN Parts(o) \cup {t} /\ Parts(w)[t] = c
          /\ \A x \in DOMAIN Parts(o) : Parts(w)[x] = Parts(o)[x]
      BY <1>3, <2>1 DEF Insert
    <2>3. DOMAIN Parts(g[Len(h) + 1]) = {}
      BY <1>3 DEF Scalar, Parts
    <2>4. t \notin DOMAIN Parts(h[p])
      BY <1>3, <2>1
    <2>5. Heap(g)
      <3> HIDE DEF p
      <3> QED
        BY <1>1, <1>3, <2>2, <2>3, <2>4, HeapGrows
    <2>6. \A n \in Rest(h, r, 0) : g[n] = h[n]
      BY <1>3, OpenNodes DEF Rest
    <2>7. \A i \in 1 .. Len(r) - 1 : g[r[i]] = h[r[i]]
      BY <1>1, <1>3
    <2>8. Changes(h, g, r, 0)
      BY <1>1, <1>3, <2>1, <2>5, <2>6, <2>7 DEF Changes
    <2> QED
      BY <1>1, <2>1, <2>2, <2>8 DEF NewMember
  <1> QED
    BY <1>2, <1>3 DEF Keyed

\* A container that gets a new part shows what it showed but for that part.
LEMMA NewPart ==
    ASSUME NEW h, Heap(h), NEW r, Chain(h, r), r # <<>>, NEW g, Changes(h, g, r, 0),
           NEW x, NEW z, Shows(h[r[Len(r)]], x, TreeOf(h)),
           DOMAIN Parts(g[r[Len(r)]]) = DOMAIN Parts(h[r[Len(r)]]) \cup {z},
           \A m \in DOMAIN Parts(h[r[Len(r)]]) :
              m # z => Parts(g[r[Len(r)]])[m] = Parts(h[r[Len(r)]])[m]
    PROVE  ShowsBut(g[r[Len(r)]], x, z, TreeOf(g))
  <1> DEFINE p == r[Len(r)]
             o == h[p]
             w == g[p]
             T == TreeOf(h)
             U == TreeOf(g)
  <1>1. SameTrees(g, h, Rest(h, r, 0))
    <2>1. /\ Heap(g) /\ Len(h) <= Len(g)
          /\ \A n \in Rest(h, r, 0) : g[n] = h[n]
      BY DEF Changes
    <2> QED
      BY <2>1, RestStays
  <1>2. DOMAIN Parts(o) = DOMAIN x /\ \A m \in DOMAIN x : T[Parts(o)[m]] = x[m]
    BY DEF Shows
  <1>3. ASSUME NEW m \in DOMAIN x, m # z PROVE U[Parts(w)[m]] = x[m]
    <2>1. m \in DOMAIN Parts(o) /\ Parts(w)[m] = Parts(o)[m]
      BY <1>2, <1>3
    <2>2. Len(r) \in 1 .. Len(r) /\ p \in 1 .. Len(h) /\ Len(h) \in Nat
      BY OpenNodes
    <2>3. Parts(o)[m] # 0
      <3>1. Parts(o)[m] \in p + 1 .. Len(h)
        BY <2>1, <2>2 DEF Heap, Forward
      <3> QED
        BY <2>2, <3>1
    <2>4. Parts(o)[m] \in Rest(h, r, 0)
      <3>1. m \in DOMAIN Parts(h[r[Len(r)]]) /\ Parts(h[r[Len(r)]])[m] # 0
        BY <2>1, <2>3
      <3>2. Len(r) < Len(r) => Parts(h[r[Len(r)]])[m] # r[Len(r) + 1]
        BY <2>2
      <3> QED
        BY <2>2, <3>1, <3>2, OtherParts
    <2>5. U[Parts(o)[m]] = T[Parts(o)[m]]
      BY <1>1, <2>4 DEF SameTrees
    <2> QED
      BY <1>2, <2>1, <2>5
  <1>4. DOMAIN Parts(w) = DOMAIN x \cup {z}
    BY <1>2
  <1> QED
    BY <1>3, <1>4 DEF ShowsBut

\* An element comes next, and the container o shows what is done.
AtElement(s, o, fr, T) == fr.elem = Len(s) + 1 /\ Shows(o, fr.done, T)

\* A value may come next, and goes to node c.
Ready(s, o, fr, c, T) == IF o.kind = "array" THEN AtElement(s, o, fr, T) ELSE Begun(s, o, fr, Len(s) + 1, c, T)

LEMMA StarterIs ==
    ASSUME NEW t \in Starters PROVE t \in Tokens /\ \A k : t # Closer(k)
  BY DEF Starters, Scalars, Strings, Tokens, Closer

\* A value that lands in an array begins an element.
LEMMA LandedInArray ==
    ASSUME NEW s \in Seq(Tokens), NEW t \in Starters, NEW f, NEW h, NEW r, Frames(f, s, h, r), r # <<>>,
           NEW g, NEW v, NEW c, Landed(h, g, r, v, c), TopKind(h, r) = "array",
           AtElement(s, h[r[Len(r)]], f[Len(r)], TreeOf(h))
    PROVE  /\ Frames(f, Append(s, t), g, r)
           /\ Begun(Append(s, t), g[r[Len(r)]], f[Len(r)], Len(s) + 1, c, TreeOf(g))
  <1> DEFINE u == Append(s, t)
             p == r[Len(r)]
             fr == f[Len(r)]
             x == fr.done
  <1>1. u \in Seq(Tokens) /\ Extends(s, u) /\ Len(u) = Len(s) + 1 /\ u[Len(s) + 1] = t
    BY StarterIs, ExtendsAppend
  <1>2. Heap(h) /\ Chain(h, r)
    BY DEF Frames
  <1>3. /\ Changes(h, g, r, 0) /\ c = Len(h) + 1 /\ g[p].kind = "array"
        /\ Parts(g[p]) = Append(Parts(h[p]), c)
    <2>1. NewItem(h, g, r, v, c)
      BY <1>2, ItemLands
    <2> QED
      BY <2>1 DEF NewItem
  <1>4. u[Len(s) + 1] # Closer(h[p].kind)
    BY <1>1, StarterIs
  <1>5. Frames(f, u, g, r)
    <2> HIDE DEF u
    <2> QED
      BY <1>1, <1>3, <1>4, FramesStay
  <1>6. Len(r) \in 1 .. Len(r) /\ p \in 1 .. Len(h) /\ Len(h) \in Nat
    BY <1>2, OpenNodes
  <1>7. FrameOK(s, "array", fr)
    BY <1>6 DEF Frames, TopKind
  <1>8. PICK S : x \in Seq(S)
    BY <1>7 DEF FrameOK, Partial
  <1>9. Parts(h[p]) \in Seq(Nat)
    <2>1. h[p] \in Node
      BY <1>2, <1>6 DEF Heap
    <2> QED
      BY <2>1 DEF Node, Parts, TopKind
  <1>10. /\ DOMAIN Parts(h[p]) = 1 .. Len(x) /\ Len(Parts(h[p])) = Len(x) /\ Len(x) \in Nat
    <2>1. DOMAIN Parts(h[p]) = DOMAIN x
      BY DEF AtElement, Shows
    <2> QED
      BY <1>8, <1>9, <2>1
  <1> DEFINE z == Len(x) + 1
  <1>11. /\ DOMAIN Parts(g[p]) = (1 .. Len(x)) \cup {z} /\ Parts(g[p])[z] = c
         /\ \A m \in 1 .. Len(x) : Parts(g[p])[m] = Parts(h[p])[m]
    <2> DEFINE y == Parts(h[p])
    <2>1. c \in Nat /\ y \in Seq(Nat) /\ Len(y) = Len(x) /\ Len(x) \in Nat
      BY <1>3, <1>6, <1>9, <1>10
    <2> HIDE DEF y, x
    <2>2. DOMAIN Append(y, c) = 1 .. z /\ Append(y, c)[z] = c /\ \A m \in 1 .. Len(x) : Append(y, c)[m] = y[m]
      BY <2>1
    <2>3. 1 .. z = (1 .. Len(x)) \cup {z}
      <3>1. \A n \in Nat : 1 .. n + 1 = (1 .. n) \cup {n + 1}
        OBVIOUS
      <3> QED
        BY <2>1, <3>1
    <2> QED
      BY <1>3, <2>2, <2>3 DEF y
  <1>12. ShowsBut(g[p], x, z, TreeOf(g))
    <2>1. Shows(h[p], x, TreeOf(h))
      BY DEF AtElement
    <2>2. DOMAIN Parts(g[p]) = DOMAIN Parts(h[p]) \cup {z}
      BY <1>10, <1>11
    <2>3. \A m \in DOMAIN Parts(h[p]) : m # z => Parts(g[p])[m] = Parts(h[p])[m]
      BY <1>10, <1>11
    <2> HIDE DEF x, z
    <2> QED
      BY <1>2, <1>3, <2>1, <2>2, <2>3, NewPart
  <1>13. PlaceOf("array", x, u[fr.elem]) = z
    BY DEF PlaceOf
  <1>14. fr.elem = Len(s) + 1 /\ ValueAt("array", fr.elem) = fr.elem /\ Begins(u, "array", fr.elem)
    BY DEF AtElement, ValueAt, Begins
  <1>15. z \in DOMAIN Parts(g[p]) /\ Parts(g[p])[z] = c
    BY <1>11
  <1>16. Len(s) + 1 <= Len(u) + 1
    BY <1>1
  <1> HIDE DEF u, z
  <1>17. Begun(u, g[p], fr, Len(s) + 1, c, TreeOf(g))
    BY <1>3, <1>12, <1>13, <1>14, <1>15, <1>16 DEF Begun
  <1> QED
    BY <1>5, <1>17 DEF u

\* A value that lands in an object stays in the element of its key.
LEMMA LandedInObject ==
    ASSUME NEW s \in Seq(Tokens), NEW t \in Starters, NEW f, NEW h, NEW r, Frames(f, s, h, r), r # <<>>,
           NEW g, NEW v, NEW c, Landed(h, g, r, v, c), TopKind(h, r) = "object",
           Begun(s, h[r[Len(r)]], f[Len(r)], Len(s) + 1, c, TreeOf(h))
    PROVE  /\ Frames(f, Append(s, t), g, r)
           /\ Begun(Append(s, t), g[r[Len(r)]], f[Len(r)], Len(s) + 1, c, TreeOf(g))
  <1> DEFINE u == Append(s, t)
             p == r[Len(r)]
             fr == f[Len(r)]
             o == h[p]
  <1>1. u \in Seq(Tokens) /\ Extends(s, u) /\ Len(u) = Len(s) + 1 /\ u[Len(s) + 1] = t
    BY StarterIs, ExtendsAppend
  <1>2. Heap(h) /\ Chain(h, r)
    BY DEF Frames
  <1>3. Changes(h, g, r, c) /\ g[p] = o
    BY <1>2, MemberLands
  <1>4. u[Len(s) + 1] # Closer(h[p].kind)
    BY <1>1, StarterIs
  <1>5. Frames(f, u, g, r) /\ SameTrees(g, h, Rest(h, r, c))
    <2> HIDE DEF u
    <2> QED
      BY <1>1, <1>3, <1>4, FramesStay
  <1>6. Len(r) \in 1 .. Len(r) /\ p \in 1 .. Len(h) /\ Len(h) \in Nat
    BY <1>2, OpenNodes
  <1>7. FrameOK(s, o.kind, fr)
    BY <1>6 DEF Frames
  <1>8. Begun(u, o, fr, Len(s) + 1, c, TreeOf(h))
    <2>1. Begun(s, o, fr, Len(s) + 1, c, TreeOf(h))
      OBVIOUS
    <2> HIDE DEF u, o, fr
    <2> QED
      BY <1>1, <1>7, <2>1, BegunExtends
  <1>9. ASSUME NEW x \in DOMAIN Parts(o), NEW y \in DOMAIN Parts(o), Parts(o)[x] = Parts(o)[y]
        PROVE  x = y
    <2> DEFINE q == Parts(o)[x]
    <2>1. Refers(h, p, x, q) /\ Refers(h, p, y, q)
      BY <1>6, <1>9 DEF Refers
    <2> HIDE DEF q
    <2> QED
      BY <1>2, <2>1, OneReference
  <1>10. ASSUME NEW x \in DOMAIN Parts(o), Parts(o)[x] # c PROVE TreeOf(g)[Parts(o)[x]] = TreeOf(h)[Parts(o)[x]]
    <2>1. Holds(h[p], c)
      BY <1>3 DEF Changes, Landed
    <2>2. Len(r) < Len(r) => Parts(h[p])[x] # r[Len(r) + 1]
      BY <1>6
    <2>3. Parts(o)[x] \in Rest(h, r, c)
      BY <1>2, <1>6, <1>10, <2>1, <2>2, OtherParts
    <2> QED
      BY <1>5, <2>3 DEF SameTrees
  <1>11. Begun(u, o, fr, Len(s) + 1, c, TreeOf(g))
    <2> HIDE DEF u, o, fr
    <2> QED
      BY <1>8, <1>9, <1>10, BegunTrees
  <1> QED
    BY <1>3, <1>5, <1>11

\* However the text goes on, the value that begins at a is d.
Complete(s, a, d) == a \in 1 .. Len(s) /\ \A w \in Seq(Tokens) : Extends(s, w) => ValueDocs(w, a, Len(s)) = {d}

LEMMA OneFunction ==
    ASSUME NEW k \in Containers, NEW x, Partial(k, x) PROVE x = [m \in DOMAIN x |-> x[m]]
  <1>1. CASE k = "array"
    <2>1. PICK S : x \in Seq(S)
      BY <1>1 DEF Partial
    <2> QED
      BY <2>1
  <1>2. CASE k = "object"
    BY <1>2 DEF Partial
  <1> QED
    BY <1>1, <1>2 DEF Containers

\* A container that shows x but for one part shows x with that part joined.
LEMMA ShowsJoin ==
    ASSUME NEW k \in Containers, NEW x, Partial(k, x), NEW t, NEW o, NEW T,
           ShowsBut(o, x, PlaceOf(k, x, t), T)
    PROVE  Shows(o, Join(k, x, One(k, t, T[Parts(o)[PlaceOf(k, x, t)]])), T)
  <1> DEFINE z == PlaceOf(k, x, t)
             P == Parts(o)
             d == T[P[z]]
             y == Join(k, x, One(k, t, d))
  <1>1. DOMAIN P = DOMAIN x \cup {z} /\ \A m \in DOMAIN x : m # z => T[P[m]] = x[m]
    BY DEF ShowsBut
  <1>2. CASE k = "array"
    <2>1. PICK S : x \in Seq(S)
      BY <1>2 DEF Partial
    <2>2. y = x \o <<d>> /\ z = Len(x) + 1
      BY <1>2 DEF Join, One, PlaceOf
    <2> HIDE DEF d, P
    <2>3. Len(x) \in Nat /\ DOMAIN x = 1 .. Len(x)
      BY <2>1
    <2>4. \A n \in Nat : 1 .. n + 1 = (1 .. n) \cup {n + 1}
      OBVIOUS
    <2>5. /\ Len(x \o <<d>>) = Len(x) + 1 /\ DOMAIN (x \o <<d>>) = 1 .. Len(x) + 1
          /\ \A m \in 1 .. Len(x) : (x \o <<d>>)[m] = x[m]
          /\ (x \o <<d>>)[Len(x) + 1] = d
      BY <2>1
    <2>6. DOMAIN P = DOMAIN y
      BY <1>1, <2>2, <2>3, <2>4, <2>5
    <2>7. ASSUME NEW m \in DOMAIN y PROVE T[P[m]] = y[m]
      <3>1. m \in 1 .. Len(x) \/ m = Len(x) + 1
        BY <2>2, <2>3, <2>4, <2>5
      <3>2. CASE m \in 1 .. Len(x)
        BY <1>1, <2>2, <2>3, <2>5, <3>2
      <3>3. CASE m = Len(x) + 1
        BY <2>2, <2>5, <3>3 DEF d
      <3> QED
        BY <3>1, <3>2, <3>3
    <2> QED
      BY <2>6, <2>7 DEF Shows, d, P
  <1>3. CASE k = "object"
    <2>1. z = t /\ y = [m \in DOMAIN x \cup DOMAIN [j \in {t} |-> d] |->
                           IF m \in DOMAIN [j \in {t} |-> d] THEN [j \in {t} |-> d][m] ELSE x[m]]
      BY <1>3 DEF Join, One, PlaceOf
    <2> HIDE DEF d, P
    <2>2. DOMAIN y = DOMAIN x \cup {t} /\ \A m \in DOMAIN y : y[m] = IF m = t THEN d ELSE x[m]
      BY <2>1
    <2>3. DOMAIN P = DOMAIN y
      BY <1>1, <2>1, <2>2
    <2>4. ASSUME NEW m \in DOMAIN y PROVE T[P[m]] = y[m]
      <3>1. CASE m = t
        BY <2>1, <2>2, <3>1 DEF d
      <3>2. CASE m # t
        BY <1>1, <2>1, <2>2, <3>2
      <3> QED
        BY <3>1, <3>2
    <2> QED
      BY <2>3, <2>4 DEF Shows, d, P
  <1> QED
    BY <1>2, <1>3 DEF Containers

\* The document of a container is made of what it shows.
LEMMA TreeMade ==
    ASSUME NEW k \in Containers, NEW x, Partial(k, x), NEW o, o.kind = k, NEW T, Shows(o, x, T)
    PROVE  TreeRule(T, o) = Made(k, x)
  <1> DEFINE P == Parts(o)
  <1>1. x = [m \in DOMAIN x |-> x[m]] /\ DOMAIN P = DOMAIN x /\ \A m \in DOMAIN x : T[P[m]] = x[m]
    BY OneFunction DEF Shows
  <1>2. [m \in DOMAIN P |-> T[P[m]]] = x
    <2> HIDE DEF P
    <2> DEFINE g == [m \in DOMAIN P |-> T[P[m]]]
    <2>1. DOMAIN g = DOMAIN x /\ \A m \in DOMAIN g : g[m] = x[m]
      BY <1>1
    <2>2. g = [m \in DOMAIN g |-> g[m]]
      OBVIOUS
    <2> HIDE DEF g
    <2>3. g = x
      BY <1>1, <2>1, <2>2, SameFunction
    <2> QED
      BY <2>3 DEF g
  <1>3. CASE k = "array"
    <2>1. P = o.items /\ o.kind = "array"
      BY <1>3 DEF Parts
    <2> QED
      BY <1>2, <1>3, <2>1 DEF TreeRule, Made
  <1>4. CASE k = "object"
    <2>1. P = o.members /\ o.kind = "object"
      BY <1>4 DEF Parts
    <2> QED
      BY <1>2, <1>4, <2>1 DEF TreeRule, Made
  <1> QED
    BY <1>3, <1>4 DEF Containers

LEMMA JoinLast ==
    ASSUME NEW k \in Containers, NEW x, Partial(k, x)
    PROVE  Join(k, x, Nothing(k)) = x
  <1>1. CASE k = "array"
    <2>1. PICK S : x \in Seq(S)
      BY <1>1 DEF Partial
    <2>2. x \o <<>> = x
      BY <2>1
    <2> QED
      BY <1>1, <2>2 DEF Join, Nothing
  <1>2. CASE k = "object"
    <2>1. x = [m \in DOMAIN x |-> x[m]]
      BY <1>2 DEF Partial
    <2> DEFINE e == [j \in {} |-> 0]
    <2>2. DOMAIN e = {}
      OBVIOUS
    <2>3. Join(k, x, Nothing(k)) = [m \in DOMAIN x \cup DOMAIN e |-> IF m \in DOMAIN e THEN e[m] ELSE x[m]]
      BY <1>2 DEF Join, Nothing
    <2> HIDE DEF e
    <2>4. [m \in DOMAIN x \cup DOMAIN e |-> IF m \in DOMAIN e THEN e[m] ELSE x[m]] = [m \in DOMAIN x |-> x[m]]
      BY <2>2
    <2> QED
      BY <2>1, <2>3, <2>4
  <1> QED
    BY <1>1, <1>2 DEF Containers
-----------------------------------------------------------------------------
\* A scalar is a value, however the text goes on.
LEMMA ScalarComplete ==
    ASSUME NEW s \in Seq(Tokens), NEW t \in Scalars
    PROVE  Complete(Append(s, t), Len(s) + 1, Scalar(t))
  <1> DEFINE u == Append(s, t)
             j == Len(s) + 1
  <1>1. t \in Tokens
    BY DEF Tokens
  <1>2. u \in Seq(Tokens) /\ Len(u) = j /\ u[j] = t /\ j \in Nat /\ j >= 1
    BY <1>1, ExtendsAppend
  <1> HIDE DEF u, j
  <1>3. ASSUME NEW w \in Seq(Tokens), Extends(u, w) PROVE ValueDocs(w, j, j) = {Scalar(t)}
    <2>1. w[j] = t
      BY <1>2, <1>3 DEF Extends
    <2>2. ASSUME NEW d PROVE d \in ValueDocs(w, j, j) <=> d = Scalar(t)
      BY <1>2, <2>1, ValuesAre
    <2> QED
      BY <2>2
  <1>4. Complete(u, j, Scalar(t))
    BY <1>2, <1>3 DEF Complete
  <1> QED
    BY <1>4 DEF u, j

LEMMA OneOpener == \A k, kk \in Containers : Opener(kk) = Opener(k) => kk = k
  <1> TAKE k \in Containers, kk \in Containers
  <1>1. (k = "array" \/ k = "object") /\ (kk = "array" \/ kk = "object")
    BY DEF Containers
  <1>2. Opener("array") = "[" /\ Opener("object") = "{"
    BY DEF Opener
  <1>3. Opener("array") # Opener("object")
    BY <1>2
  <1> QED
    BY <1>1, <1>3

\* Brackets with nothing between them.
LEMMA EmptyComplete ==
    ASSUME NEW s \in Seq(Tokens), NEW k \in Containers, Len(s) >= 1, s[Len(s)] = Opener(k)
    PROVE  Complete(Append(s, Closer(k)), Len(s), Made(k, Nothing(k)))
  <1> DEFINE u == Append(s, Closer(k))
             a == Len(s)
  <1>1. Closer(k) \in Tokens
    BY DEF Tokens, Closer
  <1>2. u \in Seq(Tokens) /\ Len(u) = a + 1 /\ u[a + 1] = Closer(k) /\ u[a] = Opener(k) /\ a \in Nat /\ a >= 1
    <2>1. Extends(s, u)
      BY <1>1, ExtendsAppend
    <2> QED
      BY <1>1, <2>1, ExtendsAppend DEF Extends
  <1> HIDE DEF u, a
  <1>3. ASSUME NEW w \in Seq(Tokens), Extends(u, w) PROVE ValueDocs(w, a, a + 1) = {Made(k, Nothing(k))}
    <2>1. w[a] = Opener(k) /\ w[a + 1] = Closer(k)
      BY <1>2, <1>3 DEF Extends
    <2>2. \A kk \in Containers : Opener(kk) = Opener(k) => kk = k
      BY OneOpener
    <2>3. Inner(w, k, a, a + 1) = {Nothing(k)}
      BY DEF Inner
    <2>4. ASSUME NEW d PROVE d \in ValueDocs(w, a, a + 1) <=> d = Made(k, Nothing(k))
      <3>1. a # a + 1 /\ a < a + 1 /\ a + 1 \in Nat
        BY <1>2
      <3>2. d \in ValueDocs(w, a, a + 1) <=>
            \E kk \in Containers : /\ w[a] = Opener(kk) /\ w[a + 1] = Closer(kk)
                                   /\ \E y \in Inner(w, kk, a, a + 1) : d = Made(kk, y)
        BY <1>2, <3>1, ValuesAre
      <3> QED
        BY <2>1, <2>2, <2>3, <3>2, Zenon
    <2> QED
      BY <2>4
  <1>4. Complete(u, a, Made(k, Nothing(k)))
    BY <1>2, <1>3 DEF Complete
  <1> QED
    BY <1>4 DEF u, a

\* What is done of the container o when the value of the element it is in is d.
DoneWith(s, k, fr, d) == Join(k, fr.done, One(k, s[fr.elem], d))

\* The element the frame is in ends where s does, in every text w that begins with s.
InElement(w, s, k, fr, d) ==
    /\ fr.elem \in Nat /\ fr.at < fr.elem /\ fr.elem <= Len(s) /\ w[fr.elem] = s[fr.elem]
    /\ ElementEnds(w, k, fr.elem, Len(s), d)

\* When its value is complete the element ends there, however the text goes on.
LEMMA ElementIs ==
    ASSUME NEW s \in Seq(Tokens), NEW o, NEW fr, FrameOK(s, o.kind, fr),
           NEW a, NEW e, NEW T, Begun(s, o, fr, a, e, T), NEW d, Complete(s, a, d),
           NEW w \in Seq(Tokens), Extends(s, w)
    PROVE  InElement(w, s, o.kind, fr, d)
  <1> DEFINE k == o.kind
             q == fr.elem
  <1>1. /\ k \in Containers /\ fr.at \in 1 .. Len(s) /\ q \in fr.at + 1 .. Len(s) + 1 /\ Len(s) \in Nat
        /\ a = ValueAt(k, q) /\ Begins(s, k, q) /\ a \in 1 .. Len(s)
    BY DEF FrameOK, Begun, Complete
  <1>2. q \in Nat /\ fr.at < q /\ q <= Len(s) /\ q >= 1 /\ (k = "object" => q + 1 <= Len(s))
    BY <1>1 DEF ValueAt, Containers
  <1>3. \A i \in 1 .. Len(s) : w[i] = s[i]
    BY DEF Extends
  <1>4. w[q] = s[q] /\ (k = "object" => w[q + 1] = s[q + 1])
    BY <1>1, <1>2, <1>3, SMTT(30)
  <1>5. Begins(w, k, q)
    BY <1>1, <1>4 DEF Begins
  <1>6. After(w, k, q, Len(s))
    BY <1>1, <1>2, <1>5 DEF After
  <1>7. ValueDocs(w, a, Len(s)) = {d}
    BY DEF Complete
  <1> QED
    BY <1>1, <1>2, <1>4, <1>6, <1>7 DEF InElement, ElementEnds

\* When the container ends after it, the container is complete.
LEMMA CloseComplete ==
    ASSUME NEW s \in Seq(Tokens), NEW o, NEW fr, FrameOK(s, o.kind, fr),
           NEW a, NEW e, NEW T, Begun(s, o, fr, a, e, T), NEW d, Complete(s, a, d)
    PROVE  Complete(Append(s, Closer(o.kind)), fr.at, Made(o.kind, DoneWith(s, o.kind, fr, d)))
  <1> DEFINE k == o.kind
             q == fr.elem
             u == Append(s, Closer(k))
             j == Len(s) + 1
             x == DoneWith(s, k, fr, d)
  <1>1. k \in Containers /\ Closer(k) \in Tokens
    BY DEF FrameOK, Tokens, Closer
  <1>2. u \in Seq(Tokens) /\ Extends(s, u) /\ Len(u) = j /\ u[j] = Closer(k) /\ Len(s) \in Nat /\ j \in Nat
    BY <1>1, ExtendsAppend
  <1>3. q \in Nat /\ fr.at < q /\ q <= Len(s) /\ fr.at \in 1 .. Len(s)
    <2>1. InElement(s, s, k, fr, d)
      BY ElementIs, ExtendsItself
    <2> QED
      BY <2>1 DEF InElement, FrameOK
  <1>4. s[fr.at] = Opener(k) /\ Contents(s, k, fr) /\ Partial(k, fr.done)
    BY DEF FrameOK
  <1>5. ASSUME NEW w \in Seq(Tokens), Extends(u, w) PROVE ValueDocs(w, fr.at, j) = {Made(k, x)}
    <2> HIDE DEF u, k
    <2>1. Extends(s, w) /\ w[j] = Closer(k) /\ w[fr.at] = Opener(k) /\ j \in 1 .. Len(w)
      <3>1. Extends(s, w)
        BY <1>2, <1>5, ExtendsTrans
      <3> QED
        BY <1>2, <1>3, <1>4, <1>5, <3>1 DEF Extends
    <2> DEFINE one == One(k, s[q], d)
    <2>2. ElementDocs(w, k, q, j) = {Join(k, one, Nothing(k))}
      <3>1. ElementEnds(w, k, q, Len(s), d) /\ w[q] = s[q]
        <4>1. InElement(w, s, o.kind, fr, d)
          BY <2>1, ElementIs
        <4> QED
          BY <4>1 DEF k, InElement
      <3>2. ASSUME NEW y PROVE y \in ElementDocs(w, k, q, j) <=> y = Join(k, one, Nothing(k))
        <4>1. y \in ElementDocs(w, k, q, j) <=> FirstThen(w, k, q, Len(s), d, j, y)
          <5> HIDE DEF q, j
          <5> QED
            BY <1>1, <1>2, <1>3, <3>1, FirstOfElements DEF k
        <4>2. q < j /\ j <= j /\ w[j] = Closer(k)
          BY <1>2, <1>3, <2>1
        <4> HIDE DEF k
        <4> QED
          BY <3>1, <4>1, <4>2 DEF FirstThen
      <3> QED
        BY <3>2
    <2>3. Join(k, one, Nothing(k)) = one
      <3>1. Partial(k, one)
        BY <1>1, PartialOne DEF k
      <3> QED
        BY <1>1, <3>1, JoinLast DEF k
    <2>4. Inner(w, k, fr.at, j) = {x}
      <3>1. j # fr.at + 1
        BY <1>2, <1>3
      <3>2. ElementDocs(w, k, fr.at + 1, j) = AllAfter(k, fr.done, ElementDocs(w, k, q, j))
        BY <1>4, <2>1 DEF Contents, k
      <3> HIDE DEF one
      <3>3. AllAfter(k, fr.done, {one}) = {Join(k, fr.done, one)}
        BY DEF AllAfter
      <3> QED
        BY <2>2, <2>3, <3>1, <3>2, <3>3 DEF Inner, DoneWith, one
    <2>5. ASSUME NEW y PROVE y \in ValueDocs(w, fr.at, j) <=> y = Made(k, x)
      <3>1. fr.at # j /\ fr.at < j /\ j \in Nat /\ fr.at \in Nat
        BY <1>2, <1>3
      <3>2. y \in ValueDocs(w, fr.at, j) <=>
            \E kk \in Containers : /\ w[fr.at] = Opener(kk) /\ w[j] = Closer(kk)
                                   /\ \E z \in Inner(w, kk, fr.at, j) : y = Made(kk, z)
        BY <3>1, ValuesAre
      <3>3. \A kk \in Containers : Opener(kk) = Opener(k) => kk = k
        BY <1>1, OneOpener DEF k
      <3> QED
        BY <1>1, <2>1, <2>4, <3>2, <3>3, Zenon DEF k
    <2> QED
      BY <2>5
  <1>6. fr.at \in 1 .. Len(u)
    BY <1>2, <1>3
  <1> HIDE DEF u, k, x
  <1>7. Complete(u, fr.at, Made(k, x))
    BY <1>2, <1>5, <1>6 DEF Complete
  <1> QED
    BY <1>7 DEF u, k, x

\* After a comma the element is done.
NextFrame(s, k, fr, d) == [at |-> fr.at, elem |-> Len(s) + 2, done |-> DoneWith(s, k, fr, d)]

\* When a comma follows, the frame goes on behind it.
LEMMA CommaFrame ==
    ASSUME NEW s \in Seq(Tokens), NEW o, NEW fr, FrameOK(s, o.kind, fr),
           NEW a, NEW e, NEW T, Begun(s, o, fr, a, e, T), NEW d, Complete(s, a, d)
    PROVE  FrameOK(Append(s, ","), o.kind, NextFrame(s, o.kind, fr, d))
  <1> DEFINE k == o.kind
             q == fr.elem
             u == Append(s, ",")
             j == Len(s) + 1
             x == DoneWith(s, k, fr, d)
             one == One(k, s[q], d)
             nf == NextFrame(s, k, fr, d)
  <1>1. k \in Containers /\ "," \in Tokens
    BY DEF FrameOK, Tokens
  <1>2. u \in Seq(Tokens) /\ Extends(s, u) /\ Len(u) = j /\ u[j] = "," /\ Len(s) \in Nat /\ j \in Nat
    <2>1. ASSUME NEW t \in Tokens
          PROVE  LET y == Append(s, t) IN
                 y \in Seq(Tokens) /\ Extends(s, y) /\ Len(y) = j /\ y[j] = t /\ Len(s) \in Nat /\ j \in Nat
      BY ExtendsAppend
    <2> QED
      BY <1>1, <2>1, Zenon
  <1>3. q \in Nat /\ fr.at < q /\ q <= Len(s) /\ fr.at \in 1 .. Len(s)
    <2>1. InElement(s, s, k, fr, d)
      BY ElementIs, ExtendsItself
    <2> QED
      BY <2>1 DEF InElement, FrameOK
  <1>4. s[fr.at] = Opener(k) /\ Contents(s, k, fr) /\ Partial(k, fr.done) /\ (fr.at < Len(s) => s[fr.at + 1] # Closer(k))
    BY DEF FrameOK
  <1>5. nf.at = fr.at /\ nf.elem = j + 1 /\ nf.done = x
    <2>1. Len(s) \in Nat
      OBVIOUS
    <2> HIDE DEF x, u
    <2> QED
      BY <2>1 DEF NextFrame, x
  <1>6. IsComma(u, j)
    BY <1>2, Zenon DEF IsComma
  <1>7. u \in Seq(Tokens) /\ Extends(s, u) /\ Len(u) = j
    BY <1>2
  <1>8. Len(s) \in Nat /\ j \in Nat
    BY <1>2
  <1> HIDE DEF u, nf, x
  <1>9. Partial(k, one) /\ x = Join(k, fr.done, one)
    BY <1>1, PartialOne DEF x, DoneWith
  <1>10. Partial(k, x)
    BY <1>1, <1>4, <1>9, PartialJoin
  <1> DEFINE K == k
  <1>11. ASSUME NEW w \in Seq(Tokens), Extends(u, w), NEW b \in 1 .. Len(w)
        PROVE  ElementDocs(w, k, fr.at + 1, b) = AllAfter(k, x, ElementDocs(w, k, j + 1, b))
    <2>1. Extends(s, w)
      BY <1>7, <1>11, ExtendsTrans
    <2>2. IsComma(w, j)
      <3>1. w[j] = u[j]
        BY <1>7, <1>8, <1>11 DEF Extends
      <3> QED
        BY <1>6, <3>1, Zenon DEF IsComma
    <2>3. ElementEnds(w, k, q, Len(s), d) /\ w[q] = s[q]
      <3>1. InElement(w, s, o.kind, fr, d)
        BY <2>1, ElementIs
      <3> QED
        BY <3>1 DEF InElement
    <2>4. b \in Nat
      OBVIOUS
    <2> DEFINE E == ElementDocs(w, k, q, b)
               F == ElementDocs(w, k, j + 1, b)
    <2>5. ASSUME NEW y PROVE y \in E <=> \E z \in F : y = Join(k, one, z)
      <3>1. y \in E <=>
            /\ q < b /\ w[b] = Closer(k) /\ j <= b
            /\ \/ j = b /\ y = Join(k, One(k, w[q], d), Nothing(k))
               \/ /\ j # b /\ IsComma(w, j)
                  /\ \E z \in ElementDocs(w, k, Len(s) + 2, b) : y = Join(k, One(k, w[q], d), z)
        <4>1. y \in E <=> FirstThen(w, k, q, Len(s), d, b, y)
          <5> HIDE DEF q, k
          <5> QED
            BY <1>1, <1>8, <1>3, <2>3, <2>4, FirstOfElements DEF k
        <4> QED
          BY <4>1, Zenon DEF FirstThen
      <3>2. Len(s) + 2 = j + 1
        BY <1>8
      <3>3. j = b => w[b] # Closer(k)
        BY <2>2, CommaIs
      <3>4. ASSUME NEW z \in F PROVE w[b] = Closer(k) /\ q < b /\ j <= b /\ j # b
        <4>1. j + 1 < b /\ w[b] = Closer(k)
          <5> DEFINE i == j + 1
          <5>1. i \in Nat /\ ElementDocs(w, k, i, b) # {}
            BY <1>8
          <5> HIDE DEF i, k
          <5>2. i < b /\ w[b] = Closer(k)
            BY <1>1, <2>4, <5>1, ElementsBegin
          <5> QED
            BY <5>2 DEF i
        <4> QED
          BY <1>3, <1>8, <2>4, <4>1
      <3> QED
        BY <2>2, <2>3, <3>1, <3>2, <3>3, <3>4, Zenon
    <2>6. ElementDocs(w, k, fr.at + 1, b) = AllAfter(k, fr.done, E)
      BY <1>4, <2>1 DEF Contents
    <2>7. ASSUME NEW z \in F PROVE Join(k, fr.done, Join(k, one, z)) = Join(k, x, z)
      <3>1. Partial(k, z)
        <4>1. j + 1 \in Nat
          BY <1>8
        <4> HIDE DEF j, k
        <4> QED
          BY <1>1, <2>4, <4>1, ElementDocsPartial DEF k
      <3>2. Join(k, fr.done, Join(k, one, z)) = Join(k, Join(k, fr.done, one), z)
        <4> DEFINE v == fr.done
        <4>1. k \in Containers /\ Partial(k, v) /\ Partial(k, z)
          BY <1>1, <1>4, <3>1
        <4> HIDE DEF k, v, q
        <4> QED
          BY <4>1, JoinAssoc DEF v
      <3> QED
        BY <1>9, <3>2
    <2> HIDE DEF E, F, one
    <2>8. AllAfter(k, fr.done, E) = AllAfter(k, x, F)
      <3>1. ASSUME NEW y PROVE y \in AllAfter(k, fr.done, E) <=> \E z \in F : y = Join(k, fr.done, Join(k, one, z))
        BY <2>5 DEF AllAfter
      <3>2. ASSUME NEW y PROVE y \in AllAfter(k, x, F) <=> \E z \in F : y = Join(k, x, z)
        BY DEF AllAfter
      <3> QED
        BY <2>7, <3>1, <3>2
    <2> QED
      BY <2>6, <2>8 DEF F
  <1>12. Contents(u, k, nf)
    BY <1>5, <1>11 DEF Contents
  <1>13. nf.at \in 1 .. Len(u) /\ nf.elem \in nf.at + 1 .. Len(u) + 1
    BY <1>3, <1>5, <1>7, <1>8
  <1>14. u[nf.at] = Opener(k) /\ u[nf.at + 1] # Closer(k)
    <2>1. fr.at + 1 \in 1 .. Len(s) /\ fr.at \in 1 .. Len(s) /\ fr.at < Len(s)
      BY <1>3, <1>8
    <2> QED
      BY <1>4, <1>5, <1>7, <2>1 DEF Extends
  <1>15. FrameOK(u, k, nf)
    BY <1>1, <1>5, <1>10, <1>12, <1>13, <1>14 DEF FrameOK
  <1> QED
    BY <1>15 DEF u, nf

\* Between elements: the last one, whose value is in node e, is complete; without open containers
\* the document is.
Between(f, s, h, r) ==
    IF r = <<>> THEN Complete(s, 1, TreeOf(h)[1])
    ELSE \E a, e : Begun(s, h[r[Len(r)]], f[Len(r)], a, e, TreeOf(h)) /\ Complete(s, a, TreeOf(h)[e])

\* A key has been read, and its value goes to node c.
AtKey(s, o, fr, c, T) ==
    /\ fr.elem = Len(s) /\ s[Len(s)] \in Strings
    /\ s[Len(s)] \in DOMAIN Parts(o) /\ Parts(o)[s[Len(s)]] = c
    /\ ShowsBut(o, fr.done, s[Len(s)], T)
FirstFrame(s, k) == [at |-> Len(s), elem |-> Len(s) + 1, done |-> Nothing(k)]
AddFrame(f, n, fr) == [i \in 1 .. n |-> IF i = n THEN fr ELSE f[i]]

LEMMA NothingChanges == ASSUME NEW h, Heap(h), NEW r PROVE Changes(h, h, r, 0)
  BY DEF Changes, Heap

\* The frame of a container that begins.
LEMMA OpenFrame ==
    ASSUME NEW u \in Seq(Tokens), NEW k \in Containers, Len(u) >= 1, u[Len(u)] = Opener(k)
    PROVE  FrameOK(u, k, FirstFrame(u, k))
  <1> DEFINE fr == FirstFrame(u, k)
  <1>1. fr.at = Len(u) /\ fr.elem = Len(u) + 1 /\ fr.done = Nothing(k)
    BY DEF FirstFrame
  <1>2. Partial(k, fr.done)
    BY <1>1, PartialNothing
  <1>3. ASSUME NEW w \in Seq(Tokens), NEW b \in 1 .. Len(w)
        PROVE  ElementDocs(w, k, fr.at + 1, b) = AllAfter(k, fr.done, ElementDocs(w, k, fr.elem, b))
    <2> DEFINE n == Len(u) + 1
               E == ElementDocs(w, k, n, b)
    <2>1. n \in Nat /\ b \in Nat
      OBVIOUS
    <2>2. ASSUME NEW y \in E PROVE Join(k, Nothing(k), y) = y
      <3>1. Partial(k, y)
        <4> HIDE DEF n
        <4> QED
          BY <2>1, ElementDocsPartial
      <3> QED
        BY <3>1, JoinNothing
    <2>3. E = AllAfter(k, Nothing(k), E)
      <3> HIDE DEF E
      <3>1. \A y : y \in AllAfter(k, Nothing(k), E) <=> \E z \in E : y = Join(k, Nothing(k), z)
        BY DEF AllAfter
      <3>2. ASSUME NEW y PROVE y \in AllAfter(k, Nothing(k), E) <=> y \in E
        BY <2>2, <3>1
      <3> QED
        BY <3>2
    <2> QED
      BY <1>1, <2>3
  <1>4. Contents(u, k, fr)
    BY <1>3 DEF Contents
  <1>5. Len(u) \in Nat
    OBVIOUS
  <1> HIDE DEF fr
  <1>6. FrameOK(u, k, fr)
    BY <1>1, <1>2, <1>4, <1>5 DEF FrameOK
  <1> QED
    BY <1>6 DEF fr

\* The innermost frame.
LEMMA Frame ==
    ASSUME NEW f, NEW s, NEW h, NEW r, Frames(f, s, h, r), r # <<>>
    PROVE  /\ Heap(h) /\ Chain(h, r) /\ FrameOK(s, h[r[Len(r)]].kind, f[Len(r)])
           /\ Len(r) \in 1 .. Len(r) /\ r[Len(r)] \in 1 .. Len(h) /\ f[1].at = 1
  <1>1. Heap(h) /\ Chain(h, r) /\ f[1].at = 1
    BY DEF Frames
  <1>2. Len(r) \in 1 .. Len(r) /\ r[Len(r)] \in 1 .. Len(h)
    BY <1>1, OpenNodes
  <1> QED
    BY <1>1, <1>2 DEF Frames

\* A key keeps the frames; its value goes to the node of the member.
LEMMA KeyFrames ==
    ASSUME NEW s \in Seq(Tokens), NEW t \in Strings, NEW f, NEW h, NEW r, Frames(f, s, h, r), r # <<>>,
           NEW g, NEW c, Keyed(h, g, r, t, c), AtElement(s, h[r[Len(r)]], f[Len(r)], TreeOf(h))
    PROVE  /\ Frames(f, Append(s, t), g, r)
           /\ AtKey(Append(s, t), g[r[Len(r)]], f[Len(r)], c, TreeOf(g))
  <1> DEFINE u == Append(s, t)
             p == r[Len(r)]
             fr == f[Len(r)]
  <1>1. t \in Tokens /\ \A k : t # Closer(k)
    BY DEF Tokens, Scalars, Strings, Closer
  <1>2. u \in Seq(Tokens) /\ Extends(s, u) /\ Len(u) = Len(s) + 1 /\ u[Len(s) + 1] = t
    BY <1>1, ExtendsAppend
  <1>3. Heap(h) /\ Chain(h, r)
    BY Frame
  <1>4. /\ Changes(h, g, r, 0)
        /\ DOMAIN Parts(g[p]) = DOMAIN Parts(h[p]) \cup {t} /\ Parts(g[p])[t] = c
        /\ \A x \in DOMAIN Parts(h[p]) : Parts(g[p])[x] = Parts(h[p])[x]
    <2>1. NewMember(h, g, r, t, c)
      BY <1>3, KeyLands
    <2> QED
      BY <2>1 DEF NewMember
  <1> HIDE DEF u
  <1>5. Frames(f, u, g, r)
    BY <1>1, <1>2, <1>4, FramesStay
  <1>6. ShowsBut(g[p], fr.done, t, TreeOf(g))
    <2> DEFINE x == fr.done
    <2>1. Shows(h[p], x, TreeOf(h))
      BY DEF AtElement
    <2> HIDE DEF x
    <2>2. ShowsBut(g[p], x, t, TreeOf(g))
      BY <1>3, <1>4, <2>1, NewPart
    <2> QED
      BY <2>2 DEF x
  <1>7. fr.elem = Len(s) + 1 /\ u[Len(u)] = t /\ Len(u) = Len(s) + 1
    BY <1>2 DEF AtElement
  <1>8. AtKey(u, g[p], fr, c, TreeOf(g))
    BY <1>4, <1>6, <1>7 DEF AtKey
  <1> QED
    BY <1>5, <1>8 DEF u

\* A colon keeps the frames; the value begins behind it.
LEMMA ColonFrames ==
    ASSUME NEW s \in Seq(Tokens), NEW f, NEW h, NEW r, Frames(f, s, h, r), r # <<>>,
           NEW c, AtKey(s, h[r[Len(r)]], f[Len(r)], c, TreeOf(h)), TopKind(h, r) = "object"
    PROVE  LET u == Append(s, ":") IN
           /\ Frames(f, u, h, r) /\ f[Len(r)].at < Len(u)
           /\ Begun(u, h[r[Len(r)]], f[Len(r)], Len(u) + 1, c, TreeOf(h))
  <1> DEFINE u == Append(s, ":")
             p == r[Len(r)]
             o == h[p]
             fr == f[Len(r)]
  <1>1. ":" \in Tokens
    BY DEF Tokens
  <1>2. u \in Seq(Tokens) /\ Extends(s, u) /\ Len(u) = Len(s) + 1 /\ u[Len(s) + 1] = ":"
    BY <1>1, ExtendsAppend
  <1>3. Heap(h) /\ FrameOK(s, o.kind, fr) /\ o.kind = "object"
    BY Frame DEF TopKind
  <1>4. fr.elem = Len(s) /\ fr.at < Len(s) /\ Len(s) \in 1 .. Len(s) /\ Len(s) \in Nat
    BY <1>3 DEF FrameOK, AtKey
  <1> HIDE DEF u
  <1>5. Frames(f, u, h, r)
    <2>1. Changes(h, h, r, 0)
      BY <1>3, NothingChanges
    <2>2. ~(fr.at = Len(s) /\ Len(s) < Len(u))
      BY <1>4, <1>3 DEF FrameOK
    <2> QED
      BY <1>2, <2>1, <2>2, FramesStay
  <1> DEFINE x == s[Len(s)]
  <1>6. u[fr.elem] = x /\ x \in Strings /\ u[fr.elem + 1] = ":"
    <2>1. u[Len(s)] = s[Len(s)]
      BY <1>2, <1>4 DEF Extends
    <2> QED
      BY <1>2, <1>4, <2>1 DEF AtKey
  <1>7. /\ x \in DOMAIN Parts(o) /\ Parts(o)[x] = c
        /\ ShowsBut(o, fr.done, x, TreeOf(h))
    BY DEF AtKey
  <1>8. PlaceOf("object", fr.done, u[fr.elem]) = x
    BY <1>6 DEF PlaceOf
  <1>9. ValueAt("object", fr.elem) = Len(u) + 1 /\ Len(u) + 1 <= Len(u) + 1
    BY <1>2, <1>4 DEF ValueAt
  <1>10. Begins(u, "object", fr.elem)
    BY <1>6 DEF Begins
  <1> HIDE DEF x
  <1>11. Begun(u, o, fr, Len(u) + 1, c, TreeOf(h))
    BY <1>3, <1>7, <1>8, <1>9, <1>10 DEF Begun
  <1>12. fr.at < Len(u)
    BY <1>2, <1>4, <1>3 DEF FrameOK
  <1> QED
    BY <1>5, <1>11, <1>12 DEF u

\* A comma ends the element of the innermost frame.
LEMMA CommaFrames ==
    ASSUME NEW s \in Seq(Tokens), NEW f, NEW h, NEW r, Frames(f, s, h, r), r # <<>>, Between(f, s, h, r)
    PROVE  \E ff : /\ Frames(ff, Append(s, ","), h, r) /\ ff[Len(r)].at < Len(s) + 1
                   /\ AtElement(Append(s, ","), h[r[Len(r)]], ff[Len(r)], TreeOf(h))
  <1> DEFINE u == Append(s, ",")
             N == Len(r)
             o == h[r[N]]
             fr == f[N]
             k == o.kind
             T == TreeOf(h)
  <1>1. PICK a, e : Begun(s, o, fr, a, e, T) /\ Complete(s, a, T[e])
    BY DEF Between
  <1> DEFINE d == T[e]
             nf == NextFrame(s, k, fr, d)
             ff == AddFrame(f, N, nf)
  <1>2. /\ Heap(h) /\ Chain(h, r) /\ FrameOK(s, k, fr) /\ N \in 1 .. N /\ f[1].at = 1 /\ k \in Containers
    BY Frame DEF FrameOK
  <1>3. "," \in Tokens
    BY DEF Tokens
  <1>4. u \in Seq(Tokens) /\ Extends(s, u) /\ Len(u) = Len(s) + 1 /\ Len(s) \in Nat
    <2>1. ASSUME NEW t \in Tokens
          PROVE  LET y == Append(s, t) IN
                 y \in Seq(Tokens) /\ Extends(s, y) /\ Len(y) = Len(s) + 1 /\ Len(s) \in Nat
      BY ExtendsAppend
    <2> QED
      BY <1>3, <2>1, Zenon
  <1>5. fr.at < Len(s) /\ fr.at \in Nat /\ fr.elem \in Nat /\ fr.elem <= Len(s)
    <2>1. InElement(s, s, k, fr, d)
      BY <1>1, <1>2, ElementIs, ExtendsItself
    <2>2. fr.at \in 1 .. Len(s)
      BY <1>2 DEF FrameOK
    <2>3. fr.elem \in Nat /\ fr.at < fr.elem /\ fr.elem <= Len(s)
      BY <2>1 DEF InElement
    <2>4. Len(s) \in Nat
      OBVIOUS
    <2> HIDE DEF fr
    <2> QED
      BY <2>2, <2>3, <2>4
  <1>6. FrameOK(u, k, nf)
    BY <1>1, <1>2, CommaFrame
  <1> HIDE DEF u
  <1>7. Frames(f, u, h, r)
    <2>1. Changes(h, h, r, 0)
      BY <1>2, NothingChanges
    <2>2. ~(fr.at = Len(s) /\ Len(s) < Len(u))
      BY <1>4, <1>5
    <2> QED
      BY <1>4, <2>1, <2>2, FramesStay
  <1>8. nf.at = fr.at /\ nf.elem = Len(u) + 1 /\ nf.done = DoneWith(s, k, fr, d)
    BY <1>4 DEF NextFrame
  <1>9. Shows(o, nf.done, T)
    <2> DEFINE x == fr.done
               t == s[fr.elem]
    <2>1. Partial(k, x) /\ ShowsBut(o, x, PlaceOf(k, x, t), T) /\ d = T[Parts(o)[PlaceOf(k, x, t)]]
      BY <1>1, <1>2 DEF FrameOK, Begun
    <2> HIDE DEF x, t, d, T, k, o
    <2>2. Shows(o, Join(k, x, One(k, t, T[Parts(o)[PlaceOf(k, x, t)]])), T)
      BY <1>2, <2>1, ShowsJoin
    <2> QED
      BY <1>8, <2>1, <2>2 DEF DoneWith, x, t
  <1> HIDE DEF nf, d
  <1>10. ff[N] = nf /\ \A i \in 1 .. N - 1 : ff[i] = f[i]
    BY <1>2 DEF AddFrame
  <1>11. \A i \in 1 .. N : ff[i].at = f[i].at
    BY <1>8, <1>10 DEF AddFrame
  <1> HIDE DEF ff
  <1>12. ASSUME NEW i \in 1 .. N PROVE FrameOK(u, h[r[i]].kind, ff[i])
    <2>1. i = N \/ i \in 1 .. N - 1
      BY <1>2
    <2>2. FrameOK(u, h[r[i]].kind, f[i])
      BY <1>7 DEF Frames
    <2> QED
      BY <1>6, <1>10, <2>1, <2>2
  <1>13. ASSUME NEW i \in 1 .. N - 1 PROVE Begun(u, h[r[i]], ff[i], ff[i + 1].at, r[i + 1], T)
    <2>1. i + 1 \in 1 .. N
      BY <1>2
    <2>2. Begun(u, h[r[i]], f[i], f[i + 1].at, r[i + 1], T)
      BY <1>7 DEF Frames
    <2> QED
      BY <1>10, <1>11, <2>1, <2>2
  <1>14. ff[1].at = 1
    <2>1. 1 \in 1 .. N
      BY <1>2
    <2> QED
      BY <1>2, <1>11, <2>1
  <1>15. Frames(ff, u, h, r)
    BY <1>2, <1>12, <1>13, <1>14 DEF Frames
  <1>16. ff[N].at < Len(s) + 1
    BY <1>4, <1>5, <1>8, <1>10
  <1>17. AtElement(u, o, ff[N], T)
    BY <1>8, <1>9, <1>10 DEF AtElement
  <1> QED
    BY <1>15, <1>16, <1>17 DEF u

AtFirst(s, o, fr, T) == fr.at = Len(s) /\ fr.done = Nothing(o.kind) /\ AtElement(s, o, fr, T)

\* Node c lies behind all that is open, where the next value goes.
Ahead(s, f, h, r, c) ==
    /\ c \in 1 .. Len(h) /\ \A i \in 1 .. Len(r) : r[i] < c
    /\ IF r = <<>> THEN c = 1 /\ Len(s) = 1
                   ELSE Begun(s, h[r[Len(r)]], f[Len(r)], Len(s), c, TreeOf(h))

\* A container that begins in the innermost one is held by it.
LEMMA OpenedChain ==
    ASSUME NEW h, Heap(h), NEW r, Chain(h, r), NEW c \in 1 .. Len(h), \A i \in 1 .. Len(r) : r[i] < c,
           IF r = <<>> THEN c = 1 ELSE Holds(h[r[Len(r)]], c)
    PROVE  Chain(h, Append(r, c))
  <1> DEFINE q == Append(r, c)
             N == Len(r)
  <1>1. r \in Seq(1 .. Len(h)) /\ N \in Nat
    BY DEF Chain
  <1>2. q \in Seq(1 .. Len(h)) /\ Len(q) = N + 1 /\ q[N + 1] = c /\ \A i \in 1 .. N : q[i] = r[i]
    BY <1>1
  <1>3. r = <<>> <=> N = 0
    BY <1>1
  <1> HIDE DEF q
  <1>4. q # <<>> /\ q[1] = 1
    <2>1. q # <<>>
      BY <1>1, <1>2
    <2>2. CASE N = 0
      BY <1>2, <1>3, <2>2
    <2>3. CASE N # 0
      <3>1. 1 \in 1 .. N /\ r[1] = 1
        BY <1>1, <1>3, <2>3 DEF Chain
      <3> QED
        BY <1>2, <3>1
    <2> QED
      BY <2>1, <2>2, <2>3
  <1>5. ASSUME NEW i \in 1 .. N + 1, NEW j \in 1 .. N + 1, i < j PROVE q[i] < q[j]
    <2>1. i \in 1 .. N /\ (j \in 1 .. N \/ j = N + 1)
      BY <1>1, <1>5
    <2>2. CASE j \in 1 .. N
      BY <1>2, <1>5, <2>1, <2>2 DEF Chain
    <2>3. CASE j = N + 1
      BY <1>2, <2>1, <2>3
    <2> QED
      BY <2>1, <2>2, <2>3
  <1>6. ASSUME NEW i \in 1 .. N PROVE Holds(h[q[i]], q[i + 1])
    <2>1. i = N \/ i \in 1 .. N - 1
      BY <1>1
    <2>2. CASE i = N
      <3>1. N # 0 /\ q[i] = r[N] /\ q[i + 1] = c
        BY <1>1, <1>2, <2>2
      <3> QED
        BY <1>3, <3>1
    <2>3. CASE i \in 1 .. N - 1
      <3>1. q[i] = r[i] /\ q[i + 1] = r[i + 1]
        BY <1>1, <1>2, <2>3
      <3> QED
        BY <2>3, <3>1 DEF Chain
    <2> QED
      BY <2>1, <2>2, <2>3
  <1>7. Chain(h, q)
    <2>1. Len(q) - 1 = N
      BY <1>1, <1>2
    <2> QED
      BY <1>2, <1>4, <1>5, <1>6, <2>1 DEF Chain
  <1> QED
    BY <1>7 DEF q

\* It gets a frame of its own.
LEMMA Opened ==
    ASSUME NEW s \in Seq(Tokens), NEW f, NEW h, NEW r, Frames(f, s, h, r), NEW c, Ahead(s, f, h, r, c),
           NEW k \in Containers, h[c].kind = k, DOMAIN Parts(h[c]) = {},
           Len(s) >= 1, s[Len(s)] = Opener(k)
    PROVE  \E ff : Frames(ff, s, h, Append(r, c)) /\ AtFirst(s, h[c], ff[Len(r) + 1], TreeOf(h))
  <1> DEFINE N == Len(r)
             nf == FirstFrame(s, k)
             ff == AddFrame(f, N + 1, nf)
             q == Append(r, c)
             T == TreeOf(h)
  <1>1. Heap(h) /\ Chain(h, r) /\ c \in 1 .. Len(h) /\ \A i \in 1 .. N : r[i] < c
    BY DEF Frames, Ahead
  <1>2. r \in Seq(1 .. Len(h)) /\ N \in Nat
    BY <1>1 DEF Chain
  <1>3. Len(q) = N + 1 /\ q[N + 1] = c /\ \A i \in 1 .. N : q[i] = r[i]
    BY <1>1, <1>2
  <1>4. r = <<>> <=> N = 0
    BY <1>2
  <1>5. r # <<>> => Begun(s, h[r[N]], f[N], Len(s), c, T)
    BY DEF Ahead
  <1>6. r = <<>> => c = 1 /\ Len(s) = 1
    BY DEF Ahead
  <1>7. nf.at = Len(s) /\ nf.elem = Len(s) + 1 /\ nf.done = Nothing(k)
    BY DEF FirstFrame
  <1>8. FrameOK(s, k, nf)
    BY OpenFrame
  <1> HIDE DEF nf, q
  <1>9. ff[N + 1] = nf /\ \A i \in 1 .. N : ff[i] = f[i]
    BY <1>2 DEF AddFrame
  <1> HIDE DEF ff
  <1>10. Chain(h, q)
    <2>1. r # <<>> => Holds(h[r[N]], c)
      BY <1>5 DEF Begun, Holds
    <2> QED
      BY <1>1, <1>6, <2>1, OpenedChain DEF q
  <1>11. ASSUME NEW i \in 1 .. N + 1 PROVE FrameOK(s, h[q[i]].kind, ff[i])
    <2>1. i = N + 1 \/ i \in 1 .. N
      BY <1>2
    <2>2. CASE i = N + 1
      BY <1>3, <1>8, <1>9, <2>2
    <2>3. CASE i \in 1 .. N
      BY <1>3, <1>9, <2>3 DEF Frames
    <2> QED
      BY <2>1, <2>2, <2>3
  <1>12. ff[1].at = 1
    <2>1. CASE N = 0
      BY <1>4, <1>6, <1>7, <1>9, <2>1
    <2>2. CASE N # 0
      <3>1. 1 \in 1 .. N
        BY <1>2, <2>2
      <3> QED
        BY <1>4, <1>9, <2>2, <3>1 DEF Frames
    <2> QED
      BY <2>1, <2>2
  <1>13. ASSUME NEW i \in 1 .. N PROVE Begun(s, h[q[i]], ff[i], ff[i + 1].at, q[i + 1], T)
    <2>1. i = N \/ i \in 1 .. N - 1
      BY <1>2
    <2>2. CASE i = N
      <3>1. N # 0 /\ q[i] = r[N] /\ q[i + 1] = c /\ ff[i] = f[N] /\ ff[i + 1].at = Len(s)
        BY <1>2, <1>3, <1>7, <1>9, <2>2
      <3> QED
        BY <1>4, <1>5, <3>1
    <2>3. CASE i \in 1 .. N - 1
      <3>1. i + 1 \in 1 .. N
        BY <1>2, <2>3
      <3>2. q[i] = r[i] /\ q[i + 1] = r[i + 1] /\ ff[i] = f[i] /\ ff[i + 1] = f[i + 1]
        BY <1>3, <1>9, <3>1
      <3>3. Begun(s, h[r[i]], f[i], f[i + 1].at, r[i + 1], T)
        BY <2>3 DEF Frames
      <3> QED
        BY <3>2, <3>3
    <2> QED
      BY <2>1, <2>2, <2>3
  <1>14. Frames(ff, s, h, q)
    <2>1. Len(q) - 1 = N
      BY <1>2, <1>3
    <2> QED
      BY <1>1, <1>3, <1>10, <1>11, <1>12, <1>13, <2>1 DEF Frames
  <1>15. Shows(h[c], Nothing(k), T)
    <2>1. DOMAIN Nothing(k) = {}
      BY DEF Nothing
    <2> QED
      BY <2>1 DEF Shows
  <1>16. AtFirst(s, h[c], ff[N + 1], T)
    BY <1>7, <1>9, <1>15 DEF AtFirst, AtElement
  <1> QED
    BY <1>14, <1>16 DEF q

\* A container that has ended is the value of the element the container around it is in.
LEMMA Popped ==
    ASSUME NEW s \in Seq(Tokens), NEW t \in Tokens, NEW f, NEW h, NEW r, Frames(f, s, h, r), r # <<>>,
           Complete(Append(s, t), f[Len(r)].at, TreeOf(h)[r[Len(r)]])
    PROVE  LET q == SubSeq(r, 1, Len(r) - 1) IN
           Frames(f, Append(s, t), h, q) /\ Between(f, Append(s, t), h, q)
  <1> DEFINE u == Append(s, t)
             N == Len(r)
             q == SubSeq(r, 1, N - 1)
             T == TreeOf(h)
  <1>1. u \in Seq(Tokens) /\ Extends(s, u) /\ Len(u) = Len(s) + 1
    BY ExtendsAppend
  <1>2. Heap(h) /\ Chain(h, r) /\ N \in 1 .. N /\ f[1].at = 1
    BY Frame
  <1>3. r \in Seq(1 .. Len(h)) /\ N \in Nat /\ N >= 1
    BY <1>2 DEF Chain
  <1>4. q \in Seq(1 .. Len(h)) /\ Len(q) = N - 1 /\ \A i \in 1 .. N - 1 : q[i] = r[i]
    BY <1>3, FrontOfSeq
  <1>5. q = <<>> <=> N = 1
    <2> HIDE DEF q, N
    <2>1. \A S : \A x \in Seq(S) : x = <<>> <=> Len(x) = 0
      OBVIOUS
    <2> QED
      BY <1>3, <1>4, <2>1
  <1> HIDE DEF u, q
  <1>6. Chain(h, q)
    <2>1. q # <<>> => q[1] = 1
      <3>1. q # <<>> => 1 \in 1 .. N - 1
        <4> HIDE DEF N
        <4>1. N # 1 => 1 \in 1 .. N - 1
          BY <1>3
        <4> QED
          BY <1>5, <4>1
      <3>2. r[1] = 1
        BY <1>2 DEF Chain
      <3> QED
        BY <1>4, <3>1, <3>2
    <2>2. ASSUME NEW i \in 1 .. N - 1, NEW j \in 1 .. N - 1, i < j PROVE q[i] < q[j]
      <3>1. i \in 1 .. N /\ j \in 1 .. N
        BY <1>3
      <3>2. r[i] < r[j]
        BY <1>2, <2>2, <3>1 DEF Chain
      <3> QED
        BY <1>4, <3>2
    <2>3. ASSUME NEW i \in 1 .. N - 1 - 1 PROVE Holds(h[q[i]], q[i + 1])
      <3>1. i \in 1 .. N - 1 /\ i + 1 \in 1 .. N - 1
        BY <1>3
      <3> QED
        BY <1>2, <1>4, <3>1 DEF Chain
    <2> QED
      BY <1>4, <2>1, <2>2, <2>3 DEF Chain
  <1>7. Frames(f, s, h, q)
    <2>1. ASSUME NEW i \in 1 .. N - 1 PROVE FrameOK(s, h[q[i]].kind, f[i])
      <3>1. i \in 1 .. N
        BY <1>3
      <3> QED
        BY <1>4, <3>1 DEF Frames
    <2>2. ASSUME NEW i \in 1 .. N - 1 - 1 PROVE Begun(s, h[q[i]], f[i], f[i + 1].at, q[i + 1], T)
      <3>1. i \in 1 .. N - 1 /\ i + 1 \in 1 .. N - 1
        BY <1>3
      <3> QED
        BY <1>4, <3>1 DEF Frames
    <2> QED
      BY <1>2, <1>4, <1>6, <2>1, <2>2 DEF Frames
  <1>8. CASE N = 1
    <2>1. q = <<>> /\ r[1] = 1
      BY <1>2, <1>5, <1>8 DEF Chain
    <2>2. Len(q) = 0
      BY <1>4, <1>8
    <2>3. Frames(f, u, h, q)
      BY <1>2, <1>6, <2>1, <2>2 DEF Frames
    <2>4. Complete(u, f[1].at, T[r[1]])
      BY <1>8 DEF u
    <2>5. Between(f, u, h, q)
      BY <1>2, <2>1, <2>4 DEF Between
    <2> QED
      BY <2>3, <2>5 DEF u, q
  <1>9. CASE N # 1
    <2> DEFINE M == N - 1
    <2>1. M \in 1 .. M /\ q # <<>> /\ Len(q) = M /\ q[M] = r[M] /\ M + 1 = N /\ M \in Nat
      BY <1>3, <1>4, <1>5, <1>9
    <2>2. Begun(s, h[q[M]], f[M], f[N].at, r[N], T)
      BY <2>1 DEF Frames
    <2>3. FrameOK(s, h[q[M]].kind, f[M]) /\ FrameOK(s, h[r[N]].kind, f[N])
      BY <1>2, <1>7, <2>1 DEF Frames
    <2>4. f[M].at < Len(s)
      <3>1. f[N].at = ValueAt(h[q[M]].kind, f[M].elem) /\ f[N].at \in 1 .. Len(s)
        BY <2>2, <2>3 DEF Begun, FrameOK
      <3>2. f[M].elem \in f[M].at + 1 .. Len(s) + 1 /\ f[M].at \in 1 .. Len(s)
        BY <2>3 DEF FrameOK
      <3> QED
        BY <3>1, <3>2 DEF ValueAt
    <2> HIDE DEF M
    <2>5. Frames(f, u, h, q)
      <3>1. Changes(h, h, q, 0)
        BY <1>2, NothingChanges
      <3>2. ~(f[M].at = Len(s) /\ Len(s) < Len(u))
        <4>1. f[M].at \in Nat /\ Len(s) \in Nat
          BY <2>3 DEF FrameOK
        <4> QED
          BY <2>4, <4>1
      <3>3. ~(f[Len(q)].at = Len(s) /\ Len(s) < Len(u))
        BY <2>1, <3>2
      <3> QED
        BY <1>1, <1>7, <2>1, <3>1, <3>3, FramesStay
    <2>6. Begun(u, h[q[M]], f[M], f[N].at, r[N], T)
      BY <1>1, <2>2, <2>3, BegunExtends
    <2>7. Complete(u, f[N].at, T[r[N]])
      BY DEF u
    <2>8. Between(f, u, h, q)
      BY <2>1, <2>6, <2>7 DEF Between
    <2> QED
      BY <2>5, <2>8 DEF u, q
  <1> QED
    BY <1>8, <1>9

-----------------------------------------------------------------------------
(***************************************************************************)
(* A text that cannot go on: nothing it begins is a document.              *)
(***************************************************************************)
Stuck(w, k, i) == \A b \in 1 .. Len(w) : ElementDocs(w, k, i, b) = {}
NoValue(w, a)  == \A b \in 1 .. Len(w) : ValueDocs(w, a, b) = {}

\* The container of the frame does not end right after its bracket.
NotEmpty(s, k, fr, w) == fr.at = Len(s) /\ Len(s) < Len(w) => w[Len(s) + 1] # Closer(k)

\* When no elements follow in a container the container is no value.
LEMMA StuckOut ==
    ASSUME NEW s \in Seq(Tokens), NEW k, NEW fr, FrameOK(s, k, fr), NEW w \in Seq(Tokens), Extends(s, w),
           NotEmpty(s, k, fr, w), Stuck(w, k, fr.elem)
    PROVE  NoValue(w, fr.at)
  <1> DEFINE a == fr.at
  <1>1. /\ k \in Containers /\ a \in 1 .. Len(s) /\ s[a] = Opener(k) /\ (a < Len(s) => s[a + 1] # Closer(k))
        /\ Contents(s, k, fr) /\ Len(s) \in Nat /\ a \in Nat
    BY DEF FrameOK
  <1>2. w[a] = Opener(k) /\ \A i \in 1 .. Len(s) : w[i] = s[i]
    BY <1>1 DEF Extends
  <1>3. w[a] \notin Scalars
    BY <1>2 DEF Opener, Scalars, Strings
  <1>4. ASSUME NEW b \in 1 .. Len(w) PROVE Inner(w, k, a, b) = {} \/ w[b] # Closer(k)
    <2>1. CASE b = a + 1
      <3>1. CASE a < Len(s)
        <4>1. b \in 1 .. Len(s)
          BY <1>1, <2>1, <3>1
        <4> QED
          BY <1>1, <1>2, <2>1, <3>1, <4>1
      <3>2. CASE a = Len(s)
        BY <2>1, <3>2 DEF NotEmpty
      <3> QED
        BY <1>1, <3>1, <3>2
    <2>2. CASE b # a + 1
      <3>1. ElementDocs(w, k, a + 1, b) = AllAfter(k, fr.done, ElementDocs(w, k, fr.elem, b))
        BY <1>1 DEF Contents
      <3>2. AllAfter(k, fr.done, {}) = {}
        BY DEF AllAfter
      <3> QED
        BY <2>2, <3>1, <3>2 DEF Inner, Stuck
    <2> QED
      BY <2>1, <2>2
  <1> HIDE DEF a
  <1>5. ASSUME NEW b \in 1 .. Len(w), NEW d \in ValueDocs(w, a, b) PROVE FALSE
    <2>1. b \in Nat
      OBVIOUS
    <2>2. \E kk \in Containers : /\ w[a] = Opener(kk) /\ w[b] = Closer(kk)
                                 /\ \E y \in Inner(w, kk, a, b) : d = Made(kk, y)
      BY <1>1, <1>3, <1>5, <2>1, ValuesAre
    <2>3. \A kk \in Containers : Opener(kk) = Opener(k) => kk = k
      BY <1>1, OneOpener
    <2> QED
      BY <1>2, <1>4, <2>2, <2>3
  <1> QED
    BY <1>5 DEF NoValue, a
FirstWithin(s, k, i, j) == \E c \in Nat : ValueAt(k, i) < c /\ c <= j /\ ValueDocs(s, ValueAt(k, i), c - 1) # {}

\* Elements have a first one, whose value ends before they do.
LEMMA FirstIsWithin ==
    ASSUME NEW s, NEW k \in Containers, NEW i \in Nat, NEW j \in Nat, ElementDocs(s, k, i, j) # {}
    PROVE  FirstWithin(s, k, i, j)
  <1>1. PICK c \in Nat : /\ ValueAt(k, i) < c /\ c <= j
                         /\ ValueDocs(s, ValueAt(k, i), c - 1) # {}
                         /\ \/ c = j
                            \/ c < j /\ IsComma(s, c) /\ ElementDocs(s, k, c + 1, j) # {}
    BY ElementsBegin
  <1> QED
    BY <1>1 DEF FirstWithin

\* When a value is none the elements that begin with it are none.
LEMMA StuckIn ==
    ASSUME NEW s \in Seq(Tokens), NEW k \in Containers, NEW i \in Nat \ {0}, NEW w \in Seq(Tokens),
           NoValue(w, ValueAt(k, i))
    PROVE  Stuck(w, k, i)
  <1> SUFFICES ASSUME NEW b \in 1 .. Len(w), ElementDocs(w, k, i, b) # {} PROVE FALSE
    BY DEF Stuck
  <1>0. i \in Nat /\ ElementDocs(w, k, i, b) # {}
    OBVIOUS
  <1>1. b \in Nat
    OBVIOUS
  <1>2. PICK c \in Nat : ValueAt(k, i) < c /\ c <= b /\ ValueDocs(w, ValueAt(k, i), c - 1) # {}
    <2>1. FirstWithin(w, k, i, b)
      BY <1>0, <1>1, FirstIsWithin
    <2> QED
      BY <2>1 DEF FirstWithin
  <1>3. ValueAt(k, i) \in Nat /\ ValueAt(k, i) >= 1
    BY DEF ValueAt
  <1>4. c - 1 \in Nat
    BY <1>2, <1>3
  <1>5. ValueAt(k, i) <= c - 1
    BY <1>2, <1>3, <1>4, ValueBegins
  <1> DEFINE j == c - 1
  <1>6. j \in 1 .. Len(w)
    BY <1>1, <1>2, <1>3, <1>4
  <1> QED
    BY <1>2, <1>6 DEF NoValue

\* When no elements follow in the innermost container the text has no value: outwards by
\* induction over the frames.
LEMMA StuckOutermost ==
    ASSUME NEW s \in Seq(Tokens), NEW f, NEW h, NEW r, Frames(f, s, h, r), r # <<>>,
           NEW w \in Seq(Tokens), Extends(s, w), NotEmpty(s, TopKind(h, r), f[Len(r)], w),
           Stuck(w, TopKind(h, r), f[Len(r)].elem)
    PROVE  NoValue(w, 1)
  <1> DEFINE N == Len(r)
             P == {n \in Nat : n < N => NoValue(w, f[N - n].at)}
  <1>1. N \in Nat /\ N >= 1 /\ f[1].at = 1
    BY Frame
  <1>2. NoValue(w, f[N].at)
    <2>1. FrameOK(s, TopKind(h, r), f[N])
      BY Frame DEF TopKind
    <2> QED
      BY <2>1, StuckOut
  <1>3. 0 \in P
    <2>1. N - 0 = N /\ 0 \in Nat
      BY <1>1
    <2> QED
      BY <1>2, <2>1
  <1>4. ASSUME NEW n \in Nat, n \in P PROVE n + 1 \in P
    <2>0. n + 1 \in Nat
      OBVIOUS
    <2> SUFFICES ASSUME n + 1 < N PROVE NoValue(w, f[N - (n + 1)].at)
      BY <2>0
    <2> DEFINE i == N - (n + 1)
    <2>1. i \in 1 .. N - 1 /\ i \in 1 .. N /\ i + 1 = N - n /\ i + 1 \in 1 .. N
      BY <1>1
    <2>2. NoValue(w, f[i + 1].at)
      BY <1>1, <1>4, <2>1
    <2> HIDE DEF i
    <2> DEFINE o == h[r[i]]
               k == o.kind
               fr == f[i]
               a == f[i + 1].at
    <2>3. Begun(s, o, fr, a, r[i + 1], TreeOf(h)) /\ FrameOK(s, k, fr) /\ FrameOK(s, h[r[i + 1]].kind, f[i + 1])
      BY <2>1 DEF Frames
    <2>4. /\ a = ValueAt(k, fr.elem) /\ a \in 1 .. Len(s) /\ k \in Containers
          /\ fr.elem \in fr.at + 1 .. Len(s) + 1 /\ fr.at \in 1 .. Len(s)
      BY <2>3 DEF Begun, FrameOK
    <2> HIDE DEF k, fr, a, o
    <2>5. fr.elem \in Nat \ {0} /\ fr.at < Len(s)
      BY <2>4, SMTT(30) DEF ValueAt
    <2>6. NoValue(w, ValueAt(k, fr.elem))
      BY <2>2, <2>4 DEF a
    <2>7. Stuck(w, k, fr.elem)
      <3> DEFINE e == fr.elem
      <3> HIDE DEF e
      <3>1. Stuck(w, k, e)
        BY <2>4, <2>5, <2>6, StuckIn DEF e
      <3> QED
        BY <3>1 DEF e
    <2>8. NotEmpty(s, k, fr, w)
      BY <2>4, <2>5 DEF NotEmpty
    <2>9. FrameOK(s, k, fr)
      BY <2>3 DEF k, fr
    <2>10. NoValue(w, fr.at)
      BY <2>7, <2>8, <2>9, StuckOut
    <2> QED
      BY <2>10 DEF fr, i
  <1> DEFINE m == N - 1
  <1>5. m \in Nat /\ m < N /\ N - m = 1
    BY <1>1
  <1>6. Nat \subseteq P
    <2> HIDE DEF P
    <2> QED
      BY <1>3, <1>4, NumberInduction
  <1>7. NoValue(w, f[N - m].at)
    <2> HIDE DEF m, N
    <2> QED
      BY <1>5, <1>6
  <1> QED
    BY <1>1, <1>5, <1>7
-----------------------------------------------------------------------------
\* What the parser wants, as a statement about the text and the document.
Innermost(f, s, want, h, r, c) ==
    LET N == Len(r)  fr == f[N]  o == h[r[N]]  T == TreeOf(h) IN
    /\ want = "value" => IF r = <<>> THEN s = <<>> ELSE fr.at < Len(s) /\ Ready(s, o, fr, c, T)
    /\ want \in {"first item", "first key"} => AtFirst(s, o, fr, T)
    /\ want = "key" => fr.at < Len(s) /\ AtElement(s, o, fr, T)
    /\ want \in {"first colon", "colon"} => AtKey(s, o, fr, c, T)
    /\ want \in {"comma", "end"} => Between(f, s, h, r)

\* The tokens the parser does not take.
Refused(want, k, x) ==
    /\ want = "value" => x \notin Starters
    /\ want = "first item" => x \notin Starters /\ x # "]"
    /\ want = "first key" => x \notin Strings /\ x # "}"
    /\ want = "key" => x \notin Strings
    /\ want \in {"first colon", "colon"} => x # ":"
    /\ want = "comma" => x # "," /\ x # Closer(k)
Fits(want, k) ==
    /\ want \in {"value", "first item", "first key", "key", "first colon", "colon", "comma"}
    /\ want = "first item" => k = "array"
    /\ want \in {"first key", "key", "first colon", "colon"} => k = "object"

\* The text w goes no further than s, or on with a token that is not taken.
Over(s, want, k, w) == Len(s) < Len(w) => Refused(want, k, w[Len(s) + 1])

\* After a token that is not taken no elements follow in the innermost container.
LEMMA InnermostStuck ==
    ASSUME NEW s \in Seq(Tokens), NEW f, NEW h, NEW r, Frames(f, s, h, r), r # <<>>,
           NEW want, NEW c, Innermost(f, s, want, h, r, c), Fits(want, TopKind(h, r)),
           NEW w \in Seq(Tokens), Extends(s, w), Over(s, want, TopKind(h, r), w)
    PROVE  NotEmpty(s, TopKind(h, r), f[Len(r)], w) /\ Stuck(w, TopKind(h, r), f[Len(r)].elem)
  <1> DEFINE N == Len(r)
             o == h[r[N]]
             fr == f[N]
             k == TopKind(h, r)
             T == TreeOf(h)
             q == fr.elem
             n == Len(s) + 1
  <1>1. FrameOK(s, k, fr) /\ k = o.kind
    BY Frame DEF TopKind
  <1>2. k \in Containers /\ fr.at \in Nat /\ q \in Nat /\ fr.at < q /\ Len(s) \in Nat /\ Len(w) \in Nat /\ Len(s) <= Len(w)
    BY <1>1 DEF FrameOK, Extends
  <1>2a. Len(s) < Len(w) <=> n \in 1 .. Len(w)
    BY <1>2
  <1>2b. n \in 1 .. Len(w) => Refused(want, k, w[n])
    BY <1>2a DEF Over
  <1>3. CASE want \in {"first item"} \/ (want = "value" /\ k = "array")
    <2>1. q = n /\ k = "array"
      BY <1>1, <1>3 DEF Innermost, AtFirst, AtElement, Ready, Fits
    <2>2. n \in 1 .. Len(w) => w[n] \notin Starters /\ (want = "first item" => w[n] # "]")
      BY <1>2b, <1>3, Zenon DEF Refused
    <2>3. Stuck(w, k, q)
      <3>1. NoValue(w, n)
        <4> SUFFICES ASSUME NEW b \in 1 .. Len(w), ValueDocs(w, n, b) # {} PROVE FALSE
          BY DEF NoValue
        <4>1. b \in Nat /\ n \in Nat /\ n >= 1
          BY <1>2
        <4>2. n <= b /\ w[n] \in Starters
          <5> HIDE DEF n
          <5> QED
            BY <4>1, ValueBegins
        <4>3. n \in 1 .. Len(w)
          BY <1>2, <4>1, <4>2
        <4> QED
          BY <2>2, <4>2, <4>3, Zenon
      <3>2. n \in Nat \ {0} /\ ValueAt(k, n) = n
        BY <1>2, <2>1 DEF ValueAt
      <3> HIDE DEF n, k, q
      <3> QED
        BY <1>2, <2>1, <3>1, <3>2, StuckIn
    <2>4. NotEmpty(s, k, fr, w)
      <3>1. CASE want = "first item"
        <4>1. Closer(k) = "]"
          BY <2>1 DEF Closer
        <4>2. Len(s) < Len(w) => w[n] # Closer(k)
          BY <1>2a, <2>2, <3>1, <4>1, Zenon
        <4> QED
          BY <4>2 DEF NotEmpty
      <3>2. CASE want = "value"
        BY <1>2, <3>2 DEF Innermost, NotEmpty
      <3> QED
        BY <1>3, <3>1, <3>2
    <2> QED
      BY <2>3, <2>4
  <1>4. CASE want \in {"first key", "key"}
    <2>1. q = n /\ k = "object"
      BY <1>1, <1>4 DEF Innermost, AtFirst, AtElement, Fits
    <2>2. n \in 1 .. Len(w) => w[n] \notin Strings /\ (want = "first key" => w[n] # "}")
      BY <1>2b, <1>4, Zenon DEF Refused
    <2>3. Stuck(w, k, q)
      <3> SUFFICES ASSUME NEW b \in 1 .. Len(w), ElementDocs(w, k, q, b) # {} PROVE FALSE
        BY DEF Stuck
      <3>1. q < b /\ Begins(w, k, q)
        <4> HIDE DEF k, q
        <4>1. b \in Nat
          OBVIOUS
        <4> QED
          BY <1>2, <4>1, ElementsBegin
      <3>2. q \in 1 .. Len(w)
        BY <1>2, <3>1
      <3> QED
        BY <2>1, <2>2, <3>1, <3>2 DEF Begins
    <2>4. NotEmpty(s, k, fr, w)
      <3>1. CASE want = "first key"
        <4>1. Closer(k) = "}"
          BY <2>1 DEF Closer
        <4>2. Len(s) < Len(w) => w[n] # Closer(k)
          BY <1>2a, <2>2, <3>1, <4>1, Zenon
        <4> QED
          BY <4>2 DEF NotEmpty
      <3>2. CASE want = "key"
        BY <1>2, <3>2 DEF Innermost, NotEmpty
      <3> QED
        BY <1>4, <3>1, <3>2
    <2> QED
      BY <2>3, <2>4
  <1>5. CASE want \in {"first colon", "colon"}
    <2>1. q = Len(s) /\ k = "object"
      BY <1>1, <1>5 DEF Innermost, AtKey, Fits
    <2>2. n \in 1 .. Len(w) => w[n] # ":"
      BY <1>2b, <1>5, Zenon DEF Refused
    <2>3. Stuck(w, k, q)
      <3> SUFFICES ASSUME NEW b \in 1 .. Len(w), ElementDocs(w, k, q, b) # {} PROVE FALSE
        BY DEF Stuck
      <3>1. q < b /\ Begins(w, k, q)
        <4> HIDE DEF k, q
        <4>1. b \in Nat
          OBVIOUS
        <4> QED
          BY <1>2, <4>1, ElementsBegin
      <3>2. n \in 1 .. Len(w) /\ q + 1 = n
        BY <1>2, <2>1, <3>1
      <3> QED
        BY <2>1, <2>2, <3>1, <3>2 DEF Begins
    <2>4. NotEmpty(s, k, fr, w)
      BY <1>2, <2>1 DEF NotEmpty
    <2> QED
      BY <2>3, <2>4
  <1>6. CASE want = "value" /\ k # "array"
    <2>1. /\ k = "object" /\ n = ValueAt(k, q) /\ fr.at < Len(s)
      BY <1>1, <1>2, <1>6 DEF Innermost, Ready, Begun, Containers
    <2>2. n \in 1 .. Len(w) => w[n] \notin Starters
      BY <1>2, <1>6 DEF Over, Refused
    <2>3. Stuck(w, k, q)
      <3>1. NoValue(w, n)
        <4> SUFFICES ASSUME NEW b \in 1 .. Len(w), ValueDocs(w, n, b) # {} PROVE FALSE
          BY DEF NoValue
        <4>1. b \in Nat /\ n \in Nat /\ n >= 1
          BY <1>2
        <4>2. n <= b /\ w[n] \in Starters
          <5> HIDE DEF n
          <5> QED
            BY <4>1, ValueBegins
        <4> QED
          BY <1>2, <2>2, <4>1, <4>2
      <3>2. q \in Nat \ {0} /\ NoValue(w, ValueAt(k, q))
        BY <1>2, <2>1, <3>1
      <3> HIDE DEF n, k, q
      <3> QED
        BY <1>2, <3>2, StuckIn
    <2>4. NotEmpty(s, k, fr, w)
      BY <1>2, <2>1 DEF NotEmpty
    <2> QED
      BY <2>3, <2>4
  <1>7. CASE want = "comma"
    <2>1. PICK a, e : Begun(s, o, fr, a, e, T) /\ Complete(s, a, T[e])
      BY <1>7 DEF Innermost, Between
    <2> DEFINE d == T[e]
    <2>2. InElement(w, s, k, fr, d)
      BY <1>1, <2>1, ElementIs
    <2>3. n \in 1 .. Len(w) => w[n] # Closer(k) /\ ~IsComma(w, n)
      <3>1. n \in 1 .. Len(w) => Refused(want, k, w[n])
        BY <1>2 DEF Over
      <3>2. Refused(want, k, w[n]) => w[n] # "," /\ w[n] # Closer(k)
        BY <1>7, Zenon DEF Refused
      <3> QED
        BY <3>1, <3>2, Zenon DEF IsComma
    <2>4. Stuck(w, k, q)
      <3> SUFFICES ASSUME NEW b \in 1 .. Len(w), NEW y \in ElementDocs(w, k, q, b) PROVE FALSE
        BY DEF Stuck
      <3>1. FirstThen(w, k, q, Len(s), d, b, y)
        <4>1. ElementEnds(w, k, q, Len(s), d)
          BY <2>2 DEF InElement
        <4> DEFINE m == Len(s)
        <4>2. m \in Nat /\ b \in Nat
          BY <1>2
        <4> HIDE DEF m, k, q, d
        <4>3. FirstThen(w, k, q, m, d, b, y)
          BY <1>2, <4>1, <4>2, FirstOfElements DEF m
        <4> QED
          BY <4>3 DEF m
      <3>2. n <= b /\ w[b] = Closer(k) /\ (n = b \/ IsComma(w, n))
        BY <3>1, Zenon DEF FirstThen
      <3>3. n \in 1 .. Len(w)
        BY <1>2, <3>2
      <3> QED
        BY <2>3, <3>2, <3>3
    <2>5. fr.at < q /\ q <= Len(s)
      BY <2>2 DEF InElement
    <2>6. fr.at < Len(s)
      BY <1>2, <2>5
    <2>7. NotEmpty(s, k, fr, w)
      BY <1>2, <2>6 DEF NotEmpty
    <2> QED
      BY <2>4, <2>7
  <1> QED
    BY <1>3, <1>4, <1>5, <1>6, <1>7 DEF Fits

\* Without a value at its beginning a text is no document.
LEMMA NoDocument ==
    ASSUME NEW w \in Seq(Tokens), NoValue(w, 1) PROVE Documents(w) = {}
  <1>1. Documents(w) = ValueDocs(w, 1, Len(w))
    BY DEF Documents, ValueDocs
  <1>2. CASE Len(w) = 0
    <2>1. 1 \in Nat /\ 0 \in Nat /\ ~(1 <= 0)
      OBVIOUS
    <2>2. ValueDocs(w, 1, 0) = {}
      BY <2>1, ValueBegins
    <2> QED
      BY <1>1, <1>2, <2>2
  <1>3. CASE Len(w) # 0
    <2>1. Len(w) \in 1 .. Len(w)
      BY <1>3
    <2> QED
      BY <1>1, <2>1 DEF NoValue
  <1> QED
    BY <1>2, <1>3

\* No document begins with a text that is refused.
LEMMA Dead ==
    ASSUME NEW s \in Seq(Tokens), NEW f, NEW h, NEW r, Frames(f, s, h, r),
           NEW want, NEW c, Innermost(f, s, want, h, r, c),
           IF r = <<>> THEN want = "value" ELSE Fits(want, TopKind(h, r)),
           NEW w \in Seq(Tokens), Extends(s, w), Over(s, want, TopKind(h, r), w)
    PROVE  Documents(w) = {}
  <1>1. CASE r # <<>>
    <2>1. NotEmpty(s, TopKind(h, r), f[Len(r)], w) /\ Stuck(w, TopKind(h, r), f[Len(r)].elem)
      BY <1>1, InnermostStuck
    <2>2. NoValue(w, 1)
      BY <1>1, <2>1, StuckOutermost
    <2> QED
      BY <2>2, NoDocument
  <1>2. CASE r = <<>>
    <2>1. want = "value" /\ s = <<>>
      BY <1>2 DEF Innermost
    <2>2. Len(s) = 0
      BY <2>1
    <2>3. 1 <= Len(w) => w[1] \notin Starters
      BY <2>1, <2>2 DEF Over, Refused
    <2>4. ASSUME NEW b \in 1 .. Len(w), ValueDocs(w, 1, b) # {} PROVE FALSE
      <3>1. 1 \in Nat /\ b \in Nat /\ 1 <= Len(w)
        OBVIOUS
      <3>2. w[1] \in Starters
        BY <2>4, <3>1, ValueBegins
      <3> QED
        BY <2>3, <3>1, <3>2
    <2>5. NoValue(w, 1)
      BY <2>4 DEF NoValue
    <2> QED
      BY <2>5, NoDocument
  <1> QED
    BY <1>1, <1>2

\* A container that ends is the value of its node.
LEMMA ClosedComplete ==
    ASSUME NEW s \in Seq(Tokens), NEW f, NEW h, NEW r, Frames(f, s, h, r), r # <<>>, Between(f, s, h, r)
    PROVE  Complete(Append(s, Closer(TopKind(h, r))), f[Len(r)].at, TreeOf(h)[r[Len(r)]])
  <1> DEFINE N == Len(r)
             o == h[r[N]]
             fr == f[N]
             k == o.kind
             T == TreeOf(h)
  <1>1. PICK a, e : Begun(s, o, fr, a, e, T) /\ Complete(s, a, T[e])
    BY DEF Between
  <1>2. Heap(h) /\ FrameOK(s, k, fr) /\ r[N] \in 1 .. Len(h) /\ TopKind(h, r) = k
    BY Frame DEF TopKind
  <1> DEFINE d == T[e]
             x == DoneWith(s, k, fr, d)
  <1>3. Complete(Append(s, Closer(k)), fr.at, Made(k, x))
    BY <1>1, <1>2, CloseComplete
  <1>4. Shows(o, x, T) /\ Partial(k, x) /\ k \in Containers
    <2> DEFINE y == fr.done
               t == s[fr.elem]
    <2>1. /\ Partial(k, y) /\ ShowsBut(o, y, PlaceOf(k, y, t), T) /\ d = T[Parts(o)[PlaceOf(k, y, t)]]
          /\ k \in Containers
      BY <1>1, <1>2 DEF FrameOK, Begun
    <2> HIDE DEF y, t, d, T, k, o
    <2>2. Shows(o, Join(k, y, One(k, t, T[Parts(o)[PlaceOf(k, y, t)]])), T)
      BY <2>1, ShowsJoin
    <2>3. Partial(k, Join(k, y, One(k, t, d)))
      BY <2>1, PartialOne, PartialJoin
    <2> QED
      BY <2>1, <2>2, <2>3 DEF DoneWith, y, t
  <1> HIDE DEF x
  <1>5. TreeRule(T, o) = Made(k, x)
    BY <1>4, TreeMade
  <1>6. T[r[N]] = TreeRule(T, o)
    BY <1>2, TreeExists
  <1> QED
    BY <1>2, <1>3, <1>5, <1>6

\* So is a container that ends at once.
LEMMA EmptyClosed ==
    ASSUME NEW s \in Seq(Tokens), NEW f, NEW h, NEW r, Frames(f, s, h, r), r # <<>>,
           AtFirst(s, h[r[Len(r)]], f[Len(r)], TreeOf(h))
    PROVE  Complete(Append(s, Closer(TopKind(h, r))), f[Len(r)].at, TreeOf(h)[r[Len(r)]])
  <1> DEFINE N == Len(r)
             o == h[r[N]]
             fr == f[N]
             k == o.kind
             T == TreeOf(h)
  <1>1. Heap(h) /\ FrameOK(s, k, fr) /\ r[N] \in 1 .. Len(h) /\ TopKind(h, r) = k
    BY Frame DEF TopKind
  <1>2. fr.at = Len(s) /\ Shows(o, Nothing(k), T)
    BY DEF AtFirst, AtElement
  <1>3. k \in Containers /\ Len(s) >= 1 /\ s[Len(s)] = Opener(k) /\ Partial(k, Nothing(k))
    BY <1>1, <1>2, PartialNothing DEF FrameOK
  <1>4. Complete(Append(s, Closer(k)), Len(s), Made(k, Nothing(k)))
    BY <1>3, EmptyComplete
  <1>5. TreeRule(T, o) = Made(k, Nothing(k))
    BY <1>2, <1>3, TreeMade
  <1>6. T[r[N]] = TreeRule(T, o)
    BY <1>1, TreeExists
  <1> QED
    BY <1>1, <1>2, <1>4, <1>5, <1>6
-----------------------------------------------------------------------------
(***************************************************************************)
(* The invariant of the document.                                          *)
(***************************************************************************)
\* The frames of the open containers, and the place in the innermost one.
Going == \E f : /\ Frames(f, text, heap, ref_stack)
                /\ Innermost(f, text, wants, heap, ref_stack, object_element)

\* No document begins with the text; at its end, the text is none.
Hopeless == /\ text # <<>>
            /\ \/ Last(text) = "end" /\ Documents(Front(text)) = {}
               \/ text \in Seq(Tokens) /\ \A w \in Seq(Tokens) : Extends(text, w) => Documents(w) = {}

\* The inductive invariant, together with IInv.
DocInv ==
    /\ wants \notin {"refused", "parsed"} => text \in Seq(Tokens) /\ Going
    /\ wants = "parsed" => Documents(Front(text)) = {TreeOf(heap)[1]}
    /\ wants = "refused" => Hopeless

LEMMA WithoutEnd ==
    ASSUME NEW s \in Seq(Tokens), NEW t
    PROVE  Last(Append(s, t)) = t /\ Front(Append(s, t)) = s /\ Append(s, t) # <<>>
  <1> DEFINE u == Append(s, t)
  <1>1. u \in Seq(Tokens \cup {t}) /\ Len(u) = Len(s) + 1 /\ u[Len(s) + 1] = t /\ Len(s) \in Nat
        /\ \A i \in 1 .. Len(s) : u[i] = s[i]
    OBVIOUS
  <1> HIDE DEF u
  <1>2. Front(u) = SubSeq(u, 1, Len(s))
    BY <1>1 DEF Front
  <1>3. SubSeq(u, 1, Len(s)) \in Seq(Tokens \cup {t}) /\ Len(SubSeq(u, 1, Len(s))) = Len(s)
        /\ \A i \in 1 .. Len(s) : SubSeq(u, 1, Len(s))[i] = u[i]
    BY <1>1
  <1>4. SubSeq(u, 1, Len(s)) = s
    BY <1>1, <1>3
  <1>5. u # <<>>
    BY <1>1
  <1>6. Last(u) = t
    BY <1>1 DEF Last
  <1> QED
    BY <1>2, <1>4, <1>5, <1>6 DEF u

\* What the parser wants fits the kind of the innermost container.
LEMMA FitsHere ==
    ASSUME References, Place, wants \notin {"end", "parsed"}
    PROVE  IF ref_stack = <<>> THEN wants = "value" ELSE Fits(wants, TopKind(heap, ref_stack))
  <1>1. CASE ref_stack = <<>>
    BY <1>1 DEF Place
  <1>2. CASE ref_stack # <<>>
    <2> DEFINE N == Len(ref_stack)
               k == TopKind(heap, ref_stack)
    <2>1. N \in 1 .. N
      BY <1>2 DEF References
    <2>2. k \in Containers /\ (IsList(N) <=> k = "array")
      BY <2>1 DEF References, TopKind, IsList
    <2>3. k = "array" \/ k = "object"
      BY <2>2 DEF Containers
    <2> QED
      BY <1>2, <2>2, <2>3 DEF Place, Fits
  <1> QED
    BY <1>1, <1>2

\* A token that is not taken leaves no document.
LEMMA RefusalStep ==
    ASSUME IInv, DocInv, wants \notin {"refused", "end", "parsed"}, NEW t \in Tokens \cup {"end"},
           text' = Append(text, t), wants' = "refused", Refused(wants, TopKind(heap, ref_stack), t)
    PROVE  DocInv'
  <1> DEFINE k == TopKind(heap, ref_stack)
  <1>1. text \in Seq(Tokens) /\ Going /\ References /\ Place
    BY DEF DocInv, IInv
  <1>2. PICK f : /\ Frames(f, text, heap, ref_stack)
                 /\ Innermost(f, text, wants, heap, ref_stack, object_element)
    BY <1>1 DEF Going
  <1>3. IF ref_stack = <<>> THEN wants = "value" ELSE Fits(wants, k)
    BY <1>1, FitsHere
  <1>4. ASSUME NEW w \in Seq(Tokens), Extends(text, w), Over(text, wants, k, w) PROVE Documents(w) = {}
    BY <1>1, <1>2, <1>3, <1>4, Dead
  <1>5. text' # <<>> /\ Last(text') = t /\ Front(text') = text
    BY <1>1, WithoutEnd
  <1>6. Hopeless'
    <2>1. CASE t = "end"
      <3>1. Extends(text, text) /\ Over(text, wants, k, text)
        BY <1>1, ExtendsItself DEF Over
      <3> QED
        BY <1>1, <1>4, <1>5, <2>1, <3>1 DEF Hopeless
    <2>2. CASE t \in Tokens
      <3>1. /\ text' \in Seq(Tokens) /\ Extends(text, text')
            /\ Len(text') = Len(text) + 1 /\ text'[Len(text) + 1] = t
        BY <1>1, <2>2, ExtendsAppend
      <3>2. ASSUME NEW w \in Seq(Tokens), Extends(text', w) PROVE Documents(w) = {}
        <4>1. Extends(text, w)
          BY <1>1, <3>1, <3>2, ExtendsTrans
        <4>2. w[Len(text) + 1] = t
          BY <1>1, <3>1, <3>2 DEF Extends
        <4>3. Over(text, wants, k, w)
          BY <4>2 DEF Over
        <4> QED
          BY <1>4, <4>1, <4>3
      <3> QED
        BY <1>5, <3>1, <3>2 DEF Hopeless
    <2> QED
      BY <2>1, <2>2
  <1> QED
    BY <1>6 DEF DocInv

\* What is to be shown of a step that takes the token.
LEMMA TakenStep ==
    ASSUME NEW s \in Seq(Tokens), NEW t \in Tokens, text' = Append(s, t), wants' \notin {"refused", "parsed"},
           NEW f, Frames(f, text', heap', ref_stack'),
           Innermost(f, text', wants', heap', ref_stack', object_element')
    PROVE  DocInv'
  <1>1. text' \in Seq(Tokens)
    BY ExtendsAppend
  <1>2. Going'
    BY DEF Going
  <1> QED
    BY <1>1, <1>2 DEF DocInv

Room == IF ref_stack = <<>> THEN heap = <<>> ELSE IsList(Len(ref_stack)) \/ Slot

\* handle_value puts the value where the innermost container waits for it.
LEMMA HandleLands ==
    ASSUME Nodes, References, Room, ref_stack # <<>>, NEW v \in NewValues, HandleValue(v),
           ~IsList(Len(ref_stack)) => Holds(heap[Top], object_element)
    PROVE  Landed(heap, heap', ref_stack, v, Target)
  <1> DEFINE N == Len(ref_stack)
             L == Len(heap)
  <1>1. /\ heap \in Seq(Node) /\ L \in Nat /\ N \in Nat /\ N >= 1 /\ N \in 1 .. N
        /\ ref_stack \in Seq(1 .. L) /\ Top \in 1 .. L /\ heap[Top] \in Node
        /\ heap[Top].kind \in Containers
    BY DEF Nodes, References, Top
  <1>2. heap' \in Seq(Node) /\ Target \in 1 .. Len(heap') /\ heap'[Target] = v
    <2>1. Nodes' /\ Target \in 1 .. Len(heap') /\ heap'[Target] = v
      BY HandleValueKeeps DEF Room
    <2> QED
      BY <2>1 DEF Nodes
  <1>3. v \in Node
    BY NewValuesAreNodes
  <1>4. CASE IsList(N)
    <2>1. heap[Top].kind = "array" /\ Target = L + 1
      BY <1>1, <1>4 DEF IsList, Top, Target, Last
    <2>2. PICK s \in Seq(Nat) : heap[Top] = [kind |-> "array", items |-> s]
      BY <1>1, <2>1 DEF Node
    <2> DEFINE a == [kind |-> "array", items |-> Append(s, L + 1)]
    <2>3. heap' = Append([heap EXCEPT ![Top] = a], v)
      <3>1. heap' = Append([heap EXCEPT ![Top].items = Append(@, L + 1)], v)
        BY <1>1, <2>1 DEF HandleValue, Last, Top
      <3>2. [heap EXCEPT ![Top].items = Append(@, L + 1)] = [heap EXCEPT ![Top] = a]
        <4>1. heap[Top].items = s
          BY <2>2
        <4>2. [heap[Top] EXCEPT !.items = Append(@, L + 1)] = [heap[Top] EXCEPT !.items = Append(s, L + 1)]
          BY <4>1
        <4>3. ASSUME NEW x, NEW y, x = [kind |-> "array", items |-> s]
              PROVE  [x EXCEPT !.items = y] = [kind |-> "array", items |-> y]
          BY <4>3
        <4>4. [heap[Top] EXCEPT !.items = Append(@, L + 1)] = a
          BY <2>2, <4>2, <4>3
        <4> QED
          BY <4>4
      <3> QED
        BY <3>1, <3>2
    <2>4. a \in Node /\ a = [kind |-> "array", items |-> Append(heap[Top].items, L + 1)]
      <3>1. Append(s, L + 1) \in Seq(Nat) /\ heap[Top].items = s
        BY <1>1, <2>2
      <3> QED
        BY <3>1 DEF Node
    <2> HIDE DEF a
    <2>5. Len(heap') = L + 1 /\ \A n \in 1 .. L : heap'[n] = IF n = Top THEN a ELSE heap[n]
      BY <1>1, <1>3, <2>3, <2>4
    <2>6. heap'[Top] = [kind |-> "array", items |-> Append(heap[Top].items, L + 1)]
      BY <1>1, <2>4, <2>5
    <2>7. \A n \in 1 .. L : n # Top => heap'[n] = heap[n]
      BY <2>5
    <2> QED
      BY <1>2, <2>1, <2>5, <2>6, <2>7 DEF Landed, Top
  <1>5. CASE ~IsList(N)
    <2>1. heap[Top].kind = "object"
      BY <1>1, <1>5 DEF IsList, Top, Containers
    <2>2. heap' = [heap EXCEPT ![object_element] = v] /\ Target = object_element
      BY <1>1, <2>1 DEF HandleValue, Target, Last, Top
    <2>3. Len(heap') = L /\ \A n \in 1 .. L : n # Target => heap'[n] = heap[n]
      BY <1>1, <2>2
    <2>4. Holds(heap[Top], Target)
      BY <1>5, <2>2
    <2> QED
      BY <1>2, <2>1, <2>3, <2>4 DEF Landed, Top
  <1> QED
    BY <1>4, <1>5

\* key refers to the member of that name, a new one or the one that is there.
LEMMA KeyIsKeyed ==
    ASSUME Nodes, References, ref_stack # <<>>, ~IsList(Len(ref_stack)),
           NEW k \in Strings, Key(k), UNCHANGED ref_stack
    PROVE  Keyed(heap, heap', ref_stack, k, object_element')
  <1> DEFINE N == Len(ref_stack)
             L == Len(heap)
             members == heap[Top].members
  <1>1. /\ ref_stack \in Seq(1 .. L) /\ N \in 1 .. N /\ L \in Nat
        /\ heap \in Seq(Node) /\ Top \in 1 .. L /\ heap[Top].kind = "object" /\ heap[Top] \in Node
    BY DEF References, Nodes, Top, IsList, Containers
  <1>2. heap' \in Seq(Node)
    BY KeyKeeps DEF Nodes
  <1>3. CASE k \in DOMAIN members
    <2>1. object_element' = members[k] /\ heap' = heap
      BY <1>3 DEF Key, Last, Top
    <2> QED
      BY <1>1, <1>2, <1>3, <2>1 DEF Keyed, Top
  <1>4. CASE k \notin DOMAIN members
    <2> DEFINE inserted == Insert(members, k, L + 1)
               o == [heap[Top] EXCEPT !.members = inserted]
               h == [heap EXCEPT ![Top] = o]
    <2>1. object_element' = L + 1 /\ heap' = Append(h, Scalar("null"))
      BY <1>4 DEF Key, Last, Top
    <2>2. o = [kind |-> "object", members |-> inserted]
      <3>1. heap[Top] \in [kind : {"object"}, members : UNION {[E -> Nat] : E \in SUBSET Strings}]
        BY <1>1 DEF Node
      <3> DEFINE m == members
      <3>2. heap[Top] = [kind |-> "object", members |-> m]
        BY <3>1
      <3> HIDE DEF inserted, m
      <3>3. ASSUME NEW x, NEW y, NEW z, x = [kind |-> "object", members |-> z]
            PROVE  [x EXCEPT !.members = y] = [kind |-> "object", members |-> y]
        BY <3>3
      <3> QED
        BY <3>2, <3>3
    <2> HIDE DEF o
    <2>3. DOMAIN h = 1 .. L /\ \A n \in 1 .. L : h[n] = IF n = Top THEN o ELSE heap[n]
      BY <1>1
    <2>4. h \in Seq({heap[n] : n \in 1 .. L} \cup {o}) /\ Len(h) = L
      <3> DEFINE H == {heap[n] : n \in 1 .. L} \cup {o}
      <3>1. h \in [1 .. L -> H]
        BY <2>3
      <3>2. ASSUME NEW S, NEW x \in [1 .. L -> S] PROVE x \in Seq(S) /\ Len(x) = L
        BY <1>1
      <3> HIDE DEF H, h
      <3>3. h \in Seq(H) /\ Len(h) = L
        BY <3>1, <3>2
      <3> QED
        BY <3>3 DEF H
    <2> HIDE DEF h
    <2>5. Len(heap') = L + 1 /\ heap'[L + 1] = Scalar("null") /\ \A n \in 1 .. L : heap'[n] = h[n]
      BY <1>1, <2>1, <2>4, SMTT(30)
    <2>6. heap'[Top] = o /\ \A n \in 1 .. L : n # Top => heap'[n] = heap[n]
      BY <1>1, <2>3, <2>5
    <2> HIDE DEF inserted
    <2>7. heap'[Top] = [kind |-> "object", members |-> inserted]
      BY <2>2, <2>6
    <2> QED
      BY <1>1, <1>2, <1>4, <2>1, <2>5, <2>6, <2>7 DEF Keyed, Top, inserted
  <1> QED
    BY <1>3, <1>4
-----------------------------------------------------------------------------
\* A value that begins gets the node where the document waits for it.
Waiting(f) == IF ref_stack = <<>> THEN text = <<>>
              ELSE Ready(text, heap[Top], f[Len(ref_stack)], object_element, TreeOf(heap))

LEMMA ValueStep ==
    ASSUME Nodes, References, Room, text \in Seq(Tokens), NEW f, Frames(f, text, heap, ref_stack), Waiting(f),
           NEW t \in Starters, NEW v \in NewValues, HandleValue(v)
    PROVE  /\ Frames(f, Append(text, t), heap', ref_stack)
           /\ Ahead(Append(text, t), f, heap', ref_stack, Target)
           /\ heap'[Target] = v /\ TreeOf(heap')[Target] = v
  <1> DEFINE u == Append(text, t)
             N == Len(ref_stack)
             c == Target
  <1>1. t \in Tokens /\ u \in Seq(Tokens) /\ Len(u) = Len(text) + 1
    BY StarterIs, ExtendsAppend
  <1>2. c \in 1 .. Len(heap') /\ heap'[c] = v /\ \A i \in 1 .. N : ref_stack[i] < c
    BY HandleValueKeeps DEF Room
  <1>3. Frames(f, u, heap', ref_stack) /\ Ahead(u, f, heap', ref_stack, c)
    <2>1. CASE ref_stack # <<>>
      <3>1. heap[Top].kind \in Containers /\ (IsList(N) <=> heap[Top].kind = "array") /\ TopKind(heap, ref_stack) = heap[Top].kind
        <4>1. N \in 1 .. N
          BY <2>1 DEF References
        <4> QED
          BY <4>1 DEF References, IsList, Top, TopKind
      <3>2. Ready(text, heap[Top], f[N], object_element, TreeOf(heap))
        BY <2>1 DEF Waiting
      <3>3. Frames(f, u, heap', ref_stack) /\ Begun(u, heap'[Top], f[N], Len(text) + 1, c, TreeOf(heap'))
        <4>1. CASE heap[Top].kind = "array"
          <5>1. Landed(heap, heap', ref_stack, v, c)
            BY <2>1, <3>1, <4>1, HandleLands
          <5>2. AtElement(text, heap[Top], f[N], TreeOf(heap)) /\ TopKind(heap, ref_stack) = "array"
            BY <3>1, <3>2, <4>1 DEF Ready
          <5> QED
            BY <2>1, <5>1, <5>2, LandedInArray DEF Top
        <4>2. CASE heap[Top].kind # "array"
          <5>1. Begun(text, heap[Top], f[N], Len(text) + 1, object_element, TreeOf(heap))
            BY <3>2, <4>2 DEF Ready
          <5>2. Holds(heap[Top], object_element)
            BY <5>1 DEF Begun, Holds
          <5>3. Landed(heap, heap', ref_stack, v, c)
            BY <2>1, <5>2, HandleLands
          <5>4. c = object_element /\ TopKind(heap, ref_stack) = "object"
            BY <2>1, <3>1, <4>2 DEF Target, Last, Top, Containers
          <5> QED
            BY <2>1, <5>1, <5>3, <5>4, LandedInObject DEF Top
        <4> QED
          BY <4>1, <4>2
      <3> HIDE DEF u, c
      <3>4. Ahead(u, f, heap', ref_stack, c)
        BY <1>1, <1>2, <2>1, <3>3 DEF Ahead, Top
      <3> QED
        BY <3>3, <3>4
    <2>2. CASE ref_stack = <<>>
      <3>1. heap' = <<v>> /\ c = 1 /\ text = <<>> /\ N = 0
        BY <2>2 DEF HandleValue, Target, Waiting, Room
      <3>2. v \in Node /\ DOMAIN Parts(v) = {}
        BY NewValueParts
      <3> DEFINE h == <<v>>
      <3>3. h \in Seq(Node) /\ Len(h) = 1 /\ h[1] = v
        BY <3>2
      <3> HIDE DEF h
      <3>4. Forward(h) /\ Single(h)
        <4>1. \A n \in 1 .. Len(h) : DOMAIN Parts(h[n]) = {}
          BY <3>2, <3>3
        <4> QED
          BY <4>1 DEF Forward, Single
      <3>5. Heap(h) /\ Chain(h, <<>>)
        BY <3>3, <3>4 DEF Heap, Chain
      <3>6. Len(u) = 1
        BY <1>1, <3>1
      <3> HIDE DEF u
      <3>7. Frames(f, u, h, <<>>)
        BY <3>5 DEF Frames
      <3>8. Ahead(u, f, h, <<>>, 1)
        BY <3>3, <3>6 DEF Ahead
      <3> QED
        BY <2>2, <3>1, <3>7, <3>8 DEF h
    <2> QED
      BY <2>1, <2>2
  <1>4. TreeOf(heap')[c] = v
    <2>1. Heap(heap')
      BY <1>3 DEF Frames
    <2>2. TreeOf(heap')[c] = TreeRule(TreeOf(heap'), heap'[c])
      BY <1>2, <2>1, TreeExists
    <2> QED
      BY <1>2, <2>2, NewValueParts
  <1> QED
    BY <1>2, <1>3, <1>4

LEMMA BetweenIs ==
    ASSUME NEW f, NEW s, NEW h, NEW r, NEW c, NEW want, want \in {"comma", "end"}, Between(f, s, h, r)
    PROVE  Innermost(f, s, want, h, r, c)
  BY DEF Innermost

\* A scalar is read.
LEMMA ScalarStep ==
    ASSUME Nodes, References, Room, text \in Seq(Tokens), NEW f, Frames(f, text, heap, ref_stack), Waiting(f),
           NEW t \in Scalars, HandleValue(Scalar(t)), text' = Append(text, t), ref_stack' = ref_stack,
           wants' \in {"comma", "end"}
    PROVE  DocInv'
  <1> DEFINE u == Append(text, t)
             c == Target
             N == Len(ref_stack)
             T == TreeOf(heap')
  <1>1. t \in Starters /\ t \in Tokens /\ Scalar(t) \in NewValues
    BY DEF Starters, Tokens, NewValues
  <1>2. Frames(f, u, heap', ref_stack) /\ Ahead(u, f, heap', ref_stack, c) /\ T[c] = Scalar(t)
    BY <1>1, ValueStep
  <1>3. Len(u) = Len(text) + 1 /\ Complete(u, Len(u), Scalar(t))
    BY <1>1, ExtendsAppend, ScalarComplete
  <1> HIDE DEF u, c, T
  <1>4. Between(f, u, heap', ref_stack)
    <2>1. CASE ref_stack = <<>>
      <3>1. c = 1 /\ Len(u) = 1
        BY <1>2, <2>1 DEF Ahead
      <3> QED
        BY <1>2, <1>3, <2>1, <3>1 DEF Between, T
    <2>2. CASE ref_stack # <<>>
      <3>1. Begun(u, heap'[ref_stack[N]], f[N], Len(u), c, T)
        BY <1>2, <2>2 DEF Ahead, T
      <3>2. Complete(u, Len(u), T[c])
        BY <1>2, <1>3
      <3> QED
        BY <2>2, <3>1, <3>2 DEF Between, T
    <2> QED
      BY <2>1, <2>2
  <1>5. Innermost(f, u, wants', heap', ref_stack, object_element')
    BY <1>4, BetweenIs
  <1>6. text' = u
    BY DEF u
  <1>7. wants' \notin {"refused", "parsed"}
    OBVIOUS
  <1> QED
    BY <1>1, <1>2, <1>5, <1>6, <1>7, TakenStep DEF u

\* What the parser wants after a bracket.
InBracket(want) == want \in {"first item", "first key"}

LEMMA FirstIs ==
    ASSUME NEW f, NEW s, NEW h, NEW r, NEW c, NEW want, InBracket(want),
           AtFirst(s, h[r[Len(r)]], f[Len(r)], TreeOf(h))
    PROVE  Innermost(f, s, want, h, r, c)
  BY DEF Innermost, InBracket

\* A container begins.
LEMMA OpenStep ==
    ASSUME Nodes, References, Room, text \in Seq(Tokens), NEW f, Frames(f, text, heap, ref_stack), Waiting(f),
           NEW k \in Containers, NEW v \in NewValues, v.kind = k, StartContainer(v),
           text' = Append(text, Opener(k)), InBracket(wants')
    PROVE  DocInv'
  <1> DEFINE t == Opener(k)
             u == Append(text, t)
             c == Target
             N == Len(ref_stack)
             q == Append(ref_stack, c)
             T == TreeOf(heap')
  <1>1. t \in Starters /\ t \in Tokens
    BY DEF Starters, Tokens, Opener
  <1>2. HandleValue(v) /\ ref_stack' = q
    BY DEF StartContainer
  <1>3. Frames(f, u, heap', ref_stack) /\ Ahead(u, f, heap', ref_stack, c) /\ heap'[c] = v
    BY <1>1, <1>2, ValueStep
  <1>4. u \in Seq(Tokens) /\ Len(u) = Len(text) + 1 /\ u[Len(u)] = t /\ Len(u) >= 1
    <2>1. u \in Seq(Tokens) /\ Len(u) = Len(text) + 1 /\ u[Len(text) + 1] = t /\ Len(text) \in Nat
      BY <1>1, ExtendsAppend
    <2> HIDE DEF u, t
    <2> QED
      BY <2>1
  <1>5. DOMAIN Parts(v) = {}
    BY NewValueParts
  <1>6. ref_stack \in Seq(1 .. Len(heap))
    BY DEF References
  <1>7. c \in Nat
    <2>1. Len(heap') \in Nat
      BY <1>3 DEF Frames, Heap
    <2>2. c \in 1 .. Len(heap')
      BY <1>3 DEF Ahead
    <2> HIDE DEF c
    <2> QED
      BY <2>1, <2>2
  <1>8. Len(q) = N + 1 /\ q[N + 1] = c
    <2> HIDE DEF c
    <2>1. ref_stack \in Seq(Nat)
      <3>1. 1 .. Len(heap) \subseteq Nat
        OBVIOUS
      <3> QED
        BY <1>6, <3>1, SeqOfMore
    <2> QED
      BY <1>7, <2>1
  <1> HIDE DEF u, c
  <1>9. PICK ff : Frames(ff, u, heap', q) /\ AtFirst(u, heap'[c], ff[N + 1], T)
    <2>1. heap'[c].kind = k /\ DOMAIN Parts(heap'[c]) = {}
      BY <1>3, <1>5
    <2> QED
      BY <1>3, <1>4, <2>1, Opened
  <1> HIDE DEF q
  <1>10. AtFirst(u, heap'[q[Len(q)]], ff[Len(q)], T)
    BY <1>8, <1>9
  <1>11. Innermost(ff, u, wants', heap', q, object_element')
    BY <1>10, FirstIs
  <1>12. text' = u /\ ref_stack' = q
    BY <1>2 DEF u, q, c
  <1>13. wants' \notin {"refused", "parsed"}
    BY DEF InBracket
  <1> QED
    BY <1>1, <1>9, <1>11, <1>12, <1>13, TakenStep

\* A value begins, or is refused.
LEMMA BeginStep ==
    ASSUME IInv, DocInv, wants \in {"value", "first item"},
           NEW t \in Tokens \cup {"end"}, NEW stack, text' = Append(text, t), BeginValue(t, stack),
           t # "]" \/ wants # "first item"
    PROVE  DocInv'
  <1>1. wants \notin {"refused", "end", "parsed"}
    OBVIOUS
  <1>2. Nodes /\ References /\ Place /\ text \in Seq(Tokens) /\ Going
    BY <1>1 DEF IInv, DocInv
  <1>3. PICK f : Frames(f, text, heap, ref_stack) /\ Innermost(f, text, wants, heap, ref_stack, object_element)
    BY <1>2 DEF Going
  <1>4. Room
    BY <1>2 DEF Room, Place
  <1>5. Waiting(f)
    <2>1. CASE wants = "value"
      BY <1>3, <2>1 DEF Waiting, Innermost, Top
    <2>2. CASE wants = "first item"
      <3>1. ref_stack # <<>> /\ IsList(Len(ref_stack))
        BY <1>2, <2>2 DEF Place
      <3>2. heap[Top].kind = "array"
        BY <3>1 DEF IsList, Top
      <3>3. AtFirst(text, heap[Top], f[Len(ref_stack)], TreeOf(heap))
        BY <1>3, <2>2 DEF Innermost, Top
      <3> QED
        BY <3>1, <3>2, <3>3 DEF Waiting, Ready, AtFirst
    <2> QED
      BY <2>1, <2>2
  <1>6. CASE t = "{"
    <2>1. StartContainer(EmptyObject) /\ wants' = "first key"
      BY <1>6 DEF BeginValue, Scalars, Strings
    <2>2. EmptyObject \in NewValues /\ EmptyObject.kind = "object" /\ Opener("object") = "{" /\ "object" \in Containers
      BY DEF NewValues, EmptyObject, Opener, Containers
    <2>3. text' = Append(text, Opener("object")) /\ InBracket(wants')
      BY <1>6, <2>1, <2>2 DEF InBracket
    <2> QED
      BY <1>2, <1>3, <1>4, <1>5, <2>1, <2>2, <2>3, OpenStep
  <1>7. CASE t = "["
    <2>1. StartContainer(EmptyArray) /\ wants' = "first item"
      BY <1>7 DEF BeginValue, Scalars, Strings
    <2>2. EmptyArray \in NewValues /\ EmptyArray.kind = "array" /\ Opener("array") = "[" /\ "array" \in Containers
      BY DEF NewValues, EmptyArray, Opener, Containers
    <2>3. text' = Append(text, Opener("array")) /\ InBracket(wants')
      BY <1>7, <2>1, <2>2 DEF InBracket
    <2> QED
      BY <1>2, <1>3, <1>4, <1>5, <2>1, <2>2, <2>3, OpenStep
  <1>8. CASE t \in Scalars
    <2>1. HandleValue(Scalar(t)) /\ wants' = AfterValue(stack) /\ ref_stack' = ref_stack
      BY <1>8 DEF BeginValue, Scalars, Strings
    <2>2. wants' \in {"comma", "end"}
      BY <2>1 DEF AfterValue
    <2> QED
      BY <1>2, <1>3, <1>4, <1>5, <1>8, <2>1, <2>2, ScalarStep
  <1>9. CASE t \notin Starters
    <2>1. t # "{" /\ t # "[" /\ t \notin Scalars
      BY <1>9 DEF Starters
    <2>2. wants' = "refused"
      BY <2>1 DEF BeginValue
    <2>3. Refused(wants, TopKind(heap, ref_stack), t)
      BY <1>9 DEF Refused
    <2> QED
      BY <1>1, <2>2, <2>3, RefusalStep
  <1> QED
    BY <1>6, <1>7, <1>8, <1>9 DEF Starters

\* A container ends.
LEMMA CloseStep ==
    ASSUME References, text \in Seq(Tokens), NEW f, Frames(f, text, heap, ref_stack), ref_stack # <<>>,
           NEW t, t = Closer(TopKind(heap, ref_stack)), text' = Append(text, t),
           Complete(Append(text, t), f[Len(ref_stack)].at, TreeOf(heap)[Top]),
           EndContainer, wants' \in {"comma", "end"}
    PROVE  DocInv'
  <1> DEFINE u == Append(text, t)
             q == SubSeq(ref_stack, 1, Len(ref_stack) - 1)
  <1>1. t \in Tokens
    BY DEF Tokens, Closer
  <1>2. Frames(f, u, heap, q) /\ Between(f, u, heap, q)
    BY <1>1, Popped DEF Top
  <1>3. ref_stack' = q /\ heap' = heap /\ text' = u
    BY DEF EndContainer, Front
  <1> HIDE DEF u, q
  <1>4. Innermost(f, u, wants', heap, q, object_element')
    BY <1>2, BetweenIs
  <1>5. wants' \notin {"refused", "parsed"}
    OBVIOUS
  <1> QED
    BY <1>1, <1>2, <1>3, <1>4, <1>5, TakenStep

\* What is known while the parser still wants something.
LEMMA Here ==
    ASSUME IInv, DocInv, wants \notin {"refused", "end", "parsed"}
    PROVE  /\ Nodes /\ References /\ Agree /\ Place /\ text \in Seq(Tokens) /\ Going
           /\ IF ref_stack = <<>> THEN wants = "value" ELSE Fits(wants, TopKind(heap, ref_stack))
  <1>1. Nodes /\ References /\ Agree /\ Place /\ text \in Seq(Tokens) /\ Going
    BY Zenon DEF IInv, DocInv
  <1> QED
    BY <1>1, FitsHere

\* Each step keeps the invariant of the document.
LEMMA ValueDoc == ASSUME IInv, DocInv, NEW t \in Tokens \cup {"end"}, Value(t) PROVE DocInv'
  <1>1. wants = "value" /\ text' = Append(text, t) /\ BeginValue(t, states)
    BY DEF Value, Read
  <1> QED
    BY <1>1, BeginStep

LEMMA FirstItemDoc == ASSUME IInv, DocInv, NEW t \in Tokens \cup {"end"}, FirstItem(t) PROVE DocInv'
  <1>1. wants = "first item" /\ text' = Append(text, t)
    BY DEF FirstItem, Read
  <1>2. CASE t # "]"
    <2>1. BeginValue(t, Append(states, TRUE))
      BY <1>2 DEF FirstItem
    <2> QED
      BY <1>1, <1>2, <2>1, BeginStep
  <1>3. CASE t = "]"
    <2>1. EndContainer /\ wants' = AfterValue(states)
      BY <1>3 DEF FirstItem
    <2>2. References /\ text \in Seq(Tokens) /\ Going /\ ref_stack # <<>> /\ TopKind(heap, ref_stack) = "array"
      <3>1. wants \notin {"refused", "end", "parsed"} /\ wants # "value"
        BY <1>1
      <3> QED
        BY <1>1, <3>1, Here, Zenon DEF Fits
    <2>3. PICK f : Frames(f, text, heap, ref_stack) /\ Innermost(f, text, wants, heap, ref_stack, object_element)
      BY <2>2 DEF Going
    <2>4. AtFirst(text, heap[ref_stack[Len(ref_stack)]], f[Len(ref_stack)], TreeOf(heap))
      BY <1>1, <2>3 DEF Innermost
    <2>5. t = Closer(TopKind(heap, ref_stack))
      BY <1>3, <2>2 DEF Closer
    <2>6. Complete(Append(text, t), f[Len(ref_stack)].at, TreeOf(heap)[Top])
      BY <2>2, <2>3, <2>4, <2>5, EmptyClosed DEF Top
    <2>7. wants' \in {"comma", "end"}
      BY <2>1 DEF AfterValue
    <2>8. text' = Append(text, t)
      BY <1>1
    <2> QED
      BY <2>1, <2>2, <2>3, <2>5, <2>6, <2>7, <2>8, CloseStep
  <1> QED
    BY <1>2, <1>3

LEMMA KeyIs ==
    ASSUME NEW f, NEW s, NEW h, NEW r, NEW c, NEW want, want \in {"first colon", "colon"},
           AtKey(s, h[r[Len(r)]], f[Len(r)], c, TreeOf(h))
    PROVE  Innermost(f, s, want, h, r, c) /\ want \notin {"refused", "parsed"}
  BY DEF Innermost

LEMMA FirstKeyDoc == ASSUME IInv, DocInv, NEW t \in Tokens \cup {"end"}, FirstKey(t) PROVE DocInv'
  <1>1. wants \in {"first key", "key"} /\ text' = Append(text, t)
    BY DEF FirstKey, Read
  <1>2. wants \notin {"refused", "end", "parsed"} /\ wants # "value"
    BY <1>1
  <1>3. /\ Nodes /\ References /\ text \in Seq(Tokens) /\ Going /\ ref_stack # <<>>
        /\ TopKind(heap, ref_stack) = "object"
    BY <1>1, <1>2, Here, Zenon DEF Fits
  <1>4. PICK f : Frames(f, text, heap, ref_stack) /\ Innermost(f, text, wants, heap, ref_stack, object_element)
    BY <1>3 DEF Going
  <1> DEFINE N == Len(ref_stack)
  <1>5. CASE t = "}" /\ wants = "first key"
    <2>1. EndContainer /\ wants' = AfterValue(states)
      <3>1. t = "}" /\ wants = "first key" /\ t \notin Strings
        BY <1>5 DEF Strings
      <3> QED
        BY <3>1, Zenon DEF FirstKey
    <2>2. AtFirst(text, heap[ref_stack[N]], f[N], TreeOf(heap))
      BY <1>4, <1>5 DEF Innermost
    <2>3. t = Closer(TopKind(heap, ref_stack))
      BY <1>3, <1>5 DEF Closer
    <2>4. Complete(Append(text, t), f[N].at, TreeOf(heap)[Top])
      BY <1>3, <1>4, <2>2, <2>3, EmptyClosed DEF Top
    <2>5. wants' \in {"comma", "end"}
      BY <2>1 DEF AfterValue
    <2>6. text' = Append(text, t)
      BY <1>1
    <2> QED
      BY <1>3, <1>4, <2>1, <2>3, <2>4, <2>5, <2>6, CloseStep
  <1>6. CASE t \in Strings
    <2>1. Key(t) /\ ref_stack' = ref_stack /\ wants' \in {"first colon", "colon"}
      BY <1>6 DEF FirstKey, Strings
    <2>2. ~IsList(N)
      BY <1>3 DEF IsList, TopKind
    <2>3. Keyed(heap, heap', ref_stack, t, object_element')
      BY <1>3, <1>6, <2>1, <2>2, KeyIsKeyed
    <2>4. AtElement(text, heap[ref_stack[N]], f[N], TreeOf(heap))
      BY <1>1, <1>4 DEF Innermost, AtFirst
    <2>5. /\ Frames(f, Append(text, t), heap', ref_stack)
          /\ AtKey(Append(text, t), heap'[ref_stack[N]], f[N], object_element', TreeOf(heap'))
      BY <1>3, <1>4, <1>6, <2>3, <2>4, KeyFrames
    <2> DEFINE u == Append(text, t)
    <2> HIDE DEF u
    <2>6. AtKey(u, heap'[ref_stack[N]], f[N], object_element', TreeOf(heap')) /\ Frames(f, u, heap', ref_stack)
      BY <2>5 DEF u
    <2>7. Innermost(f, u, wants', heap', ref_stack, object_element') /\ wants' \notin {"refused", "parsed"}
      BY <2>1, <2>6, KeyIs
    <2>8. text' = u /\ t \in Tokens
      BY <1>1, <1>6 DEF u, Tokens, Scalars
    <2> QED
      BY <1>3, <2>1, <2>6, <2>7, <2>8, TakenStep DEF u
  <1>7. CASE t \notin Strings /\ ~(t = "}" /\ wants = "first key")
    <2>1. wants' = "refused"
      BY <1>7, Zenon DEF FirstKey, Refuse
    <2>2. Refused(wants, TopKind(heap, ref_stack), t)
      BY <1>1, <1>7 DEF Refused
    <2> QED
      BY <1>1, <1>2, <2>1, <2>2, RefusalStep
  <1> QED
    BY <1>5, <1>6, <1>7

LEMMA ColonDoc == ASSUME IInv, DocInv, NEW t \in Tokens \cup {"end"}, Colon(t) PROVE DocInv'
  <1>1. wants \in {"first colon", "colon"} /\ text' = Append(text, t)
    BY DEF Colon, Read
  <1>2. wants \notin {"refused", "end", "parsed"} /\ wants # "value"
    BY <1>1
  <1>3. text \in Seq(Tokens) /\ Going /\ ref_stack # <<>> /\ TopKind(heap, ref_stack) = "object"
    BY <1>1, <1>2, Here, Zenon DEF Fits
  <1>4. PICK f : Frames(f, text, heap, ref_stack) /\ Innermost(f, text, wants, heap, ref_stack, object_element)
    BY <1>3 DEF Going
  <1> DEFINE N == Len(ref_stack)
             o == heap[ref_stack[N]]
             T == TreeOf(heap)
             c == object_element
  <1>5. CASE t = ":"
    <2>1. wants' = "value" /\ ref_stack' = ref_stack /\ heap' = heap /\ object_element' = c
      BY <1>5 DEF Colon, document
    <2> DEFINE u == Append(text, ":")
    <2>2. AtKey(text, o, f[N], c, T)
      BY <1>1, <1>4 DEF Innermost
    <2>3. Frames(f, u, heap, ref_stack) /\ f[N].at < Len(u) /\ Begun(u, o, f[N], Len(u) + 1, c, T)
      BY <1>3, <1>4, <2>2, ColonFrames
    <2>4. text' = u /\ ":" \in Tokens
      BY <1>1, <1>5 DEF Tokens
    <2> HIDE DEF u
    <2>5. Ready(u, o, f[N], c, T)
      BY <1>3, <2>3 DEF Ready, TopKind
    <2>6. Innermost(f, u, "value", heap, ref_stack, c)
      BY <1>3, <2>3, <2>5, Zenon DEF Innermost
    <2>7. wants' \notin {"refused", "parsed"}
      BY <2>1
    <2> QED
      BY <1>3, <2>1, <2>3, <2>4, <2>6, <2>7, TakenStep DEF u
  <1>6. CASE t # ":"
    <2>1. wants' = "refused"
      BY <1>6 DEF Colon, Refuse
    <2>2. Refused(wants, TopKind(heap, ref_stack), t)
      BY <1>1, <1>6 DEF Refused
    <2> QED
      BY <1>1, <1>2, <2>1, <2>2, RefusalStep
  <1> QED
    BY <1>5, <1>6

LEMMA CommaDoc == ASSUME IInv, DocInv, NEW t \in Tokens \cup {"end"}, Comma(t) PROVE DocInv'
  <1> DEFINE N == Len(ref_stack)
             k == TopKind(heap, ref_stack)
             o == heap[ref_stack[N]]
             T == TreeOf(heap)
             inArray == Last(states)
  <1>1. wants = "comma" /\ text' = Append(text, t)
    BY DEF Comma, Read
  <1>2. wants \notin {"refused", "end", "parsed"} /\ wants # "value"
    BY <1>1
  <1>3. References /\ Agree /\ text \in Seq(Tokens) /\ Going /\ ref_stack # <<>>
    BY <1>1, <1>2, Here, Zenon
  <1>4. PICK f : Frames(f, text, heap, ref_stack) /\ Innermost(f, text, wants, heap, ref_stack, object_element)
    BY <1>3 DEF Going
  <1>5. Between(f, text, heap, ref_stack)
    BY <1>1, <1>4 DEF Innermost
  <1>6. inArray \in BOOLEAN /\ (inArray <=> k = "array") /\ (k = "array" \/ k = "object")
    <2>1. Len(states) = N
      BY <1>1, <1>3 DEF Agree, Depth
    <2>2. N \in 1 .. N
      BY <1>3 DEF References
    <2>3. states[N] \in BOOLEAN /\ (states[N] <=> IsList(N))
      BY <1>3, <2>1, <2>2 DEF Agree
    <2>4. k \in Containers
      BY <1>3, <2>2 DEF References, TopKind
    <2> QED
      BY <2>1, <2>3, <2>4 DEF Last, IsList, TopKind, Containers
  <1>7. Closer(k) = IF inArray THEN "]" ELSE "}"
    BY <1>6 DEF Closer
  <1> HIDE DEF inArray
  <1>8. CASE t = ","
    <2>1. wants' = (IF inArray THEN "value" ELSE "key") /\ ref_stack' = ref_stack /\ heap' = heap
      BY <1>8 DEF Comma, document, inArray
    <2> DEFINE u == Append(text, ",")
    <2>2. PICK ff : /\ Frames(ff, u, heap, ref_stack) /\ ff[N].at < Len(text) + 1
                    /\ AtElement(u, o, ff[N], T)
      BY <1>3, <1>4, <1>5, CommaFrames
    <2>3. "," \in Tokens
      BY DEF Tokens
    <2>4. Len(u) = Len(text) + 1 /\ text' = u
      <3>1. ASSUME NEW x \in Tokens PROVE Len(Append(text, x)) = Len(text) + 1
        BY <1>3, ExtendsAppend
      <3> QED
        BY <1>1, <1>8, <2>3, <3>1, Zenon
    <2> HIDE DEF u
    <2>5. ff[N].at < Len(u) /\ AtElement(u, o, ff[N], T)
      BY <2>2, <2>4, Zenon
    <2>6. Innermost(ff, u, wants', heap, ref_stack, object_element')
      <3>1. CASE inArray
        <4>1. Ready(u, o, ff[N], object_element', T)
          BY <1>6, <2>5, <3>1 DEF Ready, TopKind
        <4>2. wants' = "value"
          BY <2>1, <3>1
        <4> QED
          BY <1>3, <2>5, <4>1, <4>2, Zenon DEF Innermost
      <3>2. CASE ~inArray
        <4>1. wants' = "key"
          BY <2>1, <3>2
        <4> QED
          BY <1>3, <2>5, <4>1, Zenon DEF Innermost
      <3> QED
        BY <3>1, <3>2
    <2>7. wants' \notin {"refused", "parsed"}
      BY <1>6, <2>1
    <2> QED
      BY <1>3, <2>1, <2>2, <2>3, <2>4, <2>6, <2>7, TakenStep, Zenon DEF u
  <1>9. CASE t = Closer(k)
    <2>1. t # "," /\ t = (IF inArray THEN "]" ELSE "}")
      BY <1>6, <1>7, <1>9
    <2>2. Close
      BY <2>1, Zenon DEF Comma, inArray
    <2>3. EndContainer /\ wants' \in {"comma", "end"}
      BY <2>2 DEF Close, AfterValue
    <2>4. Complete(Append(text, t), f[N].at, TreeOf(heap)[Top])
      BY <1>3, <1>4, <1>5, <1>9, ClosedComplete DEF Top
    <2>5. text' = Append(text, t)
      BY <1>1
    <2> QED
      BY <1>3, <1>4, <1>9, <2>3, <2>4, <2>5, CloseStep
  <1>10. CASE t # "," /\ t # Closer(k)
    <2>1. t # (IF inArray THEN "]" ELSE "}")
      BY <1>7, <1>10
    <2>2. wants' = "refused"
      BY <1>10, <2>1, Zenon DEF Comma, Refuse, inArray
    <2>3. Refused(wants, k, t)
      BY <1>1, <1>10, Zenon DEF Refused
    <2> QED
      BY <1>1, <1>2, <2>2, <2>3, RefusalStep, Zenon
  <1> QED
    BY <1>8, <1>9, <1>10, Zenon

LEMMA EndDoc == ASSUME IInv, DocInv, NEW t \in Tokens \cup {"end"}, End(t) PROVE DocInv'
  <1> DEFINE d == TreeOf(heap)[1]
  <1>1. wants = "end" /\ text' = Append(text, t)
    BY DEF End, Read
  <1>2. text \in Seq(Tokens) /\ Going /\ ref_stack = <<>>
    BY <1>1 DEF IInv, DocInv, Place
  <1>3. PICK f : Frames(f, text, heap, ref_stack) /\ Innermost(f, text, wants, heap, ref_stack, object_element)
    BY <1>2 DEF Going
  <1>4. Complete(text, 1, d)
    BY <1>1, <1>2, <1>3 DEF Innermost, Between
  <1>5. Last(text') = t /\ Front(text') = text /\ text' # <<>>
    BY <1>1, <1>2, WithoutEnd
  <1>6. ASSUME NEW w \in Seq(Tokens) PROVE Documents(w) = ValueDocs(w, 1, Len(w))
    BY DEF Documents, ValueDocs
  <1>7. CASE t = "end"
    <2>1. wants' = "parsed" /\ heap' = heap
      BY <1>7 DEF End, document
    <2>2. Documents(text) = {d}
      BY <1>2, <1>4, <1>6, ExtendsItself DEF Complete
    <2> QED
      BY <1>5, <2>1, <2>2 DEF DocInv
  <1>8. CASE t # "end"
    <2>1. wants' = "refused"
      BY <1>8 DEF End, Refuse
    <2>2. text' \in Seq(Tokens) /\ Extends(text, text') /\ Len(text') = Len(text) + 1 /\ Len(text) \in Nat
      BY <1>1, <1>2, <1>8, ExtendsAppend
    <2>3. ASSUME NEW w \in Seq(Tokens), Extends(text', w), Documents(w) # {} PROVE FALSE
      <3>1. Extends(text, w) /\ Len(text) < Len(w) /\ Len(w) \in Nat
        <4>1. Extends(text, w)
          BY <1>2, <2>2, <2>3, ExtendsTrans
        <4> QED
          BY <2>2, <2>3, <4>1 DEF Extends
      <3>2. ValueDocs(w, 1, Len(text)) # {} /\ ValueDocs(w, 1, Len(w)) # {}
        BY <1>4, <1>6, <2>3, <3>1 DEF Complete
      <3>3. Len(text) = Len(w)
        BY <2>2, <3>1, <3>2, OneValueEnd
      <3> QED
        BY <2>2, <3>1, <3>3
    <2>4. Hopeless'
      BY <1>5, <2>2, <2>3 DEF Hopeless
    <2> QED
      BY <2>1, <2>4 DEF DocInv
  <1> QED
    BY <1>7, <1>8

LEMMA InitDoc == Init => DocInv
  <1> SUFFICES ASSUME Init PROVE DocInv
    OBVIOUS
  <1>1. text = <<>> /\ wants = "value" /\ ref_stack = <<>> /\ heap = <<>>
    BY DEF Init
  <1>2. text \in Seq(Tokens) /\ Len(heap) = 0 /\ Len(ref_stack) = 0 /\ heap \in Seq(Node)
    BY <1>1
  <1>3. Heap(heap) /\ Chain(heap, ref_stack)
    BY <1>1, <1>2 DEF Heap, Forward, Single, Chain
  <1>4. ASSUME NEW f PROVE Frames(f, text, heap, ref_stack) /\ Innermost(f, text, wants, heap, ref_stack, object_element)
    <2>1. Frames(f, text, heap, ref_stack)
      BY <1>1, <1>2, <1>3 DEF Frames
    <2>2. Innermost(f, text, wants, heap, ref_stack, object_element)
      BY <1>1 DEF Innermost
    <2> QED
      BY <2>1, <2>2
  <1>5. Going
    BY <1>4 DEF Going
  <1> QED
    BY <1>1, <1>2, <1>5 DEF DocInv

LEMMA NextDoc == IInv /\ DocInv /\ [Next]_vars => DocInv'
  <1> SUFFICES ASSUME IInv, DocInv, [Next]_vars PROVE DocInv'
    OBVIOUS
  <1>1. CASE Next
    <2>1. PICK t \in Tokens \cup {"end"} :
             Value(t) \/ FirstItem(t) \/ FirstKey(t) \/ Colon(t) \/ Comma(t) \/ End(t)
      BY <1>1 DEF Next
    <2> QED
      BY <2>1, ValueDoc, FirstItemDoc, FirstKeyDoc, ColonDoc, CommaDoc, EndDoc
  <1>2. CASE UNCHANGED vars
    BY <1>2 DEF vars, DocInv, Going, Hopeless
  <1> QED
    BY <1>1, <1>2
-----------------------------------------------------------------------------
LEMMA DocInvImpliesParses == DocInv => ParsesTheDocument
  BY TreeIs DEF DocInv, ParsesTheDocument

\* json::parse gives the one document its text denotes, for every text of any length: the
\* members and items in their places, the last of the members with one key, and nothing else.
THEOREM DocumentParsed == Spec => []ParsesTheDocument
  <1>1. IInv /\ DocInv /\ [Next]_vars => IInv' /\ DocInv'
    BY NextIInv, NextDoc
  <1>2. Init => IInv /\ DocInv
    BY InitIInv, InitDoc
  <1> QED
    BY <1>1, <1>2, DocInvImpliesParses, PTL DEF Spec

\* There are finitely many brackets in the text.
LEMMA CountNat == ASSUME text \in Seq(Tokens), NEW B PROVE Count(B) \in Nat
  <1> DEFINE S == {i \in DOMAIN text : text[i] \in B}
  <1>1. DOMAIN text = 1 .. Len(text) /\ Len(text) \in Nat
    OBVIOUS
  <1>2. IsFiniteSet(1 .. Len(text))
    BY <1>1, FS_Interval
  <1>3. IsFiniteSet(S)
    BY <1>1, <1>2, FS_Subset
  <1> QED
    BY <1>3, FS_CardinalityType DEF Count

\* What RefusesOnlyWrongText puts behind a text makes a longer text of it.
LEMMA ClosersAreTexts == ASSUME text \in Seq(Tokens), NEW c \in Closers PROVE c \in Seq(Tokens)
  <1> DEFINE n == Count({"[", "{"}) - Count({"]", "}"})
  <1>1. n \in Int
    <2>1. Count({"[", "{"}) \in Nat /\ Count({"]", "}"}) \in Nat
      BY CountNat
    <2>2. ASSUME NEW a \in Nat, NEW b \in Nat PROVE a - b \in Int
      OBVIOUS
    <2> QED
      BY <2>1, <2>2, Zenon
  <1>2. c \in [1 .. n -> {"]", "}"}]
    BY DEF Closers
  <1> HIDE DEF n
  <1>3. {"]", "}"} \subseteq Tokens
    BY DEF Tokens
  <1>4. c \in [1 .. n -> Tokens]
    BY <1>2, <1>3
  <1>5. CASE n \in Nat
    BY <1>4, <1>5
  <1>6. CASE n \notin Nat
    <2>1. 1 .. n = 1 .. 0
      BY <1>1, <1>6
    <2>2. c \in [1 .. 0 -> Tokens]
      BY <1>4, <2>1, Zenon
    <2> QED
      BY <2>2
  <1> QED
    BY <1>5, <1>6

LEMMA MiddlesAreTexts == Middles \subseteq Seq(Tokens)
  <1>1. "v" \in Tokens /\ "k" \in Tokens /\ ":" \in Tokens
    BY DEF Tokens, Scalars, Strings
  <1> QED
    BY <1>1 DEF Middles

LEMMA Continues ==
    ASSUME NEW s \in Seq(Tokens), NEW m \in Seq(Tokens), NEW c \in Seq(Tokens)
    PROVE  s \o m \o c \in Seq(Tokens) /\ Extends(s, s \o m \o c)
  <1>1. s \o m \in Seq(Tokens) /\ Len(s \o m) = Len(s) + Len(m)
    OBVIOUS
  <1> QED
    BY <1>1 DEF Extends

LEMMA DocInvImpliesRefuses == DocInv => RefusesOnlyWrongText
  <1> SUFFICES ASSUME DocInv, wants = "refused" PROVE
          IF Last(text) = "end" THEN Documents(Front(text)) = {}
          ELSE \A m \in Middles, c \in Closers : Documents(text \o m \o c) = {}
    BY DEF RefusesOnlyWrongText
  <1>1. Hopeless
    BY DEF DocInv
  <1>2. CASE Last(text) = "end" /\ Documents(Front(text)) = {}
    BY <1>2
  <1>3. CASE text \in Seq(Tokens) /\ \A w \in Seq(Tokens) : Extends(text, w) => Documents(w) = {}
    <2>1. Last(text) # "end"
      <3>1. text # <<>>
        BY <1>1 DEF Hopeless
      <3>2. Last(text) \in Tokens
        BY <1>3, <3>1 DEF Last
      <3>3. "end" \notin Tokens
        BY DEF Tokens, Scalars, Strings
      <3> QED
        BY <3>2, <3>3
    <2>2. ASSUME NEW m \in Middles, NEW c \in Closers PROVE Documents(text \o m \o c) = {}
      <3>1. m \in Seq(Tokens) /\ c \in Seq(Tokens)
        BY <1>3, MiddlesAreTexts, ClosersAreTexts
      <3> QED
        BY <1>3, <3>1, Continues
    <2> QED
      BY <2>1, <2>2
  <1> QED
    BY <1>1, <1>2, <1>3 DEF Hopeless

\* json::parse refuses a text only when nothing that begins with what it has read is a
\* document, whatever follows; at the end of the text, when the text is none.
THEOREM RefusalOfTexts == Spec => []RefusesOnlyWrongText
  <1>1. IInv /\ DocInv /\ [Next]_vars => IInv' /\ DocInv'
    BY NextIInv, NextDoc
  <1>2. Init => IInv /\ DocInv
    BY InitIInv, InitDoc
  <1> QED
    BY <1>1, <1>2, DocInvImpliesRefuses, PTL DEF Spec
=============================================================================
