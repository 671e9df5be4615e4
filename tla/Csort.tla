--------------------------------- MODULE Csort ---------------------------------
(***************************************************************************)
(* src/csort: sorting in place.  An array is a sequence, so that ori[i] is *)
(* s[i + 1]; an element has a key, which is all the code compares, and an  *)
(* id, its place in the input, which tells equal keys apart.               *)
(***************************************************************************)
EXTENDS Integers, Sequences, FiniteSetsExt

CONSTANTS
  Keys,     \* the keys
  MaxArray  \* bound on len

ASSUME CsortAssumption == Keys \subseteq Int /\ MaxArray \in Nat

VARIABLES
  input,    \* the array a caller has, << >> before it has one
  sort,     \* the function it called last
  output    \* the array after the call

csVars == <<input, sort, output>>

Element == [key : Keys, id : Nat]

\* The arrays that a sort makes of s.
Array(s) == [DOMAIN s -> Element]

\* for (i = a; i <= b; i++) and for (i = a; i >= b; i--): t is what the loop
\* changes, body[i][t] what round i makes of it.
ForUp(a, b, t, body) ==
  IF b < a THEN t
  ELSE LET r[i \in a .. b] == body[i][IF i = a THEN t ELSE r[i - 1]] IN r[b]
ForDown(a, b, t, body) ==
  IF a < b THEN t
  ELSE LET r[i \in b .. a] == body[i][IF i = a THEN t ELSE r[i + 1]] IN r[b]

Swap(s, i, j) == [s EXCEPT ![i + 1] = s[j + 1], ![j + 1] = s[i + 1]]

\* An array from which one element is taken: ori[at] may be overwritten.
Hole(s) == [array : Array(s), at : 0 .. Len(s) - 1]
MoveFrom(h, j) == [array |-> [h.array EXCEPT ![h.at + 1] = h.array[j + 1]], at |-> j]
FillHole(h, e) == [h.array EXCEPT ![h.at + 1] = e]

-----------------------------------------------------------------------------
(* Insertsort and Shellsort *)

\* The inner loop of both: ori[i] goes down in steps of d for as long as it may
\* pass the element there, and the elements it passes go up.
Sink(s, i, d, passable) ==
  LET round == [k \in 1 .. i |-> [h \in Hole(s) |->
                  IF h.at >= d /\ h.at - d \in passable THEN MoveFrom(h, h.at - d) ELSE h]]
  IN FillHole(ForUp(1, i, [array |-> s, at |-> i], round), s[i + 1])

\* ori[j-1] > tmp: the places ori[i] passes.
Greater(s, i) == {k \in 0 .. i - 1 : s[k + 1].key > s[i + 1].key}

Insertsort(s) ==
  ForUp(1, Len(s) - 1, s,
        [i \in 1 .. Len(s) - 1 |-> [a \in Array(s) |-> Sink(a, i, 1, Greater(a, i))]])

\* tmp > ori[j-increment]: the larger element goes down.
Less(s, i) == {k \in 0 .. i - 1 : s[i + 1].key > s[k + 1].key}

\* The loop over i for one increment.
ShellPass(s, d) ==
  ForUp(d, Len(s) - 1, s,
        [i \in d .. Len(s) - 1 |-> [a \in Array(s) |-> Sink(a, i, d, Less(a, i))]])

\* The increments len/2, len/4, ..., 1 come to 0 in at most len rounds.
Shellsort(s) ==
  LET round == [k \in 1 .. Len(s) |-> [g \in [array : Array(s), increment : Nat] |->
                  IF g.increment > 0
                  THEN [array |-> ShellPass(g.array, g.increment), increment |-> g.increment \div 2]
                  ELSE g]]
  IN ForUp(1, Len(s), [array |-> s, increment |-> Len(s) \div 2], round).array

-----------------------------------------------------------------------------
(* Bubblesort *)

CompareNext(s, j) == IF s[j + 1].key > s[j + 2].key THEN Swap(s, j, j + 1) ELSE s

BubblePass(s, i) == ForUp(0, i - 1, s, [j \in 0 .. i - 1 |-> [a \in Array(s) |-> CompareNext(a, j)]])

Bubblesort(s) ==
  ForDown(Len(s) - 1, 1, s, [i \in 1 .. Len(s) - 1 |-> [a \in Array(s) |-> BubblePass(a, i)]])

-----------------------------------------------------------------------------
(* Heapsort *)

LeftChild(i) == 2 * i + 1

\* The child that may move up.  (Mutant: the last child is forgotten.)
ChildForgetsLast(s, i, len) ==
  LET c == LeftChild(i)
  IN IF c < len - 2 /\ s[c + 1].key < s[c + 2].key THEN c + 1 ELSE c
Child(s, i, len) ==
  LET c == LeftChild(i)
  IN IF c < len - 1 /\ s[c + 1].key < s[c + 2].key THEN c + 1 ELSE c

\* One round of perceDownMax(): the hole goes down if a child is larger than tmp.
PercDown(h, len, tmp) ==
  IF LeftChild(h.at) < len /\ tmp.key < h.array[Child(h.array, h.at, len) + 1].key
  THEN MoveFrom(h, Child(h.array, h.at, len)) ELSE h

\* The hole is out of the heap's inner nodes after at most len rounds.
PerceDownMax(s, pos, len) ==
  LET round == [k \in 1 .. len |-> [h \in Hole(s) |-> PercDown(h, len, s[pos + 1])]]
  IN FillHole(ForUp(1, len, [array |-> s, at |-> pos], round), s[pos + 1])

BuildHeap(s) ==
  ForDown(Len(s) \div 2, 0, s,
          [i \in 0 .. Len(s) \div 2 |-> [a \in Array(s) |-> PerceDownMax(a, i, Len(s))]])

Heapsort(s) ==
  ForDown(Len(s) - 1, 1, BuildHeap(s),
          [i \in 1 .. Len(s) - 1 |-> [a \in Array(s) |-> PerceDownMax(Swap(a, 0, i), 0, i)]])

-----------------------------------------------------------------------------
(* Mergesort *)

\* Merge(): the while loops put one element after the other into tmpA, of equal
\* keys the right one first, and tmpA goes back to ori[left .. rightEnd].
Merge(l, r) ==
  LET round == [k \in 1 .. Len(l) + Len(r) |->
               [m \in [left : 0 .. Len(l), right : 0 .. Len(r), tmpA : Seq(Element)] |->
                  IF m.left < Len(l)
                     /\ (m.right = Len(r) \/ l[m.left + 1].key < r[m.right + 1].key)
                  THEN [m EXCEPT !.left = @ + 1, !.tmpA = Append(@, l[m.left + 1])]
                  ELSE [m EXCEPT !.right = @ + 1, !.tmpA = Append(@, r[m.right + 1])]]]
  IN ForUp(1, Len(l) + Len(r), [left |-> 0, right |-> 0, tmpA |-> << >>], round).tmpA

\* Msort() of ori[left .. right], which is all that it reads and writes.
Msort[ori \in Seq(Element)] ==
  LET centor == (Len(ori) - 1) \div 2
  IN IF Len(ori) > 1
     THEN Merge(Msort[SubSeq(ori, 1, centor + 1)], Msort[SubSeq(ori, centor + 2, Len(ori))])
     ELSE ori

Mergesort(s) == Msort[s]

-----------------------------------------------------------------------------
(* Quicksort *)

CUTOFF == 3

\* What is left of ori[left .. right] if a scan leaves it.
Outside == << >>

SwapIf(s, cond, i, j) == IF cond THEN Swap(s, i, j) ELSE s

\* median3(): its first exchange is of left and right.  The pivot ends up at
\* right - 1.
Median3(s, left, right) ==
  LET c == (left + right) \div 2
      s1 == SwapIf(s, s[c + 1].key < s[left + 1].key, left, right)
      s2 == SwapIf(s1, s1[right + 1].key < s1[c + 1].key, right, c)
      s3 == SwapIf(s2, s2[c + 1].key < s2[left + 1].key, c, left)
  IN Swap(s3, c, right - 1)

Partitions(s) ==
  [array : Array(s), i : 0 .. Len(s) - 1, j : 0 .. Len(s) - 1, at : {"scan", "outside", "break"}]

\* One round of the for(;;) of Qsort(), with both scans.
Scan(p, left, right) ==
  LET s == p.array
      pivot == s[right].key
      ups == {k \in (p.i + 1) .. right : s[k + 1].key >= pivot}
      downs == {k \in left .. (p.j - 1) : s[k + 1].key <= pivot}
  IN IF p.at # "scan" THEN p
     ELSE IF ups = {} \/ downs = {} THEN [p EXCEPT !.at = "outside"]
     ELSE IF Min(ups) < Max(downs)
     THEN [p EXCEPT !.array = Swap(s, Min(ups), Max(downs)), !.i = Min(ups), !.j = Max(downs)]
     ELSE [p EXCEPT !.array = Swap(s, Min(ups), right - 1), !.i = Min(ups), !.at = "break"]

\* i goes up in every round, so that Len(s) rounds are enough.
Partition(s, left, right) ==
  ForUp(1, Len(s), [array |-> s, i |-> left, j |-> right - 1, at |-> "scan"],
        [k \in 1 .. Len(s) |-> [p \in Partitions(s) |-> Scan(p, left, right)]])

\* Qsort() of ori[left .. right], which is all that it reads and writes unless a
\* scan leaves it.
Qsort[ori \in Seq(Element)] ==
  LET right == Len(ori) - 1
      p == Partition(Median3(ori, 0, right), 0, right)
  IN IF 0 + CUTOFF <= right
     THEN IF p.at # "break" THEN Outside
          ELSE Qsort[SubSeq(p.array, 1, p.i)] \o <<p.array[p.i + 1]>>
                 \o Qsort[SubSeq(p.array, p.i + 2, Len(ori))]
     ELSE Insertsort(ori)

Quicksort(s) == Qsort[s]

-----------------------------------------------------------------------------
Sorts == {"Insertsort", "Shellsort", "Bubblesort", "Heapsort", "Mergesort", "Quicksort"}

Apply(f, s) ==
  CASE f = "Insertsort" -> Insertsort(s) [] f = "Shellsort" -> Shellsort(s)
    [] f = "Bubblesort" -> Bubblesort(s) [] f = "Heapsort" -> Heapsort(s)
    [] f = "Mergesort" -> Mergesort(s) [] f = "Quicksort" -> Quicksort(s)

CsortInit == input = << >> /\ sort = "none" /\ output = << >>

Fill ==
  /\ input = << >>
  /\ \E len \in 1 .. MaxArray : \E keys \in [1 .. len -> Keys] :
       input' = [i \in 1 .. len |-> [key |-> keys[i], id |-> i]]
  /\ UNCHANGED <<sort, output>>

Call(f) ==
  /\ input # << >> /\ sort = "none"
  /\ sort' = f /\ output' = Apply(f, input)
  /\ UNCHANGED input

\* malloc() of tmpA fails: Mergesort() leaves the array alone and says nothing.
MergesortNoMemory ==
  /\ input # << >> /\ sort = "none"
  /\ sort' = "no_memory" /\ output' = input
  /\ UNCHANGED input

CsortNext == Fill \/ (\E f \in Sorts : Call(f)) \/ MergesortNoMemory

CsortSpec == CsortInit /\ [][CsortNext]_csVars

-----------------------------------------------------------------------------
IsPermutation == Len(output) = Len(input) /\ Range(output) = Range(input)
Ascending == \A i, j \in DOMAIN output : i < j => output[i].key <= output[j].key
Descending == \A i, j \in DOMAIN output : i < j => output[i].key >= output[j].key
Stable == \A i, j \in DOMAIN output : i < j /\ output[i].key = output[j].key => output[i].id < output[j].id

\* "ascending" in the comments of Insertsort.c, Bubblesort.c and Mergesort.c,
\* and of the max heap in Heapsort.c: for every array the result has the same
\* elements, in ascending order, ties and arrays of one element included.
AscendingSorts ==
  sort \in {"Insertsort", "Bubblesort", "Heapsort", "Mergesort"} => IsPermutation /\ Ascending

\* Insertsort.c:16 and Bubblesort.c:16, "stable": equal keys keep their order.
StableSorts == sort \in {"Insertsort", "Bubblesort"} => Stable

\* Mergesort.c:73 and readme.md:25 call Mergesort() stable as well.  It is not:
\* Merge() takes the right element of two equal ones (Mergesort.c:27-31) at every
\* level of Msort(), so that equal keys always come out in reverse order.
MergesortReversesTies ==
  sort = "Mergesort" =>
    \A i, j \in DOMAIN output : i < j /\ output[i].key = output[j].key => output[i].id > output[j].id

\* Shellsort.c:10 says "ascending".  It is not: the one comparison in the inner
\* loop orders the whole array, for every length and sequence of increments, with
\* the largest first.
ShellsortOrders == sort = "Shellsort" => IsPermutation /\ Descending

\* The scans of Qsort() have no test for the ends of the array: what median3()
\* puts at left and right - 1 always stops them inside, in every recursion, and
\* no element is lost.
QuicksortStaysInside == sort = "Quicksort" => output # Outside /\ IsPermutation

\* Quicksort.c:16 says of the three exchanges in median3() that they are an
\* insertion sort, and readme.md:17 lists Quicksort as a sorting algorithm: its
\* result is in ascending order.
QuicksortSorts == sort = "Quicksort" => Ascending

\* What the six functions do with every array: the ascending and stable ones keep
\* what their comments promise; Mergesort() and Shellsort() break theirs always and
\* in one way; and Quicksort(), which does not sort, stays inside the array.
CsortInv ==
  AscendingSorts /\ StableSorts /\ MergesortReversesTies /\ ShellsortOrders /\ QuicksortStaysInside
=============================================================================
