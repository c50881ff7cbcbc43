----------------------------- MODULE ListProofs -----------------------------
(***************************************************************************)
(* What holds of the lists of List.tla, for any number of Elems and any    *)
(* data: their types, that the chain is what is allocated, and that they   *)
(* are the sequence with two ends of Deque.tla.                            *)
(*                                                                         *)
(* The invariant says that some sequence of Elems is held by the pointers: *)
(* from head, through next, to tail, each allocated Elem once.  There is   *)
(* then only one such sequence (the walk from head is unique, by the least *)
(* place where two would differ), it is Chain, and each call makes of it   *)
(* what Deque makes of its items.                                          *)
(***************************************************************************)
EXTENDS List, FiniteSetTheorems, WellFoundedInduction, TLAPS

\* f is the pointer that is followed at each step from h through nx.
Walk(f, h, nx) ==
    f = [i \in 1 .. Cardinality(Elems) + 1 |->
            IF i = 1 THEN h
            ELSE IF f[i - 1] = Null THEN Null ELSE nx[f[i - 1]]]

\* The Elems on the way: Chain of any list.
Way(h, nx) ==
    LET node == CHOOSE f : Walk(f, h, nx)
    IN  [i \in {i \in DOMAIN node : node[i] # Null} |-> node[i]]

\* Chain, now and after a step, is a way.
LEMMA ChainIsWay == Chain = Way(head, next) /\ Chain' = Way(head', next')
  BY DEF Chain, Way, Walk

\* A set of naturals that is not empty has a least one.
LEMMA Least ==
    ASSUME NEW T, T \subseteq Nat, T # {}
    PROVE  \E m \in T : \A y \in T : m <= y
<1> DEFINE R == {ss \in Nat \X Nat : ss[1] < ss[2]}
<1>1. IsWellFoundedOn(R, Nat)
  BY NatLessThanWellFounded DEF OpToRel
<1> HIDE DEF R
<1>2. PICK x \in T : \A y \in T : ~(<<y, x>> \in R)
  BY <1>1, WFMin
<1>3. x \in Nat /\ \A y \in T : y \in Nat /\ (y < x => <<y, x>> \in R)
  BY DEF R
<1>4. ASSUME NEW y \in T PROVE x <= y
  <2>1. y \in Nat /\ x \in Nat /\ ~(<<y, x>> \in R) /\ (y < x => <<y, x>> \in R)
    BY <1>2, <1>3
  <2>2. ~(y < x)
    BY <2>1, Zenon
  <2> QED
    BY <2>1, <2>2
<1> QED
  BY <1>4

\* Two walks from the same place through the same pointers are the same.
LEMMA OneWalk ==
    ASSUME NEW h, NEW nx, NEW f, NEW g, Walk(f, h, nx), Walk(g, h, nx),
           Cardinality(Elems) \in Nat
    PROVE  f = g
<1> DEFINE D == 1 .. Cardinality(Elems) + 1
           T == {i \in D : f[i] # g[i]}
<1>1. /\ DOMAIN f = D /\ DOMAIN g = D
      /\ f = [i \in D |-> f[i]] /\ g = [i \in D |-> g[i]]
  BY DEF Walk
<1>2. ASSUME T # {} PROVE FALSE
  <2>1. PICK m \in T : \A y \in T : m <= y
    <3>1. T \subseteq Nat
      OBVIOUS
    <3> HIDE DEF T
    <3> QED
      BY <1>2, <3>1, Least
  <2>2. m \in D /\ f[m] # g[m]
    OBVIOUS
  <2>3. CASE m = 1
    BY <2>2, <2>3 DEF Walk
  <2>4. CASE m # 1
    <3>1. m - 1 \in D /\ f[m - 1] = g[m - 1]
      BY <2>1, <2>2, <2>4
    <3>2. /\ f[m] = IF f[m - 1] = Null THEN Null ELSE nx[f[m - 1]]
          /\ g[m] = IF g[m - 1] = Null THEN Null ELSE nx[g[m - 1]]
      BY <2>2, <2>4 DEF Walk
    <3> QED
      BY <2>2, <3>1, <3>2
  <2> QED
    BY <2>3, <2>4
<1>3. \A i \in D : f[i] = g[i]
  BY <1>2
<1> QED
  BY <1>1, <1>3

\* q is what the pointers make of the list: from h, through nx, to t, each
\* Elem of al once.
Holds(q, h, t, nx, al) ==
    /\ q \in Seq(Elems) /\ Range(q) = al
    /\ \A i, j \in 1 .. Len(q) : q[i] = q[j] => i = j
    /\ h = IF q = <<>> THEN Null ELSE q[1]
    /\ t = IF q = <<>> THEN Null ELSE q[Len(q)]
    /\ \A i \in 1 .. Len(q) : nx[q[i]] = IF i = Len(q) THEN Null ELSE q[i + 1]

\* There is only one such q: Chain finds it.
LEMMA WayFound ==
    ASSUME NEW q, NEW h, NEW t, NEW nx, NEW al, Holds(q, h, t, nx, al)
    PROVE  Way(h, nx) = q /\ IsFiniteSet(al) /\ Cardinality(al) = Len(q)
<1> DEFINE C == Cardinality(Elems)
           f == [i \in 1 .. C + 1 |-> IF i <= Len(q) THEN q[i] ELSE Null]
<1>1. /\ q \in Seq(Elems) /\ Len(q) \in Nat /\ \A i \in 1 .. Len(q) : q[i] \in Elems
      /\ DOMAIN q = 1 .. Len(q)
      /\ al = {q[i] : i \in 1 .. Len(q)}
      /\ Null \notin Elems /\ IsFiniteSet(Elems)
  BY ListAssumption DEF Holds, Range
<1>2. IsFiniteSet(al) /\ Cardinality(al) = Len(q)
  <2>1. q \in Bijection(1 .. Len(q), al)
    <3>1. q \in [1 .. Len(q) -> al]
      <4>1. \A i \in 1 .. Len(q) : q[i] \in al
        BY <1>1
      <4>2. q = [i \in 1 .. Len(q) |-> q[i]]
        BY <1>1
      <4> QED
        BY <4>1, <4>2
    <3>2. \A i, j \in 1 .. Len(q) : q[i] = q[j] => i = j
      BY DEF Holds
    <3>3. \A x \in al : \E i \in 1 .. Len(q) : q[i] = x
      BY <1>1
    <3> QED
      BY <3>1, <3>2, <3>3, Zenon DEF Bijection, Injection, Surjection, IsInjective
  <2>2. IsFiniteSet(1 .. Len(q)) /\ Cardinality(1 .. Len(q)) = Len(q)
    <3>1. 1 \in Int /\ Len(q) \in Int
      BY <1>1
    <3>2. /\ IsFiniteSet(1 .. Len(q))
          /\ Cardinality(1 .. Len(q)) = IF 1 > Len(q) THEN 0 ELSE Len(q) - 1 + 1
      BY <3>1, FS_Interval
    <3> QED
      BY <1>1, <3>2
  <2> QED
    BY <2>1, <2>2, FS_Bijection DEF ExistsBijection
<1>3. C \in Nat /\ Len(q) <= C
  <2>1. al \subseteq Elems
    BY <1>1
  <2> QED
    BY <1>1, <1>2, <2>1, FS_Subset, FS_CardinalityType
<1>4. Walk(f, h, nx)
  <2>1. ASSUME NEW i \in 1 .. C + 1
        PROVE  f[i] = IF i = 1 THEN h
                      ELSE IF f[i - 1] = Null THEN Null ELSE nx[f[i - 1]]
    <3>1. CASE i = 1
      <4>1. h = IF Len(q) = 0 THEN Null ELSE q[1]
        <5>1. q = <<>> <=> Len(q) = 0
          BY <1>1
        <5> QED
          BY <5>1 DEF Holds
      <4> QED
        BY <1>1, <1>3, <3>1, <4>1
    <3>2. CASE i # 1 /\ i - 1 <= Len(q)
      <4>1. i - 1 \in 1 .. Len(q) /\ f[i - 1] = q[i - 1] /\ q[i - 1] # Null
        BY <1>1, <1>3, <3>2
      <4>2. nx[q[i - 1]] = IF i - 1 = Len(q) THEN Null ELSE q[i]
        BY <4>1 DEF Holds
      <4> QED
        BY <1>1, <1>3, <3>2, <4>1, <4>2
    <3>3. CASE i # 1 /\ ~(i - 1 <= Len(q))
      BY <1>1, <1>3, <3>3
    <3>4. i = 1 \/ (i # 1 /\ i - 1 <= Len(q)) \/ (i # 1 /\ ~(i - 1 <= Len(q)))
      OBVIOUS
    <3> HIDE DEF f
    <3> QED
      BY <3>1, <3>2, <3>3, <3>4
  <2> HIDE DEF C
  <2>2. f = [i \in 1 .. C + 1 |-> f[i]]
    OBVIOUS
  <2> HIDE DEF f
  <2> QED
    BY <2>1, <2>2 DEF Walk, C
<1>5. (CHOOSE g : Walk(g, h, nx)) = f
  <2> HIDE DEF f
  <2>1. Walk(CHOOSE g : Walk(g, h, nx), h, nx)
    BY <1>4
  <2> QED
    BY <1>3, <1>4, <2>1, OneWalk
<1>6. {i \in DOMAIN f : f[i] # Null} = 1 .. Len(q)
  BY <1>1, <1>3
<1>7. \A i \in 1 .. Len(q) : f[i] = q[i]
  BY <1>1, <1>3
<1>8. q = [i \in 1 .. Len(q) |-> q[i]]
  BY <1>1
<1> HIDE DEF f
<1> QED
  BY <1>2, <1>5, <1>6, <1>7, <1>8 DEF Way

-----------------------------------------------------------------------------
(* What each call makes of the sequence.                                   *)

\* The data in the order of the Elems.
Items(q, d) == [i \in DOMAIN q |-> d[q[i]]]

\* One datum for each Elem.
LEMMA ItemsTyped ==
    ASSUME NEW q \in Seq(Elems), NEW d \in [Elems -> Data \cup {Null}]
    PROVE  /\ Items(q, d) \in Seq(Data \cup {Null}) /\ Len(Items(q, d)) = Len(q)
           /\ \A i \in 1 .. Len(q) : Items(q, d)[i] = d[q[i]]
<1>1. Len(q) \in Nat /\ DOMAIN q = 1 .. Len(q) /\ \A i \in 1 .. Len(q) : q[i] \in Elems
  OBVIOUS
<1> QED
  BY <1>1 DEF Items

\* addFirst puts the new Elem before the others.
LEMMA AddsFirst ==
    ASSUME TypeOK, NEW q, Holds(q, head, tail, next, allocated),
           NEW e \in Elems, NEW d \in Data, AddFirst(e, d)
    PROVE  /\ TypeOK' /\ Holds(<<e>> \o q, head', tail', next', allocated')
           /\ Items(<<e>> \o q, data') = <<d>> \o Items(q, data) /\ result' = result
<1> USE ListAssumption
<1> DEFINE p == <<e>> \o q
<1>1. /\ e \notin allocated /\ allocated' = allocated \cup {e}
      /\ data' = [data EXCEPT ![e] = d] /\ result' = result /\ faulted' = faulted
      /\ next' = [next EXCEPT ![e] = head] /\ head' = e
      /\ tail' = IF tail = Null THEN e ELSE tail
  BY DEF AddFirst, New
<1>2. /\ q \in Seq(Elems) /\ Len(q) \in Nat /\ \A i \in 1 .. Len(q) : q[i] \in Elems
      /\ \A i \in 1 .. Len(q) : q[i] # e
  BY <1>1 DEF Holds, Range
<1>3. TypeOK'
  BY <1>1 DEF TypeOK
<1>4. /\ p \in Seq(Elems) /\ Len(p) = Len(q) + 1 /\ p # <<>> /\ p[1] = e
      /\ \A i \in 1 .. Len(p) : i # 1 => i - 1 \in 1 .. Len(q) /\ p[i] = q[i - 1]
      /\ \A i \in 1 .. Len(q) : i + 1 \in 1 .. Len(p) /\ p[i + 1] = q[i]
  BY <1>2
<1> HIDE DEF p
<1>5. Range(p) = allocated \cup {e}
  <2>1. \A x : x \in Range(p) <=> \E i \in 1 .. Len(p) : p[i] = x
    BY <1>4, SMTT(30) DEF Range
  <2>2. \A x : x \in allocated <=> \E i \in 1 .. Len(q) : q[i] = x
    BY <1>2 DEF Holds, Range
  <2>3. 1 \in 1 .. Len(p)
    BY <1>2, <1>4
  <2> QED
    BY <1>4, <2>1, <2>2, <2>3, ZenonT(60)
<1>6. \A i, j \in 1 .. Len(p) : p[i] = p[j] => i = j
  <2>1. \A i, j \in 1 .. Len(q) : q[i] = q[j] => i = j
    BY DEF Holds
  <2> SUFFICES ASSUME NEW i \in 1 .. Len(p), NEW j \in 1 .. Len(p), p[i] = p[j]
               PROVE  i = j
    OBVIOUS
  <2>2. CASE i = 1 \/ j = 1
    BY <1>2, <1>4, <2>2
  <2>3. CASE i # 1 /\ j # 1
    <3>1. i - 1 = j - 1
      BY <1>4, <2>1, <2>3
    <3> QED
      BY <1>4, <3>1
  <2> QED
    BY <2>2, <2>3
<1>7. tail' = p[Len(p)]
  <2>1. CASE q = <<>>
    BY <1>1, <1>4, <2>1 DEF Holds
  <2>2. CASE q # <<>>
    BY <1>1, <1>2, <1>4, <2>2 DEF Holds
  <2> QED
    BY <2>1, <2>2
<1>8. ASSUME NEW i \in 1 .. Len(p)
      PROVE  next'[p[i]] = IF i = Len(p) THEN Null ELSE p[i + 1]
  <2>1. CASE i = 1
    BY <1>1, <1>2, <1>4, <2>1 DEF Holds, TypeOK
  <2>2. CASE i # 1
    BY <1>1, <1>2, <1>4, <2>2 DEF Holds, TypeOK
  <2> QED
    BY <2>1, <2>2
<1>9. Holds(p, head', tail', next', allocated')
  BY <1>1, <1>4, <1>5, <1>6, <1>7, <1>8 DEF Holds
<1>10. Items(p, data') = <<d>> \o Items(q, data)
  <2>1. Items(q, data) \in Seq(Data \cup {Null}) /\ Len(Items(q, data)) = Len(q)
        /\ \A i \in 1 .. Len(q) : Items(q, data)[i] = data[q[i]]
    BY <1>2 DEF Items, TypeOK
  <2> DEFINE r == <<d>> \o Items(q, data)
  <2>2. r = [i \in 1 .. Len(q) + 1 |-> r[i]] /\ r[1] = d
        /\ \A i \in 1 .. Len(q) : r[i + 1] = data[q[i]]
    BY <2>1, <1>2
  <2>3. ASSUME NEW i \in 1 .. Len(p) PROVE data'[p[i]] = r[i]
    <3>1. CASE i = 1
      BY <1>1, <1>4, <2>2, <3>1 DEF TypeOK
    <3>2. CASE i # 1
      <4>1. i - 1 \in 1 .. Len(q) /\ p[i] = q[i - 1] /\ r[i - 1 + 1] = data[q[i - 1]]
        BY <1>4, <2>2, <3>2
      <4>2. i - 1 + 1 = i
        OBVIOUS
      <4>3. p[i] # e /\ p[i] \in Elems
        BY <1>2, <4>1
      <4> QED
        BY <1>1, <4>1, <4>2, <4>3 DEF TypeOK
    <3> QED
      BY <3>1, <3>2
  <2>4. DOMAIN p = 1 .. Len(q) + 1
    BY <1>4
  <2> HIDE DEF r
  <2>5. Items(p, data') = r
    BY <1>4, <2>2, <2>3, <2>4 DEF Items
  <2> QED
    BY <2>5 DEF r
<1> QED
  BY <1>1, <1>3, <1>9, <1>10 DEF p

\* The two ends of a list that holds q, and its pointers: q is empty, or has a
\* first and a last Elem.
LEMMA Ends ==
    ASSUME TypeOK, NEW q, Holds(q, head, tail, next, allocated)
    PROVE  /\ q \in Seq(Elems) /\ Len(q) \in Nat /\ DOMAIN q = 1 .. Len(q)
           /\ \A i \in 1 .. Len(q) : q[i] \in Elems /\ q[i] # Null
           /\ q = <<>> <=> Len(q) = 0
           /\ \/ q = <<>> /\ head = Null /\ tail = Null
              \/ /\ Len(q) \in Nat \ {0} /\ 1 \in 1 .. Len(q) /\ Len(q) \in 1 .. Len(q)
                 /\ head = q[1] /\ tail = q[Len(q)] /\ head # Null /\ tail # Null
                 /\ head \in Elems /\ tail \in Elems
                 /\ next[head] = IF Len(q) = 1 THEN Null ELSE q[2]
           /\ \A x : x \in allocated <=> \E i \in 1 .. Len(q) : q[i] = x
           /\ \A i, j \in 1 .. Len(q) : q[i] = q[j] => i = j
           /\ \A i \in 1 .. Len(q) : next[q[i]] = IF i = Len(q) THEN Null ELSE q[i + 1]
<1>1. /\ q \in Seq(Elems) /\ Len(q) \in Nat /\ DOMAIN q = 1 .. Len(q)
      /\ \A i \in 1 .. Len(q) : q[i] \in Elems /\ q[i] # Null
      /\ q = <<>> <=> Len(q) = 0
  BY ListAssumption DEF Holds
<1>2. \A x : x \in allocated <=> \E i \in 1 .. Len(q) : q[i] = x
  BY <1>1 DEF Holds, Range
<1>3. /\ \A i, j \in 1 .. Len(q) : q[i] = q[j] => i = j
      /\ \A i \in 1 .. Len(q) : next[q[i]] = IF i = Len(q) THEN Null ELSE q[i + 1]
      /\ head = IF q = <<>> THEN Null ELSE q[1]
      /\ tail = IF q = <<>> THEN Null ELSE q[Len(q)]
  BY DEF Holds
<1>4. CASE q = <<>>
  BY <1>1, <1>2, <1>3, <1>4
<1>5. CASE q # <<>>
  <2>1. Len(q) \in Nat \ {0} /\ 1 \in 1 .. Len(q) /\ Len(q) \in 1 .. Len(q)
    BY <1>1, <1>5
  <2>2. head = q[1] /\ tail = q[Len(q)]
    BY <1>3, <1>5
  <2>3. next[head] = IF Len(q) = 1 THEN Null ELSE q[2]
    <3>1. next[q[1]] = IF 1 = Len(q) THEN Null ELSE q[1 + 1]
      BY <2>1, <1>3
    <3>2. 1 + 1 = 2 /\ (1 = Len(q) <=> Len(q) = 1)
      OBVIOUS
    <3> QED
      BY <2>2, <3>1, <3>2
  <2>4. head # Null /\ tail # Null /\ head \in Elems /\ tail \in Elems
    BY <1>1, <2>1, <2>2
  <2> QED
    BY <1>1, <1>2, <1>3, <2>1, <2>2, <2>3, <2>4, Zenon
<1> QED
  BY <1>4, <1>5

\* addLast puts it after them.
LEMMA AddsLast ==
    ASSUME TypeOK, NEW q, Holds(q, head, tail, next, allocated),
           NEW e \in Elems, NEW d \in Data, AddLast(e, d)
    PROVE  /\ TypeOK' /\ Holds(Append(q, e), head', tail', next', allocated')
           /\ Items(Append(q, e), data') = Append(Items(q, data), d) /\ result' = result
<1> USE ListAssumption
<1> DEFINE p == Append(q, e)
<1>1. /\ e \notin allocated /\ allocated' = allocated \cup {e}
      /\ data' = [data EXCEPT ![e] = d] /\ result' = result /\ faulted' = faulted
      /\ \/ tail # Null /\ next' = [next EXCEPT ![e] = Null, ![tail] = e] /\ head' = head
         \/ tail = Null /\ next' = [next EXCEPT ![e] = Null] /\ head' = e
      /\ tail' = e
  BY DEF AddLast, New
<1>2. /\ q \in Seq(Elems) /\ Len(q) \in Nat /\ \A i \in 1 .. Len(q) : q[i] \in Elems
      /\ \A i \in 1 .. Len(q) : q[i] # e
  BY <1>1, Ends
<1>3. TypeOK'
  BY <1>1 DEF TypeOK
<1>4. /\ p \in Seq(Elems) /\ Len(p) = Len(q) + 1 /\ p # <<>> /\ p[Len(p)] = e
      /\ \A i \in 1 .. Len(p) : i # Len(p) => i \in 1 .. Len(q) /\ p[i] = q[i]
      /\ \A i \in 1 .. Len(q) : i \in 1 .. Len(p) /\ p[i] = q[i]
      /\ Len(p) \in 1 .. Len(p)
  BY <1>2
<1> HIDE DEF p
<1>5. Range(p) = allocated \cup {e}
  <2>1. \A x : x \in Range(p) <=> \E i \in 1 .. Len(p) : p[i] = x
    BY <1>4 DEF Range
  <2>2. \A x : x \in allocated <=> \E i \in 1 .. Len(q) : q[i] = x
    BY Ends
  <2> QED
    BY <1>4, <2>1, <2>2
<1>6. \A i, j \in 1 .. Len(p) : p[i] = p[j] => i = j
  <2>1. \A i, j \in 1 .. Len(q) : q[i] = q[j] => i = j
    BY DEF Holds
  <2> QED
    BY <1>2, <1>4, <2>1
<1>7. head' = p[1]
  <2>1. CASE q = <<>>
    BY <1>1, <1>4, <2>1, Ends
  <2>2. CASE q # <<>>
    BY <1>1, <1>2, <1>4, <2>2, Ends
  <2> QED
    BY <2>1, <2>2
<1>8. ASSUME NEW i \in 1 .. Len(p)
      PROVE  next'[p[i]] = IF i = Len(p) THEN Null ELSE p[i + 1]
  <2>1. CASE i = Len(p)
    <3>1. next'[e] = Null
      <4>1. tail # e
        BY <1>2, Ends
      <4> QED
        BY <1>1, <4>1 DEF TypeOK
    <3> QED
      BY <1>4, <2>1, <3>1
  <2>2. CASE i # Len(p)
    <3>1. i \in 1 .. Len(q) /\ p[i] = q[i] /\ q[i] \in Elems /\ q[i] # e
          /\ i + 1 \in 1 .. Len(p) /\ q # <<>>
      BY <1>2, <1>4, <2>2
    <3>2. tail = q[Len(q)] /\ tail # Null /\ tail \in Elems /\ Len(q) \in 1 .. Len(q)
      BY <3>1, Ends
    <3>3. next' = [next EXCEPT ![e] = Null, ![tail] = e]
      BY <1>1, <3>2
    <3>4. CASE i = Len(q)
      <4>1. p[i + 1] = e
        BY <1>4, <3>4
      <4> QED
        BY <2>2, <3>1, <3>2, <3>3, <3>4, <4>1 DEF TypeOK
    <3>5. CASE i # Len(q)
      <4>1. q[i] # tail
        BY <3>1, <3>2, <3>5, Ends
      <4>2. next[q[i]] = q[i + 1] /\ i + 1 \in 1 .. Len(q)
        BY <1>2, <3>1, <3>5, Ends
      <4>3. p[i + 1] = q[i + 1]
        BY <1>4, <4>2
      <4> QED
        BY <2>2, <3>1, <3>3, <4>1, <4>2, <4>3 DEF TypeOK
    <3> QED
      BY <3>4, <3>5
  <2> QED
    BY <2>1, <2>2
<1>9. Holds(p, head', tail', next', allocated')
  BY <1>1, <1>4, <1>5, <1>6, <1>7, <1>8 DEF Holds
<1>10. Items(p, data') = Append(Items(q, data), d)
  <2>1. Items(q, data) \in Seq(Data \cup {Null}) /\ Len(Items(q, data)) = Len(q)
        /\ \A i \in 1 .. Len(q) : Items(q, data)[i] = data[q[i]]
    BY <1>2 DEF Items, TypeOK
  <2> DEFINE r == Append(Items(q, data), d)
  <2>2. r = [i \in 1 .. Len(q) + 1 |-> r[i]] /\ r[Len(q) + 1] = d
        /\ \A i \in 1 .. Len(q) : r[i] = data[q[i]]
    <3> DEFINE s == Items(q, data)
    <3>1. r = Append(s, d) /\ s \in Seq(Data \cup {Null}) /\ Len(s) = Len(q)
          /\ \A i \in 1 .. Len(q) : s[i] = data[q[i]]
      BY <2>1
    <3> HIDE DEF s, r
    <3>2. /\ r \in Seq(Data \cup {Null}) /\ Len(r) = Len(q) + 1 /\ r[Len(q) + 1] = d
          /\ \A i \in 1 .. Len(q) : r[i] = s[i]
      BY <1>2, <3>1
    <3>3. r = [i \in 1 .. Len(r) |-> r[i]]
      BY <3>2
    <3>4. \A i \in 1 .. Len(q) : r[i] = data[q[i]]
      BY <3>1, <3>2
    <3>5. r = [i \in 1 .. Len(q) + 1 |-> r[i]]
      BY <3>2, <3>3
    <3> QED
      BY <3>2, <3>4, <3>5
  <2> HIDE DEF r
  <2>3. ASSUME NEW i \in 1 .. Len(p) PROVE data'[p[i]] = r[i]
    <3>1. CASE i = Len(p)
      BY <1>1, <1>4, <2>2, <3>1 DEF TypeOK
    <3>2. CASE i # Len(p)
      <4>1. i \in 1 .. Len(q) /\ p[i] = q[i] /\ r[i] = data[q[i]]
        BY <1>4, <2>2, <3>2
      <4>2. p[i] # e /\ p[i] \in Elems
        BY <1>2, <4>1
      <4> QED
        BY <1>1, <4>1, <4>2 DEF TypeOK
    <3> QED
      BY <3>1, <3>2
  <2>4. DOMAIN p = 1 .. Len(q) + 1
    BY <1>4
  <2>5. Items(p, data') = r
    BY <1>4, <2>2, <2>3, <2>4 DEF Items
  <2> QED
    BY <2>5 DEF r
<1> QED
  BY <1>1, <1>3, <1>9, <1>10 DEF p

\* removeFirst takes the first Elem and returns its data.
LEMMA RemovesFirst ==
    ASSUME TypeOK, NEW q, Holds(q, head, tail, next, allocated), RemoveFirst
    PROVE  /\ q # <<>>
           /\ TypeOK' /\ Holds(Tail(q), head', tail', next', allocated')
           /\ Items(Tail(q), data') = Tail(Items(q, data))
           /\ result' = Head(Items(q, data))
<1> USE ListAssumption
<1> DEFINE p == Tail(q)
<1>1. /\ head # Null /\ allocated' = allocated \ {head} /\ result' = data[head]
      /\ data' = data /\ faulted' = faulted /\ next' = next
      /\ head' = next[head] /\ tail' = IF next[head] = Null THEN Null ELSE tail
  BY DEF RemoveFirst, Delete
<1>2. /\ q \in Seq(Elems) /\ q # <<>> /\ Len(q) \in Nat \ {0} /\ head = q[1]
      /\ head \in Elems /\ tail = q[Len(q)] /\ 1 \in 1 .. Len(q)
      /\ \A i \in 1 .. Len(q) : q[i] \in Elems /\ q[i] # Null
      /\ next[head] = IF Len(q) = 1 THEN Null ELSE q[2]
  BY <1>1, Ends
<1>3. TypeOK'
  BY <1>1, <1>2 DEF TypeOK
<1>4. /\ p \in Seq(Elems) /\ Len(p) = Len(q) - 1 /\ (p = <<>> <=> Len(q) = 1)
      /\ \A i \in 1 .. Len(p) : i + 1 \in 1 .. Len(q) /\ p[i] = q[i + 1]
      /\ \A i \in 1 .. Len(q) : i # 1 => i - 1 \in 1 .. Len(p) /\ p[i - 1] = q[i]
  <2>1. p \in Seq(Elems) /\ Len(p) = Len(q) - 1
        /\ \A i \in 1 .. Len(p) : p[i] = q[i + 1]
    BY <1>2
  <2> HIDE DEF p
  <2>2. p = <<>> <=> Len(p) = 0
    BY <2>1
  <2> QED
    BY <1>2, <2>1, <2>2
<1> HIDE DEF p
<1>5. Range(p) = allocated \ {head}
  <2>1. \A x : x \in Range(p) <=> \E i \in 1 .. Len(p) : p[i] = x
    BY <1>4 DEF Range
  <2>2. \A x : x \in allocated <=> \E i \in 1 .. Len(q) : q[i] = x
    BY Ends
  <2>3. \A i, j \in 1 .. Len(q) : q[i] = q[j] => i = j
    BY DEF Holds
  <2>4. ASSUME NEW x \in Range(p) PROVE x \in allocated /\ x # head
    <3>1. PICK i \in 1 .. Len(p) : p[i] = x
      BY <2>1
    <3>2. i + 1 \in 1 .. Len(q) /\ q[i + 1] = x /\ i + 1 # 1
      BY <1>4, <3>1
    <3> QED
      BY <1>2, <2>2, <2>3, <3>2
  <2>5. ASSUME NEW x \in allocated, x # head PROVE x \in Range(p)
    <3>1. PICK i \in 1 .. Len(q) : q[i] = x
      BY <2>2
    <3>2. i # 1
      BY <1>2, <2>5, <3>1
    <3> QED
      BY <1>4, <2>1, <3>1, <3>2
  <2> QED
    BY <2>4, <2>5
<1>6. \A i, j \in 1 .. Len(p) : p[i] = p[j] => i = j
  <2>1. \A i, j \in 1 .. Len(q) : q[i] = q[j] => i = j
    BY DEF Holds
  <2> SUFFICES ASSUME NEW i \in 1 .. Len(p), NEW j \in 1 .. Len(p), p[i] = p[j]
               PROVE  i = j
    OBVIOUS
  <2>2. i + 1 = j + 1
    BY <1>4, <2>1
  <2> QED
    BY <1>2, <1>4, <2>2
<1>7. /\ head' = IF p = <<>> THEN Null ELSE p[1]
      /\ tail' = IF p = <<>> THEN Null ELSE p[Len(p)]
  <2>1. CASE Len(q) = 1
    BY <1>1, <1>2, <1>4, <2>1
  <2>2. CASE Len(q) # 1
    <3>1. 1 \in 1 .. Len(p) /\ 1 + 1 = 2 /\ Len(p) \in 1 .. Len(p) /\ Len(p) + 1 = Len(q)
          /\ 2 \in 1 .. Len(q)
      BY <1>2, <1>4, <2>2
    <3>2. p[1] = q[2] /\ p[Len(p)] = q[Len(q)] /\ p # <<>> /\ q[2] # Null
      BY <1>2, <1>4, <2>2, <3>1
    <3> QED
      BY <1>1, <1>2, <2>2, <3>2
  <2> QED
    BY <2>1, <2>2
<1>8. ASSUME NEW i \in 1 .. Len(p)
      PROVE  next'[p[i]] = IF i = Len(p) THEN Null ELSE p[i + 1]
  <2>1. i + 1 \in 1 .. Len(q) /\ p[i] = q[i + 1] /\ (i = Len(p) <=> i + 1 = Len(q))
    BY <1>2, <1>4
  <2>2. next[q[i + 1]] = IF i + 1 = Len(q) THEN Null ELSE q[i + 1 + 1]
    BY <2>1, Ends
  <2>3. i # Len(p) => p[i + 1] = q[i + 1 + 1]
    BY <1>2, <1>4
  <2> QED
    BY <1>1, <2>1, <2>2, <2>3
<1>9. Holds(p, head', tail', next', allocated')
  BY <1>1, <1>4, <1>5, <1>6, <1>7, <1>8 DEF Holds
<1>10. Items(p, data') = Tail(Items(q, data)) /\ result' = Head(Items(q, data))
  <2> DEFINE s == Items(q, data)
  <2>1. s \in Seq(Data \cup {Null}) /\ Len(s) = Len(q)
        /\ \A i \in 1 .. Len(q) : s[i] = data[q[i]]
    BY <1>2 DEF Items, TypeOK
  <2>2. Items(p, data') \in Seq(Data \cup {Null}) /\ Len(Items(p, data')) = Len(p)
        /\ \A i \in 1 .. Len(p) : Items(p, data')[i] = data[p[i]]
    BY <1>1, <1>4, ItemsTyped, SMTT(30) DEF TypeOK
  <2> HIDE DEF s
  <2>3. Tail(s) \in Seq(Data \cup {Null}) /\ Len(Tail(s)) = Len(s) - 1
        /\ (\A i \in 1 .. Len(s) - 1 : Tail(s)[i] = s[i + 1]) /\ Head(s) = s[1]
    <3>1. s # <<>>
      BY <1>2, <2>1
    <3> QED
      BY <1>2, <2>1, <3>1
  <2>4. \A i \in 1 .. Len(p) : Items(p, data')[i] = Tail(s)[i]
    BY <1>2, <1>4, <2>1, <2>2, <2>3, SMTT(30)
  <2> DEFINE t == Tail(s)
             w == Items(p, data')
  <2>5. w = t
    <3>1. /\ t \in Seq(Data \cup {Null}) /\ w \in Seq(Data \cup {Null})
          /\ Len(t) = Len(w) /\ \A i \in 1 .. Len(w) : w[i] = t[i]
      BY <1>4, <2>1, <2>2, <2>3, <2>4
    <3> HIDE DEF t, w
    <3> QED
      BY <3>1
  <2> QED
    BY <1>1, <1>2, <2>1, <2>3, <2>5 DEF s
<1> QED
  BY <1>2, <1>3, <1>9, <1>10 DEF p

\* removeLast's loop stops at the last Elem but one.
LEMMA PreviousElem ==
    ASSUME TypeOK, NEW q, Holds(q, head, tail, next, allocated), q # <<>>
    PROVE  Previous = IF Len(q) = 1 THEN Null ELSE q[Len(q) - 1]
<1> DEFINE passed == {i \in DOMAIN q : \A j \in 1 .. i : q[j] # tail}
<1>1. Chain = q
  BY ChainIsWay, WayFound
<1>2. /\ Len(q) \in Nat \ {0} /\ DOMAIN q = 1 .. Len(q) /\ tail = q[Len(q)]
      /\ Len(q) \in 1 .. Len(q)
      /\ \A i, j \in 1 .. Len(q) : q[i] = q[j] => i = j
  BY Ends
<1>3. passed = 1 .. Len(q) - 1
  <2>1. ASSUME NEW i \in passed PROVE i \in 1 .. Len(q) - 1
    <3>1. i \in 1 .. Len(q) /\ i \in 1 .. i /\ q[i] # tail
      BY <1>2
    <3>2. i # Len(q)
      BY <1>2, <3>1
    <3> QED
      BY <1>2, <3>1, <3>2
  <2>2. ASSUME NEW i \in 1 .. Len(q) - 1 PROVE i \in passed
    <3>1. i \in 1 .. Len(q)
      BY <1>2
    <3>2. ASSUME NEW j \in 1 .. i PROVE q[j] # tail
      <4>1. j \in 1 .. Len(q) /\ j # Len(q)
        <5> HIDE DEF passed
        <5> DEFINE m == Len(q)
        <5>1. m \in Nat
          BY <1>2
        <5> HIDE DEF m
        <5>2. i \in 1 .. m - 1 /\ j \in 1 .. i
          BY DEF m
        <5>3. j \in 1 .. m /\ j # m
          BY <5>1, <5>2
        <5> QED
          BY <5>3 DEF m
      <4> QED
        BY <1>2, <4>1
    <3> QED
      BY <1>2, <3>1, <3>2
  <2> QED
    BY <2>1, <2>2
<1>4. Cardinality(1 .. Len(q) - 1) = Len(q) - 1
  <2>1. 1 \in Int /\ Len(q) - 1 \in Int
    BY <1>2
  <2>2. Cardinality(1 .. Len(q) - 1) = IF 1 > Len(q) - 1 THEN 0 ELSE Len(q) - 1 - 1 + 1
    BY <2>1, FS_Interval
  <2> QED
    BY <1>2, <2>2
<1>5. Previous = IF passed = {} THEN Null ELSE q[Cardinality(passed)]
  BY <1>1 DEF Previous
<1>6. (1 .. Len(q) - 1 = {}) <=> Len(q) = 1
  BY <1>2
<1> HIDE DEF passed
<1> QED
  BY <1>3, <1>4, <1>5, <1>6

\* All of a sequence but the last.
LEMMA FrontOf ==
    ASSUME NEW S, NEW s \in Seq(S)
    PROVE  SubSeq(s, 1, Len(s) - 1) = [i \in 1 .. Len(s) - 1 |-> s[i]]
  OBVIOUS

\* removeLast takes the last Elem and returns its data.
LEMMA RemovesLast ==
    ASSUME TypeOK, NEW q, Holds(q, head, tail, next, allocated), RemoveLast
    PROVE  /\ q # <<>>
           /\ TypeOK'
           /\ Holds(SubSeq(q, 1, Len(q) - 1), head', tail', next', allocated')
           /\ Items(SubSeq(q, 1, Len(q) - 1), data')
                 = SubSeq(Items(q, data), 1, Len(Items(q, data)) - 1)
           /\ result' = Items(q, data)[Len(Items(q, data))]
<1> USE ListAssumption
<1> DEFINE p == SubSeq(q, 1, Len(q) - 1)
<1>1. /\ head # Null /\ allocated' = allocated \ {tail} /\ result' = data[tail]
      /\ data' = data /\ faulted' = faulted /\ tail' = Previous
      /\ next' = [x \in Elems |-> IF x = Previous THEN Null ELSE next[x]]
      /\ head' = IF Previous = Null THEN Null ELSE head
  BY DEF RemoveLast, Delete
<1>2. /\ q \in Seq(Elems) /\ q # <<>> /\ Len(q) \in Nat \ {0} /\ head = q[1]
      /\ tail \in Elems /\ tail = q[Len(q)] /\ Len(q) \in 1 .. Len(q)
      /\ \A i \in 1 .. Len(q) : q[i] \in Elems /\ q[i] # Null
      /\ \A i, j \in 1 .. Len(q) : q[i] = q[j] => i = j
  BY <1>1, Ends
<1>3. Previous = IF Len(q) = 1 THEN Null ELSE q[Len(q) - 1]
  BY <1>2, PreviousElem
<1>4. Previous \in Elems \cup {Null}
  BY <1>2, <1>3, SMTT(30)
<1>5. TypeOK'
  BY <1>1, <1>2, <1>4 DEF TypeOK
<1>6. /\ p \in Seq(Elems) /\ Len(p) = Len(q) - 1 /\ (p = <<>> <=> Len(q) = 1)
      /\ \A i \in 1 .. Len(p) : i \in 1 .. Len(q) /\ i # Len(q) /\ p[i] = q[i]
      /\ \A i \in 1 .. Len(q) : i # Len(q) => i \in 1 .. Len(p) /\ p[i] = q[i]
  <2>1. p \in Seq(Elems) /\ Len(p) = Len(q) - 1
        /\ \A i \in 1 .. Len(p) : p[i] = q[i]
    <3>1. /\ p = [i \in 1 .. Len(q) - 1 |-> q[i]] /\ Len(q) - 1 \in Nat
          /\ \A i \in 1 .. Len(q) - 1 : q[i] \in Elems
      BY <1>2, FrontOf
    <3> HIDE DEF p
    <3> QED
      BY <3>1
  <2> HIDE DEF p
  <2>2. p = <<>> <=> Len(p) = 0
    BY <2>1
  <2> QED
    BY <1>2, <2>1, <2>2
<1> HIDE DEF p
<1>7. Range(p) = allocated \ {tail}
  <2>1. \A x : x \in Range(p) <=> \E i \in 1 .. Len(p) : p[i] = x
    BY <1>6 DEF Range
  <2>2. \A x : x \in allocated <=> \E i \in 1 .. Len(q) : q[i] = x
    BY Ends
  <2>3. ASSUME NEW x \in Range(p) PROVE x \in allocated /\ x # tail
    <3>1. PICK i \in 1 .. Len(p) : p[i] = x
      BY <2>1
    <3>2. i \in 1 .. Len(q) /\ q[i] = x /\ i # Len(q)
      BY <1>6, <3>1
    <3> QED
      BY <1>2, <2>2, <3>2
  <2>4. ASSUME NEW x \in allocated, x # tail PROVE x \in Range(p)
    <3>1. PICK i \in 1 .. Len(q) : q[i] = x
      BY <2>2
    <3>2. i # Len(q)
      BY <1>2, <2>4, <3>1
    <3> QED
      BY <1>6, <2>1, <3>1, <3>2
  <2> QED
    BY <2>3, <2>4
<1>8. \A i, j \in 1 .. Len(p) : p[i] = p[j] => i = j
  BY <1>2, <1>6
<1>9. /\ head' = IF p = <<>> THEN Null ELSE p[1]
      /\ tail' = IF p = <<>> THEN Null ELSE p[Len(p)]
  <2>1. CASE Len(q) = 1
    BY <1>1, <1>3, <1>6, <2>1
  <2>2. CASE Len(q) # 1
    <3>1. 1 \in 1 .. Len(p) /\ Len(p) \in 1 .. Len(p) /\ Len(p) = Len(q) - 1
          /\ Len(q) - 1 \in 1 .. Len(q)
      BY <1>2, <1>6, <2>2
    <3>2. p[1] = q[1] /\ p[Len(p)] = q[Len(q) - 1] /\ p # <<>> /\ Previous # Null
          /\ Previous = q[Len(q) - 1]
      BY <1>2, <1>3, <1>6, <2>2, <3>1
    <3> QED
      BY <1>1, <1>2, <2>2, <3>2
  <2> QED
    BY <2>1, <2>2
<1>10. ASSUME NEW i \in 1 .. Len(p)
       PROVE  next'[p[i]] = IF i = Len(p) THEN Null ELSE p[i + 1]
  <2>1. /\ i \in 1 .. Len(q) /\ i # Len(q) /\ p[i] = q[i] /\ q[i] \in Elems
        /\ Len(q) # 1 /\ Previous = q[Len(q) - 1] /\ Len(q) - 1 \in 1 .. Len(q)
    BY <1>2, <1>3, <1>6, SMTT(30)
  <2>2. next'[q[i]] = IF q[i] = Previous THEN Null ELSE next[q[i]]
    BY <1>1, <2>1
  <2>3. CASE i = Len(p)
    BY <1>6, <2>1, <2>2, <2>3
  <2>4. CASE i # Len(p)
    <3>1. i # Len(q) - 1 /\ i + 1 \in 1 .. Len(q) /\ i + 1 # Len(q)
      BY <1>2, <1>6, <2>1, <2>4
    <3>2. q[i] # Previous
      BY <1>2, <2>1, <3>1
    <3>3. next[q[i]] = q[i + 1]
      BY <2>1, Ends
    <3>4. p[i + 1] = q[i + 1]
      BY <1>6, <3>1
    <3> QED
      BY <2>1, <2>2, <2>4, <3>2, <3>3, <3>4
  <2> QED
    BY <2>3, <2>4
<1>11. Holds(p, head', tail', next', allocated')
  BY <1>1, <1>6, <1>7, <1>8, <1>9, <1>10 DEF Holds
<1> DEFINE s == Items(q, data)
           w == Items(p, data')
           t == SubSeq(s, 1, Len(s) - 1)
<1>12. s \in Seq(Data \cup {Null}) /\ Len(s) = Len(q)
       /\ \A i \in 1 .. Len(q) : s[i] = data[q[i]]
  BY <1>2, ItemsTyped DEF TypeOK
<1>13. w \in Seq(Data \cup {Null}) /\ Len(w) = Len(p)
       /\ \A i \in 1 .. Len(p) : w[i] = data[p[i]]
  <2>1. p \in Seq(Elems) /\ data' \in [Elems -> Data \cup {Null}] /\ data' = data
    BY <1>1, <1>6 DEF TypeOK
  <2> QED
    BY <2>1, ItemsTyped
<1> HIDE DEF s, w
<1>14. w = t
  <2>1. t \in Seq(Data \cup {Null}) /\ Len(t) = Len(s) - 1
        /\ \A i \in 1 .. Len(s) - 1 : t[i] = s[i]
    <3>1. /\ t = [i \in 1 .. Len(s) - 1 |-> s[i]] /\ Len(s) - 1 \in Nat
          /\ \A i \in 1 .. Len(s) - 1 : s[i] \in Data \cup {Null}
      BY <1>2, <1>12, FrontOf
    <3> HIDE DEF t
    <3> QED
      BY <3>1
  <2>2. \A i \in 1 .. Len(w) : w[i] = t[i]
    <3> SUFFICES ASSUME NEW i \in 1 .. Len(w) PROVE w[i] = t[i]
      OBVIOUS
    <3>1. i \in 1 .. Len(p) /\ i \in 1 .. Len(q) /\ i \in 1 .. Len(s) - 1 /\ p[i] = q[i]
      BY <1>6, <1>12, <1>13
    <3>2. w[i] = data[p[i]] /\ s[i] = data[q[i]] /\ t[i] = s[i]
      BY <1>12, <1>13, <2>1, <3>1, SMTT(60)
    <3> QED
      BY <3>1, <3>2
  <2>3. Len(w) = Len(t)
    BY <1>6, <1>12, <1>13, <2>1
  <2> HIDE DEF t
  <2> QED
    BY <1>13, <2>1, <2>2, <2>3
<1>15. result' = s[Len(s)]
  BY <1>1, <1>2, <1>12
<1> QED
  BY <1>2, <1>5, <1>11, <1>14, <1>15 DEF p, s, w

-----------------------------------------------------------------------------

\* A list is a sequence of Elems at any time.
LInv == TypeOK /\ \E q : Holds(q, head, tail, next, allocated)

\* A new list holds nothing.
LEMMA InitHolds ==
    ASSUME Init
    PROVE  TypeOK /\ Holds(<<>>, head, tail, next, allocated) /\ Items(<<>>, data) = <<>>
<1>1. TypeOK
  BY ListAssumption DEF Init, TypeOK
<1>2. Holds(<<>>, head, tail, next, allocated)
  <2>1. Range(<<>>) = {}
    BY DEF Range
  <2>2. <<>> \in Seq(Elems) /\ Len(<<>>) = 0 /\ 1 .. 0 = {}
    OBVIOUS
  <2> QED
    BY <2>1, <2>2 DEF Init, Holds
<1>3. Items(<<>>, data) = <<>>
  BY DEF Items
<1> QED
  BY <1>1, <1>2, <1>3

\* Every call leaves a list that holds a sequence.
LEMMA StepHolds ==
    ASSUME LInv, [Next]_vars
    PROVE  LInv'
<1>1. PICK q : Holds(q, head, tail, next, allocated)
  BY DEF LInv
<1>2. TypeOK
  BY DEF LInv
<1> SUFFICES TypeOK' /\ \E p : Holds(p, head', tail', next', allocated')
  BY DEF LInv
<1>3. ASSUME NEW e \in Elems, NEW d \in Data, AddFirst(e, d) PROVE LInv'
  BY <1>1, <1>2, <1>3, AddsFirst DEF LInv
<1>4. ASSUME NEW e \in Elems, NEW d \in Data, AddLast(e, d) PROVE LInv'
  BY <1>1, <1>2, <1>4, AddsLast DEF LInv
<1>5. CASE RemoveFirst
  BY <1>1, <1>2, <1>5, RemovesFirst
<1>6. CASE RemoveLast
  BY <1>1, <1>2, <1>6, RemovesLast
<1>7. CASE NewFails
  BY <1>1, <1>2, <1>7 DEF NewFails, TypeOK
<1>8. CASE Peek
  BY <1>1, <1>2, <1>8 DEF Peek, TypeOK
<1>9. CASE OnEmpty
  BY <1>1, <1>2, <1>9 DEF OnEmpty, TypeOK
<1>10. CASE UNCHANGED vars
  BY <1>1, <1>2, <1>10 DEF vars, TypeOK
<1> QED
  BY <1>3, <1>4, <1>5, <1>6, <1>7, <1>8, <1>9, <1>10 DEF Next, LInv

\* LInv is an inductive invariant.
LEMMA Invariance == Spec => []LInv
<1>1. Init => LInv
  BY InitHolds DEF LInv
<1>2. LInv /\ [Next]_vars => LInv'
  BY StepHolds
<1> QED
  BY <1>1, <1>2, PTL DEF Spec

\* The pointers of a list, its ends and what a call returns are of their types:
\* no field of list.hpp ever holds an address that is not an Elem's or nullptr.
THEOREM ListTypes == Spec => []TypeOK
<1>1. LInv => TypeOK
  BY DEF LInv
<1> QED
  BY <1>1, Invariance, PTL

\* However calls at the two ends follow each other, the chain from head ends
\* at tail, and an Elem is on it, once, exactly while it is allocated.
THEOREM NoElemIsLost == Spec => []ChainIsAllocated
<1>1. LInv => ChainIsAllocated
  <2> SUFFICES ASSUME LInv PROVE ChainIsAllocated
    OBVIOUS
  <2>1. PICK q : Holds(q, head, tail, next, allocated)
    BY DEF LInv
  <2>2. Chain = q /\ Cardinality(allocated) = Len(q)
    BY <2>1, WayFound, ChainIsWay
  <2> QED
    BY <2>1, <2>2 DEF ChainIsAllocated, Holds
<1> QED
  BY <1>1, Invariance, PTL

-----------------------------------------------------------------------------
(* The list and the sequence with two ends.                                *)

\* What the list stands for.
Contents == [i \in DOMAIN Chain |-> data[Chain[i]]]

\* What is read along the chain is the data of the sequence that is held.
LEMMA ContentsFound ==
    ASSUME NEW q, Holds(q, head, tail, next, allocated)
    PROVE  Contents = Items(q, data)
<1>1. Chain = q
  BY WayFound, ChainIsWay
<1> QED
  BY <1>1 DEF Contents, Items

\* The same after a step.
LEMMA ContentsFoundNext ==
    ASSUME NEW q, Holds(q, head', tail', next', allocated')
    PROVE  Contents' = Items(q, data')
<1>1. Chain' = q
  BY WayFound, ChainIsWay
<1> QED
  BY <1>1 DEF Contents, Items

\* A step of the list is a step of the sequence, or none.
LEMMA StepImplements ==
    ASSUME LInv, [Next]_vars
    PROVE  [Abstract!Next]_(Abstract!vars)
<1> USE ListAssumption
<1>1. PICK q : Holds(q, head, tail, next, allocated)
  BY DEF LInv
<1>2. TypeOK
  BY DEF LInv
<1>3. Contents = Items(q, data)
  BY <1>1, ContentsFound
<1> DEFINE s == Items(q, data)
<1>4. /\ s \in Seq(Data \cup {Null}) /\ Len(s) = Len(q) /\ Len(q) \in Nat
      /\ (s = <<>> <=> q = <<>>)
      /\ \A i \in 1 .. Len(q) : s[i] = data[q[i]]
  <2>1. /\ s \in Seq(Data \cup {Null}) /\ Len(s) = Len(q) /\ q \in Seq(Elems)
        /\ \A i \in 1 .. Len(q) : s[i] = data[q[i]]
    BY <1>1, <1>2, ItemsTyped DEF Holds, TypeOK
  <2> HIDE DEF s
  <2> QED
    BY <2>1
<1> HIDE DEF s
<1>5. ASSUME NEW e \in Elems, NEW d \in Data, AddFirst(e, d)
      PROVE  Contents' = <<d>> \o Contents /\ result' = result
  <2> DEFINE p == <<e>> \o q
  <2>1. Holds(p, head', tail', next', allocated') /\ Items(p, data') = <<d>> \o s
        /\ result' = result
    BY <1>1, <1>2, <1>5, AddsFirst DEF s
  <2> HIDE DEF p
  <2> QED
    BY <2>1, <1>3, ContentsFoundNext DEF s
<1>6. ASSUME NEW e \in Elems, NEW d \in Data, AddLast(e, d)
      PROVE  Contents' = Append(Contents, d) /\ result' = result
  <2> DEFINE p == Append(q, e)
  <2>1. Holds(p, head', tail', next', allocated') /\ Items(p, data') = Append(s, d)
        /\ result' = result
    BY <1>1, <1>2, <1>6, AddsLast DEF s
  <2> HIDE DEF p
  <2> QED
    BY <2>1, <1>3, ContentsFoundNext DEF s
<1>7. ASSUME RemoveFirst
      PROVE  Contents # <<>> /\ result' = Head(Contents) /\ Contents' = Tail(Contents)
  <2> DEFINE p == Tail(q)
  <2>1. Holds(p, head', tail', next', allocated') /\ Items(p, data') = Tail(s)
        /\ result' = Head(s) /\ q # <<>>
    BY <1>1, <1>2, <1>7, RemovesFirst DEF s
  <2> HIDE DEF p
  <2> QED
    BY <2>1, <1>3, <1>4, ContentsFoundNext DEF s
<1>8. ASSUME RemoveLast
      PROVE  /\ Contents # <<>> /\ result' = Contents[Len(Contents)]
             /\ Contents' = SubSeq(Contents, 1, Len(Contents) - 1)
  <2> DEFINE p == SubSeq(q, 1, Len(q) - 1)
  <2>1. Holds(p, head', tail', next', allocated') /\ q # <<>>
        /\ Items(p, data') = SubSeq(s, 1, Len(s) - 1) /\ result' = s[Len(s)]
    BY <1>1, <1>2, <1>8, RemovesLast DEF s
  <2> HIDE DEF p
  <2> QED
    BY <2>1, <1>3, <1>4, ContentsFoundNext DEF s
<1>9. ASSUME Peek
      PROVE  /\ Contents # <<>> /\ Contents' = Contents
             /\ result' \in {Head(Contents), Contents[Len(Contents)]}
  <2>1. Contents' = Contents
    BY <1>9 DEF Peek, Contents, Chain
  <2>2. PICK e \in {head, tail} \ {Null} : result' = data[e]
    BY <1>9 DEF Peek
  <2>3. q # <<>> /\ 1 \in 1 .. Len(q) /\ Len(q) \in 1 .. Len(q)
        /\ head = q[1] /\ tail = q[Len(q)]
    BY <1>1, <1>2, <2>2, Ends
  <2>4. s # <<>> /\ result' \in {s[1], s[Len(s)]} /\ Head(s) = s[1]
    BY <1>4, <2>2, <2>3
  <2> QED
    BY <1>3, <2>1, <2>4 DEF s
<1>10. ASSUME OnEmpty
       PROVE  Contents = <<>> /\ result' = Null /\ Contents' = Contents
  <2>1. Contents' = Contents /\ result' = Null
    BY <1>10 DEF OnEmpty, Contents, Chain
  <2>2. q = <<>>
    BY <1>1, <1>2, <1>10, Ends DEF OnEmpty
  <2> QED
    BY <1>3, <1>4, <2>1, <2>2 DEF s
<1>11. ASSUME NewFails \/ UNCHANGED vars
       PROVE  Contents' = Contents /\ result' = result
  <2>1. head' = head /\ next' = next /\ data' = data /\ result' = result
    BY <1>11 DEF NewFails, vars
  <2>2. Chain' = Chain
    BY <2>1 DEF Chain
  <2> QED
    BY <2>1, <2>2 DEF Contents
<1>12. /\ Abstract!vars = <<Contents, result>> /\ (Abstract!vars)' = <<Contents', result'>>
       /\ Abstract!Next <=>
            \/ \E d \in Data :
                  /\ Contents' \in {<<d>> \o Contents, Append(Contents, d)}
                  /\ result' = result
            \/ Contents # <<>> /\ result' = Head(Contents) /\ Contents' = Tail(Contents)
            \/ /\ Contents # <<>> /\ result' = Contents[Len(Contents)]
               /\ Contents' = SubSeq(Contents, 1, Len(Contents) - 1)
            \/ /\ Contents # <<>> /\ Contents' = Contents
               /\ result' \in {Head(Contents), Contents[Len(Contents)]}
            \/ Contents = <<>> /\ result' = Null /\ Contents' = Contents
  BY DEF Contents, Abstract!vars, Abstract!Next, Abstract!AddFirst, Abstract!AddLast,
         Abstract!RemoveFirst, Abstract!RemoveLast, Abstract!Last, Abstract!Peek,
         Abstract!OnEmpty
<1> QED
  BY <1>5, <1>6, <1>7, <1>8, <1>9, <1>10, <1>11, <1>12, Zenon DEF Next

\* Every call of list.hpp does to the chain of Elems, and returns, what the
\* call of that name does to a sequence with two ends.
THEOREM ListImplementsDeque == Spec => ImplementsDeque
<1>1. Init => Abstract!Init
  <2> SUFFICES ASSUME Init PROVE Abstract!Init
    OBVIOUS
  <2>1. Contents = <<>> /\ result = Null
    BY InitHolds, ContentsFound DEF Init
  <2> QED
    BY <2>1 DEF Abstract!Init, Contents
<1>2. LInv /\ [Next]_vars => [Abstract!Next]_(Abstract!vars)
  BY StepImplements
<1> QED
  BY <1>1, <1>2, Invariance, PTL DEF Spec, ImplementsDeque, Abstract!Spec
=============================================================================
