------------------------- MODULE RequestQueueProofs --------------------------
(***************************************************************************)
(* The linked list of queue.c is sound and is a queue, for any number of   *)
(* nodes, clients and requests.                                            *)
(*                                                                         *)
(* PointersSound is not inductive as it is stated, by following links.     *)
(* QueueInv names the list instead: some sequence s is linked from the     *)
(* head (from the cursor, while the queue is cleared), its nodes and the   *)
(* caller's are the whole heap, length and tail are those of s, and a      *)
(* discard in progress has kept a prefix of s.  Every action takes s to s, *)
(* to s with a node appended or to s with one node cut out, which is also  *)
(* what it does to the requests its callers see.                           *)
(***************************************************************************)
EXTENDS RequestQueue, FiniteSetTheorems, SequenceTheorems, WellFoundedInduction, TLAPS

(* The pointer to the i-th node of the list s, NULL past its end.          *)
Ptr(s, i) == IF i \in 1..Len(s) THEN s[i] ELSE NULL

(* The nodes of a list. *)
Members(s) == {s[i] : i \in 1..Len(s)}

(* On the heap h, following next from n meets the nodes of s, each of them *)
(* once, and then NULL.                                                    *)
Linked(h, n, s) ==
  /\ s \in Seq(Node)
  /\ \A i, j \in 1..Len(s) : s[i] = s[j] => i = j
  /\ n = Ptr(s, 1)
  /\ \A i \in 1..Len(s) : s[i] \in DOMAIN h /\ h[s[i]].next = Ptr(s, i + 1)

(* Every allocated node holds a request and a link. *)
IsHeap(h) == DOMAIN h \subseteq Node /\ h \in [DOMAIN h -> [request : Request, next : Pointer]]

(* A list without its entry k + 1. *)
Cut(s, k) == [i \in 1..(Len(s) - 1) |-> IF i <= k THEN s[i] ELSE s[i + 1]]

(* An entry of a list of nodes is a pointer, and NULL or one of its nodes. *)
LEMMA PtrType ==
  ASSUME NEW s \in Seq(Node), NEW i \in Int
  PROVE  Ptr(s, i) \in Pointer /\ (Ptr(s, i) = NULL \/ Ptr(s, i) \in Members(s))
  BY DEF Ptr, Pointer, Members

(* Taking one entry out of a list without repetitions leaves the others,   *)
(* in order.                                                               *)
LEMMA CutParts ==
  ASSUME NEW s \in Seq(Node), NEW k \in Nat, k < Len(s),
         \A i, j \in 1..Len(s) : s[i] = s[j] => i = j
  PROVE  /\ Cut(s, k) \in Seq(Node) /\ Len(Cut(s, k)) = Len(s) - 1
         /\ \A i \in 1..(Len(s) - 1) : Cut(s, k)[i] = IF i <= k THEN s[i] ELSE s[i + 1]
         /\ \A i, j \in 1..Len(Cut(s, k)) : Cut(s, k)[i] = Cut(s, k)[j] => i = j
         /\ Members(Cut(s, k)) = Members(s) \ {s[k + 1]}
<1> DEFINE t == Cut(s, k)
           m == Len(s) - 1
<1>1. m \in Nat /\ Len(s) = m + 1
  OBVIOUS
<1>2. t \in Seq(Node) /\ Len(t) = m
  BY <1>1 DEF Cut
<1>3. \A i \in 1..m : t[i] = IF i <= k THEN s[i] ELSE s[i + 1]
  BY DEF Cut
<1> HIDE DEF t
<1>4. \A i, j \in 1..m : t[i] = t[j] => i = j
  <2> SUFFICES ASSUME NEW i \in 1..m, NEW j \in 1..m, t[i] = t[j] PROVE i = j
    OBVIOUS
  <2> DEFINE a == IF i <= k THEN i ELSE i + 1
             b == IF j <= k THEN j ELSE j + 1
  <2>1. a \in 1..Len(s) /\ b \in 1..Len(s) /\ t[i] = s[a] /\ t[j] = s[b]
    BY <1>1, <1>3
  <2>2. a = b
    BY <2>1, Zenon
  <2> QED
    BY <1>1, <2>2
<1>5. Members(t) = Members(s) \ {s[k + 1]}
  <2>1. ASSUME NEW i \in 1..m PROVE t[i] \in Members(s) \ {s[k + 1]}
    <3> DEFINE a == IF i <= k THEN i ELSE i + 1
    <3>1. a \in 1..Len(s) /\ t[i] = s[a] /\ a /= k + 1 /\ k + 1 \in 1..Len(s)
      BY <1>1, <1>3
    <3> HIDE DEF a
    <3> QED
      BY <3>1, Zenon DEF Members
  <2>2. ASSUME NEW i \in 1..Len(s), s[i] /= s[k + 1] PROVE s[i] \in Members(t)
    <3> DEFINE a == IF i <= k THEN i ELSE i - 1
    <3>1. a \in 1..m /\ t[a] = s[i]
      BY <1>1, <1>3, <2>2
    <3> HIDE DEF a
    <3> QED
      BY <1>2, <3>1, Zenon DEF Members
  <2>3. ASSUME NEW x \in Members(t) PROVE x \in Members(s) \ {s[k + 1]}
    <3>1. PICK i \in 1..Len(t) : x = t[i]
      BY <2>3, Zenon DEF Members
    <3> QED
      BY <1>2, <2>1, <3>1, Zenon
  <2>4. ASSUME NEW x \in Members(s) \ {s[k + 1]} PROVE x \in Members(t)
    <3>1. PICK i \in 1..Len(s) : x = s[i]
      BY <2>4, Zenon DEF Members
    <3>2. s[i] /= s[k + 1]
      BY <2>4, <3>1, Zenon
    <3> QED
      BY <2>2, <3>1, <3>2, Zenon
  <2> QED
    BY <2>3, <2>4, Zenon
<1> QED
  BY <1>2, <1>3, <1>4, <1>5, Zenon DEF t

(* The entries of a list with one taken out, counted from its start.       *)
LEMMA CutPtr ==
  ASSUME NEW s \in Seq(Node), NEW k \in Nat, k < Len(s), NEW i \in Nat,
         \A u, v \in 1..Len(s) : s[u] = s[v] => u = v
  PROVE  Ptr(Cut(s, k), i) = IF i <= k THEN Ptr(s, i) ELSE Ptr(s, i + 1)
<1>1. /\ Len(Cut(s, k)) = Len(s) - 1
      /\ \A j \in 1..(Len(s) - 1) : Cut(s, k)[j] = IF j <= k THEN s[j] ELSE s[j + 1]
  BY CutParts
<1> DEFINE t == Cut(s, k)
<1> HIDE DEF t
<1>2. Len(s) \in Nat
  OBVIOUS
<1>3. Ptr(t, i) = IF i <= k THEN Ptr(s, i) ELSE Ptr(s, i + 1)
  BY <1>1, <1>2 DEF t, Ptr
<1> QED
  BY <1>3 DEF t

(* A node taken out of a list: the one before it is linked to the one      *)
(* after it, and nothing else in the list changes.                         *)
LEMMA CutLinked ==
  ASSUME NEW h, NEW g, NEW n, NEW s, NEW k \in Nat, Linked(h, n, s), k < Len(s),
         \A i \in 1..Len(s) : i /= k + 1 =>
            /\ s[i] \in DOMAIN g
            /\ g[s[i]].next = IF i = k THEN Ptr(s, k + 2) ELSE h[s[i]].next
  PROVE  Linked(g, IF k = 0 THEN Ptr(s, 2) ELSE n, Cut(s, k))
<1> DEFINE t == Cut(s, k)
           m == Len(s) - 1
<1>1. s \in Seq(Node) /\ Len(s) \in Nat /\ \A i, j \in 1..Len(s) : s[i] = s[j] => i = j
  BY DEF Linked
<1>2. /\ t \in Seq(Node) /\ Len(t) = m
      /\ \A i \in 1..m : t[i] = IF i <= k THEN s[i] ELSE s[i + 1]
      /\ \A i, j \in 1..Len(t) : t[i] = t[j] => i = j
  BY <1>1, CutParts, Zenon
<1>3. \A i \in Nat : Ptr(t, i) = IF i <= k THEN Ptr(s, i) ELSE Ptr(s, i + 1)
  BY <1>1, CutPtr, Zenon
<1> HIDE DEF t
<1>4. (IF k = 0 THEN Ptr(s, 2) ELSE n) = Ptr(t, 1)
  <2>1. n = Ptr(s, 1)
    BY DEF Linked
  <2>2. Ptr(t, 1) = IF 1 <= k THEN Ptr(s, 1) ELSE Ptr(s, 1 + 1)
    BY <1>3
  <2> QED
    BY <2>1, <2>2
<1>5. ASSUME NEW i \in 1..Len(t) PROVE t[i] \in DOMAIN g /\ g[t[i]].next = Ptr(t, i + 1)
  <2> DEFINE a == IF i <= k THEN i ELSE i + 1
  <2>1. i \in 1..m /\ a \in 1..Len(s) /\ a /= k + 1 /\ a \in Nat /\ i + 1 \in Nat
    BY <1>1, <1>2
  <2>2. t[i] = s[a]
    BY <1>2, <2>1
  <2>5. Ptr(t, i + 1) = IF a = k THEN Ptr(s, k + 2) ELSE Ptr(s, a + 1)
    <3>1. Ptr(t, i + 1) = IF i + 1 <= k THEN Ptr(s, i + 1) ELSE Ptr(s, (i + 1) + 1)
      BY <1>3, <2>1, SMTT(30)
    <3>2. (i + 1) + 1 = i + 2
      BY <2>1
    <3>3. CASE i + 1 <= k
      BY <2>1, <3>1, <3>3
    <3>4. CASE i = k
      BY <2>1, <3>1, <3>2, <3>4
    <3>5. CASE i > k
      BY <2>1, <3>1, <3>2, <3>5
    <3> QED
      BY <2>1, <3>3, <3>4, <3>5
  <2> HIDE DEF a
  <2>3. s[a] \in DOMAIN g /\ g[s[a]].next = IF a = k THEN Ptr(s, k + 2) ELSE h[s[a]].next
    BY <2>1, Zenon
  <2>4. h[s[a]].next = Ptr(s, a + 1)
    BY <2>1, Zenon DEF Linked
  <2> QED
    BY <2>2, <2>3, <2>4, <2>5, Zenon
<1>6. Linked(g, IF k = 0 THEN Ptr(s, 2) ELSE n, t)
  BY <1>2, <1>4, <1>5, Zenon DEF Linked
<1> QED
  BY <1>6 DEF t

(* A node linked behind the last one. *)
LEMMA AppendLinked ==
  ASSUME NEW h, NEW g, NEW n, NEW s, NEW m \in Node, Linked(h, n, s), m \notin Members(s),
         m \in DOMAIN g, g[m].next = NULL,
         \A i \in 1..Len(s) :
            /\ s[i] \in DOMAIN g
            /\ g[s[i]].next = IF i = Len(s) THEN m ELSE h[s[i]].next
  PROVE  /\ Linked(g, IF s = <<>> THEN m ELSE n, Append(s, m))
         /\ Members(Append(s, m)) = Members(s) \cup {m}
         /\ Len(Append(s, m)) = Len(s) + 1
         /\ Ptr(Append(s, m), Len(s) + 1) = m
<1> DEFINE t == Append(s, m)
<1>1. s \in Seq(Node) /\ Len(s) \in Nat /\ \A i, j \in 1..Len(s) : s[i] = s[j] => i = j
  BY DEF Linked
<1>2. /\ t \in Seq(Node) /\ Len(t) = Len(s) + 1 /\ t[Len(s) + 1] = m
      /\ \A i \in 1..Len(s) : t[i] = s[i]
  BY <1>1
<1> HIDE DEF t
<1>3. \A i \in 1..Len(t) : i \in 1..Len(s) \/ i = Len(s) + 1
  BY <1>1, <1>2
<1>4. Members(t) = Members(s) \cup {m}
  <2>1. Len(s) + 1 \in 1..Len(t) /\ \A i \in 1..Len(s) : i \in 1..Len(t)
    BY <1>1, <1>2
  <2>2. ASSUME NEW x \in Members(t) PROVE x \in Members(s) \cup {m}
    <3>1. PICK i \in 1..Len(t) : x = t[i]
      BY <2>2, Zenon DEF Members
    <3> QED
      BY <1>2, <1>3, <3>1, Zenon DEF Members
  <2>3. ASSUME NEW x \in Members(s) \cup {m} PROVE x \in Members(t)
    <3>1. CASE x = m
      BY <1>2, <2>1, <3>1, Zenon DEF Members
    <3>2. CASE x \in Members(s)
      <4>1. PICK i \in 1..Len(s) : x = s[i]
        BY <3>2, Zenon DEF Members
      <4> QED
        BY <1>2, <2>1, <4>1, Zenon DEF Members
    <3> QED
      BY <2>3, <3>1, <3>2, Zenon
  <2> QED
    BY <2>2, <2>3, Zenon
<1>5. \A i, j \in 1..Len(t) : t[i] = t[j] => i = j
  <2>1. \A i \in 1..Len(s) : t[i] /= m
    BY <1>2, Zenon DEF Members
  <2> SUFFICES ASSUME NEW i \in 1..Len(t), NEW j \in 1..Len(t), t[i] = t[j] PROVE i = j
    OBVIOUS
  <2>2. CASE i \in 1..Len(s) /\ j \in 1..Len(s)
    BY <1>1, <1>2, <2>2, Zenon
  <2>3. CASE i = Len(s) + 1 \/ j = Len(s) + 1
    BY <1>2, <1>3, <2>1, <2>3, Zenon
  <2> QED
    BY <1>3, <2>2, <2>3, Zenon
<1>6. ASSUME NEW i \in 1..Len(s) PROVE Ptr(t, i) = s[i] /\ Ptr(s, i) = s[i]
  BY <1>1, <1>2 DEF Ptr
<1>7. Ptr(t, Len(s) + 1) = m /\ Ptr(t, (Len(s) + 1) + 1) = NULL
  BY <1>1, <1>2 DEF Ptr
<1>8. (IF s = <<>> THEN m ELSE n) = Ptr(t, 1)
  <2>1. CASE s = <<>>
    BY <1>7, <2>1
  <2>2. CASE s /= <<>>
    <3>1. 1 \in 1..Len(s)
      BY <1>1, <2>2
    <3> QED
      BY <1>6, <2>2, <3>1, Zenon DEF Linked
  <2> QED
    BY <2>1, <2>2
<1>9. ASSUME NEW i \in 1..Len(t) PROVE t[i] \in DOMAIN g /\ g[t[i]].next = Ptr(t, i + 1)
  <2>1. CASE i = Len(s) + 1
    BY <1>2, <1>7, <2>1, Zenon
  <2>2. CASE i = Len(s) /\ i \in 1..Len(s)
    BY <1>2, <1>7, <2>2, Zenon
  <2>3. CASE i \in 1..Len(s) /\ i /= Len(s)
    <3>1. i + 1 \in 1..Len(s)
      BY <1>1, <2>3
    <3>2. h[s[i]].next = Ptr(s, i + 1)
      BY <2>3, Zenon DEF Linked
    <3> QED
      BY <1>2, <1>6, <2>3, <3>1, <3>2, Zenon
  <2> QED
    BY <1>3, <2>1, <2>2, <2>3, Zenon
<1>10. Linked(g, IF s = <<>> THEN m ELSE n, t)
  BY <1>2, <1>5, <1>8, <1>9, Zenon DEF Linked
<1> QED
  BY <1>2, <1>4, <1>7, <1>10, Zenon DEF t

------------------------------------------------------------------------------
(* A set of naturals that is not empty has a least element. With it, what  *)
(* the recursive functions compute is proved by induction.                 *)
LEMMA LeastNumber ==
  ASSUME NEW T, T \subseteq Nat, T /= {}
  PROVE  \E m \in T : \A n \in T : m <= n
<1> DEFINE R == OpToRel(<, Nat)
<1>1. IsWellFoundedOn(R, Nat)
  BY NatLessThanWellFounded, Zenon
<1>2. \A a, b \in Nat : a < b => <<a, b>> \in R
  BY DEF OpToRel
<1> HIDE DEF R
<1>3. PICK m \in T : \A n \in T : ~(<<n, m>> \in R)
  BY <1>1, WFMin, Zenon
<1>4. \A n \in T : ~(n < m)
  BY <1>2, <1>3, Zenon
<1>5. ASSUME NEW n \in T PROVE m <= n
  <2>1. n \in Nat /\ m \in Nat /\ ~(n < m)
    BY <1>4
  <2> QED
    BY <2>1
<1> QED
  BY <1>5

(* A set that holds 0 and with every natural its successor holds them all. *)
LEMMA SetInduction ==
  ASSUME NEW T, 0 \in T, \A n \in Nat : n \in T => n + 1 \in T
  PROVE  \A n \in Nat : n \in T
<1> SUFFICES ASSUME {n \in Nat : n \notin T} /= {} PROVE FALSE
  OBVIOUS
<1>1. PICK m \in {n \in Nat : n \notin T} : \A n \in {n \in Nat : n \notin T} : m <= n
  BY LeastNumber, Zenon
<1>2. m - 1 \in Nat /\ m - 1 \in T
  BY <1>1
<1> QED
  BY <1>1, <1>2

(* Following next from the head of a list gives the list. *)
LEMMA FollowList ==
  ASSUME NEW n, NEW s, Linked(heap, n, s)
  PROVE  Follow(n, Len(s)) = s
<1> DEFINE m == Len(s)
           Nodes(f) == f = [i \in 1..m |->
                              IF i = 1 THEN n
                              ELSE IF f[i - 1] \in DOMAIN heap THEN heap[f[i - 1]].next
                              ELSE NULL]
           F == CHOOSE f : Nodes(f)
<1>1. Follow(n, m) = [i \in 1..m |-> F[i]]
  BY Zenon DEF Follow
<1>2. s \in Seq(Node) /\ m \in Nat
  BY DEF Linked
<1>3. ASSUME NEW i \in 1..m
      PROVE  s[i] = IF i = 1 THEN n
                    ELSE IF s[i - 1] \in DOMAIN heap THEN heap[s[i - 1]].next ELSE NULL
  <2>1. CASE i = 1
    BY <1>2, <2>1 DEF Linked, Ptr
  <2>2. CASE i /= 1
    <3>1. i - 1 \in 1..m /\ (i - 1) + 1 = i
      BY <1>2, <2>2
    <3>2. s[i - 1] \in DOMAIN heap /\ heap[s[i - 1]].next = Ptr(s, i)
      BY <3>1, Zenon DEF Linked
    <3> QED
      BY <1>3, <2>2, <3>2, Zenon DEF Ptr
  <2> QED
    BY <2>1, <2>2
<1>4. Nodes(s)
  <2>1. s = [i \in 1..m |-> s[i]]
    BY <1>2
  <2> QED
    BY <1>3, <2>1
<1>5. Nodes(F)
  BY <1>4, Zenon
<1>6. \A i \in 1..m : F[i] = IF i = 1 THEN n
                             ELSE IF F[i - 1] \in DOMAIN heap THEN heap[F[i - 1]].next ELSE NULL
  BY <1>5, Zenon
<1> HIDE DEF F, Nodes
<1> DEFINE T == {i \in Nat : i + 1 <= m => F[i + 1] = s[i + 1]}
<1>7. 0 \in T
  <2>1. 0 + 1 = 1 /\ (1 <= m => 1 \in 1..m)
    BY <1>2
  <2>2. 1 \in 1..m => F[1] = s[1]
    BY <1>3, <1>6, Zenon
  <2> QED
    BY <2>1, <2>2
<1>8. ASSUME NEW i \in Nat, i \in T PROVE i + 1 \in T
  <2> SUFFICES ASSUME (i + 1) + 1 <= m PROVE F[(i + 1) + 1] = s[(i + 1) + 1]
    OBVIOUS
  <2>1. /\ (i + 1) + 1 \in 1..m /\ (i + 1) + 1 /= 1 /\ ((i + 1) + 1) - 1 = i + 1
        /\ i + 1 <= m
    BY <1>2
  <2>2. F[i + 1] = s[i + 1]
    BY <1>8, <2>1
  <2> DEFINE j == (i + 1) + 1
  <2>3. j \in 1..m /\ j /= 1 /\ F[j - 1] = s[j - 1]
    BY <2>1, <2>2
  <2> HIDE DEF j
  <2>4. F[j] = s[j]
    BY <1>3, <1>6, <2>3, Zenon
  <2> QED
    BY <2>4 DEF j
<1> HIDE DEF T
<1>9. \A i \in Nat : i \in T
  BY <1>7, <1>8, SetInduction, Zenon
<1>10. ASSUME NEW i \in 1..m PROVE F[i] = s[i]
  <2>1. i - 1 \in T /\ (i - 1) + 1 = i /\ i <= m
    BY <1>2, <1>9
  <2> QED
    BY <2>1 DEF T
<1>11. [i \in 1..m |-> F[i]] = [i \in 1..m |-> s[i]]
  BY <1>10, Zenon
<1> QED
  BY <1>1, <1>2, <1>11

(* A list has as many nodes as it is long, and fits in the heap. *)
LEMMA CountMembers ==
  ASSUME NodesFinite, NEW s \in Seq(Node), \A i, j \in 1..Len(s) : s[i] = s[j] => i = j
  PROVE  Cardinality(Members(s)) = Len(s) /\ Len(s) \in 0..Cardinality(Node)
<1>1. Len(s) \in Nat /\ s \in [1..Len(s) -> Members(s)] /\ DOMAIN s = 1..Len(s)
  BY DEF Members
<1>2. s \in Bijection(1..Len(s), Members(s))
  <2>1. s \in Injection(1..Len(s), Members(s))
    BY <1>1, Zenon DEF Injection, IsInjective
  <2>2. s \in Surjection(1..Len(s), Members(s))
    BY <1>1, Zenon DEF Surjection, Members
  <2> QED
    BY <2>1, <2>2, Zenon DEF Bijection
<1>3. ExistsBijection(1..Len(s), Members(s))
  BY <1>2, Zenon DEF ExistsBijection
<1>4. Cardinality(Members(s)) = Len(s)
  BY <1>1, <1>3, FS_CountingElements, Zenon
<1>5. Members(s) \in SUBSET Node
  BY DEF Members
<1>6. Cardinality(Members(s)) <= Cardinality(Node)
  BY <1>5, FS_Subset, Zenon DEF NodesFinite
<1>7. Cardinality(Node) \in Nat
  BY FS_CardinalityType, Zenon DEF NodesFinite
<1> QED
  BY <1>1, <1>4, <1>6, <1>7

------------------------------------------------------------------------------
(* The nodes on the heap are those of the list and the caller's.           *)
Owned(s) ==
  /\ DOMAIN heap = Members(s) \cup ({held} \ {NULL})
  /\ held \notin Members(s)
  /\ held /= NULL => heap[held].next = NULL

(* The discard loop has kept the first k nodes and looks at the next one.  *)
Kept(s, k) ==
  /\ previous = Ptr(s, k) /\ current = Ptr(s, k + 1)
  /\ \A i \in 1..k : heap[s[i]].request.client /= client_fd

(* Where the loops are in the list.                                        *)
Place(s) ==
  /\ pc = "idle" => current = NULL
  /\ pc = "discard" => client_fd \in Client /\ \E k \in 0..Len(s) : Kept(s, k)
  /\ pc /= "discard" => client_fd = NULL /\ previous = NULL

(* What length and tail say of the list, except while it is cleared.       *)
Counted(s) == pc /= "clear" => length = Len(s) /\ tail = Ptr(s, Len(s))

(* Where the list starts: a clear has freed the nodes before its cursor.   *)
First == IF pc = "clear" THEN current ELSE head

(* s is the list of the nodes of the queue, or of those a clear has left.  *)
ListIs(s) == TypeOK /\ Linked(heap, First, s) /\ Owned(s) /\ Counted(s) /\ Place(s)

(* The inductive invariant. *)
QueueInv == \E s \in Seq(Node) : ListIs(s)

------------------------------------------------------------------------------
(* The heap after the link of x was set to y.                              *)
Relink(h, x, y) == [h EXCEPT ![x].next = y]

(* What writing a link, allocating and freeing do to the heap.             *)
LEMMA RelinkFacts ==
  ASSUME NEW h, IsHeap(h), NEW x \in DOMAIN h, NEW y \in Pointer
  PROVE  /\ IsHeap(Relink(h, x, y)) /\ DOMAIN Relink(h, x, y) = DOMAIN h
         /\ \A z \in DOMAIN h :
              /\ Relink(h, x, y)[z].request = h[z].request
              /\ Relink(h, x, y)[z].next = IF z = x THEN y ELSE h[z].next
  BY DEF IsHeap, Relink

(* malloc adds a node, with its request and no link, and changes no other. *)
LEMMA MallocFacts ==
  ASSUME IsHeap(heap), NEW m \in Node, m \notin DOMAIN heap, NEW r \in Request
  PROVE  /\ IsHeap(Malloc(m, r)) /\ DOMAIN Malloc(m, r) = DOMAIN heap \cup {m}
         /\ Malloc(m, r)[m] = [request |-> r, next |-> NULL]
         /\ \A z \in DOMAIN heap : Malloc(m, r)[z] = heap[z]
  BY DEF IsHeap, Malloc, Pointer

(* free takes nodes off the heap and leaves the others as they are.        *)
LEMMA FreeFacts ==
  ASSUME NEW h, IsHeap(h), NEW S
  PROVE  /\ IsHeap(Free(h, S)) /\ DOMAIN Free(h, S) = DOMAIN h \ S
         /\ \A z \in DOMAIN h \ S : Free(h, S)[z] = h[z]
<1>1. Free(h, S) = [z \in DOMAIN h \ S |-> h[z]]
  BY Zenon DEF Free, Restrict
<1> QED
  BY <1>1 DEF IsHeap

(* A node on the heap holds a request and a link. *)
LEMMA NodeFacts ==
  ASSUME NEW h, IsHeap(h), NEW x \in DOMAIN h
  PROVE  /\ h[x].request \in Request /\ h[x].next \in Pointer /\ x \in Node
  BY DEF IsHeap

(* The nodes of the list are live, distinct and not the caller's, and with *)
(* the caller's they are the whole heap.                                   *)
LEMMA ListFacts ==
  ASSUME NodesFinite, NEW s \in Seq(Node), ListIs(s)
  PROVE  /\ Len(s) \in Nat /\ IsHeap(heap) /\ Linked(heap, First, s)
         /\ \A i, j \in 1..Len(s) : s[i] = s[j] => i = j
         /\ \A i \in 1..Len(s) : /\ s[i] \in Node /\ s[i] /= NULL /\ s[i] /= held
                                 /\ s[i] \in DOMAIN heap /\ s[i] \in Members(s)
         /\ NULL \notin DOMAIN heap /\ held \in Pointer
         /\ DOMAIN heap = Members(s) \cup ({held} \ {NULL})
<1>1. Linked(heap, First, s) /\ TypeOK /\ Owned(s)
  BY Zenon DEF ListIs
<1>2. Len(s) \in Nat /\ \A i \in 1..Len(s) : s[i] \in Node
  OBVIOUS
<1>3. IsHeap(heap)
  BY <1>1, Zenon DEF TypeOK, IsHeap
<1>4. NULL \notin Node
  BY Zenon DEF NodesFinite
<1>5. \A i \in 1..Len(s) : s[i] \in Members(s)
  BY Zenon DEF Members
<1>6. /\ \A i, j \in 1..Len(s) : s[i] = s[j] => i = j
      /\ \A i \in 1..Len(s) : s[i] \in DOMAIN heap
  BY <1>1, Zenon DEF Linked
<1>7. NULL \notin DOMAIN heap /\ held \in Pointer
  BY <1>1, <1>4, Zenon DEF TypeOK
<1>8. held \notin Members(s) /\ DOMAIN heap = Members(s) \cup ({held} \ {NULL})
  BY <1>1, Zenon DEF Owned
<1>9. \A i \in 1..Len(s) : s[i] /= NULL /\ s[i] /= held
  BY <1>2, <1>4, <1>5, <1>8, Zenon
<1> QED
  BY <1>1, <1>2, <1>3, <1>5, <1>6, <1>7, <1>8, <1>9, Zenon

(* The list has a node exactly when its pointers are not NULL.             *)
LEMMA PtrIsNull ==
  ASSUME NodesFinite, NEW s \in Seq(Node), NEW i \in Int
  PROVE  Ptr(s, i) = NULL <=> ~(1 <= i /\ i <= Len(s))
<1>1. NULL \notin Node
  BY Zenon DEF NodesFinite
<1> QED
  BY <1>1 DEF Ptr

(* wc_request_queue_enqueue links a node with the new request behind the   *)
(* last one, and touches no other request.                                 *)
LEMMA EnqueueStep ==
  ASSUME NodesFinite, NEW s \in Seq(Node), ListIs(s), NEW r \in Request, Enqueue(r)
  PROVE  \E m \in Node : /\ ListIs(Append(s, m))'
                         /\ heap'[m].request = r
                         /\ \A x \in DOMAIN heap : heap'[x].request = heap[x].request
<1>1. pc = "idle" /\ pc' = "idle" /\ UNCHANGED <<held, client_fd, current, previous>>
  BY Zenon DEF Enqueue, loop
<1>2. PICK m \in Node \ DOMAIN heap :
        /\ heap' = IF tail = NULL THEN Malloc(m, r)
                   ELSE [Malloc(m, r) EXCEPT ![tail].next = m]
        /\ head' = IF tail = NULL THEN m ELSE head
        /\ tail' = m
        /\ length' = length + 1
  BY Zenon DEF Enqueue
<1> DEFINE t == Append(s, m)
           g == heap'
<1>3. "idle" /= "clear" /\ "idle" /= "discard"
  OBVIOUS
<1>4. /\ Len(s) \in Nat /\ IsHeap(heap) /\ Linked(heap, head, s)
      /\ \A i, j \in 1..Len(s) : s[i] = s[j] => i = j
      /\ \A i \in 1..Len(s) : /\ s[i] \in Node /\ s[i] /= NULL /\ s[i] /= held
                              /\ s[i] \in DOMAIN heap /\ s[i] \in Members(s)
      /\ NULL \notin DOMAIN heap
      /\ DOMAIN heap = Members(s) \cup ({held} \ {NULL})
  BY <1>1, <1>3, ListFacts, Zenon DEF First
<1>5. TypeOK /\ Owned(s) /\ length = Len(s) /\ tail = Ptr(s, Len(s)) /\ Place(s)
  BY <1>1, <1>3, Zenon DEF ListIs, Counted
<1>6. (tail = NULL <=> s = <<>>) /\ (tail = NULL \/ tail \in DOMAIN heap)
  <2>1. tail = NULL <=> ~(1 <= Len(s) /\ Len(s) <= Len(s))
    BY <1>4, <1>5, PtrIsNull
  <2>2. tail = NULL <=> s = <<>>
    BY <1>4, <2>1
  <2>3. tail = NULL \/ tail \in Members(s)
    BY <1>4, <1>5, PtrType
  <2> QED
    BY <1>4, <2>2, <2>3
<1>7. /\ IsHeap(g) /\ DOMAIN g = DOMAIN heap \cup {m}
      /\ g[m].request = r /\ g[m].next = NULL
      /\ \A x \in DOMAIN heap : /\ g[x].request = heap[x].request
                                /\ g[x].next = IF x = tail THEN m ELSE heap[x].next
  <2> DEFINE h == Malloc(m, r)
  <2>1. /\ IsHeap(h) /\ DOMAIN h = DOMAIN heap \cup {m}
        /\ h[m] = [request |-> r, next |-> NULL]
        /\ \A z \in DOMAIN heap : h[z] = heap[z]
    <3>1. IsHeap(heap) /\ m \in Node /\ m \notin DOMAIN heap
      BY <1>4
    <3> QED
      BY <3>1, MallocFacts, Zenon
  <2>2. h[m].request = r /\ h[m].next = NULL
    BY <2>1
  <2>3. m \in Pointer
    BY DEF Pointer
  <2> HIDE DEF h
  <2>4. CASE tail = NULL
    <3>1. g = h
      BY <1>2, <2>4 DEF h
    <3> QED
      BY <1>4, <2>1, <2>2, <2>4, <3>1, Zenon
  <2>5. CASE tail /= NULL
    <3>1. g = Relink(h, tail, m)
      BY <1>2, <2>5, Zenon DEF h, Relink
    <3>2. tail \in DOMAIN heap /\ tail \in DOMAIN h /\ m /= tail
      BY <1>2, <1>6, <2>1, <2>5, Zenon
    <3> HIDE DEF g
    <3>3. /\ IsHeap(g) /\ DOMAIN g = DOMAIN h
          /\ \A z \in DOMAIN h : /\ g[z].request = h[z].request
                                 /\ g[z].next = IF z = tail THEN m ELSE h[z].next
      <4>1. IsHeap(h) /\ tail \in DOMAIN h
        BY <2>1, <3>2
      <4> QED
        BY <2>3, <3>1, <4>1, RelinkFacts
    <3> QED
      BY <2>1, <2>2, <3>2, <3>3, Zenon
  <2> QED
    BY <2>4, <2>5
<1>8. \A i \in 1..Len(s) : s[i] = tail <=> i = Len(s)
  <2> SUFFICES ASSUME NEW i \in 1..Len(s) PROVE s[i] = tail <=> i = Len(s)
    OBVIOUS
  <2>1. Len(s) \in 1..Len(s)
    BY <1>4
  <2>2. tail = s[Len(s)]
    BY <1>5, <2>1, Zenon DEF Ptr
  <2> QED
    BY <1>4, <2>1, <2>2, Zenon
<1> HIDE DEF g
<1>9. m \notin Members(s) /\ m \in DOMAIN g /\ m /= held
  <2>1. m /= NULL
    BY Zenon DEF NodesFinite
  <2> QED
    BY <1>4, <1>7, <2>1, Zenon
<1>10. \A i \in 1..Len(s) : /\ s[i] \in DOMAIN g
                            /\ g[s[i]].next = IF i = Len(s) THEN m ELSE heap[s[i]].next
  BY <1>4, <1>7, <1>8, Zenon
<1>11. /\ Linked(g, IF s = <<>> THEN m ELSE head, t)
       /\ Members(t) = Members(s) \cup {m}
       /\ Len(t) = Len(s) + 1
       /\ Ptr(t, Len(s) + 1) = m
  <2>1. /\ m \in Node /\ Linked(heap, head, s) /\ m \notin Members(s)
        /\ m \in DOMAIN g /\ g[m].next = NULL
    BY <1>4, <1>7, <1>9
  <2> QED
    BY <1>10, <2>1, AppendLinked
<1> HIDE DEF t
<1>12. Linked(heap', First', t)
  <2>1. First' = IF s = <<>> THEN m ELSE head
    BY <1>1, <1>2, <1>3, <1>6, Zenon DEF First
  <2> QED
    BY <1>11, <2>1 DEF g
<1>13. Owned(t)'
  <2>1. held' = held
    BY <1>1
  <2>2. held \notin Members(t)
    BY <1>5, <1>9, <1>11, Zenon DEF Owned
  <2>3. DOMAIN heap' = Members(t) \cup ({held'} \ {NULL})
    BY <1>4, <1>7, <1>11, <2>1, Zenon DEF g
  <2>4. held' /= NULL => heap'[held'].next = NULL
    <3> SUFFICES ASSUME held /= NULL PROVE g[held].next = NULL
      BY <2>1, Zenon DEF g
    <3>1. held \in DOMAIN heap /\ held /= tail /\ heap[held].next = NULL
      <4>1. tail = NULL \/ tail \in Members(s)
        BY <1>4, <1>5, PtrType
      <4> QED
        BY <1>4, <1>5, <4>1, Zenon DEF Owned
    <3> QED
      BY <1>7, <3>1, Zenon
  <2> QED
    BY <2>1, <2>2, <2>3, <2>4, Zenon DEF Owned
<1>14. t \in Seq(Node) /\ Len(t) \in 0..Cardinality(Node)
  BY <1>11, CountMembers, Zenon DEF Linked
<1>15. length' = Len(t) /\ tail' = Ptr(t, Len(t))
  BY <1>2, <1>5, <1>11, Zenon
<1>16. TypeOK'
  <2>1. head' \in Pointer /\ tail' \in Pointer
    BY <1>2, <1>5 DEF TypeOK, Pointer
  <2>2. length' \in 0..Cardinality(Node)
    BY <1>14, <1>15, Zenon
  <2>3. /\ DOMAIN heap' \subseteq Node
        /\ heap' \in [DOMAIN heap' -> [request : Request, next : Pointer]]
    BY <1>7, Zenon DEF g, IsHeap
  <2> QED
    BY <1>1, <1>5, <2>1, <2>2, <2>3, Zenon DEF TypeOK
<1>17. Place(t)' /\ Counted(t)'
  BY <1>1, <1>3, <1>5, <1>15, Zenon DEF Place, Counted
<1>18. ListIs(t)'
  BY <1>12, <1>13, <1>16, <1>17, Zenon DEF ListIs
<1> QED
  BY <1>2, <1>7, <1>18, Zenon DEF g, t

(* A list stays one when the links of its nodes are not written.           *)
LEMMA LinkedSame ==
  ASSUME NEW h, NEW g, NEW n, NEW s, Linked(h, n, s),
         \A i \in 1..Len(s) : s[i] \in DOMAIN g /\ g[s[i]].next = h[s[i]].next
  PROVE  Linked(g, n, s)
  BY Zenon DEF Linked

(* What is known of the first node, and of the list without it.            *)
LEMMA FirstFacts ==
  ASSUME NodesFinite, NEW s \in Seq(Node), ListIs(s), First /= NULL
  PROVE  /\ 0 < Len(s) /\ First = s[1] /\ 1 \in 1..Len(s)
         /\ heap[First].next = Ptr(s, 2)
         /\ Cut(s, 0) \in Seq(Node) /\ Len(Cut(s, 0)) = Len(s) - 1
         /\ Members(Cut(s, 0)) = Members(s) \ {First} /\ First \in Members(s)
<1>1. Len(s) \in Nat /\ Linked(heap, First, s)
  BY ListFacts, Zenon
<1>2. First = Ptr(s, 1) /\ \A i, j \in 1..Len(s) : s[i] = s[j] => i = j
  BY <1>1, Zenon DEF Linked
<1>3. 1 <= Len(s)
  BY <1>2, PtrIsNull
<1>4. 0 < Len(s) /\ 1 \in 1..Len(s) /\ First = s[1] /\ 1 + 1 = 2 /\ 0 + 1 = 1
  BY <1>1, <1>2, <1>3 DEF Ptr
<1>5. heap[First].next = Ptr(s, 2)
  BY <1>1, <1>4, Zenon DEF Linked
<1>6. /\ Cut(s, 0) \in Seq(Node) /\ Len(Cut(s, 0)) = Len(s) - 1
      /\ Members(Cut(s, 0)) = Members(s) \ {s[0 + 1]}
  BY <1>2, <1>4, CutParts
<1> QED
  BY <1>4, <1>5, <1>6, Zenon DEF Members

(* wc_request_queue_dequeue takes the first node out of the list; it stays *)
(* on the heap as the caller's.                                            *)
LEMMA DequeueStep ==
  ASSUME NodesFinite, NEW s \in Seq(Node), ListIs(s), Dequeue
  PROVE  /\ ListIs(Cut(s, 0))' /\ DOMAIN heap' = DOMAIN heap
         /\ \A x \in DOMAIN heap : heap'[x].request = heap[x].request
<1>1. /\ pc = "idle" /\ pc' = "idle" /\ UNCHANGED <<client_fd, current, previous>>
      /\ head /= NULL /\ held = NULL /\ held' = head
      /\ head' = heap[head].next /\ length' = length - 1
      /\ tail' = IF heap[head].next = NULL THEN NULL ELSE tail
      /\ heap' = Relink(heap, head, NULL)
  BY Zenon DEF Dequeue, loop, TailAfterDequeue, Relink
<1> DEFINE t == Cut(s, 0)
           g == heap'
<1>2. "idle" /= "clear" /\ "idle" /= "discard"
  OBVIOUS
<1>3. First = head
  BY <1>1, <1>2, Zenon DEF First
<1>4. /\ Len(s) \in Nat /\ IsHeap(heap) /\ Linked(heap, head, s)
      /\ \A i, j \in 1..Len(s) : s[i] = s[j] => i = j
      /\ \A i \in 1..Len(s) : s[i] \in DOMAIN heap
      /\ DOMAIN heap = Members(s) /\ NULL \notin DOMAIN heap
  <2>1. /\ Len(s) \in Nat /\ IsHeap(heap) /\ Linked(heap, First, s)
        /\ \A i, j \in 1..Len(s) : s[i] = s[j] => i = j
        /\ \A i \in 1..Len(s) : s[i] \in DOMAIN heap
        /\ DOMAIN heap = Members(s) \cup ({held} \ {NULL}) /\ NULL \notin DOMAIN heap
    BY ListFacts, Zenon
  <2> QED
    BY <1>1, <1>3, <2>1, Zenon
<1>5. TypeOK /\ length = Len(s) /\ tail = Ptr(s, Len(s)) /\ Place(s)
  BY <1>1, <1>2, Zenon DEF ListIs, Counted
<1>6. /\ 0 < Len(s) /\ head = s[1] /\ 1 \in 1..Len(s) /\ heap[head].next = Ptr(s, 2)
      /\ t \in Seq(Node) /\ Len(t) = Len(s) - 1
      /\ Members(t) = Members(s) \ {head} /\ head \in Members(s)
  BY <1>1, <1>3, FirstFacts, Zenon
<1>7. NULL \in Pointer /\ head \in DOMAIN heap
  BY <1>4, <1>6, Zenon DEF Pointer
<1>8. /\ IsHeap(g) /\ DOMAIN g = DOMAIN heap
      /\ \A x \in DOMAIN heap : /\ g[x].request = heap[x].request
                                /\ g[x].next = IF x = head THEN NULL ELSE heap[x].next
  <2>1. IsHeap(heap) /\ g = Relink(heap, head, NULL)
    BY <1>1, <1>4
  <2> HIDE DEF g
  <2> QED
    BY <1>7, <2>1, RelinkFacts
<1> HIDE DEF g
<1>9. Linked(g, Ptr(s, 2), t)
  <2>1. ASSUME NEW i \in 1..Len(s), i /= 0 + 1
        PROVE  /\ s[i] \in DOMAIN g
               /\ g[s[i]].next = IF i = 0 THEN Ptr(s, 0 + 2) ELSE heap[s[i]].next
    <3>1. i /= 1 /\ i /= 0
      BY <2>1
    <3>2. s[i] \in DOMAIN heap /\ s[i] /= head
      BY <1>4, <1>6, <3>1, Zenon
    <3> QED
      BY <1>8, <3>1, <3>2, Zenon
  <2>2. Linked(g, IF 0 = 0 THEN Ptr(s, 2) ELSE head, Cut(s, 0))
    BY <1>4, <1>6, <2>1, CutLinked, SMTT(30)
  <2> QED
    BY <2>2
<1>10. Ptr(t, Len(s) - 1) = IF Len(s) = 1 THEN NULL ELSE Ptr(s, Len(s))
  <2>1. Len(s) - 1 \in Nat /\ (Len(s) - 1) + 1 = Len(s)
    BY <1>4, <1>6
  <2>2. Ptr(t, Len(s) - 1) =
          IF Len(s) - 1 <= 0 THEN Ptr(s, Len(s) - 1) ELSE Ptr(s, (Len(s) - 1) + 1)
    BY <1>4, <1>6, <2>1, CutPtr
  <2>3. Ptr(s, 0) = NULL
    BY DEF Ptr
  <2> QED
    BY <1>4, <1>6, <2>1, <2>2, <2>3
<1>11. tail' = Ptr(t, Len(t)) /\ length' = Len(t)
  <2>1. Ptr(s, 2) = NULL <=> Len(s) = 1
    BY <1>4, <1>6, PtrIsNull
  <2> QED
    BY <1>1, <1>5, <1>6, <1>10, <2>1, Zenon
<1> HIDE DEF t
<1>12. Linked(heap', First', t)
  <2>1. First' = Ptr(s, 2)
    BY <1>1, <1>2, <1>6, Zenon DEF First
  <2> QED
    BY <1>9, <2>1 DEF g
<1>13. Owned(t)'
  <2>1. DOMAIN heap' = Members(t) \cup ({held'} \ {NULL}) /\ held' \notin Members(t)
    BY <1>1, <1>4, <1>6, <1>7, <1>8, ZenonT(30) DEF g
  <2>2. heap'[held'].next = NULL
    BY <1>1, <1>7, <1>8, Zenon DEF g
  <2> QED
    BY <2>1, <2>2, Zenon DEF Owned
<1>14. Len(t) \in 0..Cardinality(Node)
  BY <1>6, <1>9, CountMembers, Zenon DEF Linked
<1>15. TypeOK'
  <2>1. head' \in Pointer /\ tail' \in Pointer /\ held' \in Pointer
    BY <1>1, <1>5, <1>7, NodeFacts, <1>4 DEF TypeOK
  <2>2. /\ DOMAIN heap' \subseteq Node
        /\ heap' \in [DOMAIN heap' -> [request : Request, next : Pointer]]
    BY <1>8, Zenon DEF g, IsHeap
  <2> QED
    BY <1>1, <1>5, <1>11, <1>14, <2>1, <2>2, Zenon DEF TypeOK
<1>16. Place(t)' /\ Counted(t)'
  BY <1>1, <1>2, <1>5, <1>11, Zenon DEF Place, Counted
<1>17. ListIs(t)'
  BY <1>12, <1>13, <1>15, <1>16, Zenon DEF ListIs
<1> QED
  BY <1>8, <1>17, Zenon DEF g, t

(* wc_queued_request_destroy frees the caller's node, which is no part of  *)
(* the list.                                                               *)
LEMMA DestroyStep ==
  ASSUME NodesFinite, NEW s \in Seq(Node), ListIs(s), Destroy
  PROVE  /\ ListIs(s)' /\ DOMAIN heap' = DOMAIN heap \ {held}
         /\ \A x \in DOMAIN heap' : heap'[x] = heap[x]
<1>1. /\ pc = "idle" /\ pc' = "idle" /\ UNCHANGED <<client_fd, current, previous>>
      /\ UNCHANGED <<head, tail, length>>
      /\ held /= NULL /\ held' = NULL /\ heap' = Free(heap, {held})
  BY Zenon DEF Destroy, loop, queue
<1> DEFINE g == heap'
<1>2. "idle" /= "clear" /\ "idle" /= "discard"
  OBVIOUS
<1>3. First = head /\ First' = head
  BY <1>1, <1>2, Zenon DEF First
<1>4. /\ IsHeap(heap) /\ Linked(heap, First, s) /\ NULL \notin DOMAIN heap
      /\ \A i \in 1..Len(s) : s[i] /= held /\ s[i] \in DOMAIN heap /\ s[i] \in Members(s)
      /\ DOMAIN heap = Members(s) \cup ({held} \ {NULL})
  BY ListFacts, Zenon
<1>5. TypeOK /\ length = Len(s) /\ tail = Ptr(s, Len(s)) /\ Place(s) /\ held \notin Members(s)
  BY <1>1, <1>2, Zenon DEF ListIs, Counted, Owned
<1>6. IsHeap(g) /\ DOMAIN g = DOMAIN heap \ {held} /\ \A x \in DOMAIN g : g[x] = heap[x]
  <2> DEFINE S == {held}
  <2>1. IsHeap(heap) /\ g = Free(heap, S)
    BY <1>1, <1>4
  <2> HIDE DEF g, S
  <2>2. IsHeap(g) /\ DOMAIN g = DOMAIN heap \ S /\ \A x \in DOMAIN heap \ S : g[x] = heap[x]
    BY <2>1, FreeFacts, Zenon
  <2> QED
    BY <2>2, Zenon DEF S
<1> HIDE DEF g
<1>7. Linked(g, First, s)
  <2>1. \A i \in 1..Len(s) : s[i] \in DOMAIN g /\ g[s[i]].next = heap[s[i]].next
    BY <1>4, <1>6, Zenon
  <2> QED
    BY <1>4, <2>1, LinkedSame, Zenon
<1>8. Linked(heap', First', s)
  BY <1>3, <1>7 DEF g
<1>9. Owned(s)'
  <2>1. NULL \notin Members(s) /\ DOMAIN g = Members(s) \cup ({NULL} \ {NULL})
    BY <1>4, <1>5, <1>6, Zenon
  <2> QED
    BY <1>1, <2>1, Zenon DEF Owned, g
<1>10. TypeOK'
  <2>1. held' \in Pointer
    BY <1>1, Zenon DEF Pointer
  <2>2. /\ DOMAIN heap' \subseteq Node
        /\ heap' \in [DOMAIN heap' -> [request : Request, next : Pointer]]
    BY <1>6, Zenon DEF g, IsHeap
  <2> QED
    BY <1>1, <1>5, <2>1, <2>2, Zenon DEF TypeOK
<1>11. Place(s)' /\ Counted(s)'
  BY <1>1, <1>2, <1>5, Zenon DEF Place, Counted
<1>12. ListIs(s)'
  BY <1>8, <1>9, <1>10, <1>11, Zenon DEF ListIs
<1> QED
  BY <1>6, <1>12, Zenon DEF g

(* What is left alone when a loop starts, goes on past a node or ends.     *)
LEMMA SameList ==
  ASSUME NEW s \in Seq(Node), ListIs(s), UNCHANGED <<heap, held>>, First' = First
  PROVE  Linked(heap, First, s)' /\ Owned(s)'
  BY Zenon DEF ListIs, Owned

(* The discard loop starts at the head, with nothing kept. *)
LEMMA DiscardStarts ==
  ASSUME NodesFinite, NEW s \in Seq(Node), ListIs(s), NEW c \in Client, Discard(c)
  PROVE  ListIs(s)'
<1>1. /\ pc = "idle" /\ pc' = "discard" /\ client_fd' = c /\ current' = head /\ previous' = NULL
      /\ UNCHANGED <<heap, head, tail, length, held>>
  BY Zenon DEF Discard, queue
<1>2. /\ "idle" /= "clear" /\ "idle" /= "discard" /\ "discard" /= "clear"
      /\ Len(s) \in Nat /\ 0 \in 0..Len(s) /\ 0 + 1 = 1
  OBVIOUS
<1>3. First = head /\ First' = head
  BY <1>1, <1>2, Zenon DEF First
<1>4. Linked(heap, First, s)' /\ Owned(s)'
  BY <1>1, <1>3, SameList, Zenon
<1>5. TypeOK /\ Linked(heap, head, s) /\ length = Len(s) /\ tail = Ptr(s, Len(s))
  BY <1>1, <1>2, <1>3, Zenon DEF ListIs, Counted
<1>6. Kept(s, 0)'
  <2>1. Ptr(s, 0) = NULL /\ \A i \in 1..0 : FALSE
    BY DEF Ptr
  <2>2. Ptr(s, 0 + 1) = head
    BY <1>2, <1>5, Zenon DEF Linked
  <2> QED
    BY <1>1, <2>1, <2>2, Zenon DEF Kept
<1>7. Place(s)' /\ Counted(s)'
  BY <1>1, <1>2, <1>5, <1>6, Zenon DEF Place, Counted
<1>8. TypeOK'
  <2>1. previous' \in Pointer
    BY <1>1, Zenon DEF Pointer
  <2>2. pc' \in {"idle", "discard", "clear"} /\ client_fd' \in Client \cup {NULL}
    BY <1>1, Zenon
  <2> QED
    BY <1>1, <1>5, <2>1, <2>2, Zenon DEF TypeOK
<1> QED
  BY <1>4, <1>7, <1>8, Zenon DEF ListIs

(* The clear loop starts at the head, with the whole list to free.         *)
LEMMA ClearStarts ==
  ASSUME NodesFinite, NEW s \in Seq(Node), ListIs(s), Clear
  PROVE  ListIs(s)'
<1>1. /\ pc = "idle" /\ pc' = "clear" /\ current' = head
      /\ UNCHANGED <<heap, head, tail, length, held, client_fd, previous>>
  BY Zenon DEF Clear, queue
<1>2. "idle" /= "clear" /\ "idle" /= "discard" /\ "discard" /= "clear"
  OBVIOUS
<1>3. First = head /\ First' = head
  BY <1>1, <1>2, Zenon DEF First
<1>4. Linked(heap, First, s)' /\ Owned(s)'
  BY <1>1, <1>3, SameList, Zenon
<1>5. TypeOK /\ Place(s)
  BY Zenon DEF ListIs
<1>6. Place(s)' /\ Counted(s)'
  BY <1>1, <1>2, <1>5, Zenon DEF Place, Counted
<1>7. TypeOK'
  BY <1>1, <1>5, Zenon DEF TypeOK
<1> QED
  BY <1>4, <1>6, <1>7, Zenon DEF ListIs

(* When the discard loop ends, it has been past every node of the list.    *)
LEMMA DiscardReturnsStep ==
  ASSUME NodesFinite, NEW s \in Seq(Node), ListIs(s), DiscardReturns
  PROVE  ListIs(s)' /\ Kept(s, Len(s))
<1>1. /\ pc = "discard" /\ pc' = "idle" /\ client_fd' = NULL /\ previous' = NULL
      /\ current = NULL /\ UNCHANGED <<heap, head, tail, length, held, current>>
  BY Zenon DEF DiscardReturns, queue
<1>2. "idle" /= "clear" /\ "idle" /= "discard" /\ "discard" /= "clear"
  OBVIOUS
<1>3. First = head /\ First' = head
  BY <1>1, <1>2, Zenon DEF First
<1>4. Linked(heap, First, s)' /\ Owned(s)'
  BY <1>1, <1>3, SameList, Zenon
<1>5. TypeOK /\ Place(s) /\ length = Len(s) /\ tail = Ptr(s, Len(s))
  BY <1>1, <1>2, Zenon DEF ListIs, Counted
<1>6. Place(s)' /\ Counted(s)'
  BY <1>1, <1>2, <1>5, Zenon DEF Place, Counted
<1>7. TypeOK'
  <2>1. previous' \in Pointer /\ client_fd' \in Client \cup {NULL}
    BY <1>1, Zenon DEF Pointer
  <2> QED
    BY <1>1, <1>5, <2>1, Zenon DEF TypeOK
<1>8. PICK k \in 0..Len(s) : Kept(s, k)
  BY <1>1, <1>5, Zenon DEF Place
<1>9. k = Len(s)
  <2>1. Ptr(s, k + 1) = NULL
    BY <1>1, <1>8, Zenon DEF Kept
  <2>2. k + 1 \in Int /\ Len(s) \in Nat
    OBVIOUS
  <2>3. ~(1 <= k + 1 /\ k + 1 <= Len(s))
    BY <2>1, <2>2, PtrIsNull
  <2> QED
    BY <2>2, <2>3
<1> QED
  BY <1>4, <1>6, <1>7, <1>8, <1>9, Zenon DEF ListIs

(* The node the discard loop looks at.                                     *)
LEMMA KeptFacts ==
  ASSUME NodesFinite, NEW s \in Seq(Node), ListIs(s), NEW k \in 0..Len(s), Kept(s, k),
         current /= NULL
  PROVE  /\ k \in Nat /\ k < Len(s) /\ k + 1 \in 1..Len(s) /\ current = s[k + 1]
         /\ heap[current].next = Ptr(s, k + 2)
         /\ (previous = NULL <=> k = 0) /\ (k /= 0 => k \in 1..Len(s) /\ previous = s[k])
<1>1. Len(s) \in Nat /\ Linked(heap, First, s)
  BY ListFacts, Zenon
<1>2. current = Ptr(s, k + 1) /\ previous = Ptr(s, k)
  BY Zenon DEF Kept
<1>3. k \in Nat /\ k + 1 \in Int /\ (k + 1) + 1 = k + 2 /\ k <= Len(s)
  BY <1>1
<1>4. 1 <= k + 1 /\ k + 1 <= Len(s)
  BY <1>2, <1>3, PtrIsNull
<1>5. k < Len(s) /\ k + 1 \in 1..Len(s) /\ current = s[k + 1]
  BY <1>1, <1>2, <1>3, <1>4 DEF Ptr
<1>6. heap[current].next = Ptr(s, k + 2)
  BY <1>1, <1>3, <1>5, Zenon DEF Linked
<1>7. previous = NULL <=> ~(1 <= k /\ k <= Len(s))
  BY <1>2, <1>3, PtrIsNull
<1>8. (previous = NULL <=> k = 0) /\ (k /= 0 => k \in 1..Len(s))
  BY <1>1, <1>3, <1>5, <1>7
<1> QED
  BY <1>2, <1>3, <1>5, <1>6, <1>8, Zenon DEF Ptr

(* A turn of the discard loop that keeps a node moves both cursors on by   *)
(* one.                                                                    *)
LEMMA DiscardKeepsStep ==
  ASSUME NodesFinite, NEW s \in Seq(Node), ListIs(s), DiscardKeeps
  PROVE  ListIs(s)'
<1>1. /\ pc = "discard" /\ pc' = "discard" /\ current /= NULL
      /\ heap[current].request.client /= client_fd
      /\ previous' = current /\ current' = heap[current].next
      /\ UNCHANGED <<heap, head, tail, length, held, client_fd>>
  BY Zenon DEF DiscardKeeps, queue, AfterKeep
<1>2. "idle" /= "clear" /\ "idle" /= "discard" /\ "discard" /= "clear"
  OBVIOUS
<1>3. First = head /\ First' = head
  BY <1>1, <1>2, Zenon DEF First
<1>4. Linked(heap, First, s)' /\ Owned(s)'
  BY <1>1, <1>3, SameList, Zenon
<1>5. TypeOK /\ Place(s) /\ length = Len(s) /\ tail = Ptr(s, Len(s))
  BY <1>1, <1>2, Zenon DEF ListIs, Counted
<1>6. PICK k \in 0..Len(s) : Kept(s, k)
  BY <1>1, <1>5, Zenon DEF Place
<1>7. /\ k \in Nat /\ k < Len(s) /\ k + 1 \in 1..Len(s) /\ current = s[k + 1]
      /\ heap[current].next = Ptr(s, k + 2)
  BY <1>1, <1>6, KeptFacts, Zenon
<1>8. Kept(s, k + 1)'
  <2>1. (k + 1) + 1 = k + 2 /\ \A i \in 1..(k + 1) : i \in 1..k \/ i = k + 1
    BY <1>7
  <2>2. current = Ptr(s, k + 1) /\ \A i \in 1..k : heap[s[i]].request.client /= client_fd
    BY <1>6, Zenon DEF Kept
  <2>3. \A i \in 1..(k + 1) : heap[s[i]].request.client /= client_fd
    BY <1>1, <1>7, <2>1, <2>2, Zenon
  <2> QED
    BY <1>1, <1>7, <2>1, <2>2, <2>3, Zenon DEF Kept
<1>9. k + 1 \in 0..Len(s)
  BY <1>7
<1>10. Place(s)' /\ Counted(s)'
  BY <1>1, <1>2, <1>5, <1>8, <1>9, Zenon DEF Place, Counted
<1>11. TypeOK'
  <2>1. current' \in Pointer /\ previous' \in Pointer
    <3>1. Ptr(s, k + 2) \in Pointer
      BY <1>7, PtrType
    <3> QED
      BY <1>1, <1>5, <1>7, <3>1, Zenon DEF TypeOK
  <2> QED
    BY <1>1, <1>5, <2>1, Zenon DEF TypeOK
<1> QED
  BY <1>4, <1>10, <1>11, Zenon DEF ListIs

(* When the clear loop ends, no node is left and the emptied queue is an   *)
(* empty list.                                                             *)
LEMMA ClearReturnsStep ==
  ASSUME NodesFinite, NEW s \in Seq(Node), ListIs(s), ClearReturns
  PROVE  s = <<>> /\ ListIs(s)'
<1>1. /\ pc = "clear" /\ pc' = "idle" /\ current = NULL
      /\ head' = NULL /\ tail' = NULL /\ length' = 0
      /\ UNCHANGED <<heap, held, client_fd, current, previous>>
  BY Zenon DEF ClearReturns, LengthAfterClear
<1>2. "idle" /= "clear" /\ "clear" /= "discard"
  OBVIOUS
<1>3. First = NULL /\ First' = NULL
  BY <1>1, <1>2, Zenon DEF First
<1>4. Linked(heap, First, s)' /\ Owned(s)'
  BY <1>1, <1>3, SameList, Zenon
<1>5. TypeOK /\ Place(s) /\ Linked(heap, First, s)
  BY Zenon DEF ListIs
<1>6. Ptr(s, 1) = NULL
  BY <1>3, <1>5, Zenon DEF Linked
<1>7. s = <<>>
  BY <1>6, PtrIsNull
<1>8. Len(s) = 0 /\ Ptr(s, Len(s)) = NULL /\ 0 \in 0..Cardinality(Node)
  <2>1. Cardinality(Node) \in Nat
    BY FS_CardinalityType, Zenon DEF NodesFinite
  <2> QED
    BY <1>7, <2>1 DEF Ptr
<1>9. Place(s)' /\ Counted(s)'
  BY <1>1, <1>2, <1>5, <1>8, Zenon DEF Place, Counted
<1>10. TypeOK'
  <2>1. NULL \in Pointer
    BY Zenon DEF Pointer
  <2> QED
    BY <1>1, <1>5, <1>8, <2>1, Zenon DEF TypeOK
<1> QED
  BY <1>4, <1>7, <1>9, <1>10, Zenon DEF ListIs

(* A turn of the clear loop frees the first of the nodes that are left.    *)
LEMMA ClearFreesStep ==
  ASSUME NodesFinite, NEW s \in Seq(Node), ListIs(s), ClearFrees
  PROVE  /\ ListIs(Cut(s, 0))' /\ DOMAIN heap' = DOMAIN heap \ {current}
         /\ \A x \in DOMAIN heap' : heap'[x] = heap[x]
         /\ current \in Members(s)
<1>1. /\ pc = "clear" /\ pc' = "clear" /\ current /= NULL
      /\ current' = heap[current].next /\ heap' = Free(heap, {current})
      /\ UNCHANGED <<head, tail, length, held, client_fd, previous>>
  BY Zenon DEF ClearFrees, queue, AfterFree
<1> DEFINE t == Cut(s, 0)
           g == heap'
<1>2. "clear" /= "idle" /\ "clear" /= "discard"
  OBVIOUS
<1>3. First = current /\ First' = current'
  BY <1>1, <1>2, Zenon DEF First
<1>4. /\ Len(s) \in Nat /\ IsHeap(heap) /\ Linked(heap, First, s) /\ NULL \notin DOMAIN heap
      /\ \A i, j \in 1..Len(s) : s[i] = s[j] => i = j
      /\ \A i \in 1..Len(s) : s[i] \in DOMAIN heap
      /\ DOMAIN heap = Members(s) \cup ({held} \ {NULL})
  BY ListFacts, Zenon
<1>5. TypeOK /\ Place(s) /\ Owned(s)
  BY Zenon DEF ListIs
<1>6. /\ 0 < Len(s) /\ current = s[1] /\ 1 \in 1..Len(s) /\ heap[current].next = Ptr(s, 2)
      /\ t \in Seq(Node) /\ Members(t) = Members(s) \ {current} /\ current \in Members(s)
  BY <1>1, <1>3, FirstFacts, Zenon
<1>7. IsHeap(g) /\ DOMAIN g = DOMAIN heap \ {current} /\ \A x \in DOMAIN g : g[x] = heap[x]
  <2> DEFINE S == {current}
  <2>1. IsHeap(heap) /\ g = Free(heap, S)
    BY <1>1, <1>4
  <2> HIDE DEF g, S
  <2>2. IsHeap(g) /\ DOMAIN g = DOMAIN heap \ S /\ \A x \in DOMAIN heap \ S : g[x] = heap[x]
    BY <2>1, FreeFacts, Zenon
  <2> QED
    BY <2>2, Zenon DEF S
<1> HIDE DEF g
<1>8. Linked(g, Ptr(s, 2), t)
  <2>1. ASSUME NEW i \in 1..Len(s), i /= 0 + 1
        PROVE  /\ s[i] \in DOMAIN g
               /\ g[s[i]].next = IF i = 0 THEN Ptr(s, 0 + 2) ELSE heap[s[i]].next
    <3>1. i /= 1 /\ i /= 0
      BY <2>1
    <3>2. s[i] \in DOMAIN heap /\ s[i] /= current
      BY <1>4, <1>6, <3>1, Zenon
    <3> QED
      BY <1>7, <3>1, <3>2, Zenon
  <2>2. Linked(g, IF 0 = 0 THEN Ptr(s, 2) ELSE First, Cut(s, 0))
    BY <1>4, <1>6, <2>1, CutLinked, Zenon
  <2> QED
    BY <2>2
<1> HIDE DEF t
<1>9. Linked(heap', First', t)
  BY <1>1, <1>3, <1>6, <1>8, Zenon DEF g
<1>10. Owned(t)'
  <2>1. held \notin Members(t) /\ current /= held
    BY <1>5, <1>6, Zenon DEF Owned
  <2>2. DOMAIN g = Members(t) \cup ({held} \ {NULL})
    BY <1>4, <1>6, <1>7, <2>1, Zenon
  <2>3. held /= NULL => held \in DOMAIN g /\ heap[held].next = NULL
    BY <1>5, <2>2, Zenon DEF Owned
  <2>4. held /= NULL => g[held].next = NULL
    BY <1>7, <2>3, Zenon
  <2> QED
    BY <1>1, <2>1, <2>2, <2>4, Zenon DEF Owned, g
<1>11. Place(t)' /\ Counted(t)'
  BY <1>1, <1>2, <1>5, Zenon DEF Place, Counted
<1>12. TypeOK'
  <2>1. current' \in Pointer
    BY <1>1, <1>6, PtrType
  <2>2. /\ DOMAIN heap' \subseteq Node
        /\ heap' \in [DOMAIN heap' -> [request : Request, next : Pointer]]
    BY <1>7, Zenon DEF g, IsHeap
  <2> QED
    BY <1>1, <1>5, <2>1, <2>2, Zenon DEF TypeOK
<1>13. ListIs(t)'
  BY <1>9, <1>10, <1>11, <1>12, Zenon DEF ListIs
<1> QED
  BY <1>6, <1>7, <1>13, Zenon DEF g, t

(* A turn of the discard loop that finds a request of the client takes     *)
(* that node, and no other, out of the list and off the heap; head, tail   *)
(* and length are right for what is left, whether the node was first, last *)
(* or in between.                                                          *)
LEMMA DiscardUnlinksStep ==
  ASSUME NodesFinite, NEW s \in Seq(Node), ListIs(s), DiscardUnlinks
  PROVE  \E k \in Nat :
           /\ k < Len(s) /\ heap[s[k + 1]].request.client = client_fd
           /\ ListIs(Cut(s, k))' /\ DOMAIN heap' = DOMAIN heap \ {current}
           /\ \A x \in DOMAIN heap' : heap'[x].request = heap[x].request
           /\ current \in Members(s)
<1> DEFINE next == heap[current].next
           g == heap'
<1>1. /\ pc = "discard" /\ pc' = "discard" /\ current /= NULL
      /\ heap[current].request.client = client_fd
      /\ head' = IF previous = NULL THEN next ELSE head
      /\ heap' = Free(IF previous = NULL THEN heap ELSE Relink(heap, previous, next), {current})
      /\ tail' = IF tail = current THEN previous ELSE tail
      /\ current' = next /\ length' = length - 1
      /\ UNCHANGED <<held, client_fd, previous>>
  BY Zenon DEF DiscardUnlinks, TailAfterUnlink, Relink
<1>2. "idle" /= "discard" /\ "discard" /= "clear"
  OBVIOUS
<1>3. First = head /\ First' = head'
  BY <1>1, <1>2, Zenon DEF First
<1>4. /\ Len(s) \in Nat /\ IsHeap(heap) /\ Linked(heap, head, s) /\ NULL \notin DOMAIN heap
      /\ \A i, j \in 1..Len(s) : s[i] = s[j] => i = j
      /\ \A i \in 1..Len(s) : s[i] \in DOMAIN heap /\ s[i] \in Members(s) /\ s[i] /= held
      /\ DOMAIN heap = Members(s) \cup ({held} \ {NULL})
  <2>1. Linked(heap, First, s)
    BY ListFacts, Zenon
  <2> QED
    BY <1>3, <2>1, ListFacts, Zenon
<1>5. TypeOK /\ Place(s) /\ Owned(s) /\ length = Len(s) /\ tail = Ptr(s, Len(s))
  BY <1>1, <1>2, Zenon DEF ListIs, Counted
<1>6. PICK k \in 0..Len(s) : Kept(s, k)
  BY <1>1, <1>5, Zenon DEF Place
<1> DEFINE t == Cut(s, k)
<1>7. /\ k \in Nat /\ k < Len(s) /\ k + 1 \in 1..Len(s) /\ current = s[k + 1]
      /\ next = Ptr(s, k + 2)
      /\ (previous = NULL <=> k = 0) /\ (k /= 0 => k \in 1..Len(s) /\ previous = s[k])
  BY <1>1, <1>6, KeptFacts, Zenon
<1>8. /\ k + 1 /= k /\ k + 2 \in Int
      /\ \A i \in 1..Len(s) : i \in Nat /\ (i = k => k /= 0)
  BY <1>7
<1>9. /\ current \in DOMAIN heap
      /\ (previous /= NULL => previous \in DOMAIN heap) /\ next \in Pointer
  <2>1. next \in Pointer
    BY <1>7, <1>8, PtrType
  <2> QED
    BY <1>4, <1>7, <2>1, Zenon
<1>10. /\ IsHeap(g) /\ DOMAIN g = DOMAIN heap \ {current}
       /\ \A x \in DOMAIN g :
            /\ g[x].request = heap[x].request
            /\ g[x].next = IF previous /= NULL /\ x = previous THEN next ELSE heap[x].next
  <2> DEFINE h == IF previous = NULL THEN heap ELSE Relink(heap, previous, next)
             S == {current}
  <2> HIDE DEF next
  <2>1. /\ IsHeap(h) /\ DOMAIN h = DOMAIN heap
        /\ \A x \in DOMAIN heap :
             /\ h[x].request = heap[x].request
             /\ h[x].next = IF previous /= NULL /\ x = previous THEN next ELSE heap[x].next
    <3>1. CASE previous = NULL
      <4>1. h = heap
        BY <3>1
      <4> QED
        BY <1>4, <3>1, <4>1, Zenon
    <3>2. CASE previous /= NULL
      <4>1. h = Relink(heap, previous, next)
        BY <3>2, Zenon
      <4>2. previous \in DOMAIN heap /\ IsHeap(heap) /\ next \in Pointer
        BY <1>4, <1>9, <3>2, Zenon
      <4> HIDE DEF h
      <4>3. /\ IsHeap(h) /\ DOMAIN h = DOMAIN heap
            /\ \A x \in DOMAIN heap :
                 /\ h[x].request = heap[x].request
                 /\ h[x].next = IF x = previous THEN next ELSE heap[x].next
        BY <4>1, <4>2, RelinkFacts
      <4> QED
        BY <3>2, <4>3, Zenon
    <3> QED
      BY <3>1, <3>2, Zenon
  <2>2. g = Free(h, S)
    BY <1>1, Zenon DEF next
  <2> HIDE DEF h, S, g
  <2>3. IsHeap(g) /\ DOMAIN g = DOMAIN h \ S /\ \A x \in DOMAIN h \ S : g[x] = h[x]
    <3>1. IsHeap(h)
      BY <2>1
    <3> QED
      BY <2>2, <3>1, FreeFacts, Zenon
  <2> QED
    BY <2>1, <2>3, Zenon DEF S
<1> HIDE DEF g, next
<1>11. \A i \in 1..Len(s) : i /= k + 1 =>
          /\ s[i] \in DOMAIN g
          /\ g[s[i]].next = IF i = k THEN Ptr(s, k + 2) ELSE heap[s[i]].next
  <2> SUFFICES ASSUME NEW i \in 1..Len(s), i /= k + 1
               PROVE  /\ s[i] \in DOMAIN g
                      /\ g[s[i]].next = IF i = k THEN Ptr(s, k + 2) ELSE heap[s[i]].next
    OBVIOUS
  <2>1. s[i] \in DOMAIN g
    BY <1>4, <1>7, <1>10, Zenon
  <2>2. (previous /= NULL /\ s[i] = previous) <=> i = k
    BY <1>4, <1>7, <1>8, Zenon
  <2> QED
    BY <1>7, <1>10, <2>1, <2>2, Zenon
<1>12. Linked(g, IF k = 0 THEN Ptr(s, 2) ELSE head, t)
  BY <1>4, <1>7, <1>11, CutLinked
<1>13. /\ t \in Seq(Node) /\ Len(t) = Len(s) - 1 /\ Members(t) = Members(s) \ {current}
       /\ \A i \in 1..(Len(s) - 1) : t[i] = IF i <= k THEN s[i] ELSE s[i + 1]
  <2>1. /\ t \in Seq(Node) /\ Len(t) = Len(s) - 1 /\ Members(t) = Members(s) \ {s[k + 1]}
        /\ \A i \in 1..(Len(s) - 1) : t[i] = IF i <= k THEN s[i] ELSE s[i + 1]
    BY <1>4, <1>7, CutParts
  <2> QED
    BY <1>7, <2>1, Zenon
<1>14. \A i \in Nat : Ptr(t, i) = IF i <= k THEN Ptr(s, i) ELSE Ptr(s, i + 1)
  BY <1>4, <1>7, CutPtr, SMTT(30)
<1> HIDE DEF t
<1>15. Linked(heap', First', t)
  <2>1. k = 0 => k + 2 = 2
    OBVIOUS
  <2>2. First' = IF k = 0 THEN Ptr(s, 2) ELSE head
    BY <1>1, <1>3, <1>7, <2>1, Zenon
  <2> QED
    BY <1>12, <2>2 DEF g
<1>16. tail' = Ptr(t, Len(t)) /\ length' = Len(t)
  <2>1. Ptr(t, Len(t)) = IF k + 1 = Len(s) THEN Ptr(s, k) ELSE Ptr(s, Len(s))
    <3>1. /\ Len(t) \in Nat /\ (Len(t) <= k <=> k + 1 = Len(s)) /\ Len(t) + 1 = Len(s)
          /\ (k + 1 = Len(s) => Len(t) = k)
      BY <1>4, <1>7, <1>13
    <3> QED
      BY <1>14, <3>1, Zenon
  <2>2. tail = current <=> k + 1 = Len(s)
    <3>1. Len(s) \in 1..Len(s)
      BY <1>4, <1>7
    <3>2. tail = s[Len(s)]
      BY <1>5, <3>1, Zenon DEF Ptr
    <3> QED
      BY <1>4, <1>7, <3>1, <3>2, Zenon
  <2>3. previous = Ptr(s, k)
    BY <1>6, Zenon DEF Kept
  <2> QED
    BY <1>1, <1>5, <1>13, <2>1, <2>2, <2>3, Zenon
<1>17. Owned(t)'
  <2>1. held \notin Members(t) /\ current /= held
    BY <1>4, <1>5, <1>7, <1>13, Zenon DEF Owned
  <2>2. DOMAIN g = Members(t) \cup ({held} \ {NULL})
    BY <1>4, <1>10, <1>13, <2>1, Zenon
  <2>3. held /= NULL => held \in DOMAIN g /\ heap[held].next = NULL /\ held /= previous
    BY <1>4, <1>5, <1>7, <2>2, Zenon DEF Owned
  <2>4. held /= NULL => g[held].next = NULL
    BY <1>10, <2>3, Zenon
  <2> QED
    BY <1>1, <2>1, <2>2, <2>4, Zenon DEF Owned, g
<1>18. Kept(t, k)'
  <2>1. k <= k /\ ~(k + 1 <= k) /\ k + 1 \in Nat /\ (k + 1) + 1 = k + 2
    BY <1>7
  <2>2. Ptr(t, k) = Ptr(s, k) /\ Ptr(t, k + 1) = Ptr(s, k + 2)
    BY <1>7, <1>14, <2>1, Zenon
  <2>3. previous = Ptr(s, k) /\ \A i \in 1..k : heap[s[i]].request.client /= client_fd
    BY <1>6, Zenon DEF Kept
  <2>4. ASSUME NEW i \in 1..k PROVE g[t[i]].request.client /= client_fd
    <3>1. i \in 1..(Len(s) - 1) /\ i <= k /\ i \in 1..Len(s) /\ i /= k + 1
      BY <1>4, <1>7
    <3>2. t[i] = s[i] /\ s[i] \in DOMAIN g
      BY <1>11, <1>13, <3>1, Zenon
    <3>3. g[t[i]].request = heap[s[i]].request
      BY <1>10, <3>2, Zenon
    <3> QED
      BY <2>3, <3>3, Zenon
  <2> QED
    BY <1>1, <1>7, <2>2, <2>3, <2>4, Zenon DEF Kept, g
<1>19. Place(t)' /\ Counted(t)'
  <2>1. k \in 0..Len(t)
    BY <1>4, <1>7, <1>13
  <2> QED
    BY <1>1, <1>2, <1>5, <1>16, <1>18, <2>1, Zenon DEF Place, Counted
<1>20. TypeOK'
  <2>1. Len(t) \in 0..Cardinality(Node)
    BY <1>12, <1>13, CountMembers, Zenon DEF Linked
  <2>2. head' \in Pointer /\ tail' \in Pointer /\ current' \in Pointer
    BY <1>1, <1>5, <1>9, Zenon DEF TypeOK
  <2>3. /\ DOMAIN heap' \subseteq Node
        /\ heap' \in [DOMAIN heap' -> [request : Request, next : Pointer]]
    BY <1>10, Zenon DEF g, IsHeap
  <2> QED
    BY <1>1, <1>5, <1>16, <2>1, <2>2, <2>3, Zenon DEF TypeOK
<1>21. ListIs(t)'
  BY <1>15, <1>17, <1>19, <1>20, Zenon DEF ListIs
<1>22. current \in Members(s) /\ heap[s[k + 1]].request.client = client_fd
  BY <1>1, <1>4, <1>7, Zenon
<1> QED
  BY <1>7, <1>10, <1>21, <1>22, Zenon DEF g, t

------------------------------------------------------------------------------
(* A new queue is the empty list. *)
LEMMA InitList ==
  ASSUME NodesFinite, Init
  PROVE  ListIs(<<>>)
<1>1. /\ heap = <<>> /\ held = NULL /\ head = NULL /\ tail = NULL /\ length = 0
      /\ pc = "idle" /\ client_fd = NULL /\ current = NULL /\ previous = NULL
  BY Zenon DEF Init
<1>2. "idle" /= "clear" /\ "idle" /= "discard"
  OBVIOUS
<1>3. <<>> \in Seq(Node) /\ Len(<<>>) = 0 /\ \A i \in 1..0 : FALSE
  OBVIOUS
<1>4. Members(<<>>) = {} /\ \A i \in Int : Ptr(<<>>, i) = NULL
  BY <1>3 DEF Members, Ptr
<1>5. DOMAIN heap = {}
  BY <1>1
<1>6. heap \in [DOMAIN heap -> [request : Request, next : Pointer]] /\ DOMAIN heap \subseteq Node
  BY <1>1, <1>5
<1>7. NULL \in Pointer /\ 0 \in 0..Cardinality(Node)
  <2>1. Cardinality(Node) \in Nat
    BY FS_CardinalityType, Zenon DEF NodesFinite
  <2> QED
    BY <2>1 DEF Pointer
<1>8. TypeOK
  BY <1>1, <1>6, <1>7, Zenon DEF TypeOK
<1>9. Linked(heap, First, <<>>)
  <2>1. First = NULL /\ Ptr(<<>>, 1) = NULL
    <3>1. Ptr(<<>>, 1) = NULL
      BY <1>4
    <3> QED
      BY <1>1, <1>2, <3>1, Zenon DEF First
  <2> QED
    BY <1>3, <2>1, Zenon DEF Linked
<1>10. Owned(<<>>)
  BY <1>1, <1>4, <1>5, Zenon DEF Owned
<1>11. Counted(<<>>) /\ Place(<<>>)
  <2>1. Ptr(<<>>, Len(<<>>)) = NULL
    BY <1>3, <1>4
  <2> QED
    BY <1>1, <1>2, <1>3, <2>1, Zenon DEF Counted, Place
<1> QED
  BY <1>8, <1>9, <1>10, <1>11, Zenon DEF ListIs

(* A step that changes nothing keeps the list. *)
LEMMA StutterList ==
  ASSUME NEW s \in Seq(Node), ListIs(s), UNCHANGED vars
  PROVE  ListIs(s)'
<1>1. UNCHANGED <<heap, head, tail, length, held, pc, client_fd, current, previous>>
  BY Zenon DEF vars, queue, loop
<1> QED
  BY <1>1, Zenon DEF ListIs, TypeOK, First, Owned, Counted, Place, Kept

(* Every step of the queue preserves the invariant. *)
LEMMA ListStays ==
  ASSUME NodesFinite, QueueInv, [Next]_vars
  PROVE  QueueInv'
<1>1. PICK s \in Seq(Node) : ListIs(s)
  BY Zenon DEF QueueInv
<1> SUFFICES \E t \in Seq(Node) : ListIs(t)'
  BY Zenon DEF QueueInv
<1>2. CASE \E r \in Request : Enqueue(r)
  <2>1. PICK m \in Node : ListIs(Append(s, m))'
    BY <1>1, <1>2, EnqueueStep, Zenon
  <2>2. Append(s, m) \in Seq(Node)
    OBVIOUS
  <2> QED
    BY <2>1, <2>2, Zenon
<1>3. CASE Dequeue
  <2>1. ListIs(Cut(s, 0))'
    BY <1>1, <1>3, DequeueStep, Zenon
  <2> QED
    BY <2>1, Zenon DEF ListIs, Linked
<1>4. CASE Destroy
  BY <1>1, <1>4, DestroyStep, Zenon
<1>5. CASE Clear
  BY <1>1, <1>5, ClearStarts, Zenon
<1>6. CASE \E c \in Client : Discard(c)
  BY <1>1, <1>6, DiscardStarts, Zenon
<1>7. CASE DiscardUnlinks
  <2>1. PICK k \in Nat : ListIs(Cut(s, k))'
    BY <1>1, <1>7, DiscardUnlinksStep, Zenon
  <2> QED
    BY <2>1, Zenon DEF ListIs, Linked
<1>8. CASE DiscardKeeps
  BY <1>1, <1>8, DiscardKeepsStep, Zenon
<1>9. CASE DiscardReturns
  BY <1>1, <1>9, DiscardReturnsStep, Zenon
<1>10. CASE ClearFrees
  <2>1. ListIs(Cut(s, 0))'
    BY <1>1, <1>10, ClearFreesStep, Zenon
  <2> QED
    BY <2>1, Zenon DEF ListIs, Linked
<1>11. CASE ClearReturns
  BY <1>1, <1>11, ClearReturnsStep, Zenon
<1>12. CASE UNCHANGED vars
  BY <1>1, <1>12, StutterList, Zenon
<1> QED
  BY <1>2, <1>3, <1>4, <1>5, <1>6, <1>7, <1>8, <1>9, <1>10, <1>11, <1>12, Zenon
  DEF Next, DiscardStep, ClearStep

(* Through every call of queue.c and every turn of its loops, for any      *)
(* number of nodes, clients and requests, there is a list behind the       *)
(* pointers: its nodes and the caller's are exactly the heap, and the      *)
(* loops' cursors are at neighbouring places in it.                        *)
THEOREM QueueInvariant == Spec => []QueueInv
<1>1. Init => QueueInv
  <2>1. <<>> \in Seq(Node)
    OBVIOUS
  <2> QED
    BY <2>1, NodeAssumption, InitList, Zenon DEF QueueInv
<1>2. QueueInv /\ [Next]_vars => QueueInv'
  BY NodeAssumption, ListStays, Zenon
<1> QED
  BY <1>1, <1>2, PTL DEF Spec

(* A linked list is a chain in the sense of PointersSound. *)
LEMMA LinkedChain ==
  ASSUME NEW n, NEW s, Linked(heap, n, s)
  PROVE  Chain(n, s)
<1>1. s \in Seq(Node) /\ Len(s) \in Nat /\ DOMAIN s = 1..Len(s)
  BY DEF Linked
<1>2. IsInjective(s)
  BY <1>1, Zenon DEF Linked, IsInjective
<1>3. n = IF s = <<>> THEN NULL ELSE s[1]
  BY <1>1 DEF Linked, Ptr
<1>4. ASSUME NEW i \in 1..Len(s)
      PROVE  s[i] \in DOMAIN heap /\ heap[s[i]].next = IF i = Len(s) THEN NULL ELSE s[i + 1]
  <2>1. i + 1 \in 1..Len(s) <=> i /= Len(s)
    <3>1. Len(s) \in Nat
      BY <1>1
    <3> QED
      BY <3>1
  <2>2. s[i] \in DOMAIN heap /\ heap[s[i]].next = Ptr(s, i + 1)
    BY <1>4, Zenon DEF Linked
  <2> QED
    BY <2>1, <2>2, Zenon DEF Ptr
<1> QED
  BY <1>2, <1>3, <1>4, Zenon DEF Chain

(* Outside a clear, following length links from the head gives the list.   *)
LEMMA ListIsList ==
  ASSUME NodesFinite, NEW s \in Seq(Node), ListIs(s), pc /= "clear"
  PROVE  List = s /\ length = Len(s)
<1>1. Linked(heap, head, s) /\ length = Len(s)
  BY Zenon DEF ListIs, First, Counted
<1>2. Follow(head, Len(s)) = s
  BY <1>1, FollowList, Zenon
<1> QED
  BY <1>1, <1>2, Zenon DEF List

(* The invariant gives what PointersSound says by following the links.     *)
LEMMA PointersFollow ==
  ASSUME NodesFinite, QueueInv
  PROVE  PointersSound
<1>1. PICK s \in Seq(Node) : ListIs(s)
  BY Zenon DEF QueueInv
<1>2. /\ Len(s) \in Nat /\ Linked(heap, First, s)
      /\ \A i, j \in 1..Len(s) : s[i] = s[j] => i = j
      /\ NULL \notin DOMAIN heap
      /\ DOMAIN heap = Members(s) \cup ({held} \ {NULL})
  BY <1>1, ListFacts, Zenon
<1>3. TypeOK /\ Owned(s) /\ Place(s) /\ Counted(s)
  BY <1>1, Zenon DEF ListIs
<1>4. WellFormed
  <2> SUFFICES ASSUME pc /= "clear"
               PROVE  Chain(head, List) /\ tail = IF length = 0 THEN NULL ELSE List[length]
    BY Zenon DEF WellFormed
  <2>1. List = s /\ length = Len(s) /\ tail = Ptr(s, Len(s)) /\ First = head
    BY <1>1, <1>3, ListIsList, Zenon DEF Counted, First
  <2>2. Len(s) \in 1..Len(s) <=> Len(s) /= 0
    BY <1>2
  <2>3. Chain(head, s)
    BY <1>2, <2>1, LinkedChain, Zenon
  <2> QED
    BY <2>1, <2>2, <2>3, Zenon DEF Ptr
<1> DEFINE Live(p) == p \in DOMAIN heap \cup {NULL}
<1>5. \A i \in Int : Live(Ptr(s, i))
  <2> SUFFICES ASSUME NEW i \in Int PROVE Live(Ptr(s, i))
    OBVIOUS
  <2>1. Ptr(s, i) = NULL \/ Ptr(s, i) \in Members(s)
    BY PtrType
  <2> QED
    BY <1>2, <2>1, Zenon
<1>6. NoUseAfterFree
  <2> HIDE DEF Live
  <2>1. 1 \in Int /\ Len(s) \in Int /\ "discard" /= "clear" /\ "clear" /= "discard"
    BY <1>2
  <2>2. Live(NULL) /\ Live(held) /\ Live(First)
    BY <1>2, <1>5, <2>1, Zenon DEF Live, Linked
  <2>3. Live(current) /\ Live(previous)
    <3>1. CASE pc = "discard"
      <4>1. PICK k \in 0..Len(s) : Kept(s, k)
        BY <1>3, <3>1, Zenon DEF Place
      <4>2. k \in Int /\ k + 1 \in Int
        BY <1>2
      <4> QED
        BY <1>5, <4>1, <4>2, Zenon DEF Kept
    <3>2. CASE pc = "clear"
      BY <1>3, <2>1, <2>2, <3>2, Zenon DEF Place, First
    <3>3. CASE pc = "idle"
      <4>1. "idle" /= "discard"
        OBVIOUS
      <4> QED
        BY <1>3, <2>2, <3>3, <4>1, Zenon DEF Place
    <3> QED
      BY <1>3, <3>1, <3>2, <3>3, Zenon DEF TypeOK
  <2>4. ASSUME pc /= "clear" PROVE Live(head) /\ Live(tail)
    BY <1>3, <1>5, <2>1, <2>2, <2>4, Zenon DEF First, Counted
  <2>5. ASSUME NEW n \in DOMAIN heap PROVE Live(heap[n].next)
    <3>1. CASE n \in Members(s)
      <4>1. PICK i \in 1..Len(s) : n = s[i]
        BY <3>1, Zenon DEF Members
      <4>2. heap[n].next = Ptr(s, i + 1) /\ i + 1 \in Int
        BY <1>2, <4>1 DEF Linked
      <4> QED
        BY <1>5, <4>2, Zenon
    <3>2. CASE n = held /\ held /= NULL
      BY <1>3, <2>2, <3>2, Zenon DEF Owned
    <3> QED
      BY <1>2, <3>1, <3>2, Zenon
  <2> QED
    BY <2>2, <2>3, <2>4, <2>5, Zenon DEF NoUseAfterFree, Live
<1>7. NoLeak
  <2>1. DOMAIN heap \ {held} = Members(s)
    BY <1>2, <1>3, Zenon DEF Owned
  <2>2. Cardinality(Members(s)) = Len(s)
    BY <1>2, CountMembers, Zenon
  <2>3. Follow(First, Len(s)) = s /\ Chain(First, s)
    BY <1>2, FollowList, LinkedChain, Zenon
  <2>4. Range(s) = Members(s)
    <3>1. DOMAIN s = 1..Len(s)
      OBVIOUS
    <3> QED
      BY <3>1, Zenon DEF Range, Members
  <2> QED
    BY <2>1, <2>2, <2>3, <2>4, Zenon DEF NoLeak, First
<1> QED
  BY <1>3, <1>4, <1>6, <1>7, Zenon DEF PointersSound

(* The list stays a list of live nodes that ends at tail and is counted by *)
(* length; nothing is freed twice, used after it was freed or leaked, for  *)
(* a queue of any length (PointersSound).                                  *)
THEOREM PointersAreSound == Spec => []PointersSound
<1>1. QueueInv => PointersSound
  BY NodeAssumption, PointersFollow, Zenon
<1> QED
  BY <1>1, QueueInvariant, PTL

------------------------------------------------------------------------------
(* One turn of Without: r is appended unless it is the client's.           *)
Turn(a, r, c) == IF r.client = c THEN a ELSE Append(a, r)

(* f is what Without has gathered after each of the first n requests.      *)
Gathers(q, c, n, f) ==
  /\ f = [i \in 0..n |-> f[i]]
  /\ f[0] = <<>>
  /\ \A i \in 1..n : f[i] = Turn(f[i - 1], q[i], c)

(* Without's recursion is defined on every queue. *)
LEMMA GatheringExists ==
  ASSUME NEW q, NEW c, NEW n \in Nat
  PROVE  \E f : Gathers(q, c, n, f)
<1> DEFINE T == {k \in Nat : \E f : Gathers(q, c, k, f)}
<1>1. 0 \in T
  <2> DEFINE f == [i \in 0..0 |-> <<>>]
  <2>1. 0 \in 0..0 /\ \A i \in 1..0 : FALSE
    OBVIOUS
  <2>2. f = [i \in 0..0 |-> f[i]] /\ f[0] = <<>>
    BY <2>1, Zenon
  <2> HIDE DEF f
  <2>3. Gathers(q, c, 0, f)
    BY <2>1, <2>2, Zenon DEF Gathers
  <2> QED
    BY <2>3
<1>2. ASSUME NEW k \in Nat, k \in T PROVE k + 1 \in T
  <2>1. PICK f : Gathers(q, c, k, f)
    BY <1>2
  <2> DEFINE g == [i \in 0..(k + 1) |-> IF i = k + 1 THEN Turn(f[k], q[k + 1], c) ELSE f[i]]
  <2>2. g = [i \in 0..(k + 1) |-> g[i]]
    OBVIOUS
  <2>3. 0 \in 0..(k + 1) /\ 0 /= k + 1
    OBVIOUS
  <2>4. g[0] = <<>>
    BY <2>1, <2>3, Zenon DEF Gathers
  <2>5. ASSUME NEW i \in 1..(k + 1) PROVE g[i] = Turn(g[i - 1], q[i], c)
    <3>1. i \in 0..(k + 1) /\ i - 1 \in 0..(k + 1) /\ i - 1 /= k + 1 /\ (i = k + 1 => i - 1 = k)
      OBVIOUS
    <3>2. g[i - 1] = f[i - 1]
      BY <3>1, Zenon
    <3>3. CASE i = k + 1
      <4>1. g[i] = Turn(f[k], q[k + 1], c)
        BY <3>1, <3>3, Zenon
      <4> QED
        BY <3>1, <3>2, <3>3, <4>1, Zenon
    <3>4. CASE i /= k + 1
      <4>1. i \in 1..k
        BY <3>4
      <4>2. g[i] = f[i]
        BY <3>1, <3>4, Zenon
      <4> QED
        BY <2>1, <3>2, <4>1, <4>2, Zenon DEF Gathers
    <3> QED
      BY <3>3, <3>4
  <2> HIDE DEF g
  <2>6. Gathers(q, c, k + 1, g)
    BY <2>2, <2>4, <2>5, Zenon DEF Gathers
  <2>7. k + 1 \in Nat
    OBVIOUS
  <2> QED
    BY <2>6, <2>7, Zenon
<1> HIDE DEF T
<1>3. n \in T
  BY <1>1, <1>2, SetInduction, Zenon
<1> QED
  BY <1>3, Zenon DEF T

(* Two functions that gather alike agree. *)
LEMMA GatheringUnique ==
  ASSUME NEW q, NEW c, NEW n \in Nat, NEW f, NEW g, Gathers(q, c, n, f), Gathers(q, c, n, g)
  PROVE  f[n] = g[n]
<1> DEFINE T == {k \in Nat : k <= n => f[k] = g[k]}
<1>1. 0 \in T
  <2>1. f[0] = g[0]
    BY Zenon DEF Gathers
  <2> QED
    BY <2>1
<1>2. ASSUME NEW k \in Nat, k \in T PROVE k + 1 \in T
  <2> SUFFICES ASSUME k + 1 <= n PROVE f[k + 1] = g[k + 1]
    OBVIOUS
  <2>1. k + 1 \in 1..n /\ (k + 1) - 1 = k /\ k <= n
    OBVIOUS
  <2>2. f[k] = g[k]
    BY <1>2, <2>1
  <2> QED
    BY <2>1, <2>2, Zenon DEF Gathers
<1> HIDE DEF T
<1>3. n \in T
  BY <1>1, <1>2, SetInduction, Zenon
<1> QED
  BY <1>3 DEF T

(* Without is what is gathered after the last request. *)
LEMMA WithoutGathers ==
  ASSUME NEW q, NEW c, NEW f, Len(q) \in Nat, Gathers(q, c, Len(q), f)
  PROVE  Without(q, c) = f[Len(q)]
<1> DEFINE n == Len(q)
           Upto(u) == u = [i \in 0..n |-> IF i = 0 THEN <<>>
                                          ELSE IF q[i].client = c THEN u[i - 1]
                                          ELSE Append(u[i - 1], q[i])]
           U == CHOOSE u : Upto(u)
<1>1. Without(q, c) = U[n]
  BY Zenon DEF Without
<1>2. \A i \in 0..n : i = 0 \/ i \in 1..n
  OBVIOUS
<1>3. ASSUME NEW i \in 0..n
      PROVE  f[i] = IF i = 0 THEN <<>>
                    ELSE IF q[i].client = c THEN f[i - 1] ELSE Append(f[i - 1], q[i])
  BY <1>2, <1>3, Zenon DEF Gathers, Turn
<1>4. Upto(f)
  <2>1. f = [i \in 0..n |-> f[i]]
    BY Zenon DEF Gathers
  <2> QED
    BY <1>3, <2>1
<1>5. Upto(U)
  BY <1>4, Zenon
<1>6. Gathers(q, c, n, U)
  <2>1. \A i \in 0..n : U[i] = IF i = 0 THEN <<>>
                                ELSE IF q[i].client = c THEN U[i - 1]
                                ELSE Append(U[i - 1], q[i])
    BY <1>5, Zenon
  <2>2. U = [i \in 0..n |-> U[i]]
    BY <1>5, Zenon
  <2> HIDE DEF U, Upto
  <2>3. 0 \in 0..n /\ \A i \in 1..n : i \in 0..n /\ i /= 0
    OBVIOUS
  <2> QED
    BY <2>1, <2>2, <2>3, Zenon DEF Gathers, Turn
<1> HIDE DEF U, Upto
<1>7. U[n] = f[n]
  BY <1>6, GatheringUnique, Zenon
<1> QED
  BY <1>1, <1>7, Zenon

(* Without leaves a queue alone that holds no request of the client.       *)
LEMMA WithoutNone ==
  ASSUME NEW q \in Seq(Request), NEW c, \A i \in 1..Len(q) : q[i].client /= c
  PROVE  Without(q, c) = q
<1> DEFINE n == Len(q)
           f == [i \in 0..n |-> [j \in 1..i |-> q[j]]]
<1>1. n \in Nat /\ q = [j \in 1..n |-> q[j]] /\ \A i \in 1..n : q[i] \in Request
  OBVIOUS
<1>2. f = [i \in 0..n |-> f[i]]
  OBVIOUS
<1>3. f[0] = <<>>
  BY <1>1
<1>4. ASSUME NEW i \in 1..n PROVE f[i] = Turn(f[i - 1], q[i], c)
  <2>1. i \in 0..n /\ i - 1 \in 0..n /\ i - 1 \in Nat /\ \A j \in 1..(i - 1) : j \in 1..n
    BY <1>1
  <2>2. f[i] = [j \in 1..i |-> q[j]] /\ f[i - 1] = [j \in 1..(i - 1) |-> q[j]]
    BY <2>1, Zenon
  <2> HIDE DEF f
  <2>3. f[i - 1] \in Seq(Request) /\ Len(f[i - 1]) = i - 1
    BY <1>1, <2>1, <2>2
  <2>4. Append(f[i - 1], q[i]) = f[i]
    BY <1>1, <2>1, <2>2, <2>3
  <2> QED
    BY <2>4, Zenon DEF Turn
<1>5. n \in 0..n
  BY <1>1
<1>6. f[n] = [j \in 1..n |-> q[j]]
  BY <1>5, Zenon
<1> HIDE DEF f
<1>7. Gathers(q, c, n, f)
  BY <1>2, <1>3, <1>4, Zenon DEF Gathers
<1>8. Without(q, c) = f[n]
  BY <1>1, <1>7, WithoutGathers, Zenon
<1> QED
  BY <1>1, <1>6, <1>8, Zenon

(* Without does not see a request of the client that is taken out.         *)
LEMMA WithoutCut ==
  ASSUME NEW q \in Seq(Request), NEW c, NEW k \in Nat, k < Len(q), q[k + 1].client = c
  PROVE  Without(Cut(q, k), c) = Without(q, c)
<1> DEFINE n == Len(q)
           p == Cut(q, k)
<1>1. n \in Nat /\ n - 1 \in Nat /\ k <= n - 1 /\ (n - 1) + 1 = n
  OBVIOUS
<1>2. Len(p) = n - 1 /\ \A i \in 1..(n - 1) : p[i] = IF i <= k THEN q[i] ELSE q[i + 1]
  BY <1>1 DEF Cut
<1> HIDE DEF p
<1>3. PICK f : Gathers(q, c, n, f)
  BY <1>1, GatheringExists, Zenon
<1> DEFINE g == [i \in 0..(n - 1) |-> IF i <= k THEN f[i] ELSE f[i + 1]]
<1>4. f[k + 1] = f[k]
  <2>1. k + 1 \in 1..n /\ (k + 1) - 1 = k
    BY <1>1
  <2> QED
    BY <1>3, <2>1, Zenon DEF Gathers, Turn
<1>5. g = [i \in 0..(n - 1) |-> g[i]]
  OBVIOUS
<1>6. \A i \in 0..(n - 1) : g[i] = IF i <= k THEN f[i] ELSE f[i + 1]
  OBVIOUS
<1> HIDE DEF g
<1>7. g[0] = <<>>
  <2>1. 0 \in 0..(n - 1) /\ 0 <= k
    BY <1>1
  <2> QED
    BY <1>3, <1>6, <2>1, Zenon DEF Gathers
<1>8. ASSUME NEW i \in 1..(n - 1) PROVE g[i] = Turn(g[i - 1], p[i], c)
  <2>1. /\ i \in 0..(n - 1) /\ i - 1 \in 0..(n - 1) /\ i \in 1..n /\ i + 1 \in 1..n
        /\ (i + 1) - 1 = i /\ (i - 1) + 1 = i
    BY <1>1
  <2>2. CASE i <= k
    <3>1. i - 1 <= k
      BY <2>2
    <3>2. g[i] = f[i] /\ g[i - 1] = f[i - 1] /\ p[i] = q[i]
      BY <1>2, <1>6, <2>1, <2>2, <3>1, Zenon
    <3> QED
      BY <1>3, <2>1, <3>2, Zenon DEF Gathers
  <2>3. CASE ~(i <= k)
    <3>1. g[i] = f[i + 1] /\ p[i] = q[i + 1]
      BY <1>2, <1>6, <2>1, <2>3, Zenon
    <3>2. g[i - 1] = f[i]
      <4>1. CASE i - 1 <= k
        <5>1. i - 1 = k /\ i = k + 1
          BY <2>3, <4>1
        <5>2. g[i - 1] = f[i - 1]
          BY <1>6, <2>1, <4>1, Zenon
        <5> QED
          BY <1>4, <5>1, <5>2, Zenon
      <4>2. CASE ~(i - 1 <= k)
        BY <1>6, <2>1, <4>2, Zenon
      <4> QED
        BY <4>1, <4>2
    <3>3. f[i + 1] = Turn(f[(i + 1) - 1], q[i + 1], c)
      BY <1>3, <2>1, Zenon DEF Gathers
    <3> QED
      BY <2>1, <3>1, <3>2, <3>3, Zenon
  <2> QED
    BY <2>2, <2>3
<1>9. Gathers(p, c, n - 1, g)
  BY <1>5, <1>7, <1>8, Zenon DEF Gathers
<1>10. Without(p, c) = g[n - 1]
  BY <1>1, <1>2, <1>9, WithoutGathers
<1>11. Without(q, c) = f[n]
  BY <1>1, <1>3, WithoutGathers, Zenon
<1>12. g[n - 1] = f[n]
  <2>1. n - 1 \in 0..(n - 1)
    BY <1>1
  <2>2. CASE n - 1 <= k
    <3> HIDE DEF n
    <3>1. n - 1 = k /\ n = k + 1
      BY <1>1, <2>2
    <3> QED
      BY <1>4, <1>6, <2>1, <2>2, <3>1, Zenon
  <2>3. CASE ~(n - 1 <= k)
    BY <1>1, <1>6, <2>1, <2>3, Zenon
  <2> QED
    BY <2>2, <2>3
<1> QED
  BY <1>10, <1>11, <1>12 DEF p

------------------------------------------------------------------------------
(* The requests of the nodes of a list, in order.                          *)
Requests(h, s) == [i \in 1..Len(s) |-> h[s[i]].request]

(* The request the caller has dequeued.                                    *)
Taken == IF held = NULL THEN <<>> ELSE heap[held].request

(* What the callers see of the list s.                                     *)
ItemsOf(s) ==
  /\ pc = "idle" => Items = Requests(heap, s)
  /\ pc = "discard" => Items = Without(Requests(heap, s), client_fd)
  /\ pc = "clear" => Items = <<>>

(* Items and the list agree. *)
ItemsFit == \A s \in Seq(Node) : ListIs(s) => ItemsOf(s)

(* The nodes of a list hold requests. *)
LEMMA RequestsType ==
  ASSUME NodesFinite, NEW s \in Seq(Node), ListIs(s)
  PROVE  Requests(heap, s) \in Seq(Request) /\ Len(Requests(heap, s)) = Len(s)
<1>1. Len(s) \in Nat /\ IsHeap(heap) /\ \A i \in 1..Len(s) : s[i] \in DOMAIN heap
  BY ListFacts, Zenon
<1>2. \A i \in 1..Len(s) : heap[s[i]].request \in Request
  BY <1>1, NodeFacts, Zenon
<1> QED
  BY <1>1, <1>2 DEF Requests

(* Items, which follows the links, is given by the list. *)
LEMMA ItemsHold == ItemsFit
<1> SUFFICES ASSUME NEW s \in Seq(Node), ListIs(s) PROVE ItemsOf(s)
  BY Zenon DEF ItemsFit
<1> DEFINE requests == [i \in 1..length |-> heap[List[i]].request]
<1>1. ASSUME pc /= "clear" PROVE requests = Requests(heap, s)
  <2>1. List = s /\ length = Len(s)
    BY <1>1, NodeAssumption, ListIsList, Zenon
  <2> QED
    BY <2>1, Zenon DEF Requests
<1> HIDE DEF requests
<1>2. Items = CASE pc = "idle"    -> requests
                [] pc = "discard" -> Without(requests, client_fd)
                [] pc = "clear"   -> <<>>
  BY Zenon DEF Items, requests
<1>3. /\ pc = "idle" => Items = requests /\ pc /= "clear"
      /\ pc = "discard" => Items = Without(requests, client_fd) /\ pc /= "clear"
      /\ pc = "clear" => Items = <<>>
  BY <1>2
<1> QED
  BY <1>1, <1>3, Zenon DEF ItemsOf

(* The same after a step. *)
LEMMA ItemsHoldNext == ItemsFit'
  BY ItemsHold, PTL

(* The abstract queue filters as the list's refinement mapping does.       *)
LEMMA FifoWithout ==
  ASSUME NEW q, NEW c
  PROVE  Fifo!Without(q, c) = Without(q, c)
  BY Zenon DEF Fifo!Without, Without

(* A request is not the absence of one.                                    *)
LEMMA RequestIsSome == ASSUME NEW r \in Request PROVE r /= <<>>
<1>1. DOMAIN r = {"client", "body"}
  BY DEF Request
<1>2. DOMAIN <<>> = {}
  OBVIOUS
<1> QED
  BY <1>1, <1>2, Zenon

(* The requests of a list depend on its nodes' requests only. *)
LEMMA RequestsSame ==
  ASSUME NEW h, NEW g, NEW s, \A i \in 1..Len(s) : g[s[i]].request = h[s[i]].request
  PROVE  Requests(g, s) = Requests(h, s)
  BY Zenon DEF Requests

(* Taking a node out of a list takes its request out of the requests.      *)
LEMMA RequestsCut ==
  ASSUME NEW h, NEW g, NEW s \in Seq(Node), NEW k \in Nat, k < Len(s),
         \A i \in 1..Len(s) : i /= k + 1 => g[s[i]].request = h[s[i]].request
  PROVE  Requests(g, Cut(s, k)) = Cut(Requests(h, s), k)
<1> DEFINE n == Len(s)
           t == Cut(s, k)
           q == Requests(h, s)
<1>1. n \in Nat /\ n - 1 \in Nat
  OBVIOUS
<1>2. Len(t) = n - 1 /\ \A i \in 1..(n - 1) : t[i] = IF i <= k THEN s[i] ELSE s[i + 1]
  BY <1>1 DEF Cut
<1>3. Len(q) = n /\ \A i \in 1..n : q[i] = h[s[i]].request
  BY <1>1 DEF Requests
<1> HIDE DEF t, q
<1>4. ASSUME NEW i \in 1..(n - 1)
      PROVE  g[t[i]].request = IF i <= k THEN q[i] ELSE q[i + 1]
  <2>1. /\ i \in 1..n /\ i + 1 \in 1..n
        /\ (i <= k => i /= k + 1) /\ (~(i <= k) => i + 1 /= k + 1)
    BY <1>1
  <2>2. CASE i <= k
    BY <1>2, <1>3, <2>1, <2>2, Zenon
  <2>3. CASE ~(i <= k)
    BY <1>2, <1>3, <2>1, <2>3, Zenon
  <2> QED
    BY <2>2, <2>3
<1>5. Requests(g, t) = [i \in 1..(n - 1) |-> g[t[i]].request]
  BY <1>2, Zenon DEF Requests
<1>6. Cut(q, k) = [i \in 1..(n - 1) |-> IF i <= k THEN q[i] ELSE q[i + 1]]
  BY <1>3, Zenon DEF Cut
<1>7. Requests(g, t) = Cut(q, k)
  BY <1>4, <1>5, <1>6, Zenon
<1> QED
  BY <1>7 DEF t, q

(* A node linked behind the last adds its request at the end. *)
LEMMA RequestsAppend ==
  ASSUME NEW h, NEW g, NEW s \in Seq(Node), NEW m \in Node, NEW r \in Request, g[m].request = r,
         \A i \in 1..Len(s) : g[s[i]].request = h[s[i]].request,
         Requests(h, s) \in Seq(Request), Len(Requests(h, s)) = Len(s)
  PROVE  Requests(g, Append(s, m)) = Append(Requests(h, s), r)
<1> DEFINE n == Len(s)
           t == Append(s, m)
           q == Requests(h, s)
           u == Append(q, r)
<1>1. n \in Nat /\ n + 1 \in Nat /\ \A i \in 1..(n + 1) : i = n + 1 \/ i \in 1..n
  OBVIOUS
<1>2. Len(t) = n + 1 /\ (\A i \in 1..n : t[i] = s[i]) /\ t[n + 1] = m
  BY <1>1
<1>3. Len(u) = n + 1 /\ (\A i \in 1..n : u[i] = q[i]) /\ u[n + 1] = r
  BY <1>1
<1>4. u = [i \in 1..(n + 1) |-> u[i]]
  <2>1. u \in Seq(Request)
    BY AppendProperties, Zenon
  <2> HIDE DEF u
  <2>2. u = [i \in 1..Len(u) |-> u[i]]
    BY <2>1
  <2> QED
    BY <1>3, <2>2, Zenon
<1>5. \A i \in 1..n : q[i] = h[s[i]].request
  BY Zenon DEF Requests
<1> HIDE DEF t, u, q
<1>6. \A i \in 1..(n + 1) : g[t[i]].request = u[i]
  BY <1>1, <1>2, <1>3, <1>5, Zenon
<1>7. Requests(g, t) = [i \in 1..(n + 1) |-> g[t[i]].request]
  BY <1>2, Zenon DEF Requests
<1>8. Requests(g, t) = u
  BY <1>4, <1>6, <1>7, Zenon
<1> QED
  BY <1>8, Zenon DEF t, u, q

(* The caller's request stays while its node does. *)
LEMMA TakenSame ==
  ASSUME held' = held, held /= NULL => heap'[held].request = heap[held].request
  PROVE  Taken' = Taken
  BY Zenon DEF Taken

(* wc_request_queue_enqueue puts the request last. *)
LEMMA EnqueueMaps ==
  ASSUME NEW s \in Seq(Node), ListIs(s), NEW r \in Request, Enqueue(r)
  PROVE  Items' = Append(Items, r) /\ Taken' = Taken
<1>1. pc = "idle" /\ pc' = "idle" /\ held' = held
  BY Zenon DEF Enqueue, loop
<1>2. PICK m \in Node : /\ ListIs(Append(s, m))' /\ heap'[m].request = r
                        /\ \A x \in DOMAIN heap : heap'[x].request = heap[x].request
  BY NodeAssumption, EnqueueStep, Zenon
<1>3. /\ \A i \in 1..Len(s) : s[i] \in DOMAIN heap
      /\ DOMAIN heap = Members(s) \cup ({held} \ {NULL})
  BY NodeAssumption, ListFacts, Zenon
<1>4. Append(s, m) \in Seq(Node)
  OBVIOUS
<1>5. Items = Requests(heap, s) /\ Items' = Requests(heap', Append(s, m))
  BY <1>1, <1>2, <1>4, ItemsHold, ItemsHoldNext, Zenon DEF ItemsFit, ItemsOf
<1>6. Requests(heap, s) \in Seq(Request) /\ Len(Requests(heap, s)) = Len(s)
  BY NodeAssumption, RequestsType, Zenon
<1>7. Requests(heap', Append(s, m)) = Append(Requests(heap, s), r)
  <2>1. \A i \in 1..Len(s) : heap'[s[i]].request = heap[s[i]].request
    BY <1>2, <1>3, Zenon
  <2>2. heap'[m].request = r
    BY <1>2
  <2> QED
    BY <1>6, <2>1, <2>2, RequestsAppend
<1>8. Taken' = Taken
  <2>1. held /= NULL => heap'[held].request = heap[held].request
    BY <1>2, <1>3, Zenon
  <2> QED
    BY <1>1, <2>1, TakenSame, Zenon
<1> QED
  BY <1>5, <1>7, <1>8, Zenon

(* wc_request_queue_dequeue hands out the oldest request. *)
LEMMA DequeueMaps ==
  ASSUME NEW s \in Seq(Node), ListIs(s), Dequeue
  PROVE  Items /= <<>> /\ Taken = <<>> /\ Taken' = Head(Items) /\ Items' = Tail(Items)
<1>1. pc = "idle" /\ pc' = "idle" /\ head /= NULL /\ held = NULL /\ held' = head
  BY Zenon DEF Dequeue, loop
<1>2. "idle" /= "clear"
  OBVIOUS
<1>3. First = head
  BY <1>1, <1>2, Zenon DEF First
<1>4. /\ ListIs(Cut(s, 0))'
      /\ \A x \in DOMAIN heap : heap'[x].request = heap[x].request
  BY NodeAssumption, DequeueStep, Zenon
<1>5. \A i \in 1..Len(s) : s[i] \in DOMAIN heap
  BY NodeAssumption, ListFacts, Zenon
<1>6. 0 < Len(s) /\ head = s[1] /\ 1 \in 1..Len(s) /\ Cut(s, 0) \in Seq(Node)
  BY <1>1, <1>3, NodeAssumption, FirstFacts, Zenon
<1> DEFINE q == Requests(heap, s)
<1>7. Items = q /\ Items' = Requests(heap', Cut(s, 0))
  BY <1>1, <1>4, <1>6, ItemsHold, ItemsHoldNext, Zenon DEF ItemsFit, ItemsOf
<1>8. q \in Seq(Request) /\ Len(q) = Len(s)
  BY NodeAssumption, RequestsType, Zenon
<1>9. q[1] = heap[s[1]].request
  BY <1>6, Zenon DEF Requests
<1>10. Requests(heap', Cut(s, 0)) = Cut(q, 0)
  <2>1. \A i \in 1..Len(s) : i /= 0 + 1 => heap'[s[i]].request = heap[s[i]].request
    BY <1>4, <1>5, Zenon
  <2>2. 0 \in Nat
    OBVIOUS
  <2> QED
    BY <1>6, <2>1, <2>2, RequestsCut, ZenonT(30)
<1>11. Taken = <<>> /\ Taken' = q[1]
  <2>1. Taken' = heap'[head].request
    BY <1>1, Zenon DEF Taken
  <2> QED
    BY <1>1, <1>4, <1>5, <1>6, <1>9, <2>1, Zenon DEF Taken
<1> HIDE DEF q
<1>12. q /= <<>> /\ Head(q) = q[1] /\ Cut(q, 0) = Tail(q)
  <2>1. Len(q) > 0
    BY <1>6, <1>8
  <2>2. q /= <<>> /\ Head(q) = q[1]
    BY <1>8, <2>1
  <2>3. Tail(q) = [i \in 1..(Len(q) - 1) |-> q[i + 1]]
    <3> DEFINE u == Tail(q)
    <3>1. u \in Seq(Request) /\ Len(u) = Len(q) - 1 /\ \A i \in 1..Len(u) : u[i] = q[i + 1]
      BY <1>8, <2>2, HeadTailProperties, Zenon
    <3> HIDE DEF u
    <3>2. u = [i \in 1..Len(u) |-> u[i]]
      BY <3>1
    <3>3. u = [i \in 1..(Len(q) - 1) |-> q[i + 1]]
      BY <3>1, <3>2, Zenon
    <3> QED
      BY <3>3 DEF u
  <2>4. \A i \in 1..(Len(q) - 1) : ~(i <= 0)
    BY <1>8
  <2>5. Cut(q, 0) = [i \in 1..(Len(q) - 1) |-> q[i + 1]]
    BY <2>4, Zenon DEF Cut
  <2> QED
    BY <2>2, <2>3, <2>5, Zenon
<1> QED
  BY <1>7, <1>10, <1>11, <1>12, Zenon

(* wc_queued_request_destroy ends the caller's hold on a request and       *)
(* leaves the queue as it is.                                              *)
LEMMA DestroyMaps ==
  ASSUME NEW s \in Seq(Node), ListIs(s), Destroy
  PROVE  Taken /= <<>> /\ Taken' = <<>> /\ Items' = Items
<1>1. pc = "idle" /\ pc' = "idle" /\ held /= NULL /\ held' = NULL
  BY Zenon DEF Destroy, loop
<1>2. /\ ListIs(s)' /\ DOMAIN heap' = DOMAIN heap \ {held}
      /\ \A x \in DOMAIN heap' : heap'[x] = heap[x]
  BY NodeAssumption, DestroyStep, Zenon
<1>3. /\ \A i \in 1..Len(s) : s[i] \in DOMAIN heap /\ s[i] /= held
      /\ DOMAIN heap = Members(s) \cup ({held} \ {NULL}) /\ IsHeap(heap)
  BY NodeAssumption, ListFacts, Zenon
<1>4. Items = Requests(heap, s) /\ Items' = Requests(heap', s)
  BY <1>1, <1>2, ItemsHold, ItemsHoldNext, Zenon DEF ItemsFit, ItemsOf
<1>5. Requests(heap', s) = Requests(heap, s)
  <2>1. \A i \in 1..Len(s) : heap'[s[i]].request = heap[s[i]].request
    BY <1>2, <1>3, Zenon
  <2> QED
    BY <2>1, RequestsSame, Zenon
<1>6. Taken /= <<>> /\ Taken' = <<>>
  <2>1. held \in DOMAIN heap
    BY <1>1, <1>3, Zenon
  <2>2. heap[held].request \in Request
    BY <1>3, <2>1, NodeFacts, Zenon
  <2>3. heap[held].request /= <<>>
    BY <2>2, RequestIsSome, Zenon
  <2> QED
    BY <1>1, <2>3, Zenon DEF Taken
<1> QED
  BY <1>4, <1>5, <1>6, Zenon

(* The start of wc_request_queue_discard_client is where the client's      *)
(* requests vanish for its callers.                                        *)
LEMMA DiscardMaps ==
  ASSUME NEW s \in Seq(Node), ListIs(s), NEW c \in Client, Discard(c)
  PROVE  Items' = Without(Items, c) /\ Taken' = Taken
<1>1. pc = "idle" /\ pc' = "discard" /\ client_fd' = c /\ UNCHANGED <<heap, held>>
  BY Zenon DEF Discard
<1>2. ListIs(s)'
  BY NodeAssumption, DiscardStarts, Zenon
<1>3. Items = Requests(heap, s) /\ Items' = Without(Requests(heap, s), c)
  BY <1>1, <1>2, ItemsHold, ItemsHoldNext, Zenon DEF ItemsFit, ItemsOf
<1>4. Taken' = Taken
  BY <1>1, TakenSame, Zenon
<1> QED
  BY <1>3, <1>4, Zenon

(* The start of wc_request_queue_clear empties the queue for its callers.  *)
LEMMA ClearMaps ==
  ASSUME NEW s \in Seq(Node), ListIs(s), Clear
  PROVE  Items' = <<>> /\ Taken' = Taken
<1>1. pc' = "clear" /\ UNCHANGED <<heap, held>>
  BY Zenon DEF Clear
<1>2. ListIs(s)'
  BY NodeAssumption, ClearStarts, Zenon
<1>3. Items' = <<>>
  BY <1>1, <1>2, ItemsHoldNext, Zenon DEF ItemsFit, ItemsOf
<1>4. Taken' = Taken
  BY <1>1, TakenSame, Zenon
<1> QED
  BY <1>3, <1>4, Zenon

(* A turn of the discard loop that unlinks a node takes out what the       *)
(* callers no longer saw.                                                  *)
LEMMA UnlinkMaps ==
  ASSUME NEW s \in Seq(Node), ListIs(s), DiscardUnlinks
  PROVE  Items' = Items /\ Taken' = Taken
<1>1. pc = "discard" /\ pc' = "discard" /\ UNCHANGED <<held, client_fd>>
  BY Zenon DEF DiscardUnlinks
<1>2. PICK k \in Nat :
        /\ k < Len(s) /\ heap[s[k + 1]].request.client = client_fd
        /\ ListIs(Cut(s, k))' /\ DOMAIN heap' = DOMAIN heap \ {current}
        /\ \A x \in DOMAIN heap' : heap'[x].request = heap[x].request
        /\ current \in Members(s)
  BY NodeAssumption, DiscardUnlinksStep, Zenon
<1> DEFINE t == Cut(s, k)
           q == Requests(heap, s)
<1>3. /\ Len(s) \in Nat /\ IsHeap(heap)
      /\ \A i, j \in 1..Len(s) : s[i] = s[j] => i = j
      /\ \A i \in 1..Len(s) : s[i] \in DOMAIN heap /\ s[i] \in Members(s) /\ s[i] /= held
      /\ DOMAIN heap = Members(s) \cup ({held} \ {NULL})
  BY NodeAssumption, ListFacts, Zenon
<1>4. /\ t \in Seq(Node) /\ Len(t) = Len(s) - 1 /\ k + 1 \in 1..Len(s)
      /\ Members(t) = Members(s) \ {s[k + 1]}
  BY <1>2, <1>3, CutParts
<1>5. Items = Without(q, client_fd) /\ Items' = Without(Requests(heap', t), client_fd)
  BY <1>1, <1>2, <1>4, ItemsHold, ItemsHoldNext, Zenon DEF ItemsFit, ItemsOf
<1>6. Owned(t)' /\ Owned(s)
  BY <1>2, Zenon DEF ListIs
<1>7. DOMAIN heap' = Members(t) \cup ({held} \ {NULL})
  BY <1>1, <1>6, Zenon DEF Owned
<1>8. Requests(heap', t) = Cut(q, k)
  <2>1. ASSUME NEW i \in 1..Len(s), i /= k + 1 PROVE heap'[s[i]].request = heap[s[i]].request
    <3>1. s[i] \in Members(t)
      BY <1>3, <1>4, <2>1, Zenon
    <3> QED
      BY <1>2, <1>7, <3>1, Zenon
  <2>2. k < Len(s)
    BY <1>2
  <2> QED
    BY <2>1, <2>2, RequestsCut, Zenon
<1>9. Without(Cut(q, k), client_fd) = Without(q, client_fd)
  <2>1. q \in Seq(Request) /\ Len(q) = Len(s)
    BY NodeAssumption, RequestsType, Zenon
  <2>2. q[k + 1].client = client_fd
    BY <1>2, <1>4, Zenon DEF Requests
  <2>3. k < Len(q)
    BY <1>2, <2>1
  <2> HIDE DEF q
  <2> QED
    BY <2>1, <2>2, <2>3, WithoutCut, Zenon
<1>10. Taken' = Taken
  <2>1. held /= NULL => heap'[held].request = heap[held].request
    BY <1>2, <1>7, Zenon
  <2> QED
    BY <1>1, <2>1, TakenSame, Zenon
<1> QED
  BY <1>5, <1>8, <1>9, <1>10, Zenon

(* A turn that keeps a node changes nothing the callers see. *)
LEMMA KeepMaps ==
  ASSUME NEW s \in Seq(Node), ListIs(s), DiscardKeeps
  PROVE  Items' = Items /\ Taken' = Taken
<1>1. pc = "discard" /\ pc' = "discard" /\ UNCHANGED <<heap, held, client_fd>>
  BY Zenon DEF DiscardKeeps
<1>2. ListIs(s)'
  BY NodeAssumption, DiscardKeepsStep, Zenon
<1>3. Items' = Items
  BY <1>1, <1>2, ItemsHold, ItemsHoldNext, Zenon DEF ItemsFit, ItemsOf
<1>4. Taken' = Taken
  BY <1>1, TakenSame, Zenon
<1> QED
  BY <1>3, <1>4, Zenon

(* When the discard loop ends, nothing is left that the callers did not    *)
(* see.                                                                    *)
LEMMA DiscardReturnMaps ==
  ASSUME NEW s \in Seq(Node), ListIs(s), DiscardReturns
  PROVE  Items' = Items /\ Taken' = Taken
<1>1. pc = "discard" /\ pc' = "idle" /\ UNCHANGED <<heap, held>>
  BY Zenon DEF DiscardReturns
<1>2. ListIs(s)' /\ Kept(s, Len(s))
  BY NodeAssumption, DiscardReturnsStep, Zenon
<1> DEFINE q == Requests(heap, s)
<1>3. Items = Without(q, client_fd) /\ Items' = q
  BY <1>1, <1>2, ItemsHold, ItemsHoldNext, Zenon DEF ItemsFit, ItemsOf
<1>4. q \in Seq(Request) /\ Len(q) = Len(s)
  BY NodeAssumption, RequestsType, Zenon
<1>5. \A i \in 1..Len(s) : q[i].client /= client_fd
  BY <1>2, Zenon DEF Kept, Requests
<1> HIDE DEF q
<1>6. \A i \in 1..Len(q) : q[i].client /= client_fd
  BY <1>4, <1>5, Zenon
<1>7. Without(q, client_fd) = q
  BY <1>4, <1>6, WithoutNone, Zenon
<1>8. Taken' = Taken
  BY <1>1, TakenSame, Zenon
<1> QED
  BY <1>3, <1>7, <1>8, Zenon

(* A turn of the clear loop changes nothing the callers see. *)
LEMMA ClearFreesMaps ==
  ASSUME NEW s \in Seq(Node), ListIs(s), ClearFrees
  PROVE  Items' = Items /\ Taken' = Taken
<1>1. pc = "clear" /\ pc' = "clear" /\ held' = held
  BY Zenon DEF ClearFrees
<1>2. /\ ListIs(Cut(s, 0))' /\ DOMAIN heap' = DOMAIN heap \ {current}
      /\ \A x \in DOMAIN heap' : heap'[x] = heap[x]
  BY NodeAssumption, ClearFreesStep, Zenon
<1>3. Cut(s, 0) \in Seq(Node) /\ Owned(Cut(s, 0))'
  BY <1>2, Zenon DEF ListIs, Linked
<1>4. Items = <<>> /\ Items' = <<>>
  BY <1>1, <1>2, <1>3, ItemsHold, ItemsHoldNext, Zenon DEF ItemsFit, ItemsOf
<1>5. held /= NULL => held \in DOMAIN heap'
  BY <1>1, <1>3, Zenon DEF Owned
<1>6. Taken' = Taken
  BY <1>1, <1>2, <1>5, TakenSame, Zenon
<1> QED
  BY <1>4, <1>6, Zenon

(* The end of a clear changes nothing the callers see. *)
LEMMA ClearReturnMaps ==
  ASSUME NEW s \in Seq(Node), ListIs(s), ClearReturns
  PROVE  Items' = Items /\ Taken' = Taken
<1>1. pc = "clear" /\ pc' = "idle" /\ UNCHANGED <<heap, held>>
  BY Zenon DEF ClearReturns
<1>2. s = <<>> /\ ListIs(s)'
  BY NodeAssumption, ClearReturnsStep, Zenon
<1>3. Items = <<>> /\ Items' = Requests(heap', s)
  BY <1>1, <1>2, ItemsHold, ItemsHoldNext, Zenon DEF ItemsFit, ItemsOf
<1>4. Requests(heap', s) = <<>>
  BY <1>2 DEF Requests
<1>5. Taken' = Taken
  BY <1>1, TakenSame, Zenon
<1> QED
  BY <1>3, <1>4, <1>5, Zenon

(* A step that changes nothing changes nothing the callers see.            *)
LEMMA StutterMaps ==
  ASSUME NEW s \in Seq(Node), ListIs(s), UNCHANGED vars
  PROVE  Items' = Items /\ Taken' = Taken
<1>1. heap' = heap /\ held' = held /\ pc' = pc /\ client_fd' = client_fd
  BY Zenon DEF vars, loop
<1>2. Taken' = Taken
  BY <1>1, TakenSame, Zenon
<1>3. ListIs(s)'
  BY StutterList, Zenon
<1>4. TypeOK
  BY Zenon DEF ListIs
<1>5. pc = "idle" \/ pc = "discard" \/ pc = "clear"
  BY <1>4, Zenon DEF TypeOK
<1>6. ItemsOf(s) /\ ItemsOf(s)'
  BY <1>3, ItemsHold, ItemsHoldNext, Zenon DEF ItemsFit
<1>7. Items' = Items
  BY <1>1, <1>5, <1>6, Zenon DEF ItemsOf
<1> QED
  BY <1>2, <1>7, Zenon

(* Every step of the list is one of the queue of queue.h, or a turn of a   *)
(* loop that its callers cannot see.                                       *)
LEMMA StepMaps ==
  ASSUME QueueInv, [Next]_vars
  PROVE  [Fifo!Next]_(Fifo!vars)
<1>1. PICK s \in Seq(Node) : ListIs(s)
  BY Zenon DEF QueueInv
<1>2. ASSUME Items' = Items, Taken' = Taken PROVE UNCHANGED Fifo!vars
  BY <1>2, Zenon DEF Fifo!vars, Taken
<1>3. CASE \E r \in Request : Enqueue(r)
  <2>1. PICK r \in Request : Enqueue(r)
    BY <1>3
  <2>2. Fifo!Enqueue(r)
    BY <1>1, <2>1, EnqueueMaps, Zenon DEF Fifo!Enqueue, Taken
  <2>3. r \in Fifo!Request
    BY <2>1, Zenon DEF Fifo!Request, Request
  <2> QED
    BY <2>2, <2>3, Zenon DEF Fifo!Next
<1>4. CASE Dequeue
  BY <1>1, <1>4, DequeueMaps, Zenon DEF Fifo!Next, Fifo!Dequeue, Fifo!NoRequest, Taken
<1>5. CASE Destroy
  BY <1>1, <1>5, DestroyMaps, Zenon DEF Fifo!Next, Fifo!Destroy, Fifo!NoRequest, Taken
<1>6. CASE Clear
  BY <1>1, <1>6, ClearMaps, Zenon DEF Fifo!Next, Fifo!Clear, Taken
<1>7. CASE \E c \in Client : Discard(c)
  <2>1. PICK c \in Client : Discard(c)
    BY <1>7
  <2>2. Items' = Fifo!Without(Items, c) /\ Taken' = Taken
    BY <1>1, <2>1, DiscardMaps, FifoWithout, Zenon
  <2>3. Fifo!Discard(c)
    BY <2>2, Zenon DEF Fifo!Discard, Taken
  <2> QED
    BY <2>3, Zenon DEF Fifo!Next
<1>8. CASE DiscardStep
  BY <1>1, <1>2, <1>8, UnlinkMaps, KeepMaps, DiscardReturnMaps, Zenon DEF DiscardStep
<1>9. CASE ClearStep
  BY <1>1, <1>2, <1>9, ClearFreesMaps, ClearReturnMaps, Zenon DEF ClearStep
<1>10. CASE UNCHANGED vars
  BY <1>1, <1>2, <1>10, StutterMaps, Zenon
<1> QED
  BY <1>3, <1>4, <1>5, <1>6, <1>7, <1>8, <1>9, <1>10, Zenon DEF Next

(* A new queue is an empty one. *)
LEMMA InitMaps == Init => Fifo!Init
<1> SUFFICES ASSUME Init PROVE Items = <<>> /\ Taken = <<>>
  BY Zenon DEF Fifo!Init, Fifo!NoRequest, Taken
<1>1. pc = "idle" /\ held = NULL
  BY Zenon DEF Init
<1>2. ListIs(<<>>) /\ <<>> \in Seq(Node)
  BY NodeAssumption, InitList
<1>3. Items = Requests(heap, <<>>)
  BY <1>1, <1>2, ItemsHold, Zenon DEF ItemsFit, ItemsOf
<1>4. Requests(heap, <<>>) = <<>>
  BY DEF Requests
<1> QED
  BY <1>1, <1>3, <1>4, Zenon DEF Taken

(* The list with its loops implements the queue of queue.h: what is        *)
(* enqueued comes out once and in order, and a discard takes out one       *)
(* client's requests and no others, for a queue of any length (IsFifo).    *)
THEOREM QueueIsFifo == Spec => IsFifo
<1>1. QueueInv /\ [Next]_vars => [Fifo!Next]_(Fifo!vars)
  BY StepMaps, Zenon
<1> QED
  BY <1>1, InitMaps, QueueInvariant, PTL DEF Spec, IsFifo, Fifo!Spec
==============================================================================
