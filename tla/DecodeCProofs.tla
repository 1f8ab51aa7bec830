--------------------------- MODULE DecodeCProofs ---------------------------
(***************************************************************************)
(* Proofs about the generated C decoder, for any file, any instruction and *)
(* any answers of the translators.  First, the calls of __build_tree hang  *)
(* together: each Tree has a place of its own, and below it one for each   *)
(* of its members.  Then, when the decoder runs, the statements it is in   *)
(* stand for the patterns still to be called, in the order of the file.    *)
(***************************************************************************)
EXTENDS DecodeC, DecodeTreeProofs

-----------------------------------------------------------------------------
(* A place in the code: a group and the case labels in its tree.           *)
Same(s, t) == s.group = t.group /\ s.path = t.path

(* Where a member of a Tree goes, and the members that go there with it.   *)
Case(t, i) == Append(t.path, pats[i].bits \intersect t.thismask)
With(t, i) == {j \in t.pats : pats[j].bits \intersect t.thismask = pats[i].bits \intersect t.thismask}

IsCall(s, g, path, ps, m) ==
  s.group = g /\ s.path = path /\ s.pats = ps /\ s.mask = m
IsTree(s, g, path, ps, m) ==
  s.group = g /\ s.path = path /\ s.pats = ps /\ s.mask = m \union s.thismask
Made(g, path, ps, m) ==
  \/ \E s \in todo : IsCall(s, g, path, ps, m)
  \/ \E s \in trees : IsTree(s, g, path, ps, m)

IsLeaf(l, t) ==
  l.pat \in t.pats /\ l.group = t.group /\ l.path = Case(t, l.pat) /\ l.mask = t.mask

Addressed(t) ==
  /\ t.group \in ExcGroups /\ t.path \in Seq(SUBSET Bits)
  /\ t.pats \subseteq Children(t.group)
TreeTypes ==
  /\ \A t \in todo : Addressed(t)
  /\ \A t \in trees :
       /\ Addressed(t) /\ t.thismask \subseteq Bits
       /\ \A i \in t.pats : t.thismask \subseteq pats[i].mask

Unique ==
  /\ \A s, t \in todo : Same(s, t) => s = t
  /\ \A s, t \in trees : Same(s, t) => s = t
  /\ \A s, t \in leaves : Same(s, t) => s = t
  /\ \A s \in todo, t \in trees : ~ Same(s, t)
  /\ \A s \in todo, l \in leaves : ~ Same(s, l)
  /\ \A s \in trees, l \in leaves : ~ Same(s, l)

Uppers ==
  /\ \A s \in todo : s.path # <<>> =>
       \E t \in trees : \E i \in t.pats : IsCall(s, t.group, Case(t, i), With(t, i), t.mask)
  /\ \A s \in trees : s.path # <<>> =>
       \E t \in trees : \E i \in t.pats : IsTree(s, t.group, Case(t, i), With(t, i), t.mask)
  /\ \A l \in leaves : \E t \in trees : IsLeaf(l, t)

Lowers ==
  \A t \in trees : \A i \in t.pats :
    \/ Made(t.group, Case(t, i), With(t, i), t.mask)
    \/ \E l \in leaves : l.pat = i /\ IsLeaf(l, t)

Roots == \A g \in ExcGroups : Made(g, <<>>, Children(g), GroupMask(g))

Grown ==
  /\ Parsing \/ stage = "masks" => trees = {}
  /\ TreeTypes /\ Unique /\ Uppers /\ Lowers
  /\ stage \in {"build", "built"} => Roots

-----------------------------------------------------------------------------
(* A longer way is another, and it tells where it comes from.              *)
LEMMA AppendWay ==
  ASSUME NEW S, NEW p \in Seq(S), NEW x \in S
  PROVE  /\ Append(p, x) # p /\ Append(p, x) # <<>>
         /\ \A q \in Seq(S), y \in S : Append(p, x) = Append(q, y) => p = q /\ x = y
<1>1. Len(Append(p, x)) = Len(p) + 1 /\ Len(p) \in Nat
  OBVIOUS
<1>2. ASSUME NEW q \in Seq(S), NEW y \in S, Append(p, x) = Append(q, y)
      PROVE  p = q /\ x = y
  <2>1. Len(p) = Len(q)
    BY <1>1, <1>2
  <2>2. x = y
    <3>1. Append(p, x)[Len(p) + 1] = x /\ Append(q, y)[Len(q) + 1] = y
      OBVIOUS
    <3>. QED
      BY <1>2, <2>1, <3>1
  <2>3. \A k \in 1..Len(p) : p[k] = q[k]
    <3>1. \A k \in 1..Len(p) : Append(p, x)[k] = p[k] /\ Append(q, y)[k] = q[k]
      BY <2>1
    <3>. QED
      BY <1>2, <3>1
  <2>. QED
    BY <2>1, <2>2, <2>3
<1>. QED
  BY <1>1, <1>2

LEMMA CaseWay ==
  ASSUME TreeTypes, NEW t \in trees, NEW i
  PROVE  /\ t.path \in Seq(SUBSET Bits)
         /\ pats[i].bits \intersect t.thismask \in SUBSET Bits
         /\ Case(t, i) \in Seq(SUBSET Bits)
         /\ Case(t, i) # <<>>
<1>1. t.path \in Seq(SUBSET Bits) /\ pats[i].bits \intersect t.thismask \in SUBSET Bits
  BY DEF TreeTypes, Addressed
<1>. QED
  BY <1>1, AppendWay DEF Case

(* Nothing is below a call that was not made.                              *)
LEMMA NothingBelow ==
  ASSUME TreeTypes, Unique, Uppers, NEW t \in todo, NEW x \in SUBSET Bits,
         NEW s \in todo \union trees \union leaves, s.group = t.group
  PROVE  s.path # Append(t.path, x)
<1>. SUFFICES ASSUME s.path = Append(t.path, x) PROVE FALSE
  OBVIOUS
<1>0. t.path \in Seq(SUBSET Bits)
  BY DEF TreeTypes, Addressed
<1>1. s.path # <<>>
  BY <1>0, AppendWay
<1>2. PICK p \in trees : \E i : p.group = s.group /\ s.path = Case(p, i)
  BY <1>1 DEF Uppers, IsCall, IsTree, IsLeaf
<1>3. PICK i : s.path = Case(p, i)
  BY <1>2
<1>4. p.path = t.path
  <2>1. p.path \in Seq(SUBSET Bits) /\ pats[i].bits \intersect p.thismask \in SUBSET Bits
    BY CaseWay
  <2>2. PICK y \in SUBSET Bits : y = pats[i].bits \intersect p.thismask
    BY <2>1
  <2>3. Append(t.path, x) = Append(p.path, y)
    BY <1>3, <2>2 DEF Case
  <2>4. \A q \in Seq(SUBSET Bits), z \in SUBSET Bits :
          Append(t.path, x) = Append(q, z) => t.path = q /\ x = z
    BY <1>0, AppendWay
  <2>. QED
    BY <2>1, <2>3, <2>4
<1>. QED
  BY <1>2, <1>4 DEF Unique, Same

(* A call that is made becomes a Tree, with new calls and leaves below it. *)
LEMMA Growth ==
  ASSUME TreeTypes, Unique, Uppers, Lowers, NEW t \in todo, NEW calls1, NEW leaves1,
         NEW T, T = Tree(t),
         UNCHANGED pats,
         todo' = (todo \ {t}) \union calls1,
         trees' = trees \union {T},
         leaves' = leaves \union leaves1,
         \A c \in calls1 : \E i \in T.pats : IsCall(c, T.group, Case(T, i), With(T, i), T.mask),
         \A l \in leaves1 : IsLeaf(l, T),
         \A i \in T.pats : \/ \E c \in calls1 : IsCall(c, T.group, Case(T, i), With(T, i), T.mask)
                           \/ \E l \in leaves1 : l.pat = i /\ IsLeaf(l, T),
         \A c, d \in calls1 : Same(c, d) => c = d,
         \A l, m \in leaves1 : Same(l, m) => l = m,
         \A c \in calls1, l \in leaves1 : ~ Same(c, l)
  PROVE  /\ TreeTypes' /\ Unique' /\ Uppers' /\ Lowers'
         /\ Roots => Roots'
<1>. DEFINE ways == {Append(t.path, x) : x \in SUBSET Bits}
<1>1. /\ T.group = t.group /\ T.path = t.path /\ T.pats = t.pats
      /\ T.mask = t.mask \union T.thismask /\ T.thismask = innermask(t)
  BY DEF Tree, fullmask
<1>2. Addressed(t) /\ t.path \in Seq(SUBSET Bits) /\ t.path \notin ways
  BY AppendWay DEF TreeTypes, Addressed
<1>3. T.thismask \subseteq Bits /\ \A i \in T.pats : T.thismask \subseteq pats[i].mask
  BY <1>1 DEF innermask
<1>4. \A i : Case(T, i) \in ways /\ Case(T, i) \in Seq(SUBSET Bits)
  <2>1. \A i : pats[i].bits \intersect T.thismask \in SUBSET Bits
    BY <1>3
  <2>2. \A i : Case(T, i) = Append(t.path, pats[i].bits \intersect T.thismask)
    BY <1>1 DEF Case
  <2>3. \A x \in SUBSET Bits : Append(t.path, x) \in Seq(SUBSET Bits)
    BY <1>2
  <2>. QED
    BY <2>1, <2>2, <2>3
<1>5. ASSUME NEW s \in calls1 \union leaves1
      PROVE  s.group = t.group /\ s.path \in ways /\ s.path \in Seq(SUBSET Bits)
  BY <1>1, <1>4, <1>5 DEF IsCall, IsLeaf
<1>6. ASSUME NEW s \in todo \union trees \union leaves, s.group = t.group
      PROVE  s.path \notin ways
  BY <1>6, NothingBelow
<1>7. /\ ExcGroups' = ExcGroups /\ (\A g : Children(g)' = Children(g) /\ GroupMask(g)' = GroupMask(g))
      /\ \A s, i : Case(s, i)' = Case(s, i) /\ With(s, i)' = With(s, i)
      /\ \A l, s : IsLeaf(l, s)' = IsLeaf(l, s)
  BY DEF ExcGroups, Children, GroupMask, Case, With, IsLeaf
<1>. HIDE DEF ways
<1>8. TreeTypes'
  <2>1. ASSUME NEW c \in calls1 PROVE Addressed(c)
    <3>1. PICK i \in T.pats : IsCall(c, T.group, Case(T, i), With(T, i), T.mask)
      OBVIOUS
    <3>2. c.pats \subseteq Children(c.group) /\ c.group \in ExcGroups
      BY <1>1, <1>2, <3>1 DEF IsCall, With, Addressed
    <3>. QED
      BY <1>5, <3>2 DEF Addressed
  <2>2. Addressed(T)
    BY <1>1, <1>2 DEF Addressed
  <2>. QED
    BY <1>3, <1>7, <2>1, <2>2 DEF TreeTypes, Addressed
<1>9. Unique'
  <2>1. \A s \in todo', v \in todo' : Same(s, v) => s = v
    BY <1>5, <1>6 DEF Unique, Same
  <2>2. \A s \in trees', v \in trees' : Same(s, v) => s = v
    BY <1>1 DEF Unique, Same
  <2>3. \A s \in leaves', v \in leaves' : Same(s, v) => s = v
    BY <1>5, <1>6 DEF Unique, Same
  <2>4. \A s \in todo', v \in trees' : ~ Same(s, v)
    BY <1>1, <1>2, <1>5, <1>6 DEF Unique, Same
  <2>5. \A s \in todo', l \in leaves' : ~ Same(s, l)
    BY <1>1, <1>5, <1>6 DEF Unique, Same
  <2>6. \A s \in trees', l \in leaves' : ~ Same(s, l)
    BY <1>1, <1>2, <1>5, <1>6 DEF Unique, Same
  <2>. QED
    BY <2>1, <2>2, <2>3, <2>4, <2>5, <2>6 DEF Unique, Same
<1>10. ASSUME NEW g, NEW path, NEW ps, NEW m, Made(g, path, ps, m)
       PROVE  Made(g, path, ps, m)'
  <2>1. CASE IsCall(t, g, path, ps, m)
    BY <1>1, <2>1 DEF IsCall, IsTree, Made
  <2>. QED
    BY <1>10, <2>1 DEF Made
<1>11. Uppers'
  <2>1. ASSUME NEW s \in todo', s.path # <<>>
        PROVE  \E p \in trees' : \E i \in p.pats : IsCall(s, p.group, Case(p, i), With(p, i), p.mask)
    BY <2>1 DEF Uppers
  <2>2. ASSUME NEW s \in trees', s.path # <<>>
        PROVE  \E p \in trees' : \E i \in p.pats : IsTree(s, p.group, Case(p, i), With(p, i), p.mask)
    <3>1. CASE s \in trees
      BY <2>2, <3>1 DEF Uppers
    <3>2. CASE s = T
      <4>1. PICK p \in trees : \E i \in p.pats : IsCall(t, p.group, Case(p, i), With(p, i), p.mask)
        BY <1>1, <2>2, <3>2 DEF Uppers
      <4>2. PICK i \in p.pats : IsCall(t, p.group, Case(p, i), With(p, i), p.mask)
        BY <4>1
      <4>3. IsTree(T, p.group, Case(p, i), With(p, i), p.mask)
        BY <1>1, <4>2 DEF IsCall, IsTree
      <4>. QED
        BY <3>2, <4>3
    <3>. QED
      BY <3>1, <3>2
  <2>3. \A l \in leaves' : \E p \in trees' : IsLeaf(l, p)
    BY DEF Uppers
  <2>. QED
    BY <1>7, <2>1, <2>2, <2>3 DEF Uppers, IsCall, IsTree
<1>12. Lowers'
  <2>1. ASSUME NEW s \in trees', NEW i \in s.pats
        PROVE  \/ Made(s.group, Case(s, i), With(s, i), s.mask)'
               \/ \E l \in leaves' : l.pat = i /\ IsLeaf(l, s)
    <3>1. CASE s \in trees
      <4>1. \/ Made(s.group, Case(s, i), With(s, i), s.mask)
            \/ \E l \in leaves : l.pat = i /\ IsLeaf(l, s)
        BY <3>1 DEF Lowers
      <4>. QED
        BY <1>7, <1>10, <4>1
    <3>2. CASE s = T
      <4>1. \/ \E c \in calls1 : IsCall(c, T.group, Case(T, i), With(T, i), T.mask)
            \/ \E l \in leaves1 : l.pat = i /\ IsLeaf(l, T)
        BY <3>2
      <4>2. ASSUME NEW c \in calls1, IsCall(c, T.group, Case(T, i), With(T, i), T.mask)
            PROVE  Made(T.group, Case(T, i), With(T, i), T.mask)'
        BY <1>7, <4>2 DEF Made, IsCall
      <4>. QED
        BY <3>2, <4>1, <4>2
    <3>. QED
      BY <3>1, <3>2
  <2>. QED
    BY <1>7, <2>1 DEF Lowers
<1>13. Roots => Roots'
  BY <1>7, <1>10 DEF Roots
<1>. QED
  BY <1>8, <1>9, <1>11, <1>12, <1>13

LEMMA GrowthSplit ==
  ASSUME TreeTypes, Unique, Uppers, Lowers, NEW t \in todo, Split(t)
  PROVE  /\ TreeTypes' /\ Unique' /\ Uppers' /\ Lowers'
         /\ Roots => Roots'
<1>. DEFINE T == Tree(t)
            way(i) == Append(t.path, fb(t, i))
<1>1. /\ UNCHANGED pats
      /\ todo' = (todo \ {t}) \union SubCalls(t)
      /\ trees' = trees \union {T}
      /\ leaves' = leaves \union SubLeaves(t)
  BY DEF Split, parseVars
<1>2. \A i : Case(T, i) = way(i) /\ With(T, i) = Bin(t, i)
  BY DEF Tree, Case, With, Bin, fb
<1>3. T.group = t.group /\ T.pats = t.pats /\ T.mask = fullmask(t)
  BY DEF Tree
<1>4. ASSUME NEW i \in t.pats, NEW j \in t.pats, way(i) = way(j)
      PROVE  i \in Bin(t, j) /\ j \in Bin(t, i) /\ Bin(t, i) = Bin(t, j)
  <2>1. t.path \in Seq(SUBSET Bits)
    BY DEF TreeTypes, Addressed
  <2>2. fb(t, i) \in SUBSET Bits /\ fb(t, j) \in SUBSET Bits
    BY DEF fb, innermask
  <2>3. \A q \in Seq(SUBSET Bits), z \in SUBSET Bits :
          way(i) = Append(q, z) => t.path = q /\ fb(t, i) = z
    BY <2>1, <2>2, AppendWay
  <2>4. fb(t, i) = fb(t, j)
    BY <1>4, <2>1, <2>2, <2>3
  <2>. QED
    BY <2>4 DEF Bin
<1>5. ASSUME NEW c \in SubCalls(t)
      PROVE  \E i \in t.pats : /\ ~ Settled(t, i)
                               /\ c = Call(t.group, Bin(t, i), fullmask(t), way(i))
  BY DEF SubCalls
<1>6. ASSUME NEW l \in SubLeaves(t)
      PROVE  l.pat \in t.pats /\ Settled(t, l.pat) /\ l = Leaf(t, l.pat)
  BY DEF SubLeaves, Leaf
<1>7. ASSUME NEW i \in t.pats
      PROVE  IsCall(Call(t.group, Bin(t, i), fullmask(t), way(i)),
                    T.group, Case(T, i), With(T, i), T.mask)
  BY <1>2, <1>3 DEF IsCall, Call
<1>8. ASSUME NEW i \in t.pats
      PROVE  IsLeaf(Leaf(t, i), T) /\ Leaf(t, i).pat = i
  BY <1>2, <1>3 DEF IsLeaf, Leaf
<1>9. \A c \in SubCalls(t) : \E i \in T.pats : IsCall(c, T.group, Case(T, i), With(T, i), T.mask)
  BY <1>3, <1>5, <1>7
<1>10. \A l \in SubLeaves(t) : IsLeaf(l, T)
  BY <1>6, <1>8
<1>11. ASSUME NEW i \in T.pats
       PROVE  \/ \E c \in SubCalls(t) : IsCall(c, T.group, Case(T, i), With(T, i), T.mask)
              \/ \E l \in SubLeaves(t) : l.pat = i /\ IsLeaf(l, T)
  <2>1. CASE Settled(t, i)
    <3>1. Leaf(t, i) \in SubLeaves(t)
      BY <1>3, <2>1 DEF SubLeaves
    <3>. QED
      BY <1>3, <1>8, <3>1
  <2>2. CASE ~ Settled(t, i)
    <3>1. Call(t.group, Bin(t, i), fullmask(t), way(i)) \in SubCalls(t)
      BY <1>3, <2>2 DEF SubCalls
    <3>. QED
      BY <1>3, <1>7, <3>1
  <2>. QED
    BY <2>1, <2>2
<1>12. ASSUME NEW c \in SubCalls(t), NEW d \in SubCalls(t), Same(c, d) PROVE c = d
  <2>1. PICK i \in t.pats : c = Call(t.group, Bin(t, i), fullmask(t), way(i))
    BY <1>5
  <2>2. PICK j \in t.pats : d = Call(t.group, Bin(t, j), fullmask(t), way(j))
    BY <1>5
  <2>3. way(i) = way(j)
    BY <1>12, <2>1, <2>2 DEF Same, Call
  <2>4. Bin(t, i) = Bin(t, j)
    BY <1>4, <2>3
  <2>. QED
    BY <2>1, <2>2, <2>3, <2>4
<1>13. ASSUME NEW l \in SubLeaves(t), NEW m \in SubLeaves(t), Same(l, m) PROVE l = m
  <2>1. way(l.pat) = way(m.pat)
    BY <1>6, <1>13 DEF Same, Leaf
  <2>2. l.pat = m.pat
    BY <1>4, <1>6, <2>1 DEF Settled
  <2>. QED
    BY <1>6, <2>2
<1>14. ASSUME NEW c \in SubCalls(t), NEW l \in SubLeaves(t), Same(c, l) PROVE FALSE
  <2>1. PICK i \in t.pats : ~ Settled(t, i) /\ c = Call(t.group, Bin(t, i), fullmask(t), way(i))
    BY <1>5
  <2>2. way(i) = way(l.pat)
    BY <1>6, <1>14, <2>1 DEF Same, Leaf, Call
  <2>3. i = l.pat
    BY <1>4, <1>6, <2>2 DEF Settled
  <2>. QED
    BY <1>6, <2>1, <2>3
<1>. HIDE DEF T
<1>15. T = Tree(t)
  BY DEF T
<1>. QED
  BY <1>1, <1>9, <1>10, <1>11, <1>12, <1>13, <1>14, <1>15, Growth

LEMMA GrowthSole ==
  ASSUME TreeTypes, Unique, Uppers, Lowers, NEW t \in todo, SoleLeaf(t)
  PROVE  /\ TreeTypes' /\ Unique' /\ Uppers' /\ Lowers'
         /\ Roots => Roots'
<1>. DEFINE T == Tree(t)
<1>1. PICK i \in t.pats : t.pats = {i} /\ leaves' = leaves \union {Leaf(t, i)}
  BY DEF SoleLeaf
<1>2. /\ UNCHANGED pats
      /\ todo' = (todo \ {t}) \union {}
      /\ trees' = trees \union {T}
  BY DEF SoleLeaf, parseVars
<1>3. T.pats = {i} /\ IsLeaf(Leaf(t, i), T) /\ Leaf(t, i).pat = i
  BY <1>1 DEF Tree, IsLeaf, Leaf, Case, fb
<1>. HIDE DEF T
<1>4. T = Tree(t)
  BY DEF T
<1>5. \A k \in T.pats : \E l \in {Leaf(t, i)} : l.pat = k /\ IsLeaf(l, T)
  BY <1>3
<1>. DEFINE calls1 == {}
            leaves1 == {Leaf(t, i)}
<1>6. /\ \A c \in calls1 : FALSE
      /\ \A l, m \in leaves1 : l = m
      /\ \A l \in leaves1 : IsLeaf(l, T)
      /\ \A k \in T.pats : \E l \in leaves1 : l.pat = k /\ IsLeaf(l, T)
      /\ todo' = (todo \ {t}) \union calls1 /\ leaves' = leaves \union leaves1
  BY <1>1, <1>2, <1>3, <1>5
<1>. HIDE DEF calls1, leaves1
<1>7. /\ \A c \in calls1 : \E k \in T.pats : IsCall(c, T.group, Case(T, k), With(T, k), T.mask)
      /\ \A k \in T.pats : \/ \E c \in calls1 : IsCall(c, T.group, Case(T, k), With(T, k), T.mask)
                          \/ \E l \in leaves1 : l.pat = k /\ IsLeaf(l, T)
      /\ \A c, d \in calls1 : Same(c, d) => c = d
      /\ \A l, m \in leaves1 : Same(l, m) => l = m
      /\ \A c \in calls1, l \in leaves1 : ~ Same(c, l)
  BY <1>6
<1>. QED
  BY <1>2, <1>4, <1>6, <1>7, Growth

LEMMA GrownInit == Init /\ TreeInit => Grown
BY DEF Init, TreeInit, Grown, TreeTypes, Unique, Uppers, Lowers

(* A step that leaves the patterns and the trees as they are.              *)
LEMMA GrownStage ==
  ASSUME GroupInv, Grown, UNCHANGED <<pats, todo, trees, leaves>>,
         \/ stage' = stage
         \/ stage' = "error"
         \/ stage = "build" /\ stage' = "built"
  PROVE  Grown'
<1>1. TreeTypes' /\ Unique' /\ Uppers' /\ Lowers'
  <2>1. TreeTypes'
    BY DEF Grown, TreeTypes, Addressed, ExcGroups, Children
  <2>2. Unique'
    BY DEF Grown, Unique
  <2>3. /\ \A s, i : Case(s, i)' = Case(s, i) /\ With(s, i)' = With(s, i)
        /\ \A l, s : IsLeaf(l, s)' = IsLeaf(l, s)
        /\ \A g, path, ps, m : Made(g, path, ps, m)' = Made(g, path, ps, m)
    BY DEF Case, With, IsLeaf, Made
  <2>4. Uppers'
    BY <2>3 DEF Grown, Uppers
  <2>5. Lowers'
    BY <2>3 DEF Grown, Lowers
  <2>. QED
    BY <2>1, <2>2, <2>4, <2>5
<1>2. Roots => Roots'
  BY DEF Roots, Made, ExcGroups, Children, GroupMask
<1>. QED
  BY <1>1, <1>2 DEF Grown, Parsing

LEMMA GrownStep ==
  ASSUME GroupInv, Grown, [Generate]_vars
  PROVE  Grown'
<1>1. /\ Parsing \/ stage = "masks" => todo = {} /\ trees = {} /\ leaves = {}
      /\ TreeTypes /\ Unique /\ Uppers /\ Lowers
      /\ stage \in {"build", "built"} => Roots
  BY DEF GroupInv, IndInv, Quiet, Grown
<1>2. ASSUME Parsing \/ stage = "masks", UNCHANGED <<todo, trees, leaves>>,
             stage' \notin {"build", "built"}
      PROVE  Grown'
  BY <1>1, <1>2 DEF Grown, TreeTypes, Unique, Uppers, Lowers
<1>3. ASSUME UNCHANGED <<pats, todo, trees, leaves>>,
             \/ stage' = stage
             \/ stage' = "error"
             \/ stage = "build" /\ stage' = "built"
      PROVE  Grown'
  BY <1>3, GrownStage
<1>4. CASE Parse /\ UNCHANGED treeVars
  <2>1. Parsing /\ stage' \notin {"build", "built"}
    BY <1>4 DEF Parse, Parsing, SkipLine, MisplacedComment, ReadLine, EndOfFile, OpenGroup,
           CloseGroup, BadGroup, BadDeclaration, ParseField, ParseArguments,
           BadFieldOrArguments, StartGeneric, TakeToken, BadToken, ParseFormat,
           ParsePattern, BadLine, Starts, Declares, Ends, Fail
  <2>. QED
    BY <1>2, <1>4, <2>1 DEF treeVars
<1>5. CASE StartProp \/ PropMasks
  BY <1>2, <1>5 DEF StartProp, PropMasks, EnterGroup, EmptyGroup, Widen, Settle, Parsing, treeVars
<1>6. CASE StartBuild
  <2>1. /\ trees' = {} /\ leaves' = {} /\ stage' = "build" /\ pats' = pats
        /\ todo' = {Call(g, Children(g), GroupMask(g), <<>>) : g \in ExcGroups}
    BY <1>1, <1>6 DEF StartBuild, parseVars
  <2>2. /\ ExcGroups' = ExcGroups
        /\ \A g : Children(g)' = Children(g) /\ GroupMask(g)' = GroupMask(g)
    BY <2>1 DEF ExcGroups, Children, GroupMask
  <2>3. ASSUME NEW s \in todo'
        PROVE  /\ s.group \in ExcGroups /\ s.path = <<>>
               /\ s = Call(s.group, Children(s.group), GroupMask(s.group), <<>>)
               /\ s.pats = Children(s.group)
    BY <2>1 DEF Call
  <2>4. ASSUME NEW g \in ExcGroups PROVE Made(g, <<>>, Children(g), GroupMask(g))'
    <3>1. Call(g, Children(g), GroupMask(g), <<>>) \in todo'
      BY <2>1
    <3>2. IsCall(Call(g, Children(g), GroupMask(g), <<>>), g, <<>>, Children(g), GroupMask(g))
      BY DEF IsCall, Call
    <3>. QED
      BY <2>2, <3>1, <3>2 DEF Made
  <2>5. Roots'
    BY <2>2, <2>4 DEF Roots
  <2>6. TreeTypes'
    <3>1. <<>> \in Seq(SUBSET Bits)
      OBVIOUS
    <3>2. \A s \in todo' : Addressed(s)'
      BY <2>2, <2>3, <3>1 DEF Addressed
    <3>. QED
      BY <2>1, <3>2 DEF TreeTypes
  <2>7. Unique'
    BY <2>1, <2>3 DEF Unique, Same
  <2>8. Uppers' /\ Lowers'
    BY <2>1, <2>3 DEF Uppers, Lowers
  <2>. QED
    BY <2>1, <2>5, <2>6, <2>7, <2>8 DEF Grown, Parsing
<1>7. ASSUME NEW t \in todo, stage = "build", Split(t) \/ SoleLeaf(t)
      PROVE  Grown'
  <2>1. stage' = "build"
    BY <1>7 DEF Split, SoleLeaf
  <2>2. /\ TreeTypes' /\ Unique' /\ Uppers' /\ Lowers'
        /\ Roots => Roots'
    BY <1>1, <1>7, GrowthSplit, GrowthSole
  <2>. QED
    BY <1>1, <1>7, <2>1, <2>2 DEF Grown, Parsing
<1>8. CASE BuildTree
  BY <1>3, <1>7, <1>8 DEF BuildTree, Overlap, parseVars, treeVars
<1>9. CASE FinishBuild
  BY <1>3, <1>9 DEF FinishBuild, parseVars, treeVars
<1>10. CASE UNCHANGED vars
  BY <1>3, <1>10 DEF vars
<1>. QED
  BY <1>4, <1>5, <1>6, <1>8, <1>9, <1>10 DEF Generate

-----------------------------------------------------------------------------
(* A set of numbers as an increasing sequence.                             *)
Sorted(s, S) ==
  /\ s \in Seq(Nat)
  /\ \A k \in DOMAIN s : s[k] \in S
  /\ \A i \in S : \E k \in DOMAIN s : s[k] = i
  /\ \A j, k \in DOMAIN s : j < k => s[j] < s[k]

LEMMA SortedAppend ==
  ASSUME NEW n \in Nat, NEW S \in SUBSET (0..(n - 1)), NEW s, Sorted(s, S)
  PROVE  Sorted(Append(s, n), S \union {n})
<1>1. /\ s \in Seq(Nat) /\ DOMAIN s = 1..Len(s) /\ Len(s) \in Nat
      /\ \A k \in DOMAIN s : s[k] < n
  BY DEF Sorted
<1>. DEFINE longer == Append(s, n)
<1>2. /\ longer \in Seq(Nat) /\ DOMAIN longer = 1..(Len(s) + 1)
      /\ longer[Len(s) + 1] = n
      /\ \A k \in DOMAIN s : longer[k] = s[k]
  BY <1>1
<1>. HIDE DEF longer
<1>3. \A k \in DOMAIN longer : k = Len(s) + 1 \/ k \in DOMAIN s
  BY <1>1, <1>2
<1>4. \A k \in DOMAIN longer : longer[k] \in S \union {n}
  BY <1>2, <1>3 DEF Sorted
<1>5. \A i \in S \union {n} : \E k \in DOMAIN longer : longer[k] = i
  <2>1. \A i \in S : \E k \in DOMAIN longer : longer[k] = i
    <3>1. DOMAIN s \subseteq DOMAIN longer
      BY <1>1, <1>2
    <3>. QED
      BY <1>2, <3>1 DEF Sorted
  <2>2. Len(s) + 1 \in DOMAIN longer
    BY <1>1, <1>2
  <2>. QED
    BY <1>2, <2>1, <2>2
<1>6. ASSUME NEW j \in DOMAIN longer, NEW k \in DOMAIN longer, j < k
      PROVE  longer[j] < longer[k]
  <2>1. j \in DOMAIN s
    BY <1>1, <1>2, <1>6
  <2>2. CASE k \in DOMAIN s
    BY <1>2, <1>6, <2>1, <2>2 DEF Sorted
  <2>3. CASE k = Len(s) + 1
    BY <1>1, <1>2, <2>1, <2>3
  <2>. QED
    BY <1>3, <2>2, <2>3
<1>7. Sorted(longer, S \union {n})
  BY <1>2, <1>4, <1>5, <1>6 DEF Sorted
<1>. QED
  BY <1>7 DEF longer

(* InOrder is what its name says.                                          *)
LEMMA InOrderSorted ==
  ASSUME IsSeq(pats), NEW S \in SUBSET DOMAIN pats
  PROVE  Sorted(InOrder(S), S)
<1>1. PICK n \in Nat : n = Len(pats) /\ DOMAIN pats = 1..n
  BY IsSeqLen
<1>. DEFINE X == Seq(Nat)
            x0 == <<>>
            step == [kx \in (1..n) \X X |->
                       IF kx[1] \in S THEN Append(kx[2], kx[1]) ELSE kx[2]]
<1>2. x0 \in X
  OBVIOUS
<1>3. step \in Steps(n, X)
  BY DEF Steps
<1>4. \A k \in 1..n, x \in X : step[<<k, x>>] = IF k \in S THEN Append(x, k) ELSE x
  OBVIOUS
<1>. HIDE DEF step, X, x0
<1>5. PICK f \in [0..n -> X] : f[0] = x0 /\ \A k \in 1..n : f[k] = step[<<k, f[k - 1]>>]
  <2>1. \E f \in [0..n -> X] : Follows(f, n, x0, step)
    BY <1>2, <1>3, Recursion
  <2>. QED
    BY <2>1 DEF Follows
<1>. USE DEF x0
<1>6. ASSUME NEW k \in 1..n
      PROVE  f[k] = IF k \in S THEN Append(f[k - 1], k) ELSE f[k - 1]
  <2>1. k - 1 \in 0..n
    OBVIOUS
  <2>. QED
    BY <1>4, <1>5, <2>1
<1>. DEFINE a == CHOOSE h : h = [k \in 0..Len(pats) |->
                                   IF k = 0 THEN <<>>
                                   ELSE IF k \in S THEN Append(h[k - 1], k) ELSE h[k - 1]]
<1>7. a = [k \in 0..Len(pats) |->
             IF k = 0 THEN <<>>
             ELSE IF k \in S THEN Append(a[k - 1], k) ELSE a[k - 1]]
  <2>1. \A k \in 0..n : f[k] = IF k = 0 THEN <<>>
                               ELSE IF k \in S THEN Append(f[k - 1], k) ELSE f[k - 1]
    <3>1. ASSUME NEW k \in 0..n, k # 0 PROVE k \in 1..n
      BY <3>1
    <3>. QED
      BY <1>5, <1>6, <3>1
  <2>2. f = [k \in 0..Len(pats) |->
               IF k = 0 THEN <<>>
               ELSE IF k \in S THEN Append(f[k - 1], k) ELSE f[k - 1]]
    BY <1>1, <2>1
  <2>3. \E h : h = [k \in 0..Len(pats) |->
                      IF k = 0 THEN <<>>
                      ELSE IF k \in S THEN Append(h[k - 1], k) ELSE h[k - 1]]
    BY <2>2, Zenon
  <2>. QED
    BY <2>3, Zenon
<1>8. InOrder(S) = a[n]
  BY <1>1, Zenon DEF InOrder
<1>. HIDE DEF a
<1>9. /\ a[0] = <<>>
      /\ \A k \in 1..n : a[k] = IF k \in S THEN Append(a[k - 1], k) ELSE a[k - 1]
  <2>1. \A k \in 0..Len(pats) :
          a[k] = IF k = 0 THEN <<>>
                 ELSE IF k \in S THEN Append(a[k - 1], k) ELSE a[k - 1]
    BY <1>7, Zenon
  <2>2. 0 \in 0..Len(pats) /\ \A k \in 1..n : k \in 0..Len(pats) /\ k # 0
    BY <1>1
  <2>. QED
    BY <2>1, <2>2
<1>. DEFINE Upto(k) == {i \in S : i <= k}
            Done == {k \in 0..n : Sorted(a[k], Upto(k))}
<1>10. ASSUME NEW k \in 0..n, \A j \in 0..(k - 1) : j \in Done
       PROVE  k \in Done
  <2>1. CASE k = 0
    <3>1. Upto(0) = {}
      BY <1>1
    <3>2. Sorted(<<>>, {})
      BY DEF Sorted
    <3>. QED
      BY <1>9, <2>1, <3>1, <3>2
  <2>2. CASE k # 0
    <3>1. k \in 1..n /\ k - 1 \in 0..(k - 1)
      BY <2>2
    <3>2. Sorted(a[k - 1], Upto(k - 1)) /\ Upto(k - 1) \in SUBSET (0..(k - 1))
      <4>1. k - 1 \in Done
        BY <1>10, <3>1
      <4>2. Sorted(a[k - 1], Upto(k - 1))
        BY <4>1
      <4>3. Upto(k - 1) \in SUBSET (0..(k - 1))
        BY <1>1
      <4>. QED
        BY <4>2, <4>3
    <3>3. CASE k \in S
      <4>1. Upto(k) = Upto(k - 1) \union {k}
        BY <1>1, <3>1, <3>3
      <4>2. a[k] = Append(a[k - 1], k)
        BY <1>9, <3>1, <3>3
      <4>. HIDE DEF Upto
      <4>3. Sorted(Append(a[k - 1], k), Upto(k - 1) \union {k})
        BY <3>2, SortedAppend
      <4>. QED
        BY <4>1, <4>2, <4>3
    <3>4. CASE k \notin S
      <4>1. Upto(k) = Upto(k - 1)
        BY <1>1, <3>1, <3>4
      <4>. QED
        BY <1>9, <3>1, <3>2, <3>4, <4>1
    <3>. QED
      BY <3>3, <3>4
  <2>. QED
    BY <2>1, <2>2
<1>. HIDE DEF Done
<1>11. n \in Done
  BY <1>10, UpTo
<1>12. Upto(n) = S
  BY <1>1
<1>. QED
  BY <1>8, <1>11, <1>12 DEF Done

(* An increasing sequence of members that leaves out only greater ones is  *)
(* the beginning of the whole.                                             *)
LEMMA Beginning ==
  ASSUME NEW C, NEW m, Sorted(m, C), NEW s \in Seq(Nat),
         \A k \in DOMAIN s : s[k] \in C,
         \A j, k \in DOMAIN s : j < k => s[j] < s[k],
         \A i \in C : (\E k \in DOMAIN s : s[k] = i) \/ \A k \in DOMAIN s : s[k] < i
  PROVE  /\ Len(s) <= Len(m)
         /\ \A k \in DOMAIN s : s[k] = m[k]
         /\ (\A i \in C : \E k \in DOMAIN s : s[k] = i) => Len(s) = Len(m)
<1>1. /\ DOMAIN s = 1..Len(s) /\ Len(s) \in Nat
      /\ DOMAIN m = 1..Len(m) /\ Len(m) \in Nat
      /\ \A k \in DOMAIN s : s[k] \in Nat
      /\ \A k \in DOMAIN m : m[k] \in Nat
  BY DEF Sorted
<1>. DEFINE Done == {k \in 0..Len(s) : k # 0 => k \in DOMAIN m /\ s[k] = m[k]}
<1>2. ASSUME NEW k \in 0..Len(s), \A j \in 0..(k - 1) : j \in Done
      PROVE  k \in Done
  <2>1. SUFFICES ASSUME k # 0 PROVE k \in DOMAIN m /\ s[k] = m[k]
    OBVIOUS
  <2>2. k \in DOMAIN s /\ s[k] \in C
    BY <1>1, <2>1
  <2>3. PICK i \in DOMAIN m : m[i] = s[k]
    BY <2>2 DEF Sorted
  <2>4. ~ (i < k)
    <3>1. SUFFICES ASSUME i < k PROVE FALSE
      OBVIOUS
    <3>2. i \in DOMAIN s /\ s[i] = m[i]
      BY <1>1, <1>2, <3>1
    <3>3. s[i] < s[k]
      BY <2>2, <3>1, <3>2
    <3>. QED
      BY <1>1, <2>2, <2>3, <3>2, <3>3
  <2>5. k \in DOMAIN m
    BY <1>1, <2>2, <2>4
  <2>6. ~ (k < i)
    <3>1. SUFFICES ASSUME k < i PROVE FALSE
      OBVIOUS
    <3>2. m[k] < s[k] /\ m[k] \in C
      BY <2>3, <2>5, <3>1 DEF Sorted
    <3>3. PICK j \in DOMAIN s : s[j] = m[k]
      BY <1>1, <2>2, <2>5, <3>2
    <3>4. j < k
      <4>1. ~ (k < j) /\ j # k
        BY <1>1, <2>2, <3>2, <3>3
      <4>. QED
        BY <1>1, <2>2, <4>1
    <3>5. s[j] = m[j] /\ j \in DOMAIN m
      BY <1>1, <1>2, <3>4
    <3>6. m[j] < m[k]
      BY <2>5, <3>4, <3>5 DEF Sorted
    <3>. QED
      BY <1>1, <2>5, <3>3, <3>5, <3>6
  <2>. QED
    BY <1>1, <2>2, <2>3, <2>4, <2>5, <2>6
<1>. HIDE DEF Done
<1>3. 0..Len(s) \subseteq Done
  BY <1>1, <1>2, UpTo
<1>4. \A k \in DOMAIN s : k \in DOMAIN m /\ s[k] = m[k]
  BY <1>1, <1>3 DEF Done
<1>5. Len(s) <= Len(m)
  BY <1>1, <1>4
<1>6. ASSUME \A i \in C : \E k \in DOMAIN s : s[k] = i, Len(s) < Len(m)
      PROVE  FALSE
  <2>1. Len(s) + 1 \in DOMAIN m
    BY <1>1, <1>6
  <2>2. PICK k \in DOMAIN s : s[k] = m[Len(s) + 1]
    BY <1>6, <2>1 DEF Sorted
  <2>3. k < Len(s) + 1 /\ k \in DOMAIN m /\ m[k] = m[Len(s) + 1]
    BY <1>1, <1>4, <2>2
  <2>4. m[k] < m[Len(s) + 1]
    BY <2>1, <2>3 DEF Sorted
  <2>. QED
    BY <1>1, <2>1, <2>3, <2>4
<1>7. (\A i \in C : \E k \in DOMAIN s : s[k] = i) => Len(s) = Len(m)
  <2>1. ~ (Len(s) < Len(m)) => Len(s) = Len(m)
    <3>1. Len(s) \in Nat /\ Len(m) \in Nat
      BY <1>1
    <3>2. PICK a \in Nat, b \in Nat : a = Len(s) /\ b = Len(m)
      BY <3>1
    <3>. QED
      BY <1>5, <3>2
  <2>. QED
    BY <1>6, <2>1
<1>8. \A k \in DOMAIN s : s[k] = m[k]
  BY <1>4
<1>. QED
  BY <1>5, <1>7, <1>8

-----------------------------------------------------------------------------
(* What the decoder relies on.                                             *)
Built ==
  /\ Numbered /\ Nested /\ todo = {}
  /\ \A i \in DOMAIN pats :
       Node(pats[i]) /\ (pats[i].mask # {} => pats[i].bits \subseteq pats[i].mask)
  /\ \A g \in Groups : Exact(g) /\ Agree(g, pats[g].mask, pats[g].bits)
  /\ TreeTypes /\ Unique /\ Uppers /\ Lowers /\ Roots /\ LeavesExact

(* The members a statement stands for, and the patterns below them.        *)
Heads(f) ==
  CASE f.do = "call" -> {f.pat}
    [] f.do = "tests" -> {f.left[k] : k \in DOMAIN f.left}
    [] f.do = "switch" -> UNION {t.pats : t \in {s \in trees : Same(s, f)}}
Cover(f) == UNION {Sub(i) : i \in Heads(f)}

(* What has been tested of a member is as the instruction has it.          *)
On(i, outer) == outer \subseteq pats[i].mask /\ pats[i].bits \intersect outer = insn \intersect outer

CallOK(f) ==
  f.pat \in DOMAIN pats /\ pats[f.pat].kind = "pattern" /\ MatchesPat(insn, f.pat)
TestsOK(f) ==
  /\ f.left \in Seq(Nat)
  /\ \A k \in DOMAIN f.left : f.left[k] \in DOMAIN pats /\ On(f.left[k], f.outer)
  /\ \A j, k \in DOMAIN f.left : pats[f.left[j]].parent = pats[f.left[k]].parent
  /\ \A j, k \in DOMAIN f.left : j < k => f.left[j] < f.left[k]
SwitchOK(f) ==
  \E t \in trees : /\ Same(t, f) /\ f.outer \union t.thismask = t.mask
                   /\ \A i \in t.pats : On(i, f.outer)
StatementOK(f) ==
  /\ f.do = "call" => CallOK(f)
  /\ f.do = "tests" => TestsOK(f)
  /\ f.do = "switch" => SwitchOK(f)
Kinds == {"call", "tests", "switch"}

(* Only the file's own tree extracts early, and for patterns only.         *)
Formatted(f, v) ==
  f.extracted =>
    f.do # "tests" /\ \A i \in Heads(f) : pats[i].kind = "pattern" /\ pats[i].fmt = v

-----------------------------------------------------------------------------
LEMMA BuiltFacts == ASSUME GroupInv, Grown, stage = "built" PROVE Built
<1>1. Numbered /\ Nested /\ todo = {} /\ LeavesExact
  BY DEF GroupInv, IndInv, Quiet, TreeInv, TypeOK, NodesOK, Shapes, Numbered
<1>2. ASSUME NEW i \in DOMAIN pats
      PROVE  Node(pats[i]) /\ (pats[i].mask # {} => pats[i].bits \subseteq pats[i].mask)
  <2>1. Node(pats[i])
    BY DEF GroupInv, IndInv, TypeOK, NodesOK
  <2>2. pats[i].kind # "pattern" => Widest(i)
    BY <1>2 DEF GroupInv, Widening, Groups
  <2>. QED
    BY <2>1, <2>2 DEF Node, Widest
<1>3. \A g \in Groups : Exact(g) /\ Agree(g, pats[g].mask, pats[g].bits)
  BY AllExact DEF GroupInv, IndInv, GroupsOK
<1>. QED
  BY <1>1, <1>2, <1>3 DEF Built, Grown

(* An instruction that matches a pattern matches the groups it is in.      *)
LEMMA MatchUp ==
  ASSUME Built, NEW j \in DOMAIN pats, NEW p \in Sub(j), MatchesPat(insn, p)
  PROVE  MatchesPat(insn, j)
<1>1. CASE pats[j].kind = "pattern"
  BY <1>1 DEF Sub
<1>2. CASE pats[j].kind # "pattern"
  <2>1. Exact(j) /\ p \in Below(j)
    BY <1>2 DEF Built, Groups, Sub
  <2>2. pats[p].bits \intersect pats[j].mask = pats[j].bits \intersect pats[j].mask
    BY <2>1 DEF Exact
  <2>3. pats[j].mask \subseteq pats[p].mask
    BY <2>1 DEF Exact, Alike
  <2>. QED
    BY <2>2, <2>3 DEF MatchesPat
<1>. QED
  BY <1>1, <1>2

(* The patterns below a group are those of its members.                    *)
LEMMA CoverMembers ==
  ASSUME Built, NEW g, NEW f, Heads(f) = Children(g)
  PROVE  Cover(f) = Below(g)
BY BelowMembers DEF Built, Cover

(* Code of a member whose bits have all been tested.                       *)
LEMMA CodeOK ==
  ASSUME Built, NEW i \in DOMAIN pats, On(i, pats[i].mask), NEW x
  PROVE  /\ Code(i, pats[i].mask, x).do \in Kinds
         /\ StatementOK(Code(i, pats[i].mask, x))
         /\ Cover(Code(i, pats[i].mask, x)) = Sub(i)
         /\ Code(i, pats[i].mask, x).extracted = x
         /\ pats[i].kind = "pattern" => /\ Code(i, pats[i].mask, x).do = "call"
                                        /\ Heads(Code(i, pats[i].mask, x)) = {i}
         /\ Code(i, pats[i].mask, x).do = "switch" => Code(i, pats[i].mask, x).group # 0
<1>. DEFINE f == Code(i, pats[i].mask, x)
<1>0. pats[i].kind \in {"pattern", "inc", "exc"}
  BY DEF Built, Node
<1>1. CASE pats[i].kind = "pattern"
  <2>1. f = CallOf(i, x)
    BY <1>1 DEF Code
  <2>2. f.do = "call" /\ f.pat = i /\ f.extracted = x
    BY <2>1 DEF CallOf
  <2>. HIDE DEF f
  <2>3. Heads(f) = {i}
    BY <2>2 DEF Heads
  <2>4. Cover(f) = Sub(i)
    BY <2>3 DEF Cover
  <2>5. StatementOK(f)
    BY <1>1, <2>2 DEF StatementOK, CallOK, On, MatchesPat
  <2>. QED
    BY <2>2, <2>3, <2>4, <2>5 DEF f, Kinds
<1>2. ASSUME pats[i].kind # "pattern"
      PROVE  /\ Sub(i) = Below(i)
             /\ \A c \in Children(i) : On(c, pats[i].mask)
  BY <1>2 DEF Sub, Built, Groups, Agree, On
<1>3. CASE pats[i].kind = "inc"
  <2>1. f = Tests(InOrder(Children(i)), pats[i].mask, x)
    BY <1>3 DEF Code
  <2>2. /\ f.do = "tests" /\ f.left = InOrder(Children(i))
        /\ f.outer = pats[i].mask /\ f.extracted = x
    BY <2>1 DEF Tests
  <2>. HIDE DEF f
  <2>3. Sorted(f.left, Children(i))
    BY <2>2, InOrderSorted DEF Built, Numbered, Children
  <2>4. Heads(f) = Children(i)
    BY <2>2, <2>3 DEF Heads, Sorted
  <2>5. TestsOK(f)
    BY <1>2, <1>3, <2>2, <2>3 DEF TestsOK, Sorted, Children
  <2>6. Cover(f) = Sub(i)
    BY <1>2, <1>3, <2>4, CoverMembers
  <2>. QED
    BY <1>3, <2>2, <2>5, <2>6 DEF f, Kinds, StatementOK
<1>4. CASE pats[i].kind = "exc"
  <2>1. f = Switch(i, <<>>, pats[i].mask, x)
    BY <1>4 DEF Code
  <2>2. /\ f.do = "switch" /\ f.group = i /\ f.path = <<>>
        /\ f.outer = pats[i].mask /\ f.extracted = x
    BY <2>1 DEF Switch
  <2>. HIDE DEF f
  <2>3. i \in ExcGroups /\ i # 0
    BY <1>4, IsSeqLen DEF ExcGroups, Built, Numbered
  <2>4. PICK t \in trees : IsTree(t, i, <<>>, Children(i), pats[i].mask)
    BY <2>3 DEF Built, Roots, Made, GroupMask
  <2>5. Same(t, f) /\ \A s \in trees : Same(s, f) => s = t
    BY <2>2, <2>4 DEF Same, IsTree, Built, Unique
  <2>6. Heads(f) = Children(i)
    BY <2>2, <2>4, <2>5 DEF Heads, IsTree
  <2>7. SwitchOK(f)
    BY <1>2, <1>4, <2>2, <2>4, <2>5 DEF SwitchOK, IsTree
  <2>8. Cover(f) = Sub(i)
    BY <1>2, <1>4, <2>6, CoverMembers
  <2>. QED
    BY <1>4, <2>2, <2>3, <2>7, <2>8 DEF f, Kinds, StatementOK
<1>. QED
  BY <1>0, <1>1, <1>3, <1>4

-----------------------------------------------------------------------------
Candidates == {i \in DOMAIN pats : pats[i].kind = "pattern" /\ MatchesPat(insn, i)}
Called == {calls[k].pat : k \in DOMAIN calls}
Pending == UNION {Cover(frames[k]) : k \in DOMAIN frames}

(* The statements, from the outermost; what is inside comes first.         *)
FramesOK ==
  /\ IsSeq(frames)
  /\ \A k \in DOMAIN frames : /\ frames[k].do \in Kinds
                             /\ StatementOK(frames[k]) /\ Formatted(frames[k], u)
  /\ \A k \in DOMAIN frames :
       frames[k].extracted \/ (frames[k].do = "switch" /\ frames[k].group = 0) => Len(frames) = 1
  /\ \A j, k \in DOMAIN frames : j < k =>
       \A p \in Cover(frames[j]), q \in Cover(frames[k]) : q < p

CallsMade ==
  /\ IsSeq(calls)
  /\ \A k \in DOMAIN calls : calls[k].pat \in Candidates /\ calls[k].fmt = pats[calls[k].pat].fmt
  /\ \A j, k \in DOMAIN calls : j < k => calls[j].pat < calls[k].pat
  /\ \A p \in Candidates : p \in Called \/ \A c \in Called : c < p

NoneForgotten ==
  /\ stage = "decode" => Candidates \subseteq Called \union Pending
  /\ stage = "refused" => Candidates \subseteq Called
  /\ \A c \in Called, p \in Pending : c < p

Decoding == FramesOK /\ CallsMade /\ NoneForgotten

-----------------------------------------------------------------------------
(* The innermost statement is replaced.                                    *)
LEMMA ConcatSeq ==
  ASSUME NEW s, IsSeq(s), NEW t, IsSeq(t)
  PROVE  /\ IsSeq(s \o t) /\ Len(s \o t) = Len(s) + Len(t)
         /\ \A k \in DOMAIN s : (s \o t)[k] = s[k]
         /\ \A k \in DOMAIN t : (s \o t)[Len(s) + k] = t[k]
<1>. DEFINE R == {s[k] : k \in DOMAIN s} \union {t[k] : k \in DOMAIN t}
<1>1. /\ DOMAIN s = 1..Len(s) /\ Len(s) \in Nat
      /\ DOMAIN t = 1..Len(t) /\ Len(t) \in Nat
  BY IsSeqLen
<1>2. s \in Seq(R)
  <2>1. \A k \in 1..Len(s) : s[k] \in R
    BY <1>1
  <2>2. s = [k \in 1..Len(s) |-> s[k]]
    BY DEF IsSeq
  <2>. QED
    BY <1>1, <2>1, <2>2
<1>3. t \in Seq(R)
  <2>1. \A k \in 1..Len(t) : t[k] \in R
    BY <1>1
  <2>2. t = [k \in 1..Len(t) |-> t[k]]
    BY DEF IsSeq
  <2>. QED
    BY <1>1, <2>1, <2>2
<1>. HIDE DEF R
<1>4. s \o t \in Seq(R) /\ Len(s \o t) = Len(s) + Len(t)
  BY <1>2, <1>3
<1>5. IsSeq(s \o t)
  BY <1>4, SeqIsSeq
<1>6. \A k \in DOMAIN s : (s \o t)[k] = s[k]
  BY <1>1, <1>2, <1>3
<1>7. \A k \in DOMAIN t : (s \o t)[Len(s) + k] = t[k]
  BY <1>1, <1>2, <1>3
<1>. QED
  BY <1>4, <1>5, <1>6, <1>7

LEMMA ShortSeqs ==
  /\ IsSeq(<<>>) /\ Len(<<>>) = 0
  /\ \A f : IsSeq(<<f>>) /\ Len(<<f>>) = 1 /\ <<f>>[1] = f
<1>1. <<>> \in Seq({})
  OBVIOUS
<1>2. ASSUME NEW f PROVE <<f>> \in Seq({f}) /\ Len(<<f>>) = 1 /\ <<f>>[1] = f
  OBVIOUS
<1>. QED
  BY <1>1, <1>2, SeqIsSeq

LEMMA Outside ==
  ASSUME NEW s, IsSeq(s), s # <<>>, NEW o, o = SubSeq(s, 1, Len(s) - 1)
  PROVE  /\ IsSeq(o) /\ Len(s) \in Nat /\ Len(s) >= 1 /\ Len(o) = Len(s) - 1
         /\ DOMAIN s = 1..Len(s) /\ Len(s) \in DOMAIN s
         /\ \A k \in DOMAIN o : k \in DOMAIN s /\ o[k] = s[k] /\ k < Len(s)
         /\ \A k \in DOMAIN s : k = Len(s) \/ k \in DOMAIN o
<1>. DEFINE R == {s[k] : k \in DOMAIN s}
<1>1. s \in Seq(R)
  BY DEF IsSeq
<1>. HIDE DEF R
<1>2. Len(s) \in Nat /\ DOMAIN s = 1..Len(s) /\ Len(s) >= 1
  BY <1>1
<1>3. o \in Seq(R) /\ Len(o) = Len(s) - 1 /\ DOMAIN o = 1..(Len(s) - 1)
  BY <1>1, <1>2
<1>4. \A k \in 1..(Len(s) - 1) : o[k] = s[k]
  BY <1>1, <1>2
<1>5. IsSeq(o)
  BY <1>3, SeqIsSeq
<1>6. \A k \in DOMAIN o : k \in DOMAIN s /\ o[k] = s[k] /\ k < Len(s)
  BY <1>2, <1>3, <1>4
<1>7. \A k \in DOMAIN s : k = Len(s) \/ k \in DOMAIN o
  BY <1>2, <1>3
<1>. QED
  BY <1>2, <1>3, <1>5, <1>6, <1>7

(* r is s with its last element replaced by those of new.                  *)
Replacement(s, new, r) ==
  /\ IsSeq(r) /\ Len(s) \in Nat /\ Len(s) >= 1 /\ Len(new) \in Nat
  /\ Len(r) = Len(s) - 1 + Len(new)
  /\ DOMAIN s = 1..Len(s) /\ DOMAIN new = 1..Len(new)
  /\ DOMAIN r = 1..(Len(s) - 1 + Len(new))
  /\ \A k \in 1..(Len(s) - 1) : r[k] = s[k]
  /\ \A k \in DOMAIN new : r[Len(s) - 1 + k] = new[k]
  /\ \A k \in DOMAIN r : \/ k \in 1..(Len(s) - 1)
                         \/ \E i \in DOMAIN new : k = Len(s) - 1 + i

LEMMA Replaced ==
  ASSUME NEW s, IsSeq(s), s # <<>>, NEW new, IsSeq(new),
         NEW r, r = SubSeq(s, 1, Len(s) - 1) \o new
  PROVE  Replacement(s, new, r)
<1>. DEFINE o == SubSeq(s, 1, Len(s) - 1)
<1>1. /\ IsSeq(o) /\ Len(s) \in Nat /\ Len(s) >= 1 /\ Len(o) = Len(s) - 1
      /\ \A k \in DOMAIN o : o[k] = s[k]
  BY Outside
<1>2. r = o \o new
  OBVIOUS
<1>. HIDE DEF o
<1>3. /\ DOMAIN o = 1..(Len(s) - 1)
      /\ DOMAIN new = 1..Len(new) /\ Len(new) \in Nat
      /\ DOMAIN s = 1..Len(s)
  BY <1>1, IsSeqLen
<1>4. /\ IsSeq(r) /\ Len(r) = Len(s) - 1 + Len(new)
      /\ \A k \in DOMAIN o : r[k] = o[k]
      /\ \A k \in DOMAIN new : r[Len(s) - 1 + k] = new[k]
  <2>1. /\ IsSeq(o \o new) /\ Len(o \o new) = Len(o) + Len(new)
        /\ \A k \in DOMAIN o : (o \o new)[k] = o[k]
        /\ \A k \in DOMAIN new : (o \o new)[Len(o) + k] = new[k]
    <3>1. IsSeq(o) /\ IsSeq(new)
      BY <1>1
    <3>2. /\ IsSeq(o \o new) 
      BY <3>1, ConcatSeq
    <3>3. Len(o \o new) = Len(o) + Len(new)
      BY <3>1, ConcatSeq
    <3>4. \A k \in DOMAIN o : (o \o new)[k] = o[k]
      BY <3>1, ConcatSeq
    <3>5. \A k \in DOMAIN new : (o \o new)[Len(o) + k] = new[k]
      BY <3>1, ConcatSeq
    <3>. QED
      BY <3>2, <3>3, <3>4, <3>5
  <2>. QED
    BY <1>1, <1>2, <2>1
<1>5. DOMAIN r = 1..(Len(s) - 1 + Len(new))
  BY <1>4, IsSeqLen
<1>6. ASSUME NEW k \in DOMAIN r, k \notin 1..(Len(s) - 1)
      PROVE  \E i \in DOMAIN new : k = Len(s) - 1 + i
  <2>1. k - (Len(s) - 1) \in 1..Len(new) /\ k = Len(s) - 1 + (k - (Len(s) - 1))
    BY <1>1, <1>3, <1>5, <1>6
  <2>. QED
    BY <1>3, <2>1
<1>. QED
  BY <1>1, <1>3, <1>4, <1>5, <1>6 DEF Replacement

-----------------------------------------------------------------------------
(* Decoding leaves what was generated as it is.                            *)
LEMMA Kept ==
  ASSUME UNCHANGED <<nesting, pats, todo, trees, leaves>>
  PROVE  /\ Built => Built'
         /\ \A f : Heads(f)' = Heads(f) /\ Cover(f)' = Cover(f)
         /\ \A f, v : Formatted(f, v)' <=> Formatted(f, v)
<1>1. \A g : Under(g)' = Under(g)
  BY DEF Under
<1>2. \A g : Below(g)' = Below(g) /\ Sub(g)' = Sub(g)
  BY <1>1 DEF Below, Sub
<1>3. \A f : Heads(f)' = Heads(f) /\ Cover(f)' = Cover(f)
  <2>1. \A f : Heads(f)' = Heads(f)
    BY DEF Heads
  <2>. QED
    BY <1>2, <2>1 DEF Cover
<1>4. ASSUME Built PROVE Built'
  <2>1. (Numbered /\ Nested /\ todo = {})'
    BY <1>4 DEF Built, Numbered, Nested
  <2>2. \A i \in DOMAIN pats' :
          Node(pats'[i]) /\ (pats'[i].mask # {} => pats'[i].bits \subseteq pats'[i].mask)
    BY <1>4 DEF Built
  <2>3. \A g \in Groups' : (Exact(g) /\ Agree(g, pats[g].mask, pats[g].bits))'
    BY <1>2, <1>4 DEF Built, Groups, Exact, Alike, Agree, Children
  <2>4. /\ ExcGroups' = ExcGroups
        /\ \A g : Children(g)' = Children(g) /\ GroupMask(g)' = GroupMask(g)
        /\ \A s, i : Case(s, i)' = Case(s, i) /\ With(s, i)' = With(s, i)
        /\ \A l, s : IsLeaf(l, s)' = IsLeaf(l, s)
        /\ \A g, path, ps, m : Made(g, path, ps, m)' = Made(g, path, ps, m)
    BY DEF ExcGroups, Children, GroupMask, Case, With, IsLeaf, Made
  <2>5. TreeTypes' /\ Unique'
    BY <1>4, <2>4 DEF Built, TreeTypes, Addressed, Unique
  <2>6. Uppers'
    BY <1>4, <2>4 DEF Built, Uppers
  <2>7. Lowers'
    BY <1>4, <2>4 DEF Built, Lowers
  <2>8. Roots' /\ LeavesExact'
    BY <1>4, <2>4 DEF Built, Roots, LeavesExact, GroupBits
  <2>. QED
    BY <2>1, <2>2, <2>3, <2>5, <2>6, <2>7, <2>8 DEF Built
<1>5. \A f, v : Formatted(f, v)' <=> Formatted(f, v)
  BY <1>3 DEF Formatted
<1>. QED
  BY <1>3, <1>4, <1>5

LEMMA KeptMatches ==
  ASSUME UNCHANGED <<pats, trees, insn>>
  PROVE  /\ Candidates' = Candidates
         /\ \A f : StatementOK(f)' <=> StatementOK(f)
<1>1. Candidates' = Candidates
  BY DEF Candidates, MatchesPat
<1>2. \A i, m : On(i, m)' <=> On(i, m)
  BY DEF On
<1>3. \A f : (CallOK(f)' <=> CallOK(f)) /\ (TestsOK(f)' <=> TestsOK(f)) /\ (SwitchOK(f)' <=> SwitchOK(f))
  BY <1>2 DEF CallOK, TestsOK, SwitchOK, MatchesPat
<1>. QED
  BY <1>1, <1>3 DEF StatementOK

(* A statement gives way to what it consists of.                           *)
LEMMA Progress ==
  ASSUME Built, Decoding, frames # <<>>, stage = "decode", stage' = "decode",
         UNCHANGED <<nesting, pats, todo, trees, leaves, insn, calls>>,
         u' = u \/ Len(frames) = 1,
         NEW new, IsSeq(new), frames' = outside \o new,
         \A k \in DOMAIN new :
           /\ new[k].do \in Kinds /\ StatementOK(new[k]) /\ Formatted(new[k], u')
           /\ Cover(new[k]) \subseteq Cover(top)
           /\ new[k].extracted \/ (new[k].do = "switch" /\ new[k].group = 0) =>
                Len(frames) = 1 /\ Len(new) = 1,
         \A j, k \in DOMAIN new : j < k =>
           \A p \in Cover(new[j]), q \in Cover(new[k]) : q < p,
         Candidates \intersect Cover(top) \subseteq UNION {Cover(new[k]) : k \in DOMAIN new}
  PROVE  Decoding'
<1>0. /\ Candidates' = Candidates
      /\ \A f : StatementOK(f)' <=> StatementOK(f)
      /\ \A f : Cover(f)' = Cover(f) /\ Heads(f)' = Heads(f)
      /\ \A f, v : Formatted(f, v)' <=> Formatted(f, v)
  BY Kept, KeptMatches
<1>. DEFINE n == Len(frames)
<1>1. /\ IsSeq(frames') /\ n \in Nat /\ n >= 1 /\ Len(new) \in Nat
      /\ Len(frames') = n - 1 + Len(new)
      /\ DOMAIN frames = 1..n /\ DOMAIN new = 1..Len(new)
      /\ DOMAIN frames' = 1..(n - 1 + Len(new))
      /\ \A k \in 1..(n - 1) : frames'[k] = frames[k]
      /\ \A k \in DOMAIN new : frames'[n - 1 + k] = new[k]
      /\ \A k \in DOMAIN frames' : \/ k \in 1..(n - 1)
                                   \/ \E i \in DOMAIN new : k = n - 1 + i
  <2>1. IsSeq(frames)
    BY DEF Decoding, FramesOK
  <2>2. frames' = SubSeq(frames, 1, Len(frames) - 1) \o new
    BY DEF outside
  <2>3. Replacement(frames, new, frames')
    BY <2>1, <2>2, Replaced
  <2>. QED
    BY <2>3 DEF Replacement
<1>2. top = frames[n] /\ n \in DOMAIN frames
  BY <1>1 DEF top
<1>. HIDE DEF n
<1>3. \A k \in 1..(n - 1) : k \in DOMAIN frames /\ k < n
  BY <1>1
<1>4. ASSUME NEW k \in DOMAIN frames'
      PROVE  /\ frames'[k].do \in Kinds /\ StatementOK(frames'[k]) /\ Formatted(frames'[k], u')
             /\ frames'[k].extracted \/ (frames'[k].do = "switch" /\ frames'[k].group = 0)
                  => Len(frames') = 1
  <2>1. CASE k \in 1..(n - 1)
    <3>1. n # 1
      BY <1>1, <2>1
    <3>2. frames'[k] = frames[k] /\ u' = u /\ k \in DOMAIN frames
      BY <1>1, <1>3, <2>1, <3>1 DEF n
    <3>. QED
      BY <3>1, <3>2 DEF Decoding, FramesOK, n
  <2>2. ASSUME NEW i \in DOMAIN new, k = n - 1 + i
        PROVE  /\ frames'[k].do \in Kinds /\ StatementOK(frames'[k]) /\ Formatted(frames'[k], u')
               /\ frames'[k].extracted \/ (frames'[k].do = "switch" /\ frames'[k].group = 0)
                    => Len(frames') = 1
    <3>1. frames'[k] = new[i]
      BY <1>1, <2>2
    <3>2. n = 1 /\ Len(new) = 1 => Len(frames') = 1
      BY <1>1
    <3>. QED
      BY <3>1, <3>2 DEF n
  <2>. QED
    BY <1>1, <2>1, <2>2
<1>5. ASSUME NEW j \in DOMAIN frames', NEW k \in DOMAIN frames', j < k
      PROVE  \A p \in Cover(frames'[j]), q \in Cover(frames'[k]) : q < p
  <2>1. CASE j \in 1..(n - 1) /\ k \in 1..(n - 1)
    BY <1>1, <1>3, <1>5, <2>1 DEF Decoding, FramesOK
  <2>2. ASSUME j \in 1..(n - 1), NEW i \in DOMAIN new, k = n - 1 + i
        PROVE  \A p \in Cover(frames'[j]), q \in Cover(frames'[k]) : q < p
    <3>1. frames'[j] = frames[j] /\ j \in DOMAIN frames /\ j < n /\ frames'[k] = new[i]
      BY <1>1, <1>3, <2>2
    <3>2. \A p \in Cover(frames[j]), q \in Cover(top) : q < p
      BY <1>2, <3>1 DEF Decoding, FramesOK
    <3>. QED
      BY <3>1, <3>2
  <2>3. ASSUME NEW h \in DOMAIN new, j = n - 1 + h, NEW i \in DOMAIN new, k = n - 1 + i
        PROVE  \A p \in Cover(frames'[j]), q \in Cover(frames'[k]) : q < p
    <3>1. h < i
      BY <1>1, <1>5, <2>3
    <3>2. frames'[j] = new[h] /\ frames'[k] = new[i]
      BY <1>1, <2>3
    <3>. QED
      BY <3>1, <3>2
  <2>4. ASSUME NEW h \in DOMAIN new, j = n - 1 + h, k \in 1..(n - 1) PROVE FALSE
    BY <1>1, <1>5, <2>4
  <2>. QED
    BY <1>1, <2>1, <2>2, <2>3, <2>4
<1>6. FramesOK'
  BY <1>0, <1>1, <1>4, <1>5 DEF FramesOK
<1>7. CallsMade'
  BY <1>0 DEF Decoding, CallsMade, Called
<1>8. Pending' \subseteq Pending
  <2>1. ASSUME NEW k \in DOMAIN frames' PROVE Cover(frames'[k]) \subseteq Pending
    <3>1. CASE k \in 1..(n - 1)
      BY <1>1, <1>3, <3>1 DEF Pending
    <3>2. ASSUME NEW i \in DOMAIN new, k = n - 1 + i PROVE Cover(frames'[k]) \subseteq Pending
      BY <1>1, <1>2, <3>2 DEF Pending
    <3>. QED
      BY <1>1, <3>1, <3>2
  <2>. QED
    BY <1>0, <2>1 DEF Pending
<1>9. Candidates \intersect Pending \subseteq Pending'
  <2>1. ASSUME NEW p \in Candidates, NEW k \in DOMAIN frames, p \in Cover(frames[k])
        PROVE  p \in Pending'
    <3>1. CASE k = n
      <4>1. PICK i \in DOMAIN new : p \in Cover(new[i])
        BY <1>2, <2>1, <3>1
      <4>2. n - 1 + i \in DOMAIN frames' /\ frames'[n - 1 + i] = new[i]
        BY <1>1
      <4>. QED
        BY <1>0, <4>1, <4>2 DEF Pending
    <3>2. CASE k # n
      <4>1. k \in 1..(n - 1) /\ k \in DOMAIN frames'
        BY <1>1, <3>2
      <4>. QED
        BY <1>0, <1>1, <2>1, <4>1 DEF Pending
    <3>. QED
      BY <3>1, <3>2
  <2>. QED
    BY <2>1 DEF Pending
<1>10. NoneForgotten'
  BY <1>0, <1>8, <1>9 DEF Decoding, NoneForgotten, Called
<1>. QED
  BY <1>6, <1>7, <1>10 DEF Decoding

-----------------------------------------------------------------------------
(* The innermost statement is one of the statements.                       *)
LEMMA TopOK ==
  ASSUME FramesOK, frames # <<>>
  PROVE  /\ Len(frames) \in Nat /\ Len(frames) \in DOMAIN frames
         /\ top = frames[Len(frames)]
         /\ top.do \in Kinds /\ StatementOK(top) /\ Formatted(top, u)
         /\ top.extracted \/ (top.do = "switch" /\ top.group = 0) => Len(frames) = 1
<1>1. Len(frames) \in Nat /\ Len(frames) \in DOMAIN frames
  BY Outside DEF FramesOK
<1>2. top = frames[Len(frames)]
  BY DEF top
<1>. QED
  BY <1>1, <1>2 DEF FramesOK

(* prop_format finds the format of all patterns.                           *)
LEMMA BaseIs ==
  ASSUME Nested, NEW t, t.pats \subseteq DOMAIN pats, Base(t) # {}
  PROVE  /\ t.group = 0
         /\ \A i \in t.pats : pats[i].kind = "pattern" /\ pats[i].fmt = First(Base(t))
<1>1. PICK f \in Base(t) : TRUE
  OBVIOUS
<1>2. ASSUME NEW h \in Base(t)
      PROVE  /\ t.group = 0 /\ h \in Nat
             /\ \A i \in t.pats : pats[i].kind = "pattern" /\ pats[i].fmt = h
             /\ h = f
  BY <1>1, <1>2 DEF Base, Nested
<1>3. \A j \in Base(t) : f <= j
  BY <1>2
<1>4. First(Base(t)) \in Base(t)
  BY <1>1, <1>3 DEF First
<1>. QED
  BY <1>2, <1>4

(* What is at the place a case of a Tree leads to.                         *)
Leads(t, x, here) ==
  /\ \A s \in trees : s.group = t.group /\ s.path = Append(t.path, x) =>
       s.pats = here /\ s.mask = t.mask \union s.thismask
  /\ \A l \in leaves : l.group = t.group /\ l.path = Append(t.path, x) =>
       l.pat \in here /\ l.mask = t.mask
  /\ \A j \in here :
       \/ \E s \in trees : s.group = t.group /\ s.path = Append(t.path, x)
       \/ \E l \in leaves : l.group = t.group /\ l.path = Append(t.path, x) /\ l.pat = j

LEMMA AtCase ==
  ASSUME Built, NEW t \in trees, NEW x \in SUBSET Bits,
         NEW here, here = {j \in t.pats : pats[j].bits \intersect t.thismask = x}
  PROVE  Leads(t, x, here)
<1>0. TreeTypes /\ Uppers /\ Lowers /\ Unique /\ todo = {} /\ t.path \in Seq(SUBSET Bits)
  BY DEF Built, TreeTypes, Addressed
<1>1. ASSUME NEW p \in trees, NEW i, p.group = t.group, Case(p, i) = Append(t.path, x)
      PROVE  p = t /\ pats[i].bits \intersect t.thismask = x
  <2>1. p.path \in Seq(SUBSET Bits) /\ pats[i].bits \intersect p.thismask \in SUBSET Bits
    BY <1>0, CaseWay
  <2>2. \A q \in Seq(SUBSET Bits), z \in SUBSET Bits :
          Append(t.path, x) = Append(q, z) => t.path = q /\ x = z
    BY <1>0, AppendWay
  <2>3. p.path = t.path /\ x = pats[i].bits \intersect p.thismask
    BY <1>1, <2>1, <2>2 DEF Case
  <2>4. p = t
    BY <1>0, <1>1, <2>3 DEF Unique, Same
  <2>. QED
    BY <2>3, <2>4
<1>2. Append(t.path, x) # <<>>
  BY <1>0, AppendWay
<1>3. ASSUME NEW s \in trees, s.group = t.group, s.path = Append(t.path, x)
      PROVE  s.pats = here /\ s.mask = t.mask \union s.thismask
  <2>1. PICK p \in trees : \E i \in p.pats : IsTree(s, p.group, Case(p, i), With(p, i), p.mask)
    BY <1>0, <1>2, <1>3 DEF Uppers
  <2>2. PICK i \in p.pats : IsTree(s, p.group, Case(p, i), With(p, i), p.mask)
    BY <2>1
  <2>3. p = t /\ pats[i].bits \intersect t.thismask = x
    BY <1>1, <1>3, <2>2 DEF IsTree
  <2>. QED
    BY <2>2, <2>3 DEF IsTree, With
<1>4. ASSUME NEW l \in leaves, l.group = t.group, l.path = Append(t.path, x)
      PROVE  l.pat \in here /\ l.mask = t.mask
  <2>1. PICK p \in trees : IsLeaf(l, p)
    BY <1>0 DEF Uppers
  <2>2. p = t /\ pats[l.pat].bits \intersect t.thismask = x
    BY <1>1, <1>4, <2>1 DEF IsLeaf
  <2>. QED
    BY <2>1, <2>2 DEF IsLeaf
<1>5. ASSUME NEW j \in here
      PROVE  \/ \E s \in trees : s.group = t.group /\ s.path = Append(t.path, x)
             \/ \E l \in leaves : l.group = t.group /\ l.path = Append(t.path, x) /\ l.pat = j
  <2>1. j \in t.pats /\ Case(t, j) = Append(t.path, x)
    BY DEF Case
  <2>2. \/ Made(t.group, Case(t, j), With(t, j), t.mask)
        \/ \E l \in leaves : l.pat = j /\ IsLeaf(l, t)
    BY <1>0, <2>1 DEF Lowers
  <2>. QED
    BY <1>0, <2>1, <2>2 DEF Made, IsTree, IsLeaf
<1>. QED
  BY <1>3, <1>4, <1>5 DEF Leads

(* One statement takes the place of the innermost.                         *)
LEMMA ProgressOne ==
  ASSUME Built, Decoding, frames # <<>>, stage = "decode", stage' = "decode",
         UNCHANGED <<nesting, pats, todo, trees, leaves, insn, calls>>,
         u' = u \/ Len(frames) = 1,
         NEW f, frames' = outside \o <<f>>,
         f.do \in Kinds, StatementOK(f), Formatted(f, u'), Cover(f) \subseteq Cover(top),
         f.extracted \/ (f.do = "switch" /\ f.group = 0) => Len(frames) = 1,
         Candidates \intersect Cover(top) \subseteq Cover(f)
  PROVE  Decoding'
<1>. DEFINE new == <<f>>
<1>1. IsSeq(new) /\ Len(new) = 1 /\ DOMAIN new = {1} /\ new[1] = f
  <2>1. IsSeq(new) /\ Len(new) = 1 /\ new[1] = f
    BY ShortSeqs
  <2>. QED
    BY <2>1, IsSeqLen
<1>2. frames' = outside \o new
  OBVIOUS
<1>. HIDE DEF new
<1>3. \A k \in DOMAIN new :
        /\ new[k].do \in Kinds /\ StatementOK(new[k]) /\ Formatted(new[k], u')
        /\ Cover(new[k]) \subseteq Cover(top)
        /\ new[k].extracted \/ (new[k].do = "switch" /\ new[k].group = 0) =>
             Len(frames) = 1 /\ Len(new) = 1
  BY <1>1
<1>4. \A j, k \in DOMAIN new : j < k =>
        \A p \in Cover(new[j]), q \in Cover(new[k]) : q < p
  BY <1>1
<1>5. Candidates \intersect Cover(top) \subseteq UNION {Cover(new[k]) : k \in DOMAIN new}
  BY <1>1
<1>. QED
  BY <1>1, <1>2, <1>3, <1>4, <1>5, Progress

(* None does: nothing below it matches.                                    *)
LEMMA ProgressNone ==
  ASSUME Built, Decoding, frames # <<>>, stage = "decode", stage' = "decode",
         UNCHANGED <<nesting, pats, todo, trees, leaves, insn, calls>>,
         u' = u \/ Len(frames) = 1,
         frames' = outside \o <<>>, Candidates \intersect Cover(top) = {}
  PROVE  Decoding'
<1>. DEFINE new == <<>>
<1>1. IsSeq(new) /\ DOMAIN new = {}
  BY ShortSeqs
<1>2. frames' = outside \o new
  OBVIOUS
<1>. HIDE DEF new
<1>3. /\ \A k \in DOMAIN new :
           /\ new[k].do \in Kinds /\ StatementOK(new[k]) /\ Formatted(new[k], u')
           /\ Cover(new[k]) \subseteq Cover(top)
           /\ new[k].extracted \/ (new[k].do = "switch" /\ new[k].group = 0) =>
                Len(frames) = 1 /\ Len(new) = 1
      /\ \A j, k \in DOMAIN new : j < k =>
           \A p \in Cover(new[j]), q \in Cover(new[k]) : q < p
      /\ Candidates \intersect Cover(top) \subseteq UNION {Cover(new[k]) : k \in DOMAIN new}
  BY <1>1
<1>. QED
  BY <1>1, <1>2, <1>3, Progress

-----------------------------------------------------------------------------
LEMMA BranchOK ==
  ASSUME Built, Decoding, Branch
  PROVE  Decoding'
<1>1. /\ stage = "decode" /\ stage' = "decode" /\ frames # <<>> /\ top.do = "switch"
      /\ UNCHANGED <<nesting, pats, todo, trees, leaves, insn, calls>>
  BY DEF Branch, Does, parseVars, treeVars
<1>2. PICK t \in TreeAt :
       LET case == Append(t.path, insn \intersect t.thismask)
           outer == top.outer \union t.thismask
           extracts == ~ top.extracted /\ Base(t) # {}
           extracted == top.extracted \/ Base(t) # {}
       IN /\ u' = IF extracts THEN First(Base(t)) ELSE u
          /\ frames' =
               outside \o
               IF \E s \in trees : s.group = t.group /\ s.path = case
               THEN <<Switch(t.group, case, outer, extracted)>>
               ELSE LET l == {s \in leaves : s.group = t.group /\ s.path = case}
                    IN IF l = {} THEN <<>>
                       ELSE <<Code((CHOOSE s \in l : TRUE).pat, outer, extracted)>>
  BY DEF Branch
<1>3. PICK x : x = insn \intersect t.thismask
  OBVIOUS
<1>4. PICK here : here = {j \in t.pats : pats[j].bits \intersect t.thismask = x}
  OBVIOUS
<1>5. PICK extracted \in BOOLEAN : extracted = (top.extracted \/ Base(t) # {})
  OBVIOUS
<1>6. /\ t \in trees /\ t.thismask \subseteq Bits /\ t.pats \subseteq DOMAIN pats
      /\ \A i \in t.pats : t.thismask \subseteq pats[i].mask
      /\ x \in SUBSET Bits
  BY <1>2, <1>3 DEF TreeAt, Built, TreeTypes, Addressed, Children
<1>7. /\ Len(frames) \in Nat /\ StatementOK(top) /\ Formatted(top, u)
      /\ top.extracted \/ top.group = 0 => Len(frames) = 1
  BY <1>1, TopOK DEF Decoding
<1>8. Same(t, top) /\ t.group = top.group /\ \A s \in trees : Same(s, top) => s = t
  <2>1. t.group = top.group /\ t.path = top.path
    BY <1>2 DEF TreeAt
  <2>. QED
    BY <1>6, <2>1 DEF Same, Built, Unique
<1>9. Heads(top) = t.pats /\ Cover(top) = UNION {Sub(i) : i \in t.pats}
  <2>1. Heads(top) = t.pats
    BY <1>1, <1>6, <1>8 DEF Heads
  <2>. QED
    BY <2>1 DEF Cover
<1>10. /\ top.outer \union t.thismask = t.mask
       /\ \A i \in t.pats : On(i, top.outer)
  BY <1>1, <1>7, <1>8 DEF StatementOK, SwitchOK
<1>11. \A i \in here : On(i, t.mask)
  BY <1>3, <1>4, <1>6, <1>10 DEF On
<1>12. \A p \in Candidates \intersect Cover(top) : \E j \in here : p \in Sub(j)
  <2>1. ASSUME NEW p \in Candidates, NEW j \in t.pats, p \in Sub(j)
        PROVE  j \in here
    <3>1. MatchesPat(insn, j)
      BY <1>6, <2>1, MatchUp DEF Candidates
    <3>. QED
      BY <1>3, <1>4, <1>6, <3>1 DEF MatchesPat
  <2>. QED
    BY <1>9, <2>1
<1>13. /\ u' = u \/ Len(frames) = 1
       /\ extracted => /\ Len(frames) = 1
                       /\ \A i \in t.pats : pats[i].kind = "pattern" /\ pats[i].fmt = u'
  <2>0. u' = IF ~ top.extracted /\ Base(t) # {} THEN First(Base(t)) ELSE u
    BY <1>2
  <2>1. CASE top.extracted
    BY <1>7, <1>9, <2>0, <2>1 DEF Formatted
  <2>2. CASE ~ top.extracted /\ Base(t) # {}
    <3>1. /\ t.group = 0
          /\ \A i \in t.pats : pats[i].kind = "pattern" /\ pats[i].fmt = First(Base(t))
      BY <1>6, <2>2, BaseIs DEF Built
    <3>. QED
      BY <1>7, <1>8, <2>0, <2>2, <3>1
  <2>3. CASE ~ top.extracted /\ Base(t) = {}
    BY <1>5, <2>0, <2>3
  <2>. QED
    BY <2>1, <2>2, <2>3
<1>14. /\ \A s \in trees : s.group = t.group /\ s.path = Append(t.path, x) =>
            s.pats = here /\ s.mask = t.mask \union s.thismask
       /\ \A l \in leaves : l.group = t.group /\ l.path = Append(t.path, x) =>
            l.pat \in here /\ l.mask = t.mask
       /\ \A j \in here :
            \/ \E s \in trees : s.group = t.group /\ s.path = Append(t.path, x)
            \/ \E l \in leaves : l.group = t.group /\ l.path = Append(t.path, x) /\ l.pat = j
  <2>1. Leads(t, x, here)
    BY <1>4, <1>6, AtCase
  <2>. QED
    BY <2>1 DEF Leads
<1>15. CASE \E s \in trees : s.group = t.group /\ s.path = Append(t.path, x)
  <2>1. PICK s \in trees : s.group = t.group /\ s.path = Append(t.path, x)
    BY <1>15
  <2>2. PICK f : f = Switch(t.group, Append(t.path, x), t.mask, extracted)
    OBVIOUS
  <2>3. frames' = outside \o <<f>>
    BY <1>2, <1>3, <1>5, <1>10, <1>15, <2>2
  <2>4. /\ f.do = "switch" /\ f.group = t.group /\ f.path = Append(t.path, x)
        /\ f.outer = t.mask /\ f.extracted = extracted
    BY <2>2 DEF Switch
  <2>5. Same(s, f) /\ \A r \in trees : Same(r, f) => r = s
    BY <2>1, <2>4 DEF Same, Built, Unique
  <2>6. s.pats = here /\ s.mask = t.mask \union s.thismask
    BY <1>14, <2>1
  <2>7. Heads(f) = here
    BY <2>1, <2>4, <2>5, <2>6 DEF Heads
  <2>8. StatementOK(f)
    <3>1. SwitchOK(f)
      BY <1>11, <2>1, <2>4, <2>5, <2>6 DEF SwitchOK
    <3>. QED
      BY <2>4, <3>1 DEF StatementOK
  <2>9. Cover(f) \subseteq Cover(top) /\ Candidates \intersect Cover(top) \subseteq Cover(f)
    BY <1>4, <1>9, <1>12, <2>7 DEF Cover
  <2>10. Formatted(f, u')
    BY <1>4, <1>13, <2>4, <2>7 DEF Formatted
  <2>11. f.do \in Kinds /\ (f.extracted \/ (f.do = "switch" /\ f.group = 0) => Len(frames) = 1)
    BY <1>7, <1>8, <1>13, <2>4 DEF Kinds
  <2>. QED
    BY <1>1, <1>13, <2>3, <2>8, <2>9, <2>10, <2>11, ProgressOne
<1>. DEFINE l == {s \in leaves : s.group = t.group /\ s.path = Append(t.path, x)}
<1>16. CASE (~ \E s \in trees : s.group = t.group /\ s.path = Append(t.path, x)) /\ l = {}
  <2>1. frames' = outside \o <<>>
    BY <1>2, <1>3, <1>16
  <2>2. here = {}
    BY <1>14, <1>16
  <2>3. Candidates \intersect Cover(top) = {}
    BY <1>12, <2>2
  <2>. QED
    BY <1>1, <1>13, <2>1, <2>3, ProgressNone
<1>17. CASE (~ \E s \in trees : s.group = t.group /\ s.path = Append(t.path, x)) /\ l # {}
  <2>1. PICK c : c = CHOOSE s \in l : TRUE
    OBVIOUS
  <2>2. /\ c \in leaves /\ c.group = t.group /\ c.path = Append(t.path, x)
    BY <1>17, <2>1
  <2>3. PICK i : i = c.pat
    OBVIOUS
  <2>4. i \in here /\ i \in DOMAIN pats /\ t.mask = pats[i].mask
    BY <1>4, <1>6, <1>14, <2>2, <2>3 DEF Built, LeavesExact
  <2>5. PICK f : f = Code(i, pats[i].mask, extracted)
    OBVIOUS
  <2>6. frames' = outside \o <<f>>
    BY <1>2, <1>3, <1>5, <1>10, <1>17, <2>1, <2>3, <2>4, <2>5
  <2>7. /\ f.do \in Kinds /\ StatementOK(f) /\ Cover(f) = Sub(i) /\ f.extracted = extracted
        /\ pats[i].kind = "pattern" => f.do = "call" /\ Heads(f) = {i}
        /\ f.do = "switch" => f.group # 0
    BY <1>11, <2>4, <2>5, CodeOK
  <2>8. here = {i}
    <3>1. ASSUME NEW j \in here PROVE j = i
      <4>1. PICK d \in leaves : d.group = t.group /\ d.path = Append(t.path, x) /\ d.pat = j
        BY <1>14, <1>17
      <4>2. Same(c, d)
        BY <2>2, <4>1 DEF Same
      <4>. QED
        BY <2>2, <2>3, <4>1, <4>2 DEF Built, Unique
    <3>. QED
      BY <2>4, <3>1
  <2>9. Cover(f) \subseteq Cover(top) /\ Candidates \intersect Cover(top) \subseteq Cover(f)
    BY <1>4, <1>9, <1>12, <2>4, <2>7, <2>8
  <2>10. Formatted(f, u')
    BY <1>4, <1>13, <2>4, <2>7 DEF Formatted
  <2>11. f.extracted \/ (f.do = "switch" /\ f.group = 0) => Len(frames) = 1
    BY <1>13, <2>7
  <2>. QED
    BY <1>1, <1>13, <2>6, <2>7, <2>9, <2>10, <2>11, ProgressOne
<1>. QED
  BY <1>15, <1>16, <1>17

(* A pattern's bits are fixed, and so are a group's, if it has any.        *)
LEMMA TestIs ==
  ASSUME Built, NEW i \in DOMAIN pats, NEW outer, On(i, outer)
  PROVE  /\ PassesTest(i, outer) => On(i, pats[i].mask)
         /\ MatchesPat(insn, i) => PassesTest(i, outer)
<1>1. pats[i].mask # {} => pats[i].bits \subseteq pats[i].mask
  BY DEF Built
<1>2. CASE outer = pats[i].mask
  BY <1>2 DEF PassesTest, On
<1>3. CASE outer # pats[i].mask
  <2>1. pats[i].mask # {} /\ outer \subseteq pats[i].mask
    BY <1>3 DEF On
  <2>2. pats[i].bits \subseteq pats[i].mask
    BY <1>1, <2>1
  <2>3. PassesTest(i, outer) <=> insn \intersect (pats[i].mask \ outer) = pats[i].bits \ outer
    BY <1>3 DEF PassesTest
  <2>4. PassesTest(i, outer) => pats[i].bits \intersect pats[i].mask = insn \intersect pats[i].mask
    <3>1. ASSUME PassesTest(i, outer), NEW b \in pats[i].mask
          PROVE  b \in pats[i].bits <=> b \in insn
      <4>1. CASE b \in outer
        BY <4>1 DEF On
      <4>2. CASE b \notin outer
        BY <2>3, <3>1, <4>2
      <4>. QED
        BY <4>1, <4>2
    <3>. QED
      BY <3>1
  <2>5. MatchesPat(insn, i) => insn \intersect (pats[i].mask \ outer) = pats[i].bits \ outer
    BY <2>2 DEF MatchesPat
  <2>. QED
    BY <2>3, <2>4, <2>5 DEF On
<1>. QED
  BY <1>2, <1>3

LEMMA TestOK ==
  ASSUME Built, Decoding, Test
  PROVE  Decoding'
<1>1. /\ stage = "decode" /\ stage' = "decode" /\ frames # <<>> /\ top.do = "tests"
      /\ UNCHANGED <<nesting, pats, todo, trees, leaves, insn, calls>> /\ u' = u
  BY DEF Test, Does, parseVars, treeVars
<1>2. /\ Len(frames) \in Nat /\ TestsOK(top) /\ ~ top.extracted
  BY <1>1, TopOK DEF Decoding, StatementOK, Formatted
<1>3. /\ top.left \in Seq(Nat) /\ DOMAIN top.left = 1..Len(top.left) /\ Len(top.left) \in Nat
  BY <1>2 DEF TestsOK
<1>4. Heads(top) = {top.left[k] : k \in DOMAIN top.left}
  BY <1>1 DEF Heads
<1>5. CASE top.left = <<>>
  <2>1. frames' = outside
    BY <1>5 DEF Test
  <2>2. frames' = outside \o <<>>
    <3>1. IsSeq(outside)
      BY <1>1, Outside DEF outside, Decoding, FramesOK
    <3>. QED
      BY <2>1, <3>1 DEF IsSeq
  <2>3. Cover(top) = {}
    BY <1>3, <1>4, <1>5 DEF Cover
  <2>. QED
    BY <1>1, <2>2, <2>3, ProgressNone
<1>6. CASE top.left # <<>>
  <2>1. PICK i : i = Head(top.left)
    OBVIOUS
  <2>2. PICK rest : rest = Tail(top.left)
    OBVIOUS
  <2>3. PICK f : f = Tests(rest, top.outer, top.extracted)
    OBVIOUS
  <2>4. PICK g : g = Code(i, pats[i].mask, top.extracted)
    OBVIOUS
  <2>5. frames' = Append(outside, f) \o IF PassesTest(i, top.outer) THEN <<g>> ELSE <<>>
    BY <1>6, <2>1, <2>2, <2>3, <2>4 DEF Test
  <2>6. IsSeq(outside)
    BY <1>1, Outside DEF outside, Decoding, FramesOK
  <2>7. /\ f.do = "tests" /\ f.left = rest /\ f.outer = top.outer /\ f.extracted = top.extracted
    BY <2>3 DEF Tests
  <2>8. /\ rest \in Seq(Nat) /\ DOMAIN rest = 1..(Len(top.left) - 1)
        /\ \A k \in DOMAIN rest : rest[k] = top.left[k + 1] /\ k + 1 \in DOMAIN top.left
        /\ 1 \in DOMAIN top.left /\ i = top.left[1]
        /\ \A k \in DOMAIN top.left : k = 1 \/ (k - 1 \in DOMAIN rest /\ rest[k - 1] = top.left[k])
    <3>1. Len(top.left) >= 1 /\ i = top.left[1] /\ 1 \in DOMAIN top.left
      BY <1>3, <1>6, <2>1
    <3>2. rest \in Seq(Nat) /\ DOMAIN rest = 1..(Len(top.left) - 1)
      BY <1>3, <1>6, <2>2
    <3>3. \A k \in 1..(Len(top.left) - 1) : rest[k] = top.left[k + 1]
      BY <1>3, <1>6, <2>2
    <3>4. \A k \in DOMAIN rest : rest[k] = top.left[k + 1] /\ k + 1 \in DOMAIN top.left
      BY <1>3, <3>2, <3>3
    <3>5. ASSUME NEW k \in DOMAIN top.left, k # 1
          PROVE  k - 1 \in DOMAIN rest /\ rest[k - 1] = top.left[k]
      <4>1. k - 1 \in DOMAIN rest /\ (k - 1) + 1 = k
        BY <1>3, <3>2, <3>5
      <4>. QED
        BY <3>4, <4>1
    <3>. QED
      BY <3>1, <3>2, <3>4, <3>5
  <2>9. i \in DOMAIN pats /\ On(i, top.outer)
    BY <1>2, <2>8 DEF TestsOK
  <2>10. TestsOK(f)
    <3>1. \A k \in DOMAIN rest : rest[k] \in DOMAIN pats /\ On(rest[k], top.outer)
      BY <1>2, <2>8 DEF TestsOK
    <3>2. ASSUME NEW j \in DOMAIN rest, NEW k \in DOMAIN rest
          PROVE  pats[rest[j]].parent = pats[rest[k]].parent
      <4>1. /\ rest[j] = top.left[j + 1] /\ j + 1 \in DOMAIN top.left
            /\ rest[k] = top.left[k + 1] /\ k + 1 \in DOMAIN top.left
        BY <2>8
      <4>2. pats[top.left[j + 1]].parent = pats[top.left[k + 1]].parent
        BY <1>2, <4>1 DEF TestsOK
      <4>. QED
        BY <4>1, <4>2
    <3>3. ASSUME NEW j \in DOMAIN rest, NEW k \in DOMAIN rest, j < k
          PROVE  rest[j] < rest[k]
      <4>1. j + 1 < k + 1
        BY <1>3, <2>8, <3>3
      <4>. QED
        BY <1>2, <2>8, <4>1 DEF TestsOK
    <3>. QED
      BY <2>7, <2>8, <3>1, <3>2, <3>3 DEF TestsOK
  <2>11. Heads(f) = {rest[k] : k \in DOMAIN rest}
    BY <2>7 DEF Heads
  <2>12. Heads(top) = {i} \union Heads(f)
    BY <1>4, <2>8, <2>11
  <2>13. Cover(top) = Sub(i) \union Cover(f)
    BY <2>12 DEF Cover
  <2>14. \A p \in Sub(i), q \in Cover(f) : p < q
    <3>1. ASSUME NEW k \in DOMAIN rest PROVE \A p \in Sub(i), q \in Sub(rest[k]) : p < q
      <4>1. /\ rest[k] \in DOMAIN pats /\ pats[i].parent = pats[rest[k]].parent
        BY <1>2, <2>8 DEF TestsOK
      <4>2. i < rest[k]
        <5>1. 1 < k + 1
          BY <1>3, <2>8
        <5>. QED
          BY <1>2, <2>8, <5>1 DEF TestsOK
      <4>. QED
        BY <2>9, <4>1, <4>2, MemberOrder DEF Built
    <3>. QED
      BY <2>11, <3>1 DEF Cover
  <2>15. /\ f.do \in Kinds /\ StatementOK(f) /\ Formatted(f, u') /\ ~ f.extracted
         /\ f.do # "switch"
    BY <1>2, <2>7, <2>10 DEF Kinds, StatementOK, Formatted
  <2>16. CASE ~ PassesTest(i, top.outer)
    <3>1. frames' = outside \o <<f>>
      <4>1. Append(outside, f) \o <<>> = outside \o <<f>>
        BY <2>6 DEF IsSeq
      <4>. QED
        BY <2>5, <2>16, <4>1
    <3>2. ASSUME NEW p \in Candidates, p \in Sub(i) PROVE FALSE
      <4>1. MatchesPat(insn, i)
        BY <2>9, <3>2, MatchUp DEF Candidates
      <4>. QED
        BY <2>9, <2>16, <4>1, TestIs
    <3>. QED
      BY <1>1, <2>13, <2>15, <3>1, <3>2, ProgressOne
  <2>17. CASE PassesTest(i, top.outer)
    <3>. DEFINE new == <<f, g>>
    <3>1. frames' = outside \o new
      <4>1. Append(outside, f) \o <<g>> = outside \o <<f, g>>
        BY <2>6 DEF IsSeq
      <4>. QED
        BY <2>5, <2>17, <4>1
    <3>2. IsSeq(new) /\ DOMAIN new = {1, 2} /\ new[1] = f /\ new[2] = g
      <4>1. new \in Seq({f, g}) /\ DOMAIN new = {1, 2}
        OBVIOUS
      <4>. QED
        BY <4>1, SeqIsSeq
    <3>. HIDE DEF new
    <3>3. On(i, pats[i].mask)
      BY <2>9, <2>17, TestIs
    <3>4. /\ g.do \in Kinds /\ StatementOK(g) /\ Cover(g) = Sub(i) /\ ~ g.extracted
          /\ g.do = "switch" => g.group # 0
      BY <1>2, <2>4, <2>9, <3>3, CodeOK
    <3>5. Formatted(g, u')
      BY <3>4 DEF Formatted
    <3>6. \A k \in DOMAIN new :
            /\ new[k].do \in Kinds /\ StatementOK(new[k]) /\ Formatted(new[k], u')
            /\ Cover(new[k]) \subseteq Cover(top)
            /\ new[k].extracted \/ (new[k].do = "switch" /\ new[k].group = 0) =>
                 Len(frames) = 1 /\ Len(new) = 1
      BY <2>13, <2>15, <3>2, <3>4, <3>5
    <3>7. \A j, k \in DOMAIN new : j < k =>
            \A p \in Cover(new[j]), q \in Cover(new[k]) : q < p
      BY <2>14, <3>2, <3>4
    <3>8. Candidates \intersect Cover(top) \subseteq UNION {Cover(new[k]) : k \in DOMAIN new}
      BY <2>13, <3>2, <3>4
    <3>. QED
      BY <1>1, <3>1, <3>2, <3>6, <3>7, <3>8, Progress
  <2>. QED
    BY <2>16, <2>17
<1>. QED
  BY <1>5, <1>6

-----------------------------------------------------------------------------
LEMMA CallTransOK ==
  ASSUME Built, Decoding, NEW accepted \in BOOLEAN, CallTrans(accepted)
  PROVE  Decoding'
<1>1. /\ stage = "decode" /\ frames # <<>> /\ top.do = "call"
      /\ UNCHANGED <<nesting, pats, todo, trees, leaves, insn>>
      /\ calls' = Append(calls, [pat |-> top.pat, fmt |-> Extracted])
      /\ frames' = IF accepted THEN <<>> ELSE outside
      /\ stage' = IF accepted THEN "accepted" ELSE stage
  BY DEF CallTrans, Does, parseVars, treeVars
<1>2. /\ Len(frames) \in Nat /\ Len(frames) \in DOMAIN frames /\ top = frames[Len(frames)]
      /\ CallOK(top) /\ Formatted(top, u)
  BY <1>1, TopOK DEF Decoding, StatementOK
<1>3. PICK i : i = top.pat
  OBVIOUS
<1>4. /\ i \in Candidates /\ Heads(top) = {i} /\ Cover(top) = {i}
      /\ i \in DOMAIN pats /\ Extracted = pats[i].fmt
  <2>1. i \in Candidates /\ i \in DOMAIN pats /\ pats[i].kind = "pattern"
    BY <1>2, <1>3 DEF CallOK, Candidates
  <2>2. Heads(top) = {i}
    BY <1>1, <1>3 DEF Heads
  <2>3. Cover(top) = {i}
    BY <2>1, <2>2 DEF Cover, Sub
  <2>4. Extracted = pats[i].fmt
    BY <1>2, <1>3, <2>2 DEF Extracted, Formatted
  <2>. QED
    BY <2>1, <2>2, <2>3, <2>4
<1>5. /\ Candidates' = Candidates
      /\ \A f : StatementOK(f)' <=> StatementOK(f)
      /\ \A f : Cover(f)' = Cover(f)
      /\ \A f, v : Formatted(f, v)' <=> Formatted(f, v)
  BY <1>1, Kept, KeptMatches
<1>. DEFINE longer == Append(calls, [pat |-> i, fmt |-> pats[i].fmt])
            n == Len(calls)
<1>6. /\ IsSeq(longer) /\ n \in Nat /\ DOMAIN calls = 1..n
      /\ DOMAIN longer = 1..(n + 1)
      /\ longer[n + 1] = [pat |-> i, fmt |-> pats[i].fmt]
      /\ \A k \in DOMAIN calls : longer[k] = calls[k]
  BY AppendSeq DEF Decoding, CallsMade
<1>7. calls' = longer
  BY <1>1, <1>3, <1>4
<1>. HIDE DEF longer, n
<1>8. \A k \in DOMAIN longer : k = n + 1 \/ k \in DOMAIN calls
  BY <1>6
<1>9. longer[n + 1].pat = i /\ longer[n + 1].fmt = pats[i].fmt
  BY <1>6
<1>10. Called' = Called \union {i}
  <2>1. n + 1 \in DOMAIN longer /\ DOMAIN calls \subseteq DOMAIN longer
    BY <1>6
  <2>. QED
    BY <1>6, <1>7, <1>8, <1>9, <2>1 DEF Called
<1>11. i \in Pending
  BY <1>2, <1>4 DEF Pending
<1>12. /\ \A c \in Called, p \in Pending : c < p
       /\ Candidates \subseteq Called \union Pending
  BY <1>1 DEF Decoding, NoneForgotten
<1>13. ASSUME NEW p \in Pending, p # i
       PROVE  i < p /\ \E k \in DOMAIN frames : k # Len(frames) /\ p \in Cover(frames[k])
  <2>1. PICK k \in DOMAIN frames : p \in Cover(frames[k])
    BY <1>13 DEF Pending
  <2>2. k # Len(frames)
    BY <1>2, <1>4, <1>13, <2>1
  <2>3. k < Len(frames)
    BY <2>2, IsSeqLen DEF Decoding, FramesOK
  <2>. QED
    BY <1>2, <1>4, <2>1, <2>2, <2>3 DEF Decoding, FramesOK
<1>14. CallsMade'
  <2>1. \A k \in DOMAIN longer :
          longer[k].pat \in Candidates /\ longer[k].fmt = pats[longer[k].pat].fmt
    BY <1>4, <1>6, <1>8, <1>9 DEF Decoding, CallsMade
  <2>2. ASSUME NEW j \in DOMAIN longer, NEW k \in DOMAIN longer, j < k
        PROVE  longer[j].pat < longer[k].pat
    <3>1. j \in DOMAIN calls
      BY <1>6, <2>2
    <3>2. CASE k \in DOMAIN calls
      BY <1>6, <2>2, <3>1, <3>2 DEF Decoding, CallsMade
    <3>3. CASE k = n + 1
      BY <1>6, <1>9, <1>11, <1>12, <3>1, <3>3 DEF Called
    <3>. QED
      BY <1>8, <3>2, <3>3
  <2>3. ASSUME NEW p \in Candidates
        PROVE  p \in Called' \/ \A c \in Called' : c < p
    <3>1. CASE p \in Called
      BY <1>10, <3>1
    <3>2. CASE p \in Pending
      BY <1>10, <1>12, <1>13, <3>2
    <3>. QED
      BY <1>12, <3>1, <3>2
  <2>. QED
    BY <1>1, <1>5, <1>6, <1>7, <2>1, <2>2, <2>3 DEF CallsMade
<1>15. /\ IsSeq(outside)
       /\ \A k \in DOMAIN outside : k \in DOMAIN frames /\ outside[k] = frames[k] /\ k < Len(frames)
       /\ \A k \in DOMAIN frames : k = Len(frames) \/ k \in DOMAIN outside
       /\ Len(frames) = 1 => DOMAIN outside = {}
  <2>1. /\ IsSeq(outside) /\ Len(frames) \in Nat /\ Len(outside) = Len(frames) - 1
        /\ \A k \in DOMAIN outside : k \in DOMAIN frames /\ outside[k] = frames[k] /\ k < Len(frames)
        /\ \A k \in DOMAIN frames : k = Len(frames) \/ k \in DOMAIN outside
    BY <1>1, Outside DEF outside, Decoding, FramesOK
  <2>. QED
    BY <2>1, IsSeqLen
<1>16. CASE accepted
  <2>1. frames' = <<>> /\ stage' = "accepted" /\ DOMAIN frames' = {} /\ IsSeq(frames')
    BY <1>1, <1>16, ShortSeqs
  <2>2. FramesOK'
    BY <2>1 DEF FramesOK
  <2>3. Pending' = {}
    BY <2>1 DEF Pending
  <2>. QED
    BY <1>14, <2>1, <2>2, <2>3 DEF Decoding, NoneForgotten
<1>17. CASE ~ accepted
  <2>1. frames' = outside /\ stage' = "decode"
    BY <1>1, <1>17
  <2>. DEFINE o == outside
  <2>2. ASSUME NEW k \in DOMAIN o
        PROVE  /\ o[k].do \in Kinds /\ StatementOK(o[k])
               /\ ~ o[k].extracted /\ ~ (o[k].do = "switch" /\ o[k].group = 0)
    BY <1>15 DEF Decoding, FramesOK
  <2>3. \A k \in DOMAIN o : Formatted(o[k], u')
    BY <2>2 DEF Formatted
  <2>4. ASSUME NEW j \in DOMAIN o, NEW k \in DOMAIN o, j < k
        PROVE  \A p \in Cover(o[j]), q \in Cover(o[k]) : q < p
    BY <1>15, <2>4 DEF Decoding, FramesOK
  <2>5. FramesOK'
    BY <1>5, <1>15, <2>1, <2>2, <2>3, <2>4 DEF FramesOK
  <2>6. Pending' = UNION {Cover(o[k]) : k \in DOMAIN o}
    BY <1>5, <2>1 DEF Pending
  <2>7. Pending' \subseteq Pending /\ \A p \in Pending' : i < p
    <3>1. ASSUME NEW k \in DOMAIN o, NEW p \in Cover(o[k]) PROVE p \in Pending /\ i < p
      BY <1>2, <1>4, <1>15 DEF Pending, Decoding, FramesOK
    <3>. QED
      BY <2>6, <3>1
  <2>8. ASSUME NEW p \in Candidates PROVE p \in Called' \union Pending'
    <3>1. CASE p \in Pending /\ p # i
      <4>1. PICK k \in DOMAIN frames : k # Len(frames) /\ p \in Cover(frames[k])
        BY <1>13, <3>1
      <4>2. k \in DOMAIN o /\ o[k] = frames[k]
        BY <1>15, <4>1
      <4>. QED
        BY <2>6, <4>1, <4>2
    <3>. QED
      BY <1>10, <1>12, <3>1
  <2>9. \A c \in Called', p \in Pending' : c < p
    BY <1>10, <1>12, <2>7
  <2>10. NoneForgotten'
    BY <1>5, <2>1, <2>8, <2>9 DEF NoneForgotten
  <2>. QED
    BY <1>14, <2>5, <2>10 DEF Decoding
<1>. QED
  BY <1>16, <1>17

LEMMA ReturnOK ==
  ASSUME Built, Decoding, ReturnFalse
  PROVE  Decoding'
<1>1. /\ stage = "decode" /\ stage' = "refused" /\ frames = <<>>
      /\ UNCHANGED <<nesting, pats, todo, trees, leaves, insn, frames, u, calls>>
  BY DEF ReturnFalse, parseVars, treeVars, cVars
<1>2. /\ Candidates' = Candidates
      /\ \A f : StatementOK(f)' <=> StatementOK(f)
      /\ \A f : Cover(f)' = Cover(f)
      /\ \A f, v : Formatted(f, v)' <=> Formatted(f, v)
  BY <1>1, Kept, KeptMatches
<1>3. FramesOK'
  BY <1>1, <1>2 DEF Decoding, FramesOK
<1>4. CallsMade' /\ Called' = Called
  BY <1>1, <1>2 DEF Decoding, CallsMade, Called
<1>5. Pending = {} /\ Pending' = {}
  BY <1>1 DEF Pending
<1>6. NoneForgotten'
  BY <1>1, <1>2, <1>4, <1>5 DEF Decoding, NoneForgotten
<1>. QED
  BY <1>3, <1>4, <1>6 DEF Decoding

(* All patterns are in the file.                                           *)
LEMMA AllBelow ==
  ASSUME Numbered
  PROVE  \A i \in DOMAIN pats : pats[i].kind = "pattern" => i \in Below(0)
<1>1. PICK n \in Nat : DOMAIN pats = 1..n
  BY IsSeqLen DEF Numbered
<1>. DEFINE S == {i \in 0..n : i \in DOMAIN pats => i \in Under(0)}
<1>2. ASSUME NEW i \in 0..n, \A j \in 0..(i - 1) : j \in S
      PROVE  i \in S
  <2>1. SUFFICES ASSUME i \in DOMAIN pats PROVE i \in Under(0)
    OBVIOUS
  <2>2. /\ pats[i].parent \in 0..(i - 1)
        /\ pats[i].parent \in S
    BY <1>2, <2>1 DEF Numbered
  <2>3. pats[i].parent = 0 \/ pats[i].parent \in DOMAIN pats
    BY <1>1, <2>2
  <2>4. i \in Under(0) <=> pats[i].parent = 0 \/ pats[i].parent \in Under(0)
    BY <2>1, UnderIs
  <2>. QED
    BY <2>2, <2>3, <2>4
<1>. HIDE DEF S
<1>3. 0..n \subseteq S
  BY <1>2, UpTo
<1>. QED
  BY <1>1, <1>3 DEF S, Below

LEMMA StartOK ==
  ASSUME Built, calls = <<>>, StartDecode
  PROVE  Decoding'
<1>1. /\ stage' = "decode"
      /\ UNCHANGED <<nesting, pats, todo, trees, leaves, u, calls>>
      /\ frames' = IF Patterns # {} THEN <<Switch(0, <<>>, {}, FALSE)>> ELSE <<>>
  BY DEF StartDecode, parseVars, treeVars
<1>2. PICK f : f = Switch(0, <<>>, {}, FALSE)
  OBVIOUS
<1>3. f.do = "switch" /\ f.group = 0 /\ f.path = <<>> /\ f.outer = {} /\ f.extracted = FALSE
  BY <1>2 DEF Switch
<1>4. \A h : Cover(h)' = Cover(h)
  BY <1>1, Kept
<1>5. PICK t \in trees : IsTree(t, 0, <<>>, Children(0), {})
  <2>1. 0 \in ExcGroups
    BY DEF ExcGroups
  <2>. QED
    BY <2>1 DEF Built, Roots, Made, GroupMask
<1>6. Same(t, f) /\ \A s \in trees : Same(s, f) => s = t
  BY <1>3, <1>5 DEF Same, IsTree, Built, Unique
<1>7. Cover(f) = Below(0)
  <2>1. Heads(f) = Children(0)
    BY <1>3, <1>5, <1>6 DEF Heads, IsTree
  <2>. QED
    BY <2>1, CoverMembers
<1>8. StatementOK(f)'
  <2>1. SwitchOK(f)'
    <3>1. \A i : On(i, f.outer)'
      BY <1>3 DEF On
    <3>2. f.outer \union t.thismask = t.mask
      BY <1>3, <1>5 DEF IsTree
    <3>. QED
      BY <1>1, <1>6, <3>1, <3>2 DEF SwitchOK
  <2>. QED
    BY <1>3, <2>1 DEF StatementOK
<1>9. /\ IsSeq(calls') /\ DOMAIN calls' = {} /\ Called' = {}
  <2>1. IsSeq(calls') /\ DOMAIN calls' = {}
    BY <1>1, ShortSeqs
  <2>. QED
    BY <2>1 DEF Called
<1>10. CallsMade'
  BY <1>9 DEF CallsMade
<1>11. CASE Patterns # {}
  <2>1. IsSeq(frames') /\ Len(frames') = 1 /\ DOMAIN frames' = {1} /\ frames'[1] = f
    <3>1. frames' = <<f>>
      BY <1>1, <1>2, <1>11
    <3>2. IsSeq(<<f>>) /\ Len(<<f>>) = 1 /\ <<f>>[1] = f
      BY ShortSeqs
    <3>. QED
      BY <3>1, <3>2, IsSeqLen
  <2>2. FramesOK'
    BY <1>3, <1>8, <2>1 DEF FramesOK, Formatted, Kinds
  <2>3. Pending' = Below(0)
    BY <1>4, <1>7, <2>1 DEF Pending
  <2>4. Candidates' \subseteq Below(0)
    <3>1. \A i \in DOMAIN pats : pats[i].kind = "pattern" => i \in Below(0)
      BY AllBelow DEF Built
    <3>. QED
      BY <1>1, <3>1 DEF Candidates
  <2>. QED
    BY <1>1, <1>9, <1>10, <2>2, <2>3, <2>4 DEF Decoding, NoneForgotten
<1>12. CASE Patterns = {}
  <2>1. IsSeq(frames') /\ DOMAIN frames' = {}
    BY <1>1, <1>12, ShortSeqs
  <2>2. FramesOK'
    BY <2>1 DEF FramesOK
  <2>3. Candidates' = {}
    BY <1>1, <1>12 DEF Candidates, Patterns
  <2>. QED
    BY <1>1, <1>9, <1>10, <2>2, <2>3 DEF Decoding, NoneForgotten
<1>. QED
  BY <1>11, <1>12

-----------------------------------------------------------------------------
Ran == {"decode", "accepted", "refused"}

DecodeInv ==
  /\ stage \in Ran => Built /\ Decoding
  /\ stage \notin Ran => GroupInv /\ Grown /\ calls = <<>>

LEMMA GenerateStages == Generate => stage \notin Ran /\ stage' \notin Ran
<1>. USE DEF Ran
<1>1. ASSUME Parse PROVE stage \notin Ran /\ stage' \notin Ran
  BY <1>1 DEF Parse, Parsing, SkipLine, MisplacedComment, ReadLine, EndOfFile, OpenGroup,
         CloseGroup, BadGroup, BadDeclaration, ParseField, ParseArguments,
         BadFieldOrArguments, StartGeneric, TakeToken, BadToken, ParseFormat,
         ParsePattern, BadLine, Starts, Declares, Ends, Fail
<1>2. ASSUME PropMasks PROVE stage \notin Ran /\ stage' \notin Ran
  BY <1>2 DEF PropMasks, EnterGroup, EmptyGroup, Widen, Settle
<1>3. ASSUME BuildTree PROVE stage \notin Ran /\ stage' \notin Ran
  BY <1>3 DEF BuildTree, Split, SoleLeaf, Overlap
<1>. QED
  BY <1>1, <1>2, <1>3 DEF Generate, StartProp, StartBuild, FinishBuild

LEMMA DecodeInitInv == DecodeInit => DecodeInv
<1>. SUFFICES ASSUME DecodeInit PROVE DecodeInv
  OBVIOUS
<1>1. GroupInv /\ Grown
  BY GroupInit, GrownInit DEF DecodeInit
<1>2. stage \notin Ran /\ calls = <<>>
  BY DEF DecodeInit, Init, CInit, Ran
<1>. QED
  BY <1>1, <1>2 DEF DecodeInv

LEMMA DecodeStep == DecodeInv /\ [DecodeNext]_decVars => DecodeInv'
<1>. SUFFICES ASSUME DecodeInv, [DecodeNext]_decVars PROVE DecodeInv'
  OBVIOUS
<1>1. CASE Generate /\ UNCHANGED cVars
  <2>1. stage \notin Ran /\ stage' \notin Ran
    BY <1>1, GenerateStages
  <2>2. GroupInv /\ Grown /\ calls = <<>>
    BY <2>1 DEF DecodeInv
  <2>3. GroupInv'
    BY <1>1, <2>2, GroupStep
  <2>4. Grown'
    BY <1>1, <2>2, GrownStep
  <2>. QED
    BY <1>1, <2>1, <2>2, <2>3, <2>4 DEF DecodeInv, cVars
<1>2. CASE StartDecode
  <2>1. stage = "built" /\ stage' = "decode"
    BY <1>2 DEF StartDecode
  <2>2. Built /\ calls = <<>>
    BY <2>1, BuiltFacts DEF DecodeInv, Ran
  <2>3. UNCHANGED <<nesting, pats, todo, trees, leaves>>
    BY <1>2 DEF StartDecode, parseVars, treeVars
  <2>4. Built'
    BY <2>2, <2>3, Kept
  <2>5. Decoding'
    BY <1>2, <2>2, StartOK
  <2>. QED
    BY <2>1, <2>4, <2>5 DEF DecodeInv, Ran
<1>3. ASSUME stage = "decode", stage' \in Ran,
             UNCHANGED <<nesting, pats, todo, trees, leaves>>,
             Built /\ Decoding => Decoding'
      PROVE  DecodeInv'
  <2>1. Built /\ Decoding
    BY <1>3 DEF DecodeInv, Ran
  <2>2. Built'
    BY <1>3, <2>1, Kept
  <2>. QED
    BY <1>3, <2>1, <2>2 DEF DecodeInv
<1>4. CASE Branch
  BY <1>3, <1>4, BranchOK DEF Branch, Does, parseVars, treeVars, Ran
<1>5. CASE Test
  BY <1>3, <1>5, TestOK DEF Test, Does, parseVars, treeVars, Ran
<1>6. CASE ReturnFalse
  BY <1>3, <1>6, ReturnOK DEF ReturnFalse, parseVars, treeVars, Ran
<1>7. ASSUME NEW accepted \in BOOLEAN, CallTrans(accepted) PROVE DecodeInv'
  BY <1>3, <1>7, CallTransOK DEF CallTrans, Does, parseVars, treeVars, Ran
<1>8. CASE RefuseDecoder
  <2>1. stage \notin Ran /\ stage' \notin Ran /\ calls' = calls
    BY <1>8 DEF RefuseDecoder, cVars, Ran
  <2>2. GroupInv /\ Grown /\ calls = <<>>
    BY <2>1 DEF DecodeInv
  <2>3. UNCHANGED <<parseVars, treeVars>> /\ stage' = "error"
    BY <1>8 DEF RefuseDecoder
  <2>4. IndInv /\ Nested /\ Widening
    BY <2>2 DEF GroupInv
  <2>5. IndInv'
    BY <2>3, <2>4, StageInd
  <2>6. Nested' /\ Widening'
    BY <2>3, <2>4, WideningRest DEF Nested, parseVars, fileVars, treeVars
  <2>7. Grown'
    BY <2>2, <2>3, GrownStage DEF parseVars, treeVars
  <2>. QED
    BY <2>1, <2>2, <2>5, <2>6, <2>7 DEF DecodeInv, GroupInv
<1>9. CASE UNCHANGED decVars
  <2>1. UNCHANGED <<nesting, pats, stage, todo, trees, leaves, insn, frames, u, calls>>
    BY <1>9 DEF decVars
  <2>2. CASE stage \in Ran
    <3>1. Built /\ Decoding
      BY <2>2 DEF DecodeInv
    <3>2. Built'
      BY <2>1, <3>1, Kept
    <3>3. /\ Candidates' = Candidates
          /\ \A f : StatementOK(f)' <=> StatementOK(f)
          /\ \A f : Cover(f)' = Cover(f)
          /\ \A f, v : Formatted(f, v)' <=> Formatted(f, v)
      BY <2>1, Kept, KeptMatches
    <3>4. FramesOK'
      BY <2>1, <3>1, <3>3 DEF Decoding, FramesOK
    <3>5. CallsMade' /\ NoneForgotten'
      BY <2>1, <3>1, <3>3 DEF Decoding, CallsMade, NoneForgotten, Called, Pending
    <3>. QED
      BY <2>1, <2>2, <3>2, <3>4, <3>5 DEF DecodeInv, Decoding
  <2>3. CASE stage \notin Ran
    <3>1. GroupInv /\ Grown /\ calls = <<>>
      BY <2>3 DEF DecodeInv
    <3>2. UNCHANGED vars
      BY <1>9 DEF decVars, vars
    <3>3. GroupInv'
      BY <3>1, <3>2, GroupStep
    <3>4. Grown'
      BY <3>1, <3>2, GrownStep
    <3>. QED
      BY <2>1, <2>3, <3>1, <3>3, <3>4 DEF DecodeInv
  <2>. QED
    BY <2>2, <2>3
<1>. QED
  BY <1>1, <1>2, <1>4, <1>5, <1>6, <1>7, <1>8, <1>9 DEF DecodeNext, Decode

LEMMA InOrderCalls == DecodeInv => CallsInOrder
<1>. SUFFICES ASSUME DecodeInv PROVE CallsInOrder
  OBVIOUS
<1>1. IsSeq(pats)
  BY DEF DecodeInv, Built, Numbered, GroupInv, IndInv, Shapes
<1>2. Sorted(Matching, Candidates)
  BY <1>1, InOrderSorted DEF Matching, Candidates
<1>3. CASE stage \notin Ran
  <2>1. calls = <<>> /\ Len(calls) = 0 /\ DOMAIN calls = {}
    BY <1>3 DEF DecodeInv
  <2>2. Len(Matching) \in Nat
    BY <1>2 DEF Sorted
  <2>. QED
    BY <1>3, <2>1, <2>2 DEF CallsInOrder, Ran
<1>4. CASE stage \in Ran
  <2>1. CallsMade /\ NoneForgotten
    BY <1>4 DEF DecodeInv, Decoding
  <2>. DEFINE s == [k \in 1..Len(calls) |-> calls[k].pat]
  <2>2. Len(calls) \in Nat /\ DOMAIN calls = 1..Len(calls)
    BY <2>1, IsSeqLen DEF CallsMade
  <2>3. \A k \in DOMAIN calls : calls[k].pat \in Nat
    BY <1>1, <2>1, IsSeqLen DEF CallsMade, Candidates
  <2>4. /\ s \in Seq(Nat) /\ Len(s) = Len(calls) /\ DOMAIN s = DOMAIN calls
        /\ \A k \in DOMAIN calls : s[k] = calls[k].pat
    BY <2>2, <2>3
  <2>. HIDE DEF s
  <2>5. \A k \in DOMAIN s : s[k] \in Candidates
    BY <2>1, <2>4 DEF CallsMade
  <2>6. \A j, k \in DOMAIN s : j < k => s[j] < s[k]
    BY <2>1, <2>4 DEF CallsMade
  <2>7. \A i \in Candidates : (\E k \in DOMAIN s : s[k] = i) \/ \A k \in DOMAIN s : s[k] < i
    BY <2>1, <2>4 DEF CallsMade, Called
  <2>8. /\ Len(s) <= Len(Matching)
        /\ \A k \in DOMAIN s : s[k] = Matching[k]
        /\ (\A i \in Candidates : \E k \in DOMAIN s : s[k] = i) => Len(s) = Len(Matching)
    BY <1>2, <2>4, <2>5, <2>6, <2>7, Beginning
  <2>9. stage = "refused" => \A i \in Candidates : \E k \in DOMAIN s : s[k] = i
    BY <2>1, <2>4 DEF NoneForgotten, Called
  <2>. QED
    BY <2>4, <2>8, <2>9 DEF CallsInOrder
<1>. QED
  BY <1>3, <1>4

(* The generated decoder is right for every file and instruction: it calls *)
(* the functions of the patterns that match, in the order of the file,     *)
(* until one accepts, and refuses only when none that matches was left out *)
(* (CallsInOrder).                                                         *)
THEOREM DecoderCorrect == DecodeSpec => []CallsInOrder
BY DecodeInitInv, DecodeStep, InOrderCalls, PTL DEF DecodeSpec

(* And each gets the fields of its own pattern's format, also where they   *)
(* were extracted for several patterns at once (CallsExtracted).           *)
THEOREM ExtractionCorrect == DecodeSpec => []CallsExtracted
<1>1. DecodeInv => CallsExtracted
  BY DEF DecodeInv, Decoding, CallsMade, CallsExtracted
<1>. QED
  BY DecodeInitInv, DecodeStep, <1>1, PTL DEF DecodeSpec
=============================================================================
