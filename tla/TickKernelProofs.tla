--------------------------- MODULE TickKernelProofs ---------------------------
(* ECSWorld's indices always agree, and it implements EcsStore, alone and      *)
(* under the tick's batches; the tick's outputs explain each other; the       *)
(* world's and the floor's two sides agree.                                   *)
EXTENDS TickKernel, FiniteSetTheorems, TLAPS


-----------------------------------------------------------------------------
(* Sequences *)

(* The closed hole: every element but the i-th, the last one in its place.    *)
LEMMA SwapRemoveIs ==
    ASSUME NEW S, NEW s \in Seq(S), NEW i \in 1..Len(s)
    PROVE  /\ SwapRemove(s, i) \in Seq(S)
           /\ Len(SwapRemove(s, i)) = Len(s) - 1
           /\ \A k \in 1..(Len(s) - 1) :
                  SwapRemove(s, i)[k] = IF k = i THEN s[Len(s)] ELSE s[k]
<1> DEFINE n == Len(s) - 1
<1> DEFINE f == SwapRemove(s, i)
<1>1. n \in Nat /\ Len(s) \in Nat
  OBVIOUS
<1>2. f \in [1..n -> S]
  BY <1>1 DEF SwapRemove
<1>3. f \in Seq(S) /\ Len(f) = n
  BY <1>1, <1>2
<1> QED
  BY <1>3, <1>1 DEF SwapRemove

-----------------------------------------------------------------------------
(* One storage *)

(* A new row keeps the storage consistent, and what it returns for the        *)
(* entities it already had is unchanged (add_entity).                         *)
LEMMA AddRowOK ==
    ASSUME NEW sig, NEW st, StorageOK(st, sig),
           NEW e \in Nat, e \notin DOMAIN st.index, NEW m \in [sig -> Values]
    PROVE  LET t == AddRow(st, e, m)
           IN  /\ Shape(t)
               /\ StorageOK(t, sig)
               /\ DOMAIN t.index = DOMAIN st.index \cup {e}
               /\ t.index[e] = Len(st.ids) + 1
               /\ \A x \in DOMAIN st.index : t.index[x] = st.index[x]
               /\ RowOf(t, e) = m
               /\ \A x \in DOMAIN st.index : RowOf(t, x) = RowOf(st, x)
<1> DEFINE t == AddRow(st, e, m)
<1> DEFINE n == Len(st.ids)
<1>1. /\ t.ids = Append(st.ids, e)
      /\ t.index = Put(st.index, e, n + 1)
      /\ t.cols = [c \in DOMAIN st.cols |-> Append(st.cols[c], m[c])]
      /\ Shape(t)
  BY DEF AddRow, Shape
<1>2. n \in Nat /\ st.ids \in Seq(Nat)
  BY DEF StorageOK
<1>3. DOMAIN st.cols = sig /\ \A c \in sig : st.cols[c] \in Seq(Values) /\ Len(st.cols[c]) = n
  BY DEF StorageOK
<1>4. t.ids \in Seq(Nat) /\ Len(t.ids) = n + 1 /\ t.ids[n + 1] = e
      /\ \A i \in 1..n : t.ids[i] = st.ids[i]
  BY <1>1, <1>2
<1>5. /\ DOMAIN t.cols = sig
      /\ t.cols \in [sig -> Seq(Values)]
      /\ \A c \in sig : /\ Len(t.cols[c]) = n + 1
                        /\ t.cols[c][n + 1] = m[c]
                        /\ \A i \in 1..n : t.cols[c][i] = st.cols[c][i]
  <2>1. DOMAIN t.cols = sig /\ t.cols = [c \in sig |-> Append(st.cols[c], m[c])]
    BY <1>1, <1>3
  <2>2. ASSUME NEW c \in sig
        PROVE  /\ Append(st.cols[c], m[c]) \in Seq(Values)
               /\ Len(Append(st.cols[c], m[c])) = n + 1
               /\ Append(st.cols[c], m[c])[n + 1] = m[c]
               /\ \A i \in 1..n : Append(st.cols[c], m[c])[i] = st.cols[c][i]
    <3>1. m[c] \in Values /\ st.cols[c] \in Seq(Values) /\ Len(st.cols[c]) = n
      BY <1>3
    <3> QED
      BY <3>1, <1>2
  <2> HIDE DEF t
  <2> QED
    BY <2>1, <2>2
<1>6. /\ DOMAIN t.index = DOMAIN st.index \cup {e}
      /\ t.index[e] = n + 1
      /\ \A x \in DOMAIN st.index : t.index[x] = st.index[x]
  <2> HIDE DEF t, n
  <2>1. \A x \in DOMAIN st.index : x # e
    OBVIOUS
  <2> QED
    BY <1>1, <2>1 DEF Put
<1>7. \A x \in DOMAIN st.index : st.index[x] \in 1..n /\ st.ids[st.index[x]] = x
  BY DEF StorageOK
<1>8. \A i \in 1..n : st.ids[i] \in DOMAIN st.index /\ st.index[st.ids[i]] = i
  BY DEF StorageOK
<1> HIDE DEF t, n
<1>9. StorageOK(t, sig)
  <2>1. \A x \in DOMAIN t.index : t.index[x] \in 1..Len(t.ids) /\ t.ids[t.index[x]] = x
    BY <1>2, <1>4, <1>6, <1>7
  <2>2. \A i \in 1..Len(t.ids) : t.ids[i] \in DOMAIN t.index /\ t.index[t.ids[i]] = i
    BY <1>2, <1>4, <1>6, <1>8
  <2> QED
    BY <1>4, <1>5, <2>1, <2>2 DEF StorageOK
<1>10. RowOf(t, e) = m
  <2>1. RowOf(t, e) = [c \in sig |-> m[c]]
    BY <1>5, <1>6 DEF RowOf
  <2> QED
    BY <2>1
<1>11. ASSUME NEW x \in DOMAIN st.index PROVE RowOf(t, x) = RowOf(st, x)
  <2>1. t.index[x] = st.index[x] /\ st.index[x] \in 1..n
    BY <1>6, <1>7
  <2>2. \A c \in sig : t.cols[c][t.index[x]] = st.cols[c][st.index[x]]
    BY <1>5, <2>1
  <2> QED
    BY <1>3, <1>5, <2>2 DEF RowOf
<1> QED
  BY <1>1, <1>6, <1>9, <1>10, <1>11 DEF t, n

(* Taking out a row keeps the storage consistent although the last row        *)
(* changes its place, and changes nothing it returns for the others           *)
(* (remove_entity).                                                           *)
LEMMA RemoveRowOK ==
    ASSUME NEW sig, NEW st, StorageOK(st, sig), NEW e \in DOMAIN st.index
    PROVE  LET t == RemoveRow(st, e)
               last == st.ids[Len(st.ids)]
           IN  /\ Shape(t)
               /\ StorageOK(t, sig)
               /\ last \in DOMAIN st.index
               /\ DOMAIN t.index = DOMAIN st.index \ {e}
               /\ \A x \in DOMAIN t.index :
                      t.index[x] = IF x = last THEN st.index[e] ELSE st.index[x]
               /\ \A x \in DOMAIN t.index : RowOf(t, x) = RowOf(st, x)
<1> DEFINE t == RemoveRow(st, e)
<1> DEFINE n == Len(st.ids)
<1> DEFINE last == st.ids[n]
<1> DEFINE row == st.index[e]
<1>1. /\ t.ids = SwapRemove(st.ids, row)
      /\ t.index = Drop([st.index EXCEPT ![last] = row], e)
      /\ t.cols = [c \in DOMAIN st.cols |-> SwapRemove(st.cols[c], row)]
      /\ Shape(t)
  BY DEF RemoveRow, Shape
<1>2. n \in Nat /\ st.ids \in Seq(Nat)
  BY DEF StorageOK
<1>3. DOMAIN st.cols = sig /\ \A c \in sig : st.cols[c] \in Seq(Values) /\ Len(st.cols[c]) = n
  BY DEF StorageOK
<1>4. \A x \in DOMAIN st.index : st.index[x] \in 1..n /\ st.ids[st.index[x]] = x
  BY DEF StorageOK
<1>5. \A i \in 1..n : st.ids[i] \in DOMAIN st.index /\ st.index[st.ids[i]] = i
  BY DEF StorageOK
<1>6. row \in 1..n /\ st.ids[row] = e /\ n \in 1..n
  BY <1>2, <1>4
<1>7. last \in DOMAIN st.index /\ st.index[last] = n
  BY <1>5, <1>6
<1> HIDE DEF t, n, last, row
<1>8. /\ t.ids \in Seq(Nat)
      /\ Len(t.ids) = n - 1
      /\ \A k \in 1..(n - 1) : t.ids[k] = IF k = row THEN last ELSE st.ids[k]
  <2>1. row \in 1..Len(st.ids)
    BY <1>6 DEF n
  <2>2. /\ SwapRemove(st.ids, row) \in Seq(Nat)
        /\ Len(SwapRemove(st.ids, row)) = Len(st.ids) - 1
        /\ \A k \in 1..(Len(st.ids) - 1) :
               SwapRemove(st.ids, row)[k] = IF k = row THEN st.ids[Len(st.ids)] ELSE st.ids[k]
    BY <1>2, <2>1, SwapRemoveIs
  <2> QED
    BY <1>1, <2>2 DEF n, last
<1>9. /\ DOMAIN t.cols = sig
      /\ t.cols \in [sig -> Seq(Values)]
      /\ \A c \in sig :
             /\ Len(t.cols[c]) = n - 1
             /\ \A k \in 1..(n - 1) :
                    t.cols[c][k] = IF k = row THEN st.cols[c][n] ELSE st.cols[c][k]
  <2>1. DOMAIN t.cols = sig /\ t.cols = [c \in sig |-> SwapRemove(st.cols[c], row)]
    BY <1>1, <1>3
  <2>2. ASSUME NEW c \in sig
        PROVE  LET f == SwapRemove(st.cols[c], row)
               IN  /\ f \in Seq(Values)
                   /\ Len(f) = n - 1
                   /\ \A k \in 1..(n - 1) :
                          f[k] = IF k = row THEN st.cols[c][n] ELSE st.cols[c][k]
    <3>1. st.cols[c] \in Seq(Values) /\ Len(st.cols[c]) = n
      BY <1>3
    <3> QED
      BY <3>1, <1>6, SwapRemoveIs
  <2> QED
    BY <2>1, <2>2
<1>10. /\ DOMAIN t.index = DOMAIN st.index \ {e}
       /\ \A x \in DOMAIN t.index :
              t.index[x] = IF x = last THEN row ELSE st.index[x]
  <2> DEFINE g == [st.index EXCEPT ![last] = row]
  <2>1. DOMAIN g = DOMAIN st.index
    OBVIOUS
  <2>2. \A x \in DOMAIN st.index : g[x] = IF x = last THEN row ELSE st.index[x]
    BY <1>7
  <2>3. t.index = Drop(g, e)
    BY <1>1
  <2> HIDE DEF g
  <2> QED
    BY <2>1, <2>2, <2>3 DEF Drop
<1>11. \A x \in DOMAIN t.index : t.index[x] \in 1..(n - 1)
  <2> SUFFICES ASSUME NEW x \in DOMAIN t.index
               PROVE  t.index[x] \in 1..(n - 1)
    OBVIOUS
  <2>1. x \in DOMAIN st.index /\ x # e
    BY <1>10
  <2>2. CASE x = last
    <3>1. row # n
      BY <1>6, <2>1, <2>2 DEF last
    <3> QED
      BY <1>2, <1>6, <1>10, <2>2, <3>1
  <2>3. CASE x # last
    <3>1. st.index[x] # n
      BY <1>4, <2>1, <2>3 DEF last
    <3> QED
      BY <1>2, <1>4, <1>10, <2>1, <2>3, <3>1
  <2> QED
    BY <2>2, <2>3
<1>12. ASSUME NEW x \in DOMAIN t.index
       PROVE  /\ t.ids[t.index[x]] = x
              /\ \A c \in sig : t.cols[c][t.index[x]] = st.cols[c][st.index[x]]
  <2>1. x \in DOMAIN st.index /\ x # e
    BY <1>10
  <2>2. t.index[x] \in 1..(n - 1)
    BY <1>11
  <2>3. CASE x = last
    <3>1. t.index[x] = row /\ st.index[x] = n
      BY <1>7, <1>10, <2>3
    <3> QED
      BY <1>8, <1>9, <2>2, <2>3, <3>1
  <2>4. CASE x # last
    <3>1. t.index[x] = st.index[x]
      BY <1>10, <2>4
    <3>2. t.index[x] # row
      BY <1>4, <1>6, <2>1, <3>1
    <3> QED
      BY <1>4, <1>8, <1>9, <2>1, <2>2, <3>1, <3>2
  <2> QED
    BY <2>3, <2>4
<1>13. ASSUME NEW i \in 1..(n - 1)
       PROVE  t.ids[i] \in DOMAIN t.index /\ t.index[t.ids[i]] = i
  <2>1. i \in 1..n /\ i # n
    BY <1>2
  <2>2. CASE i = row
    <3>1. t.ids[i] = last
      BY <1>8, <2>2
    <3>2. last # e
      BY <1>7, <2>1, <2>2 DEF row
    <3> QED
      BY <1>7, <1>10, <2>2, <3>1, <3>2
  <2>3. CASE i # row
    <3>1. t.ids[i] = st.ids[i] /\ st.ids[i] \in DOMAIN st.index /\ st.index[st.ids[i]] = i
      BY <1>5, <1>8, <2>1, <2>3
    <3>2. st.ids[i] # e /\ st.ids[i] # last
      BY <1>7, <2>1, <2>3, <3>1 DEF row
    <3> QED
      BY <1>10, <3>1, <3>2
  <2> QED
    BY <2>2, <2>3
<1>14. StorageOK(t, sig)
  BY <1>8, <1>9, <1>11, <1>12, <1>13 DEF StorageOK
<1>15. ASSUME NEW x \in DOMAIN t.index PROVE RowOf(t, x) = RowOf(st, x)
  BY <1>3, <1>9, <1>12 DEF RowOf
<1> QED
  BY <1>1, <1>7, <1>10, <1>14, <1>15 DEF t, n, last, row

(* A cell written in place is the only thing that changes                     *)
(* (set_component_for_entity).                                                *)
LEMMA SetCellOK ==
    ASSUME NEW sig, NEW st, StorageOK(st, sig), Shape(st),
           NEW e \in DOMAIN st.index, NEW c \in sig, NEW v \in Values
    PROVE  LET t == SetCell(st, e, c, v)
           IN  /\ Shape(t)
               /\ StorageOK(t, sig)
               /\ t.ids = st.ids
               /\ t.index = st.index
               /\ RowOf(t, e) = Put(RowOf(st, e), c, v)
               /\ \A x \in DOMAIN st.index : x # e => RowOf(t, x) = RowOf(st, x)
<1> DEFINE t == SetCell(st, e, c, v)
<1> DEFINE n == Len(st.ids)
<1> DEFINE row == st.index[e]
<1>1. /\ st.cols \in [sig -> Seq(Values)]
      /\ \A d \in sig : st.cols[d] \in Seq(Values) /\ Len(st.cols[d]) = n
  BY DEF StorageOK
<1>2. /\ t.ids = st.ids
      /\ t.index = st.index
      /\ t.cols = [st.cols EXCEPT ![c] = [@ EXCEPT ![row] = v]]
      /\ Shape(t)
  BY DEF SetCell, Shape
<1>3. n \in Nat /\ \A x \in DOMAIN st.index : st.index[x] \in 1..n /\ st.ids[st.index[x]] = x
  BY DEF StorageOK
<1>4. row \in 1..n
  BY <1>3
<1>5. [st.cols[c] EXCEPT ![row] = v] \in Seq(Values)
      /\ Len([st.cols[c] EXCEPT ![row] = v]) = n
  BY <1>1, <1>4
<1>6. /\ DOMAIN t.cols = sig
      /\ t.cols \in [sig -> Seq(Values)]
      /\ \A d \in sig : Len(t.cols[d]) = n
      /\ \A d \in sig : d # c => t.cols[d] = st.cols[d]
      /\ t.cols[c] = [st.cols[c] EXCEPT ![row] = v]
  <2> HIDE DEF t, row, n
  <2> QED
    BY <1>1, <1>2, <1>5
<1>7. t.cols[c][row] = v /\ \A k \in 1..n : k # row => t.cols[c][k] = st.cols[c][k]
  <2>1. DOMAIN st.cols[c] = 1..n
    BY <1>1
  <2> HIDE DEF t, row, n
  <2> QED
    BY <1>4, <1>6, <2>1
<1> HIDE DEF t, n, row
<1>8. StorageOK(t, sig)
  BY <1>2, <1>6 DEF StorageOK, n
<1>9. RowOf(t, e) = Put(RowOf(st, e), c, v)
  <2>1. RowOf(t, e) = [d \in sig |-> IF d = c THEN v ELSE st.cols[d][row]]
    BY <1>2, <1>6, <1>7 DEF RowOf, row
  <2>2. Put(RowOf(st, e), c, v) = [d \in sig |-> IF d = c THEN v ELSE st.cols[d][row]]
    BY <1>1 DEF RowOf, Put, row
  <2> QED
    BY <2>1, <2>2
<1>10. ASSUME NEW x \in DOMAIN st.index, x # e PROVE RowOf(t, x) = RowOf(st, x)
  <2>1. st.index[x] \in 1..n /\ st.index[x] # row
    BY <1>3, <1>10 DEF row
  <2>2. \A d \in sig : t.cols[d][st.index[x]] = st.cols[d][st.index[x]]
    BY <1>6, <1>7, <2>1
  <2> QED
    BY <1>1, <1>2, <1>6, <2>2 DEF RowOf
<1> QED
  BY <1>2, <1>8, <1>9, <1>10 DEF t

(* A row is a bundle of its storage's signature. *)
LEMMA RowOfType ==
    ASSUME NEW sig, NEW st, StorageOK(st, sig), NEW e \in DOMAIN st.index
    PROVE  RowOf(st, e) \in [sig -> Values]
<1>1. DOMAIN st.cols = sig /\ st.index[e] \in 1..Len(st.ids)
  BY DEF StorageOK
<1>2. ASSUME NEW c \in sig PROVE st.cols[c][st.index[e]] \in Values
  <2>1. st.cols[c] \in Seq(Values) /\ Len(st.cols[c]) = Len(st.ids)
    BY DEF StorageOK
  <2> QED
    BY <1>1, <2>1
<1> QED
  BY <1>1, <1>2 DEF RowOf

-----------------------------------------------------------------------------
(* The world *)

(* A bundle is a function from its signature. *)
LEMMA BundleIs ==
    ASSUME NEW m \in Bundle
    PROVE  DOMAIN m \in Signatures /\ m \in [DOMAIN m -> Values]
BY DEF Bundle

(* Where a living entity is, and what it holds. *)
LEMMA LivingEntity ==
    ASSUME NEW w, WorldOK(w), NEW e \in DOMAIN w.loc
    PROVE  /\ w.loc[e].sig \in Signatures
           /\ e \in DOMAIN w.stores[w.loc[e].sig].index
           /\ w.loc[e].row = w.stores[w.loc[e].sig].index[e]
           /\ e \in Nat /\ e # w.next
           /\ ComponentsOf(w, e) \in [w.loc[e].sig -> Values]
           /\ EntitiesOf(w)[e] = ComponentsOf(w, e)
<1>1. /\ w.loc[e].sig \in Signatures
      /\ e \in DOMAIN w.stores[w.loc[e].sig].index
      /\ w.loc[e].row = w.stores[w.loc[e].sig].index[e]
  BY DEF WorldOK, IndexesAgree
<1>2. e \in Nat /\ e # w.next
  BY DEF WorldOK, IdsOK
<1>3. ComponentsOf(w, e) \in [w.loc[e].sig -> Values]
  BY <1>1, RowOfType DEF ComponentsOf, WorldOK, StoresOK
<1> QED
  BY <1>1, <1>2, <1>3 DEF EntitiesOf

(* create_entity adds its entity and nothing else. *)
LEMMA CreateOK ==
    ASSUME NEW w, WorldOK(w), NEW m \in Bundle
    PROVE  LET x == CreateEntity(w, m)
           IN  /\ WorldOK(x)
               /\ EntitiesOf(x) = Put(EntitiesOf(w), w.next, m)
               /\ x.next = w.next + 1
<1> DEFINE x == CreateEntity(w, m)
<1> DEFINE s == DOMAIN m
<1> DEFINE e == w.next
<1> DEFINE st == w.stores[s]
<1> DEFINE new == AddRow(st, e, m)
<1>1. s \in Signatures /\ m \in [s -> Values]
  BY BundleIs
<1>2. /\ x.next = w.next + 1
      /\ x.alive = w.alive \cup {e}
      /\ x.loc = Put(w.loc, e, [sig |-> s, row |-> Len(st.ids) + 1])
      /\ x.stores = [w.stores EXCEPT ![s] = new]
  BY DEF CreateEntity
<1>3. Shape(st) /\ StorageOK(st, s) /\ DOMAIN w.stores = Signatures
  BY <1>1 DEF WorldOK, StoresOK
<1>4. e \in Nat \ {0} /\ e \notin DOMAIN w.loc
  BY DEF WorldOK, IdsOK
<1>5. \A t \in Signatures : e \notin DOMAIN w.stores[t].index
  BY <1>4 DEF WorldOK, IndexesAgree
<1>6. /\ Shape(new)
      /\ StorageOK(new, s)
      /\ DOMAIN new.index = DOMAIN st.index \cup {e}
      /\ new.index[e] = Len(st.ids) + 1
      /\ \A y \in DOMAIN st.index : new.index[y] = st.index[y]
      /\ RowOf(new, e) = m
      /\ \A y \in DOMAIN st.index : RowOf(new, y) = RowOf(st, y)
  BY <1>1, <1>3, <1>4, <1>5, AddRowOK
<1>7. x.stores[s] = new /\ \A t \in Signatures : t # s => x.stores[t] = w.stores[t]
  BY <1>1, <1>2, <1>3
<1>8. /\ DOMAIN x.loc = DOMAIN w.loc \cup {e}
      /\ x.loc[e] = [sig |-> s, row |-> Len(st.ids) + 1]
      /\ \A y \in DOMAIN w.loc : x.loc[y] = w.loc[y]
  BY <1>2, <1>4 DEF Put
<1>9. Len(st.ids) \in Nat
  BY <1>3 DEF StorageOK
<1> HIDE DEF x, s, e, st, new
<1>10. IdsOK(x)
  BY <1>2, <1>4, <1>8 DEF WorldOK, IdsOK, e
<1>11. StoresOK(x)
  <2>1. x.stores = [t \in Signatures |-> x.stores[t]]
    BY <1>1, <1>2, <1>3
  <2> QED
    BY <1>6, <1>7, <2>1 DEF WorldOK, StoresOK
<1>12. \A y \in DOMAIN w.loc : w.loc[y].sig \in Signatures
       /\ w.loc[y].row \in Nat
       /\ w.loc[y] \in [sig : Signatures, row : Nat]
       /\ y \in DOMAIN w.stores[w.loc[y].sig].index
       /\ w.loc[y].row = w.stores[w.loc[y].sig].index[y]
  BY DEF WorldOK, IndexesAgree
<1>13. IndexesAgree(x)
  <2>1. ASSUME NEW y \in DOMAIN x.loc
        PROVE  /\ x.loc[y] \in [sig : Signatures, row : Nat]
               /\ y \in DOMAIN x.stores[x.loc[y].sig].index
               /\ x.loc[y].row = x.stores[x.loc[y].sig].index[y]
    <3>1. CASE y = e
      BY <1>1, <1>6, <1>7, <1>8, <1>9, <3>1
    <3>2. CASE y # e
      <4>1. y \in DOMAIN w.loc /\ x.loc[y] = w.loc[y]
        BY <1>8, <3>2
      <4> QED
        BY <1>6, <1>7, <1>12, <4>1 DEF st
    <3> QED
      BY <3>1, <3>2
  <2>2. ASSUME NEW t \in Signatures, NEW y \in DOMAIN x.stores[t].index
        PROVE  y \in DOMAIN x.loc /\ x.loc[y].sig = t
    <3>1. \A u \in Signatures : \A z \in DOMAIN w.stores[u].index :
              z \in DOMAIN w.loc /\ w.loc[z].sig = u
      BY DEF WorldOK, IndexesAgree
    <3> QED
      BY <1>1, <1>4, <1>6, <1>7, <1>8, <3>1 DEF st
  <2> QED
    BY <2>1, <2>2 DEF IndexesAgree
<1>14. EntitiesOf(x) = Put(EntitiesOf(w), e, m)
  <2>1. ComponentsOf(x, e) = m
    BY <1>6, <1>7, <1>8 DEF ComponentsOf
  <2>2. ASSUME NEW y \in DOMAIN w.loc PROVE ComponentsOf(x, y) = ComponentsOf(w, y)
    BY <1>6, <1>7, <1>8, <1>12 DEF ComponentsOf, st
  <2>3. EntitiesOf(x) = [y \in DOMAIN w.loc \cup {e} |->
                           IF y = e THEN m ELSE ComponentsOf(w, y)]
    BY <1>8, <2>1, <2>2 DEF EntitiesOf
  <2>4. Put(EntitiesOf(w), e, m) = [y \in DOMAIN w.loc \cup {e} |->
                           IF y = e THEN m ELSE ComponentsOf(w, y)]
    BY <1>4 DEF EntitiesOf, Put
  <2> QED
    BY <2>3, <2>4
<1> QED
  BY <1>2, <1>10, <1>11, <1>13, <1>14 DEF WorldOK, x, e

(* An entity that leaves its storage, for good or for another one: the world's *)
(* index follows the row that moved, and nobody else's components change.      *)
LEMMA LeaveOK ==
    ASSUME NEW w, WorldOK(w), NEW e \in DOMAIN w.loc
    PROVE  LET s == w.loc[e].sig
               left == [w.stores EXCEPT ![s] = RemoveRow(@, e)]
               at == Relocate(w, e)
           IN  /\ left = [t \in Signatures |-> left[t]]
               /\ \A t \in Signatures : Shape(left[t]) /\ StorageOK(left[t], t)
               /\ DOMAIN at = DOMAIN w.loc
               /\ \A y \in DOMAIN w.loc : y # e =>
                      /\ at[y] \in [sig : Signatures, row : Nat]
                      /\ at[y].sig = w.loc[y].sig
                      /\ y \in DOMAIN left[at[y].sig].index
                      /\ at[y].row = left[at[y].sig].index[y]
                      /\ RowOf(left[at[y].sig], y) = ComponentsOf(w, y)
               /\ \A t \in Signatures : \A y \in DOMAIN left[t].index :
                      y \in DOMAIN w.loc /\ y # e /\ w.loc[y].sig = t
<1> DEFINE s == w.loc[e].sig
<1> DEFINE st == w.stores[s]
<1> DEFINE cut == RemoveRow(st, e)
<1> DEFINE left == [w.stores EXCEPT ![s] = RemoveRow(@, e)]
<1> DEFINE at == Relocate(w, e)
<1> DEFINE last == st.ids[Len(st.ids)]
<1>1. s \in Signatures /\ e \in DOMAIN st.index /\ w.loc[e].row = st.index[e]
  BY LivingEntity
<1>2. Shape(st) /\ StorageOK(st, s) /\ DOMAIN w.stores = Signatures
  BY <1>1 DEF WorldOK, StoresOK
<1>3. /\ Shape(cut)
      /\ StorageOK(cut, s)
      /\ last \in DOMAIN st.index
      /\ DOMAIN cut.index = DOMAIN st.index \ {e}
      /\ \A y \in DOMAIN cut.index :
             cut.index[y] = IF y = last THEN st.index[e] ELSE st.index[y]
      /\ \A y \in DOMAIN cut.index : RowOf(cut, y) = RowOf(st, y)
  <2> HIDE DEF s, st
  <2> QED
    BY <1>1, <1>2, RemoveRowOK
<1>4. left[s] = cut /\ \A t \in Signatures : t # s => left[t] = w.stores[t]
  BY <1>1, <1>2
<1>5. left = [t \in Signatures |-> left[t]]
  BY <1>1, <1>2
<1>6. at = [w.loc EXCEPT ![last] = [sig |-> s, row |-> w.loc[e].row]]
  BY DEF Relocate
<1>7. \A t \in Signatures : \A y \in DOMAIN w.stores[t].index :
          y \in DOMAIN w.loc /\ w.loc[y].sig = t
  BY DEF WorldOK, IndexesAgree
<1>8. \A y \in DOMAIN w.loc :
          /\ w.loc[y] \in [sig : Signatures, row : Nat]
          /\ w.loc[y].sig \in Signatures
          /\ y \in DOMAIN w.stores[w.loc[y].sig].index
          /\ w.loc[y].row = w.stores[w.loc[y].sig].index[y]
  BY DEF WorldOK, IndexesAgree
<1>9. w.loc[e].row \in Nat
  BY <1>8
<1>10. last \in DOMAIN w.loc /\ w.loc[last].sig = s
  BY <1>1, <1>3, <1>7
<1> HIDE DEF s, st, cut, left, at, last
<1>11. /\ DOMAIN at = DOMAIN w.loc
       /\ at[last] = [sig |-> s, row |-> w.loc[e].row]
       /\ \A y \in DOMAIN w.loc : y # last => at[y] = w.loc[y]
  BY <1>6, <1>10
<1>12. ASSUME NEW y \in DOMAIN w.loc, y # e
       PROVE  /\ at[y] \in [sig : Signatures, row : Nat]
              /\ at[y].sig = w.loc[y].sig
              /\ y \in DOMAIN left[at[y].sig].index
              /\ at[y].row = left[at[y].sig].index[y]
              /\ RowOf(left[at[y].sig], y) = ComponentsOf(w, y)
  <2>1. CASE w.loc[y].sig = s
    <3>1. y \in DOMAIN cut.index /\ RowOf(cut, y) = ComponentsOf(w, y)
      BY <1>3, <1>8, <1>12, <2>1 DEF st, ComponentsOf
    <3>2. CASE y = last
      BY <1>1, <1>3, <1>4, <1>9, <1>11, <3>1, <3>2, <2>1
    <3>3. CASE y # last
      <4>1. at[y] = w.loc[y] /\ cut.index[y] = st.index[y]
        BY <1>3, <1>11, <3>1, <3>3
      <4> QED
        BY <1>4, <1>8, <2>1, <3>1, <4>1 DEF st
    <3> QED
      BY <3>2, <3>3
  <2>2. CASE w.loc[y].sig # s
    <3>1. at[y] = w.loc[y]
      BY <1>10, <1>11, <2>2
    <3>2. left[w.loc[y].sig] = w.stores[w.loc[y].sig]
      BY <1>4, <1>8, <2>2
    <3> QED
      BY <1>8, <3>1, <3>2 DEF ComponentsOf
  <2> QED
    BY <2>1, <2>2
<1>13. ASSUME NEW t \in Signatures, NEW y \in DOMAIN left[t].index
       PROVE  y \in DOMAIN w.loc /\ y # e /\ w.loc[y].sig = t
  <2>1. CASE t = s
    BY <1>1, <1>3, <1>4, <1>7, <2>1 DEF st
  <2>2. CASE t # s
    <3>1. y \in DOMAIN w.stores[t].index
      BY <1>4, <2>2
    <3> QED
      BY <1>7, <2>2, <3>1 DEF s
  <2> QED
    BY <2>1, <2>2
<1>14. \A t \in Signatures : Shape(left[t]) /\ StorageOK(left[t], t)
  BY <1>3, <1>4 DEF WorldOK, StoresOK
<1> QED
  BY <1>5, <1>11, <1>12, <1>13, <1>14 DEF s, left, at

(* destroy_entity drops its entity and nothing else. *)
LEMMA DestroyOK ==
    ASSUME NEW w, WorldOK(w), NEW e \in DOMAIN w.loc
    PROVE  LET x == DestroyEntity(w, e)
           IN  /\ WorldOK(x)
               /\ EntitiesOf(x) = Drop(EntitiesOf(w), e)
               /\ x.next = w.next
<1> DEFINE x == DestroyEntity(w, e)
<1> DEFINE left == [w.stores EXCEPT ![w.loc[e].sig] = RemoveRow(@, e)]
<1> DEFINE at == Relocate(w, e)
<1>1. /\ x.next = w.next
      /\ x.alive = w.alive \ {e}
      /\ x.loc = Drop(at, e)
      /\ x.stores = left
  BY DEF DestroyEntity, HasEntity
<1>2. /\ left = [t \in Signatures |-> left[t]]
      /\ \A t \in Signatures : Shape(left[t]) /\ StorageOK(left[t], t)
      /\ DOMAIN at = DOMAIN w.loc
      /\ \A y \in DOMAIN w.loc : y # e =>
             /\ at[y] \in [sig : Signatures, row : Nat]
             /\ at[y].sig = w.loc[y].sig
             /\ y \in DOMAIN left[at[y].sig].index
             /\ at[y].row = left[at[y].sig].index[y]
             /\ RowOf(left[at[y].sig], y) = ComponentsOf(w, y)
      /\ \A t \in Signatures : \A y \in DOMAIN left[t].index :
             y \in DOMAIN w.loc /\ y # e /\ w.loc[y].sig = t
  BY LeaveOK
<1> HIDE DEF x, left, at
<1>3. /\ DOMAIN x.loc = DOMAIN w.loc \ {e}
      /\ \A y \in DOMAIN x.loc : x.loc[y] = at[y]
  BY <1>1, <1>2 DEF Drop
<1>4. IdsOK(x)
  BY <1>1, <1>3 DEF WorldOK, IdsOK
<1>5. StoresOK(x)
  BY <1>1, <1>2 DEF StoresOK
<1>6. IndexesAgree(x)
  BY <1>1, <1>2, <1>3 DEF IndexesAgree
<1>7. EntitiesOf(x) = Drop(EntitiesOf(w), e)
  <2>1. \A y \in DOMAIN x.loc : ComponentsOf(x, y) = ComponentsOf(w, y)
    BY <1>1, <1>2, <1>3 DEF ComponentsOf
  <2>2. EntitiesOf(x) = [y \in DOMAIN w.loc \ {e} |-> ComponentsOf(w, y)]
    BY <1>3, <2>1 DEF EntitiesOf
  <2> QED
    BY <2>2 DEF EntitiesOf, Drop
<1> QED
  BY <1>1, <1>4, <1>5, <1>6, <1>7 DEF WorldOK, x

(* An entity that moves to another storage takes the new bundle with it, and  *)
(* nobody else is touched (add_component and remove_component).               *)
LEMMA MoveOK ==
    ASSUME NEW w, WorldOK(w), NEW e \in DOMAIN w.loc,
           NEW m \in Bundle, DOMAIN m # w.loc[e].sig
    PROVE  LET x == MoveTo(w, e, m)
           IN  /\ WorldOK(x)
               /\ EntitiesOf(x) = [EntitiesOf(w) EXCEPT ![e] = m]
               /\ x.next = w.next
<1> DEFINE x == MoveTo(w, e, m)
<1> DEFINE s == DOMAIN m
<1> DEFINE left == [w.stores EXCEPT ![w.loc[e].sig] = RemoveRow(@, e)]
<1> DEFINE at == Relocate(w, e)
<1> DEFINE new == AddRow(left[s], e, m)
<1>1. /\ x.next = w.next
      /\ x.alive = w.alive
      /\ x.loc = [at EXCEPT ![e] = [sig |-> s, row |-> Len(left[s].ids) + 1]]
      /\ x.stores = [left EXCEPT ![s] = new]
  BY DEF MoveTo
<1>2. /\ left = [t \in Signatures |-> left[t]]
      /\ \A t \in Signatures : Shape(left[t]) /\ StorageOK(left[t], t)
      /\ DOMAIN at = DOMAIN w.loc
      /\ \A y \in DOMAIN w.loc : y # e =>
             /\ at[y] \in [sig : Signatures, row : Nat]
             /\ at[y].sig = w.loc[y].sig
             /\ y \in DOMAIN left[at[y].sig].index
             /\ at[y].row = left[at[y].sig].index[y]
             /\ RowOf(left[at[y].sig], y) = ComponentsOf(w, y)
      /\ \A t \in Signatures : \A y \in DOMAIN left[t].index :
             y \in DOMAIN w.loc /\ y # e /\ w.loc[y].sig = t
  BY LeaveOK
<1>3. s \in Signatures /\ m \in [s -> Values]
  BY BundleIs
<1>4. e \in Nat
  BY LivingEntity
<1> HIDE DEF left, at, s
<1>5. /\ Shape(new)
      /\ StorageOK(new, s)
      /\ DOMAIN new.index = DOMAIN left[s].index \cup {e}
      /\ new.index[e] = Len(left[s].ids) + 1
      /\ \A y \in DOMAIN left[s].index : new.index[y] = left[s].index[y]
      /\ RowOf(new, e) = m
      /\ \A y \in DOMAIN left[s].index : RowOf(new, y) = RowOf(left[s], y)
  <2>1. StorageOK(left[s], s) /\ e \notin DOMAIN left[s].index
    BY <1>2, <1>3
  <2> QED
    BY <1>3, <1>4, <2>1, AddRowOK
<1> HIDE DEF x, new
<1>6. x.stores[s] = new /\ \A t \in Signatures : t # s => x.stores[t] = left[t]
  BY <1>1, <1>2, <1>3
<1>7. /\ DOMAIN x.loc = DOMAIN w.loc
      /\ x.loc[e] = [sig |-> s, row |-> Len(left[s].ids) + 1]
      /\ \A y \in DOMAIN w.loc : y # e => x.loc[y] = at[y]
  BY <1>1, <1>2
<1>8. Len(left[s].ids) \in Nat
  BY <1>2, <1>3 DEF StorageOK
<1>9. IdsOK(x)
  BY <1>1, <1>7 DEF WorldOK, IdsOK
<1>10. StoresOK(x)
  <2>1. x.stores = [t \in Signatures |-> x.stores[t]]
    BY <1>1, <1>2, <1>3
  <2> QED
    BY <1>2, <1>5, <1>6, <2>1 DEF StoresOK
<1>11. ASSUME NEW y \in DOMAIN w.loc, y # e
       PROVE  /\ x.loc[y] \in [sig : Signatures, row : Nat]
              /\ y \in DOMAIN x.stores[x.loc[y].sig].index
              /\ x.loc[y].row = x.stores[x.loc[y].sig].index[y]
              /\ ComponentsOf(x, y) = ComponentsOf(w, y)
  <2>1. /\ x.loc[y] = at[y] /\ at[y].sig \in Signatures
        /\ x.loc[y] \in [sig : Signatures, row : Nat]
        /\ y \in DOMAIN left[at[y].sig].index
        /\ at[y].row = left[at[y].sig].index[y]
        /\ RowOf(left[at[y].sig], y) = ComponentsOf(w, y)
    BY <1>2, <1>7, <1>11
  <2>2. CASE at[y].sig = s
    BY <1>5, <1>6, <2>1, <2>2 DEF ComponentsOf
  <2>3. CASE at[y].sig # s
    BY <1>6, <2>1, <2>3 DEF ComponentsOf
  <2> QED
    BY <2>2, <2>3
<1>12. IndexesAgree(x)
  <2>1. ASSUME NEW y \in DOMAIN x.loc
        PROVE  /\ x.loc[y] \in [sig : Signatures, row : Nat]
               /\ y \in DOMAIN x.stores[x.loc[y].sig].index
               /\ x.loc[y].row = x.stores[x.loc[y].sig].index[y]
    <3>1. CASE y = e
      BY <1>3, <1>5, <1>6, <1>7, <1>8, <3>1
    <3> QED
      BY <1>7, <1>11, <3>1
  <2>2. ASSUME NEW t \in Signatures, NEW y \in DOMAIN x.stores[t].index
        PROVE  y \in DOMAIN x.loc /\ x.loc[y].sig = t
    <3>1. CASE y = e
      <4>1. t = s
        BY <1>2, <1>6, <3>1
      <4> QED
        BY <1>7, <3>1, <4>1
    <3>2. CASE y # e
      <4>1. y \in DOMAIN left[t].index
        BY <1>5, <1>6, <3>2
      <4>2. y \in DOMAIN w.loc /\ w.loc[y].sig = t
        BY <1>2, <4>1
      <4> QED
        BY <1>2, <1>7, <3>2, <4>2
    <3> QED
      BY <3>1, <3>2
  <2> QED
    BY <2>1, <2>2 DEF IndexesAgree
<1>13. EntitiesOf(x) = [EntitiesOf(w) EXCEPT ![e] = m]
  <2>1. ComponentsOf(x, e) = m
    BY <1>5, <1>6, <1>7 DEF ComponentsOf
  <2>2. EntitiesOf(x) = [y \in DOMAIN w.loc |-> IF y = e THEN m ELSE ComponentsOf(w, y)]
    BY <1>7, <1>11, <2>1 DEF EntitiesOf
  <2> QED
    BY <2>2 DEF EntitiesOf
<1> QED
  BY <1>1, <1>9, <1>10, <1>12, <1>13 DEF WorldOK, x

(* A component written in place. *)
LEMMA OverwriteOK ==
    ASSUME NEW w, WorldOK(w), NEW e, NEW c, HasComponent(w, e, c), NEW v \in Values
    PROVE  LET x == AddComponent(w, e, c, v)
           IN  /\ WorldOK(x)
               /\ EntitiesOf(x) = [EntitiesOf(w) EXCEPT ![e] = Put(@, c, v)]
               /\ x.next = w.next
<1> DEFINE x == AddComponent(w, e, c, v)
<1> DEFINE s == w.loc[e].sig
<1> DEFINE st == w.stores[s]
<1> DEFINE new == SetCell(st, e, c, v)
<1>1. e \in DOMAIN w.loc /\ c \in s
  BY DEF HasComponent, HasEntity
<1>2. /\ x.next = w.next
      /\ x.alive = w.alive
      /\ x.loc = w.loc
      /\ x.stores = [w.stores EXCEPT ![s] = new]
  BY <1>1 DEF AddComponent, HasComponent, HasEntity
<1>3. s \in Signatures /\ e \in DOMAIN st.index
  BY <1>1, LivingEntity
<1>4. Shape(st) /\ StorageOK(st, s) /\ DOMAIN w.stores = Signatures
  BY <1>3 DEF WorldOK, StoresOK
<1>5. /\ Shape(new)
      /\ StorageOK(new, s)
      /\ new.index = st.index
      /\ RowOf(new, e) = Put(RowOf(st, e), c, v)
      /\ \A y \in DOMAIN st.index : y # e => RowOf(new, y) = RowOf(st, y)
  <2> HIDE DEF s, st
  <2> QED
    BY <1>1, <1>3, <1>4, SetCellOK
<1>6. \A y \in DOMAIN w.loc :
          /\ w.loc[y] \in [sig : Signatures, row : Nat]
          /\ w.loc[y].sig \in Signatures
          /\ y \in DOMAIN w.stores[w.loc[y].sig].index
          /\ w.loc[y].row = w.stores[w.loc[y].sig].index[y]
  BY DEF WorldOK, IndexesAgree
<1> HIDE DEF x, s, st, new
<1>7. x.stores[s] = new /\ \A t \in Signatures : t # s => x.stores[t] = w.stores[t]
  BY <1>2, <1>3, <1>4
<1>8. \A t \in Signatures : x.stores[t].index = w.stores[t].index
  BY <1>5, <1>7 DEF st
<1>9. IdsOK(x)
  BY <1>2 DEF WorldOK, IdsOK
<1>10. StoresOK(x)
  <2>1. x.stores = [t \in Signatures |-> x.stores[t]]
    BY <1>2, <1>3, <1>4
  <2> QED
    BY <1>5, <1>7, <2>1 DEF WorldOK, StoresOK
<1>11. IndexesAgree(x)
  BY <1>2, <1>6, <1>8 DEF WorldOK, IndexesAgree
<1>12. EntitiesOf(x) = [EntitiesOf(w) EXCEPT ![e] = Put(@, c, v)]
  <2>1. ComponentsOf(x, e) = Put(ComponentsOf(w, e), c, v)
    BY <1>2, <1>5, <1>7 DEF ComponentsOf, s, st
  <2>2. ASSUME NEW y \in DOMAIN w.loc, y # e PROVE ComponentsOf(x, y) = ComponentsOf(w, y)
    <3>1. CASE w.loc[y].sig = s
      BY <1>2, <1>5, <1>6, <1>7, <2>2, <3>1 DEF ComponentsOf, st
    <3>2. CASE w.loc[y].sig # s
      BY <1>2, <1>6, <1>7, <3>2 DEF ComponentsOf
    <3> QED
      BY <3>1, <3>2
  <2>3. EntitiesOf(x) = [y \in DOMAIN w.loc |->
            IF y = e THEN Put(ComponentsOf(w, e), c, v) ELSE ComponentsOf(w, y)]
    BY <1>2, <2>1, <2>2 DEF EntitiesOf
  <2> QED
    BY <1>1, <2>3 DEF EntitiesOf
<1> QED
  BY <1>2, <1>9, <1>10, <1>11, <1>12 DEF WorldOK, x

(* A bundle with a component written, or dropped, is a bundle. *)
LEMMA BundlePut ==
    ASSUME NEW s \in Signatures, NEW m \in [s -> Values], NEW c \in Comps, NEW v \in Values
    PROVE  Put(m, c, v) \in Bundle /\ DOMAIN Put(m, c, v) = s \cup {c}
<1>1. Put(m, c, v) \in [s \cup {c} -> Values] /\ s \cup {c} \in Signatures
  BY DEF Put, Signatures
<1> QED
  BY <1>1 DEF Bundle

LEMMA BundleDrop ==
    ASSUME NEW s \in Signatures, NEW m \in [s -> Values], NEW c
    PROVE  Drop(m, c) \in Bundle /\ DOMAIN Drop(m, c) = s \ {c}
<1>1. Drop(m, c) \in [s \ {c} -> Values] /\ s \ {c} \in Signatures
  BY DEF Drop, Signatures
<1> QED
  BY <1>1 DEF Bundle

(* add_component: an overwrite or a move; nothing for an unknown entity. *)
LEMMA AddOK ==
    ASSUME NEW w, WorldOK(w), NEW e, NEW c \in Comps, NEW v \in Values
    PROVE  LET x == AddComponent(w, e, c, v)
           IN  /\ WorldOK(x)
               /\ x.next = w.next
               /\ IF e \in DOMAIN w.loc
                  THEN EntitiesOf(x) = [EntitiesOf(w) EXCEPT ![e] = Put(@, c, v)]
                  ELSE EntitiesOf(x) = EntitiesOf(w)
<1>1. CASE ~HasEntity(w, e)
  BY <1>1 DEF AddComponent, HasEntity
<1>2. CASE HasComponent(w, e, c)
  BY <1>2, OverwriteOK DEF HasComponent, HasEntity
<1>3. CASE HasEntity(w, e) /\ ~HasComponent(w, e, c)
  <2> DEFINE m == Put(ComponentsOf(w, e), c, v)
  <2>1. e \in DOMAIN w.loc /\ c \notin w.loc[e].sig
    BY <1>3 DEF HasEntity, HasComponent
  <2>2. /\ w.loc[e].sig \in Signatures
        /\ ComponentsOf(w, e) \in [w.loc[e].sig -> Values]
        /\ EntitiesOf(w)[e] = ComponentsOf(w, e)
    BY <2>1, LivingEntity
  <2>3. m \in Bundle /\ DOMAIN m = w.loc[e].sig \cup {c}
    BY <2>2, BundlePut
  <2>4. AddComponent(w, e, c, v) = MoveTo(w, e, m)
    BY <1>3 DEF AddComponent
  <2> HIDE DEF m
  <2>5. /\ WorldOK(MoveTo(w, e, m))
        /\ EntitiesOf(MoveTo(w, e, m)) = [EntitiesOf(w) EXCEPT ![e] = m]
        /\ MoveTo(w, e, m).next = w.next
    BY <2>1, <2>3, MoveOK
  <2>6. [EntitiesOf(w) EXCEPT ![e] = m] = [EntitiesOf(w) EXCEPT ![e] = Put(@, c, v)]
    BY <2>2 DEF m
  <2> QED
    BY <2>1, <2>4, <2>5, <2>6
<1> QED
  BY <1>1, <1>2, <1>3

(* remove_component: a move; nothing for what is not there. *)
LEMMA RemoveOK ==
    ASSUME NEW w, WorldOK(w), NEW e, NEW c \in Comps
    PROVE  LET x == RemoveComponent(w, e, c)
           IN  /\ WorldOK(x)
               /\ x.next = w.next
               /\ IF HasComponent(w, e, c)
                  THEN EntitiesOf(x) = [EntitiesOf(w) EXCEPT ![e] = Drop(@, c)]
                  ELSE EntitiesOf(x) = EntitiesOf(w)
<1>1. CASE ~HasComponent(w, e, c)
  BY <1>1 DEF RemoveComponent
<1>2. CASE HasComponent(w, e, c)
  <2> DEFINE m == Drop(ComponentsOf(w, e), c)
  <2>1. e \in DOMAIN w.loc /\ c \in w.loc[e].sig
    BY <1>2 DEF HasEntity, HasComponent
  <2>2. /\ w.loc[e].sig \in Signatures
        /\ ComponentsOf(w, e) \in [w.loc[e].sig -> Values]
        /\ EntitiesOf(w)[e] = ComponentsOf(w, e)
    BY <2>1, LivingEntity
  <2>3. m \in Bundle /\ DOMAIN m = w.loc[e].sig \ {c}
    BY <2>2, BundleDrop
  <2>4. RemoveComponent(w, e, c) = MoveTo(w, e, m)
    BY <1>2 DEF RemoveComponent
  <2> HIDE DEF m
  <2>5. /\ WorldOK(MoveTo(w, e, m))
        /\ EntitiesOf(MoveTo(w, e, m)) = [EntitiesOf(w) EXCEPT ![e] = m]
        /\ MoveTo(w, e, m).next = w.next
    BY <2>1, <2>3, MoveOK
  <2>6. [EntitiesOf(w) EXCEPT ![e] = m] = [EntitiesOf(w) EXCEPT ![e] = Drop(@, c)]
    BY <2>2 DEF m
  <2> QED
    BY <1>2, <2>4, <2>5, <2>6
<1> QED
  BY <1>1, <1>2

-----------------------------------------------------------------------------
(* The theorems *)

LEMMA InitOK == WorldOK(EmptyWorld) /\ EntitiesOf(EmptyWorld) = [e \in {} |-> {}]
<1>1. \A s \in Signatures : Shape(EmptyStorage(s)) /\ StorageOK(EmptyStorage(s), s)
  <2> SUFFICES ASSUME NEW s \in Signatures
               PROVE  Shape(EmptyStorage(s)) /\ StorageOK(EmptyStorage(s), s)
    OBVIOUS
  <2>1. DOMAIN EmptyStorage(s).index = {}
    BY DEF EmptyStorage, Nothing
  <2>2. EmptyStorage(s).ids = <<>> /\ EmptyStorage(s).cols = [c \in s |-> <<>>]
    BY DEF EmptyStorage
  <2>3. Shape(EmptyStorage(s))
    BY DEF EmptyStorage, Shape
  <2> QED
    BY <2>1, <2>2, <2>3 DEF StorageOK
<1>2. /\ EmptyWorld.next = 1
      /\ EmptyWorld.alive = {}
      /\ DOMAIN EmptyWorld.loc = {}
      /\ EmptyWorld.stores = [s \in Signatures |-> EmptyStorage(s)]
  BY DEF EmptyWorld, Nothing
<1>3. \A s \in Signatures : DOMAIN EmptyStorage(s).index = {}
  BY DEF EmptyStorage, Nothing
<1> QED
  BY <1>1, <1>2, <1>3 DEF WorldOK, IdsOK, StoresOK, IndexesAgree, EntitiesOf

(* Every operation of the world keeps it consistent and is an operation of    *)
(* the store, or nothing at all.                                              *)
LEMMA StepOK ==
    ASSUME WorldConsistent, [Next]_ecs
    PROVE  WorldConsistent' /\ [Store!Next]_(Store!storeVars)
<1> USE DEF Store!storeVars
<1>0. WorldOK(ecs)
  BY DEF WorldConsistent
<1>1. CASE Create
  <2>1. PICK m \in Bundle : ecs' = CreateEntity(ecs, m)
    BY <1>1 DEF Create
  <2>2. /\ WorldOK(ecs')
        /\ EntitiesOf(ecs') = Put(EntitiesOf(ecs), ecs.next, m)
        /\ ecs'.next = ecs.next + 1
    BY <1>0, <2>1, CreateOK
  <2>3. Store!Create
    BY <2>2 DEF Store!Create, Store!Bundle, Bundle, Signatures, Store!Put, Put
  <2> QED
    BY <2>2, <2>3 DEF Store!Next, WorldConsistent
<1>2. CASE Destroy
  <2>1. PICK e \in 1..MaxId : ecs' = DestroyEntity(ecs, e)
    BY <1>2 DEF Destroy
  <2>2. CASE e \in DOMAIN ecs.loc
    <3>1. /\ WorldOK(ecs')
          /\ EntitiesOf(ecs') = Drop(EntitiesOf(ecs), e)
          /\ ecs'.next = ecs.next
      BY <1>0, <2>1, <2>2, DestroyOK
    <3>2. e \in DOMAIN EntitiesOf(ecs)
      BY <2>2 DEF EntitiesOf
    <3>3. Store!Destroy
      BY <3>1, <3>2 DEF Store!Destroy, Store!Drop, Drop
    <3> QED
      BY <3>1, <3>3 DEF Store!Next, WorldConsistent
  <2>3. CASE e \notin DOMAIN ecs.loc
    <3>1. ecs' = ecs
      BY <2>1, <2>3 DEF DestroyEntity, HasEntity
    <3> QED
      BY <1>0, <3>1 DEF WorldConsistent
  <2> QED
    BY <2>2, <2>3
<1>3. CASE Attach
  <2>1. PICK e \in 1..MaxId, c \in Comps, v \in Values : ecs' = AddComponent(ecs, e, c, v)
    BY <1>3 DEF Attach
  <2>2. /\ WorldOK(ecs')
        /\ ecs'.next = ecs.next
        /\ IF e \in DOMAIN ecs.loc
           THEN EntitiesOf(ecs') = [EntitiesOf(ecs) EXCEPT ![e] = Put(@, c, v)]
           ELSE EntitiesOf(ecs') = EntitiesOf(ecs)
    BY <1>0, <2>1, AddOK
  <2>3. CASE e \in DOMAIN ecs.loc
    <3>1. e \in DOMAIN EntitiesOf(ecs)
      BY <2>3 DEF EntitiesOf
    <3>2. Store!Write
      BY <2>2, <2>3, <3>1 DEF Store!Write, Store!Put, Put
    <3> QED
      BY <2>2, <3>2 DEF Store!Next, WorldConsistent
  <2>4. CASE e \notin DOMAIN ecs.loc
    BY <2>2, <2>4 DEF WorldConsistent
  <2> QED
    BY <2>3, <2>4
<1>4. CASE Detach
  <2>1. PICK e \in 1..MaxId, c \in Comps : ecs' = RemoveComponent(ecs, e, c)
    BY <1>4 DEF Detach
  <2>2. /\ WorldOK(ecs')
        /\ ecs'.next = ecs.next
        /\ IF HasComponent(ecs, e, c)
           THEN EntitiesOf(ecs') = [EntitiesOf(ecs) EXCEPT ![e] = Drop(@, c)]
           ELSE EntitiesOf(ecs') = EntitiesOf(ecs)
    BY <1>0, <2>1, RemoveOK
  <2>3. CASE HasComponent(ecs, e, c)
    <3>1. e \in DOMAIN EntitiesOf(ecs)
      BY <2>3 DEF EntitiesOf, HasComponent, HasEntity
    <3>2. Store!Remove
      BY <2>2, <2>3, <3>1 DEF Store!Remove, Store!Drop, Drop
    <3> QED
      BY <2>2, <3>2 DEF Store!Next, WorldConsistent
  <2>4. CASE ~HasComponent(ecs, e, c)
    BY <2>2, <2>4 DEF WorldConsistent
  <2> QED
    BY <2>3, <2>4
<1>5. CASE UNCHANGED ecs
  BY <1>0, <1>5 DEF WorldConsistent
<1> QED
  BY <1>1, <1>2, <1>3, <1>4, <1>5 DEF Next

(* The two indices, the rows, the columns and the allocator agree in every    *)
(* state (storage.py, world.py, entity.py).                                   *)
THEOREM ConsistentTheorem == Spec => []WorldConsistent
<1>1. Init => WorldConsistent
  BY InitOK DEF Init, WorldConsistent
<1>2. WorldConsistent /\ [Next]_ecs => WorldConsistent'
  BY StepOK
<1> QED
  BY <1>1, <1>2, PTL DEF Spec

(* ECSWorld implements the store it promises: only the entity an operation    *)
(* names changes, and what was written is what is read (world.py:93-203).     *)
THEOREM ImplementsStoreTheorem == Spec => ImplementsStore
<1>1. Init => Store!Init
  BY InitOK DEF Init, Store!Init, EmptyWorld
<1>2. WorldConsistent /\ [Next]_ecs => [Store!Next]_(Store!storeVars)
  BY StepOK
<1> QED
  BY <1>1, <1>2, ConsistentTheorem, PTL DEF Spec, ImplementsStore, Store!Spec

-----------------------------------------------------------------------------
(* An observer's picture of the places *)

Picture(o, i, d) == [occupants |-> o, items |-> i, open |-> d]

\* A function on the rooms; a door open, or shut.
ByRoom(o) == o = [r \in Rooms |-> o[r]]
WithOpen(d, x) == [d EXCEPT ![x] = TRUE]
WithShut(d, x) == [d EXCEPT ![x] = FALSE]

(* What each event changes of the picture: two rooms, or one, or a door. *)
LEMMA ToldMoved ==
    ASSUME NEW o, ByRoom(o), NEW i, NEW d, NEW f \in Rooms, NEW r \in Rooms, NEW w
    PROVE  LET after == Told(Picture(o, i, d), [kind |-> "AGENT_MOVED_ROOM", who |-> w,
                                                from |-> f, room |-> r])
           IN  /\ f # r => after = Picture(Reindex(o, w, f, r), i, d)
               /\ f = r /\ w \in o[r] => after = Picture(o, i, d)
<1> DEFINE ev == [kind |-> "AGENT_MOVED_ROOM", who |-> w, from |-> f, room |-> r]
<1> DEFINE u == [o EXCEPT ![f] = @ \ {w}]
<1> DEFINE o2 == [u EXCEPT ![r] = @ \cup {w}]
<1>1. Told(Picture(o, i, d), ev)
      = [Picture(o, i, d) EXCEPT !.occupants[f] = @ \ {w}, !.occupants[r] = @ \cup {w}]
  BY DEF Told
<1>2. Told(Picture(o, i, d), ev) = Picture(o2, i, d)
  <2>1. ASSUME NEW p, NEW x, NEW v
        PROVE  [p EXCEPT !.occupants[x] = v] = [p EXCEPT !.occupants = [p.occupants EXCEPT ![x] = v]]
    BY Zenon
  <2>2. ASSUME NEW y, NEW v PROVE [Picture(y, i, d) EXCEPT !.occupants = v] = Picture(v, i, d)
    BY DEF Picture
  <2>3. \A y : Picture(y, i, d).occupants = y
    BY DEF Picture
  <2>4. [Picture(o, i, d) EXCEPT !.occupants[f] = @ \ {w}] = Picture(u, i, d)
    <3> HIDE DEF u
    <3>1. [Picture(o, i, d) EXCEPT !.occupants[f] = @ \ {w}]
          = [Picture(o, i, d) EXCEPT !.occupants = [o EXCEPT ![f] = o[f] \ {w}]]
      BY <2>1, <2>3
    <3> QED BY <3>1, <2>2 DEF u
  <2>5. [Picture(u, i, d) EXCEPT !.occupants[r] = @ \cup {w}] = Picture(o2, i, d)
    <3> HIDE DEF u
    <3>1. [Picture(u, i, d) EXCEPT !.occupants[r] = @ \cup {w}]
          = [Picture(u, i, d) EXCEPT !.occupants = [u EXCEPT ![r] = u[r] \cup {w}]]
      BY <2>1, <2>3
    <3> QED BY <3>1, <2>2
  <2>6. [Picture(o, i, d) EXCEPT !.occupants[f] = @ \ {w}, !.occupants[r] = @ \cup {w}]
        = [[Picture(o, i, d) EXCEPT !.occupants[f] = @ \ {w}] EXCEPT !.occupants[r] = @ \cup {w}]
    OBVIOUS
  <2> HIDE DEF u, o2
  <2>7. [Picture(o, i, d) EXCEPT !.occupants[f] = @ \ {w}, !.occupants[r] = @ \cup {w}]
        = [Picture(u, i, d) EXCEPT !.occupants[r] = @ \cup {w}]
    BY <2>4, <2>6
  <2> HIDE DEF ev
  <2> QED BY <1>1, <2>5, <2>7
<1>3. CASE f # r
  <2>1. o2 = Reindex(o, w, f, r)
    BY <1>3 DEF Reindex, ByRoom
  <2> QED BY <1>2, <1>3, <2>1
<1>4. CASE f = r /\ w \in o[r]
  <2>1. o2 = o
    BY <1>4 DEF ByRoom
  <2> QED BY <1>2, <1>4, <2>1
<1>5. CASE f = r /\ w \notin o[r]
  BY <1>5
<1> QED BY <1>3, <1>4, <1>5

LEMMA ToldOpened ==
    ASSUME NEW o, NEW i, NEW d, NEW x
    PROVE  Told(Picture(o, i, d), [kind |-> "DOOR_OPENED", who |-> x])
           = Picture(o, i, WithOpen(d, x))
<1>0. ASSUME NEW v
      PROVE  [Picture(o, i, d) EXCEPT !.open[x] = v] = Picture(o, i, [d EXCEPT ![x] = v])
  BY DEF Picture
<1>1. Told(Picture(o, i, d), [kind |-> "DOOR_OPENED", who |-> x])
      = [Picture(o, i, d) EXCEPT !.open[x] = TRUE]
  BY Zenon DEF Told
<1>2. PICK v : v = TRUE
  OBVIOUS
<1>3. [Picture(o, i, d) EXCEPT !.open[x] = v] = Picture(o, i, [d EXCEPT ![x] = v])
  BY <1>0
<1> QED BY Zenon, <1>1, <1>2, <1>3 DEF WithOpen

LEMMA ToldShut ==
    ASSUME NEW o, NEW i, NEW d, NEW x
    PROVE  Told(Picture(o, i, d), [kind |-> "DOOR_CLOSED", who |-> x])
           = Picture(o, i, WithShut(d, x))
<1>0. ASSUME NEW v
      PROVE  [Picture(o, i, d) EXCEPT !.open[x] = v] = Picture(o, i, [d EXCEPT ![x] = v])
  BY DEF Picture
<1>1. Told(Picture(o, i, d), [kind |-> "DOOR_CLOSED", who |-> x])
      = [Picture(o, i, d) EXCEPT !.open[x] = FALSE]
  BY Zenon DEF Told
<1>2. PICK v : v = FALSE
  OBVIOUS
<1>3. [Picture(o, i, d) EXCEPT !.open[x] = v] = Picture(o, i, [d EXCEPT ![x] = v])
  BY <1>0
<1> QED BY Zenon, <1>1, <1>2, <1>3 DEF WithShut

-----------------------------------------------------------------------------
(* Folds *)

Tell == INSTANCE FoldFacts WITH Op <- Told
Write == INSTANCE FoldFacts WITH Op <- ApplyWrite
Turn == INSTANCE FoldFacts WITH Op <- AssignTurn
Join == INSTANCE FoldFacts WITH Op <- \o
Grow == INSTANCE FoldFacts WITH Op <- AddToNewest

LEMMA ToldFold ==
    ASSUME NEW b, NEW s PROVE Retold(b, s) = Tell!Folded(b, s)
BY DEF Retold, FoldLeft, MapThenFoldSet, Max,
       Tell!Folded, Tell!FoldLeft, Tell!MapThenFoldSet, Tell!Max

LEMMA WriteFold ==
    ASSUME NEW b, NEW s PROVE ApplyFloor(b, s) = Write!Folded(b, s)
BY DEF ApplyFloor, FoldLeft, MapThenFoldSet, Max,
       Write!Folded, Write!FoldLeft, Write!MapThenFoldSet, Write!Max

LEMMA TurnFold ==
    ASSUME NEW b, NEW s PROVE AssignTurns(b, s) = Turn!Folded(b, s)
BY DEF AssignTurns, FoldLeft, MapThenFoldSet, Max,
       Turn!Folded, Turn!FoldLeft, Turn!MapThenFoldSet, Turn!Max

LEMMA JoinFold ==
    ASSUME NEW s PROVE Joined(s) = Join!Folded(<<>>, s)
BY DEF Joined, FoldLeft, MapThenFoldSet, Max,
       Join!Folded, Join!FoldLeft, Join!MapThenFoldSet, Join!Max

LEMMA GrowFold ==
    ASSUME NEW b, NEW s PROVE AddAllToNewest(b, s) = Grow!Folded(b, s)
BY DEF AddAllToNewest, FoldLeft, MapThenFoldSet, Max,
       Grow!Folded, Grow!FoldLeft, Grow!MapThenFoldSet, Grow!Max

-----------------------------------------------------------------------------
(* The world layer *)

WorldShape(w) ==
    /\ w = [agentRoom |-> w.agentRoom, roomAgents |-> w.roomAgents,
            itemRoom |-> w.itemRoom, roomItems |-> w.roomItems, open |-> w.open]
    /\ w.agentRoom = [a \in DOMAIN w.agentRoom |-> w.agentRoom[a]]
    /\ \A a \in DOMAIN w.agentRoom : w.agentRoom[a] \in Rooms
    /\ w.itemRoom = [i \in DOMAIN w.itemRoom |-> w.itemRoom[i]]
    /\ w.open \in [Doors -> BOOLEAN]

\* What an observer is told of a world.
PlacesOf(w) == [occupants |-> w.roomAgents, items |-> w.itemRoom, open |-> w.open]

(* A move leaves the rooms' lists those of the new rooms. *)
LEMMA ReindexOK ==
    ASSUME NEW at, at = [x \in DOMAIN at |-> at[x]],
           NEW x \in DOMAIN at, NEW to, to # at[x]
    PROVE  Reindex([r \in Rooms |-> {y \in DOMAIN at : at[y] = r}], x, at[x], to)
           = [r \in Rooms |-> {y \in DOMAIN [at EXCEPT ![x] = to] :
                                   [at EXCEPT ![x] = to][y] = r}]
<1> DEFINE new == [at EXCEPT ![x] = to]
<1> DEFINE index == [r \in Rooms |-> {y \in DOMAIN at : at[y] = r}]
<1>1. DOMAIN new = DOMAIN at /\ new[x] = to /\ \A y \in DOMAIN at : y # x => new[y] = at[y]
  OBVIOUS
<1> HIDE DEF new
<1>2. ASSUME NEW r \in Rooms
      PROVE  (IF r = to THEN index[r] \cup {x}
              ELSE IF r = at[x] THEN index[r] \ {x} ELSE index[r])
             = {y \in DOMAIN new : new[y] = r}
  <2>1. index[r] = {y \in DOMAIN at : at[y] = r}
    OBVIOUS
  <2> HIDE DEF index
  <2>2. CASE r = to
    BY <1>1, <2>1, <2>2
  <2>3. CASE r # to /\ r = at[x]
    BY <1>1, <2>1, <2>3
  <2>4. CASE r # to /\ r # at[x]
    BY <1>1, <2>1, <2>4
  <2> QED BY <2>2, <2>3, <2>4
<1> HIDE DEF index
<1>3. Reindex(index, x, at[x], to) = [r \in Rooms |-> {y \in DOMAIN new : new[y] = r}]
  BY <1>2 DEF Reindex
<1> QED BY <1>3 DEF new, index

(* A command keeps the index, and its event says what it did. *)
LEMMA ApplyWorldOK ==
    ASSUME NEW w, WorldShape(w), WorldIndexed(w), NEW k \in WorldCommands, ~Refuses(w, k)
    PROVE  /\ WorldShape(ApplyWorld(w, k))
           /\ WorldIndexed(ApplyWorld(w, k))
           /\ Told(PlacesOf(w), EventOf(w, k)) = PlacesOf(ApplyWorld(w, k))
<1> DEFINE x == ApplyWorld(w, k)
<1> DEFINE ev == EventOf(w, k)
<1>1. CASE k.kind = "SET_AGENT_ROOM"
  <2>1. k.who \in DOMAIN w.agentRoom /\ k.room \in Rooms
    BY <1>1 DEF Refuses
  <2>2. x = MoveAgent(w, k.who, k.room)
    BY <1>1 DEF ApplyWorld
  <2>3. ev = [kind |-> "AGENT_MOVED_ROOM", who |-> k.who,
              from |-> w.agentRoom[k.who], room |-> k.room]
    BY <1>1 DEF EventOf
  <2>4. PlacesOf(w) = Picture(w.roomAgents, w.itemRoom, w.open)
    BY DEF PlacesOf, Picture
  <2>40. ByRoom(w.roomAgents)
    BY DEF ByRoom, WorldIndexed
  <2>5. CASE w.agentRoom[k.who] = k.room
    <3>1. x = w
      BY <2>2, <2>5 DEF MoveAgent
    <3>2. /\ w.roomAgents = [r \in Rooms |-> w.roomAgents[r]]
          /\ k.who \in w.roomAgents[k.room]
      BY <2>1, <2>5 DEF WorldIndexed
    <3>3. Told(PlacesOf(w), ev) = PlacesOf(w)
      BY <2>1, <2>3, <2>4, <2>40, <2>5, <3>2, ToldMoved
    <3> QED BY <3>1, <3>3
  <2>6. CASE w.agentRoom[k.who] # k.room
    <3> DEFINE rooms == [w.agentRoom EXCEPT ![k.who] = k.room]
    <3> DEFINE lists == Reindex(w.roomAgents, k.who, w.agentRoom[k.who], k.room)
    <3>1. x = [w EXCEPT !.agentRoom[k.who] = k.room, !.roomAgents = lists]
      BY <2>2, <2>6 DEF MoveAgent
    <3>2. x = [agentRoom |-> rooms, roomAgents |-> lists,
               itemRoom |-> w.itemRoom, roomItems |-> w.roomItems, open |-> w.open]
      BY <3>1 DEF WorldShape
    <3>3. w.roomAgents = [r \in Rooms |-> {a \in DOMAIN w.agentRoom : w.agentRoom[a] = r}]
      BY DEF WorldIndexed
    <3>4. lists = [r \in Rooms |-> {a \in DOMAIN rooms : rooms[a] = r}]
      BY <2>1, <2>6, <3>3, ReindexOK DEF WorldShape
    <3>5. /\ rooms = [a \in DOMAIN rooms |-> rooms[a]]
          /\ \A a \in DOMAIN rooms : rooms[a] \in Rooms
      BY <2>1 DEF WorldShape
    <3>6. Told(PlacesOf(w), ev) = Picture(lists, w.itemRoom, w.open)
      <4>1. w.agentRoom[k.who] \in Rooms
        BY <2>1 DEF WorldShape
      <4> QED BY <2>1, <2>3, <2>4, <2>40, <2>6, <4>1, ToldMoved
    <3> HIDE DEF rooms, lists, x, ev
    <3>7. /\ x.agentRoom = rooms /\ x.roomAgents = lists
          /\ x.itemRoom = w.itemRoom /\ x.roomItems = w.roomItems /\ x.open = w.open
      BY <3>2
    <3>8. WorldShape(x)
      BY <3>2, <3>5, <3>7 DEF WorldShape
    <3>9. WorldIndexed(x)
      BY <3>4, <3>7 DEF WorldIndexed
    <3> QED BY <3>6, <3>7, <3>8, <3>9 DEF PlacesOf, Picture, x, ev
  <2> QED BY <2>5, <2>6
<1>2. CASE k.kind = "SPAWN_ITEM"
  <2>1. k.who \notin DOMAIN w.itemRoom /\ k.room \in Rooms
    BY <1>2 DEF Refuses
  <2> DEFINE rooms == [i \in DOMAIN w.itemRoom \cup {k.who} |->
                          IF i = k.who THEN k.room ELSE w.itemRoom[i]]
  <2> DEFINE lists == Reindex(w.roomItems, k.who, Unplaced, k.room)
  <2>2. x = [w EXCEPT !.itemRoom = rooms, !.roomItems = lists]
    BY <1>2 DEF ApplyWorld, RegisterItem
  <2>3. x = [agentRoom |-> w.agentRoom, roomAgents |-> w.roomAgents,
             itemRoom |-> rooms, roomItems |-> lists, open |-> w.open]
    BY <2>2 DEF WorldShape
  <2>4. ev = [kind |-> "ITEM_SPAWNED", who |-> k.who, room |-> k.room]
    BY <1>2 DEF EventOf
  <2>5. Told(PlacesOf(w), ev) = [occupants |-> w.roomAgents, items |-> rooms, open |-> w.open]
    BY <2>4 DEF Told, PlacesOf
  <2>6. lists = [r \in Rooms |-> {i \in DOMAIN rooms : rooms[i] = r}]
    <3>1. w.roomItems = [r \in Rooms |-> {i \in DOMAIN w.itemRoom : w.itemRoom[i] = r}]
      BY DEF WorldIndexed
    <3>2. /\ DOMAIN rooms = DOMAIN w.itemRoom \cup {k.who} /\ rooms[k.who] = k.room
          /\ \A i \in DOMAIN w.itemRoom : i # k.who => rooms[i] = w.itemRoom[i]
      OBVIOUS
    <3> HIDE DEF rooms
    <3>3. ASSUME NEW r \in Rooms
          PROVE  (IF r = k.room THEN w.roomItems[r] \cup {k.who} ELSE w.roomItems[r])
                 = {i \in DOMAIN rooms : rooms[i] = r}
      <4>1. w.roomItems[r] = {i \in DOMAIN w.itemRoom : w.itemRoom[i] = r}
        BY <3>1
      <4>2. CASE r = k.room
        BY <2>1, <3>2, <4>1, <4>2
      <4>3. CASE r # k.room
        BY <2>1, <3>2, <4>1, <4>3
      <4> QED BY <4>2, <4>3
    <3>4. \A r \in Rooms : r # Unplaced
      BY UnplacedAssumption
    <3> QED BY <3>3, <3>4 DEF Reindex
  <2>7. rooms = [i \in DOMAIN rooms |-> rooms[i]]
    OBVIOUS
  <2> HIDE DEF rooms, lists, x, ev
  <2>8. /\ x.agentRoom = w.agentRoom /\ x.roomAgents = w.roomAgents
        /\ x.itemRoom = rooms /\ x.roomItems = lists /\ x.open = w.open
    BY <2>3
  <2>9. WorldShape(x)
    BY <2>3, <2>7, <2>8 DEF WorldShape
  <2>10. WorldIndexed(x)
    BY <2>6, <2>8 DEF WorldIndexed
  <2> QED BY <2>5, <2>8, <2>9, <2>10 DEF PlacesOf, x, ev
<1>3. CASE k.kind = "DESPAWN_ITEM"
  <2>1. k.who \in DOMAIN w.itemRoom
    BY <1>3 DEF Refuses
  <2>2. x = MoveItem(w, k.who, Unplaced)
    BY <1>3 DEF ApplyWorld
  <2>3. ev = [kind |-> "ITEM_DESPAWNED", who |-> k.who]
    BY <1>3 DEF EventOf
  <2> DEFINE rooms == [w.itemRoom EXCEPT ![k.who] = Unplaced]
  <2>4. Told(PlacesOf(w), ev) = [occupants |-> w.roomAgents, items |-> rooms, open |-> w.open]
    BY <2>3 DEF Told, PlacesOf
  <2>5. CASE w.itemRoom[k.who] = Unplaced
    <3>1. x = w
      BY <2>2, <2>5 DEF MoveItem
    <3>2. rooms = w.itemRoom
      BY <2>1, <2>5 DEF WorldShape
    <3> QED BY <2>4, <3>1, <3>2 DEF PlacesOf
  <2>6. CASE w.itemRoom[k.who] # Unplaced
    <3> DEFINE lists == Reindex(w.roomItems, k.who, w.itemRoom[k.who], Unplaced)
    <3>1. x = [w EXCEPT !.itemRoom[k.who] = Unplaced, !.roomItems = lists]
      BY <2>2, <2>6 DEF MoveItem
    <3>2. x = [agentRoom |-> w.agentRoom, roomAgents |-> w.roomAgents,
               itemRoom |-> rooms, roomItems |-> lists, open |-> w.open]
      BY <3>1 DEF WorldShape
    <3>3. w.roomItems = [r \in Rooms |-> {i \in DOMAIN w.itemRoom : w.itemRoom[i] = r}]
      BY DEF WorldIndexed
    <3>4. lists = [r \in Rooms |-> {i \in DOMAIN rooms : rooms[i] = r}]
      BY <2>1, <2>6, <3>3, ReindexOK DEF WorldShape
    <3>5. rooms = [i \in DOMAIN rooms |-> rooms[i]]
      BY DEF WorldShape
    <3> HIDE DEF rooms, lists, x, ev
    <3>7. /\ x.agentRoom = w.agentRoom /\ x.roomAgents = w.roomAgents
          /\ x.itemRoom = rooms /\ x.roomItems = lists /\ x.open = w.open
      BY <3>2
    <3>8. WorldShape(x)
      BY <3>2, <3>5, <3>7 DEF WorldShape
    <3>9. WorldIndexed(x)
      BY <3>4, <3>7 DEF WorldIndexed
    <3> QED BY <2>4, <3>7, <3>8, <3>9 DEF PlacesOf, x, ev
  <2> QED BY <2>5, <2>6
<1>4. ASSUME NEW open, open \in [Doors -> BOOLEAN],
             x = [agentRoom |-> w.agentRoom, roomAgents |-> w.roomAgents,
                  itemRoom |-> w.itemRoom, roomItems |-> w.roomItems, open |-> open]
      PROVE  /\ WorldShape(x) /\ WorldIndexed(x)
             /\ PlacesOf(x) = Picture(w.roomAgents, w.itemRoom, open)
  <2> HIDE DEF x
  <2>1. /\ x.agentRoom = w.agentRoom /\ x.roomAgents = w.roomAgents
        /\ x.itemRoom = w.itemRoom /\ x.roomItems = w.roomItems /\ x.open = open
    BY <1>4
  <2>2. WorldShape(x)
    BY <1>4, <2>1 DEF WorldShape
  <2>3. WorldIndexed(x)
    BY <2>1 DEF WorldIndexed
  <2> QED BY <2>1, <2>2, <2>3 DEF PlacesOf, Picture
<1>6. PlacesOf(w) = Picture(w.roomAgents, w.itemRoom, w.open)
  BY DEF PlacesOf, Picture
<1>7. CASE k.kind = "OPEN_DOOR"
  <2>1. k.who \in Doors
    BY <1>7 DEF Refuses
  <2>2. ev = [kind |-> "DOOR_OPENED", who |-> k.who]
    BY <1>7 DEF EventOf
  <2>3. x = [agentRoom |-> w.agentRoom, roomAgents |-> w.roomAgents, itemRoom |-> w.itemRoom,
             roomItems |-> w.roomItems, open |-> WithOpen(w.open, k.who)]
    <3>1. PICK v : v = TRUE
      OBVIOUS
    <3>2. SetDoor(w, k.who, v) =
            [agentRoom |-> w.agentRoom, roomAgents |-> w.roomAgents, itemRoom |-> w.itemRoom,
             roomItems |-> w.roomItems, open |-> [w.open EXCEPT ![k.who] = v]]
      BY DEF SetDoor, WorldShape
    <3>3. x = SetDoor(w, k.who, TRUE)
      BY Zenon, <1>7 DEF ApplyWorld
    <3>4. SetDoor(w, k.who, v) = SetDoor(w, k.who, TRUE)
      BY Zenon, <3>1
    <3>5. [w.open EXCEPT ![k.who] = v] = WithOpen(w.open, k.who)
      BY Zenon, <3>1 DEF WithOpen
    <3> HIDE DEF x
    <3> QED BY <3>2, <3>3, <3>4, <3>5
  <2>4. WithOpen(w.open, k.who) \in [Doors -> BOOLEAN]
    BY DEF WithOpen, WorldShape
  <2> HIDE DEF x, ev
  <2>5. /\ WorldShape(x) /\ WorldIndexed(x)
        /\ PlacesOf(x) = Picture(w.roomAgents, w.itemRoom, WithOpen(w.open, k.who))
    BY <1>4, <2>3, <2>4
  <2>6. Told(PlacesOf(w), ev) = Picture(w.roomAgents, w.itemRoom, WithOpen(w.open, k.who))
    <3>1. Told(Picture(w.roomAgents, w.itemRoom, w.open), [kind |-> "DOOR_OPENED", who |-> k.who])
          = Picture(w.roomAgents, w.itemRoom, WithOpen(w.open, k.who))
      BY ToldOpened
    <3> QED BY <1>6, <2>2, <3>1
  <2> QED BY <2>5, <2>6 DEF x, ev
<1>8. CASE k.kind = "CLOSE_DOOR"
  <2>1. k.who \in Doors
    BY <1>8 DEF Refuses
  <2>2. ev = [kind |-> "DOOR_CLOSED", who |-> k.who]
    BY <1>8 DEF EventOf
  <2>3. x = [agentRoom |-> w.agentRoom, roomAgents |-> w.roomAgents, itemRoom |-> w.itemRoom,
             roomItems |-> w.roomItems, open |-> WithShut(w.open, k.who)]
    <3>1. PICK v : v = FALSE
      OBVIOUS
    <3>2. SetDoor(w, k.who, v) =
            [agentRoom |-> w.agentRoom, roomAgents |-> w.roomAgents, itemRoom |-> w.itemRoom,
             roomItems |-> w.roomItems, open |-> [w.open EXCEPT ![k.who] = v]]
      BY DEF SetDoor, WorldShape
    <3>3. x = SetDoor(w, k.who, FALSE)
      BY Zenon, <1>8 DEF ApplyWorld
    <3>4. SetDoor(w, k.who, v) = SetDoor(w, k.who, FALSE)
      BY Zenon, <3>1
    <3>5. [w.open EXCEPT ![k.who] = v] = WithShut(w.open, k.who)
      BY Zenon, <3>1 DEF WithShut
    <3> HIDE DEF x
    <3> QED BY <3>2, <3>3, <3>4, <3>5
  <2>4. WithShut(w.open, k.who) \in [Doors -> BOOLEAN]
    BY DEF WithShut, WorldShape
  <2> HIDE DEF x, ev
  <2>5. /\ WorldShape(x) /\ WorldIndexed(x)
        /\ PlacesOf(x) = Picture(w.roomAgents, w.itemRoom, WithShut(w.open, k.who))
    BY <1>4, <2>3, <2>4
  <2>6. Told(PlacesOf(w), ev) = Picture(w.roomAgents, w.itemRoom, WithShut(w.open, k.who))
    <3>1. Told(Picture(w.roomAgents, w.itemRoom, w.open), [kind |-> "DOOR_CLOSED", who |-> k.who])
          = Picture(w.roomAgents, w.itemRoom, WithShut(w.open, k.who))
      BY ToldShut
    <3> QED BY <1>6, <2>2, <3>1
  <2> QED BY <2>5, <2>6 DEF x, ev
<1>5. k.kind \in {"SET_AGENT_ROOM", "SPAWN_ITEM", "DESPAWN_ITEM", "OPEN_DOOR", "CLOSE_DOOR"}
  BY DEF WorldCommands
<1> QED BY <1>1, <1>2, <1>3, <1>5, <1>7, <1>8

-----------------------------------------------------------------------------
(* Outputs *)

IsSeq(s) == s \in Seq({s[i] : i \in DOMAIN s})

LEMMA SeqIs ==
    ASSUME NEW S, NEW s \in Seq(S) PROVE IsSeq(s)
<1>1. s \in [1..Len(s) -> {s[i] : i \in DOMAIN s}] /\ Len(s) \in Nat
  OBVIOUS
<1> QED BY <1>1 DEF IsSeq

LEMMA NoneIs == IsSeq(<<>>) /\ Len(<<>>) = 0
<1>1. <<>> \in Seq({<<>>[i] : i \in DOMAIN <<>>})
  OBVIOUS
<1> QED BY <1>1 DEF IsSeq

(* Of what was given to the sink the last two are kept, the newest last. *)
LEMMA LastTwoIs ==
    ASSUME NEW s, IsSeq(s), Len(s) <= 2, NEW e
    PROVE  /\ IsSeq(LastTwo(Append(s, e)))
           /\ Len(LastTwo(Append(s, e))) = IF Len(s) = 0 THEN 1 ELSE 2
           /\ LastTwo(Append(s, e))[Len(LastTwo(Append(s, e)))] = e
           /\ Len(s) > 0 => LastTwo(Append(s, e))[1] = s[Len(s)]
<1>1. PICK S : s \in Seq(S) /\ e \in S
  <2> DEFINE S == {s[i] : i \in DOMAIN s} \cup {e}
  <2>1. s \in Seq(S)
    BY DEF IsSeq
  <2> QED BY <2>1
<1>2. PICK r : r = Append(s, e)
  OBVIOUS
<1>3. PICK n : n = Len(s) /\ n \in Nat /\ n <= 2
  BY <1>1
<1>4. /\ r \in Seq(S) /\ Len(r) = Len(s) + 1 /\ r[Len(s) + 1] = e
      /\ \A i \in 1..Len(s) : r[i] = s[i]
  BY <1>1, <1>2
<1>5. CASE Len(s) = 2
  <2>1. LastTwo(r) = Tail(r)
    BY <1>4, <1>5 DEF LastTwo
  <2>2. PICK t : t = Tail(r)
    OBVIOUS
  <2>3. t \in Seq(S) /\ Len(t) = 2
    BY <1>4, <1>5, <2>2
  <2>4. t[1] = r[2] /\ t[2] = r[3]
    <3>1. Len(r) = 3
      BY <1>4, <1>5
    <3>2. ASSUME NEW z \in Seq(S), Len(z) = 3
          PROVE  Tail(z)[1] = z[2] /\ Tail(z)[2] = z[3]
      BY <3>2
    <3> QED BY <1>4, <2>2, <3>1, <3>2
  <2>5. IsSeq(t)
    BY <2>3, SeqIs
  <2> QED BY <1>2, <1>4, <1>5, <2>1, <2>2, <2>3, <2>4, <2>5
<1>6. CASE Len(s) # 2
  <2>0. n = 0 \/ n = 1
    BY <1>3, <1>6
  <2>1. Len(s) = 0 \/ Len(s) = 1
    BY <1>3, <2>0
  <2>2. LastTwo(r) = r
    BY <1>4, <2>1 DEF LastTwo
  <2>3. IsSeq(r)
    BY <1>4, SeqIs
  <2> QED BY <1>2, <1>4, <2>1, <2>2, <2>3
<1> QED BY <1>5, <1>6

(* Days and the ticks in them count up. *)
LEMMA TimeGrows ==
    ASSUME NEW m \in Nat, NEW n \in Nat, 0 < m, m < n
    PROVE  \/ TimeAt(m).day < TimeAt(n).day
           \/ TimeAt(m).day = TimeAt(n).day /\ TimeAt(m).tick < TimeAt(n).tick
<1> DEFINE T == TicksPerDay
<1> DEFINE a == m - 1
<1> DEFINE b == n - 1
<1>1. T \in Nat /\ T > 0
  BY TicksPerDayAssumption
<1>2. a \in Nat /\ b \in Nat /\ a < b
  OBVIOUS
<1> HIDE DEF T, a, b
<1>3. /\ a \div T \in Int /\ a % T \in 0..(T - 1) /\ a = T * (a \div T) + (a % T)
      /\ b \div T \in Int /\ b % T \in 0..(T - 1) /\ b = T * (b \div T) + (b % T)
  BY <1>1, <1>2
<1>4. ASSUME NEW q \in Int, NEW p \in Int, p > q PROVE T * p >= T * q + T
  <2>1. T * (p - q) >= T
    BY <1>1, <1>4
  <2> QED BY <1>1, <1>4, <2>1
<1>5. ~(a \div T > b \div T)
  BY <1>1, <1>2, <1>3, <1>4
<1>6. a \div T = b \div T => a % T < b % T
  <2>1. ASSUME NEW p \in Int, NEW u \in Int, NEW v \in Int, a = p + u, b = p + v
        PROVE  u < v
    BY <1>2, <2>1
  <2> SUFFICES ASSUME a \div T = b \div T PROVE a % T < b % T
    OBVIOUS
  <2>2. a = T * (a \div T) + (a % T) /\ b = T * (a \div T) + (b % T)
    BY <1>3
  <2>3. T * (a \div T) \in Int /\ a % T \in Int /\ b % T \in Int
    BY <1>1, <1>3
  <2> HIDE DEF T
  <2> QED BY <2>1, <2>2, <2>3
<1>7. /\ TimeAt(m).day = 1 + a \div T /\ TimeAt(m).tick = a % T
      /\ TimeAt(n).day = 1 + b \div T /\ TimeAt(n).tick = b % T
  BY DEF TimeAt, a, b, T
<1> QED BY <1>3, <1>5, <1>6, <1>7

(* Events told one after the other. *)
LEMMA RetoldNone ==
    ASSUME NEW p PROVE Retold(p, <<>>) = p
BY ToldFold, Tell!FoldedNothing

LEMMA RetoldMore ==
    ASSUME NEW p, NEW evs, IsSeq(evs), NEW ev
    PROVE  Retold(p, Append(evs, ev)) = Told(Retold(p, evs), ev)
<1>1. Tell!Folded(p, Append(evs, ev)) = Told(Tell!Folded(p, evs), ev)
  BY Tell!FoldedAppend DEF IsSeq
<1> QED BY <1>1, ToldFold

-----------------------------------------------------------------------------
(* The invariant of the tick *)

ClockInv ==
    /\ clock \in Nat
    /\ phase \in {"idle", "floor", "commands"}
    /\ phase # "idle" => clock > 0 /\ time = TimeAt(clock)
    /\ ecsQueue \in Seq(EcsCommands)
    /\ worldQueue \in Seq(WorldCommands)
    /\ IsSeq(events)

WorldInv == WorldShape(world) /\ WorldIndexed(world)

\* The last tick whose output the sink may have.
LastTick == IF phase = "idle" THEN clock ELSE clock - 1

\* An output is of a tick that is over, with the time of that tick.
Dated(o, t) == o.snapshot.tick \in 1..t /\ o.snapshot.time = TimeAt(o.snapshot.tick)

Explains(before, after) ==
    /\ before.snapshot.tick < after.snapshot.tick
    /\ after.snapshot.tick = before.snapshot.tick + 1 =>
           Retold(Places(before), after.events) = Places(after)

\* What the last tick's output says is what is there, up to the events since.
OutputsInv ==
    /\ IsSeq(outputs) /\ Len(outputs) <= 2
    /\ \A i \in 1..Len(outputs) : Dated(outputs[i], LastTick)
    /\ Len(outputs) = 2 => Explains(outputs[1], outputs[2])
    /\ Len(outputs) > 0 =>
           LET last == outputs[Len(outputs)]
           IN  last.snapshot.tick = LastTick =>
                   PlacesOf(world) = IF phase = "idle" THEN Places(last)
                                     ELSE Retold(Places(last), events)

TickInv == ClockInv /\ WorldInv /\ OutputsInv

LEMMA TickInit == KernelInit => TickInv
<1> SUFFICES ASSUME KernelInit PROVE TickInv
  OBVIOUS
<1>1. /\ clock = 0 /\ phase = "idle" /\ ecsQueue = <<>> /\ worldQueue = <<>>
      /\ events = <<>> /\ outputs = <<>> /\ world \in InitialWorlds
  BY DEF KernelInit
<1>2. IsSeq(<<>>) /\ Len(<<>>) = 0
  BY NoneIs
<1>3. ClockInv
  BY <1>1, <1>2 DEF ClockInv
<1>4. /\ world.agentRoom \in [DOMAIN world.agentRoom -> Rooms]
      /\ world.itemRoom \in [DOMAIN world.itemRoom -> Rooms \cup {Unplaced}]
      /\ world = NewContext(world.agentRoom, world.itemRoom)
  BY <1>1, BuiltAssumption
<1> DEFINE A == world.agentRoom
<1> DEFINE I == world.itemRoom
<1> DEFINE ra == [r \in Rooms |-> {a \in DOMAIN A : A[a] = r}]
<1> DEFINE ri == [r \in Rooms |-> {i \in DOMAIN I : I[i] = r}]
<1> DEFINE shut == [d \in Doors |-> FALSE]
<1>5. world = [agentRoom |-> A, roomAgents |-> ra, itemRoom |-> I, roomItems |-> ri,
               open |-> shut]
  BY <1>4 DEF NewContext
<1>6. world.roomAgents = ra /\ world.roomItems = ri /\ world.open = shut
  BY <1>5
<1>7. WorldInv
  BY <1>4, <1>5, <1>6 DEF WorldInv, WorldShape, WorldIndexed
<1>8. OutputsInv
  BY <1>1, <1>2 DEF OutputsInv
<1> QED BY <1>3, <1>7, <1>8 DEF TickInv

LEMMA TickStep ==
    ASSUME TickInv, [KernelNext]_kernelVars
    PROVE  TickInv'
<1> USE DEF TickInv
<1>1. CASE BuildEntity
  <2>1. UNCHANGED <<clock, time, world, phase, ecsQueue, worldQueue, events, outputs>>
    BY <1>1 DEF BuildEntity
  <2> QED BY <2>1 DEF ClockInv, WorldInv, OutputsInv, LastTick
<1>2. CASE BeginTick
  <2>1. /\ phase = "idle" /\ phase' = "floor" /\ clock' = clock + 1
        /\ time' = TimeAt(clock + 1) /\ events' = <<>>
        /\ UNCHANGED <<world, outputs>>
        /\ ecsQueue' \in EcsBatches /\ worldQueue' \in WorldBatches
    BY <1>2 DEF BeginTick
  <2>2. clock \in Nat /\ clock' \in Nat
    BY <2>1 DEF ClockInv
  <2>3. ClockInv'
    BY <2>1, <2>2, BatchesAssumption, NoneIs DEF ClockInv
  <2>4. LastTick' = clock /\ LastTick = clock
    BY <2>1, <2>2 DEF LastTick
  <2>5. OutputsInv'
    BY <2>1, <2>4, RetoldNone DEF OutputsInv
  <2> QED BY <2>1, <2>3, <2>5 DEF WorldInv
<1>3. CASE RunFloor
  <2>1. /\ phase = "floor" /\ phase' = "commands"
        /\ UNCHANGED <<clock, time, world, ecsQueue, worldQueue, events, outputs>>
    BY <1>3 DEF RunFloor
  <2>2. LastTick' = LastTick
    BY <2>1 DEF LastTick
  <2> QED BY <2>1, <2>2 DEF ClockInv, WorldInv, OutputsInv
<1>4. CASE EcsCommand
  <2>1. /\ ecsQueue # <<>> /\ ecsQueue' = Tail(ecsQueue)
        /\ UNCHANGED <<clock, time, world, phase, worldQueue, events, outputs>>
    BY <1>4 DEF EcsCommand
  <2>2. ecsQueue' \in Seq(EcsCommands)
    BY <2>1 DEF ClockInv
  <2> QED BY <2>1, <2>2 DEF ClockInv, WorldInv, OutputsInv, LastTick
<1>5. CASE phase = "commands" /\ Raise
  <2>1. /\ phase = "commands" /\ phase' = "idle"
        /\ ecsQueue' = <<>> /\ worldQueue' = <<>> /\ events' = <<>>
        /\ UNCHANGED <<clock, time, world, outputs>>
    BY <1>5 DEF Raise
  <2>2. ClockInv'
    BY <2>1, NoneIs DEF ClockInv
  <2>3. LastTick' = clock /\ LastTick = clock - 1 /\ clock \in Nat
    BY <2>1 DEF LastTick, ClockInv
  <2>4. \A i \in 1..Len(outputs) :
            Dated(outputs[i], LastTick') /\ outputs[i].snapshot.tick # LastTick'
    BY <2>3 DEF OutputsInv, Dated
  <2>5. Len(outputs) \in Nat
    BY DEF OutputsInv, IsSeq
  <2>6. OutputsInv'
    BY <2>1, <2>4, <2>5 DEF OutputsInv
  <2> QED BY <2>1, <2>2, <2>6 DEF WorldInv
<1>6. CASE WorldCommand
  <2> DEFINE k == Head(worldQueue)
  <2>1. /\ phase = "commands" /\ worldQueue # <<>> /\ ~Refuses(world, k)
        /\ world' = ApplyWorld(world, k)
        /\ events' = Append(events, EventOf(world, k))
        /\ worldQueue' = Tail(worldQueue)
        /\ UNCHANGED <<clock, time, phase, ecsQueue, outputs>>
    BY <1>6 DEF WorldCommand
  <2>2. k \in WorldCommands /\ worldQueue' \in Seq(WorldCommands)
    BY <2>1 DEF ClockInv
  <2> HIDE DEF k
  <2>3. /\ WorldShape(world') /\ WorldIndexed(world')
        /\ Told(PlacesOf(world), EventOf(world, k)) = PlacesOf(world')
    BY <2>1, <2>2, ApplyWorldOK DEF WorldInv
  <2>4. IsSeq(events')
    <3> DEFINE S == {events[i] : i \in DOMAIN events} \cup {EventOf(world, k)}
    <3>1. events \in Seq(S) /\ EventOf(world, k) \in S
      BY DEF ClockInv, IsSeq
    <3> HIDE DEF S
    <3>2. events' \in Seq(S)
      BY <2>1, <3>1
    <3> QED BY <3>2, SeqIs
  <2>5. ClockInv'
    BY <2>1, <2>2, <2>4 DEF ClockInv
  <2>6. LastTick' = LastTick
    BY <2>1 DEF LastTick
  <2>7. ASSUME NEW p, PlacesOf(world) = Retold(p, events)
        PROVE  PlacesOf(world') = Retold(p, events')
    BY <2>1, <2>3, <2>7, RetoldMore DEF ClockInv
  <2>8. OutputsInv'
    BY <2>1, <2>6, <2>7 DEF OutputsInv
  <2> QED BY <2>3, <2>5, <2>8 DEF WorldInv
<1>7. CASE EmitTick
  <2> DEFINE o == [snapshot |-> Snapshot, events |-> events]
  <2>1. /\ phase = "commands" /\ phase' = "idle" /\ events' = <<>>
        /\ outputs' = LastTwo(Append(outputs, o))
        /\ UNCHANGED <<clock, time, world, ecsQueue, worldQueue>>
    BY <1>7 DEF EmitTick
  <2>2. /\ o.snapshot.tick = clock /\ o.snapshot.time = TimeAt(clock)
        /\ o.events = events /\ Places(o) = PlacesOf(world)
    BY <2>1 DEF Snapshot, Places, PlacesOf, RoomOccupants, PlacedItems, OpenDoors, ClockInv
  <2> HIDE DEF o
  <2>3. ClockInv'
    BY <2>1, NoneIs DEF ClockInv
  <2>4. LastTick' = clock /\ LastTick = clock - 1 /\ clock \in Nat /\ clock > 0
    BY <2>1 DEF LastTick, ClockInv
  <2>5. /\ IsSeq(outputs') /\ Len(outputs') \in {1, 2} /\ outputs'[Len(outputs')] = o
        /\ Len(outputs') = 2 => Len(outputs) > 0 /\ outputs'[1] = outputs[Len(outputs)]
    BY <2>1, LastTwoIs DEF OutputsInv
  <2>6. Dated(o, LastTick')
    BY <2>2, <2>4 DEF Dated
  <2>7. ASSUME Len(outputs') = 2
        PROVE  Dated(outputs'[1], LastTick') /\ Explains(outputs'[1], o)
    <3> DEFINE last == outputs[Len(outputs)]
    <3>1. Len(outputs) > 0 /\ outputs'[1] = last /\ Len(outputs) \in Nat
      BY <2>5, <2>7 DEF OutputsInv, IsSeq
    <3>2. Dated(last, LastTick)
      BY <3>1 DEF OutputsInv
    <3>3. last.snapshot.tick = LastTick => PlacesOf(world) = Retold(Places(last), events)
      BY <2>1, <3>1 DEF OutputsInv
    <3> HIDE DEF last
    <3>4. last.snapshot.tick \in Nat /\ last.snapshot.tick > 0 /\ last.snapshot.tick < clock
      BY <2>4, <3>2 DEF Dated
    <3>5. Dated(last, LastTick')
      BY <2>4, <3>2, <3>4 DEF Dated
    <3>6. Explains(last, o)
      BY <2>2, <2>4, <3>3, <3>4 DEF Explains
    <3> QED BY <3>1, <3>5, <3>6
  <2>8. OutputsInv'
    <3>1. CASE Len(outputs') = 1
      BY <2>1, <2>2, <2>5, <2>6, <3>1 DEF OutputsInv
    <3>2. CASE Len(outputs') = 2
      BY <2>1, <2>2, <2>5, <2>6, <2>7, <3>2 DEF OutputsInv
    <3> QED BY <2>5, <3>1, <3>2
  <2> QED BY <2>1, <2>3, <2>8 DEF WorldInv
<1>8. CASE UNCHANGED kernelVars
  BY <1>8 DEF kernelVars, ClockInv, WorldInv, OutputsInv, LastTick
<1> QED
  BY <1>1, <1>2, <1>3, <1>4, <1>5, <1>6, <1>7, <1>8
     DEF KernelNext, EcsCommandRaises, WorldCommandRaises

LEMMA TickAlways == KernelSpec => []TickInv
BY TickInit, TickStep, PTL DEF KernelSpec

(* The rooms' lists say what the agents' and items' rooms say, for any world   *)
(* and any batches, also where a command raised (context.py:217-326).         *)
THEOREM PlacesAlwaysAgree == KernelSpec => []PlacesAgree
<1>1. TickInv => PlacesAgree
  BY DEF TickInv, WorldInv, PlacesAgree
<1> QED BY <1>1, TickAlways, PTL

(* The events of a tick lead from the places of the tick before it to its own, *)
(* and outputs come in the order of their ticks (tick.py:197-243).            *)
THEOREM OutputsAlwaysExplain == KernelSpec => []OutputsExplain
<1>1. TickInv => OutputsExplain
  <2> SUFFICES ASSUME TickInv, Len(outputs) = 2
               PROVE  LET before == outputs[1]
                          after == outputs[2]
                      IN  /\ Explains(before, after)
                          /\ \/ before.snapshot.time.day < after.snapshot.time.day
                             \/ /\ before.snapshot.time.day = after.snapshot.time.day
                                /\ before.snapshot.time.tick < after.snapshot.time.tick
    BY DEF OutputsExplain, Explains
  <2>1. /\ Dated(outputs[1], LastTick) /\ Dated(outputs[2], LastTick)
        /\ Explains(outputs[1], outputs[2])
    BY DEF TickInv, OutputsInv
  <2>2. LastTick \in Int
    BY DEF TickInv, ClockInv, LastTick
  <2>3. /\ outputs[1].snapshot.tick \in Nat /\ outputs[2].snapshot.tick \in Nat
        /\ outputs[1].snapshot.tick > 0
        /\ outputs[1].snapshot.tick < outputs[2].snapshot.tick
        /\ outputs[1].snapshot.time = TimeAt(outputs[1].snapshot.tick)
        /\ outputs[2].snapshot.time = TimeAt(outputs[2].snapshot.tick)
    BY <2>1, <2>2 DEF Dated, Explains
  <2> QED BY <2>1, <2>3, TimeGrows
<1> QED BY <1>1, TickAlways, PTL

-----------------------------------------------------------------------------
(* The commands of a batch as operations of the store *)

\* x is w but for what entity e holds.
Grown(w, e, x) ==
    /\ WorldOK(x) /\ x.next = w.next
    /\ e \in DOMAIN x.loc
    /\ \E m \in Bundle : EntitiesOf(x) = [EntitiesOf(w) EXCEPT ![e] = m]

(* A component for an entity changes what that entity holds. *)
LEMMA AddGrows ==
    ASSUME NEW w, NEW e, NEW x, Grown(w, e, x), NEW c \in Comps, NEW v \in Values
    PROVE  Grown(w, e, AddComponent(x, e, c, v))
<1>1. PICK y : y = AddComponent(x, e, c, v)
  OBVIOUS
<1>2. WorldOK(x) /\ e \in DOMAIN x.loc
  BY DEF Grown
<1>3. /\ WorldOK(y) /\ y.next = x.next
      /\ IF e \in DOMAIN x.loc
         THEN EntitiesOf(y) = [EntitiesOf(x) EXCEPT ![e] = Put(@, c, v)]
         ELSE EntitiesOf(y) = EntitiesOf(x)
  BY <1>1, <1>2, AddOK
<1>4. Put(EntitiesOf(x)[e], c, v) \in Bundle
  <2>1. /\ x.loc[e].sig \in Signatures
        /\ EntitiesOf(x)[e] \in [x.loc[e].sig -> Values]
    BY <1>2, LivingEntity
  <2> QED BY <2>1, BundlePut
<1>5. PICK m \in Bundle : EntitiesOf(x) = [EntitiesOf(w) EXCEPT ![e] = m]
  BY DEF Grown
<1>6. PICK m2 \in Bundle : EntitiesOf(y) = [EntitiesOf(x) EXCEPT ![e] = m2]
  BY <1>2, <1>3, <1>4
<1>7. EntitiesOf(y) = [EntitiesOf(w) EXCEPT ![e] = m2]
  BY <1>5, <1>6
<1>8. DOMAIN y.loc = DOMAIN x.loc
  <2>1. DOMAIN EntitiesOf(y) = DOMAIN EntitiesOf(x)
    BY <1>6
  <2> QED BY <2>1 DEF EntitiesOf
<1> QED BY <1>1, <1>2, <1>3, <1>7, <1>8 DEF Grown

LEMMA AddToNewestOK ==
    ASSUME NEW w, NEW e, NEW x, Grown(w, e, x), e = w.next - 1,
           NEW p \in Comps \X Values
    PROVE  Grown(w, e, AddToNewest(x, p))
<1>1. AddToNewest(x, p) = AddComponent(x, e, p[1], p[2])
  BY DEF AddToNewest, Grown
<1> QED BY <1>1, AddGrows

(* And so do any number of them. *)
LEMMA AddAllOK ==
    ASSUME NEW w, NEW e \in DOMAIN w.loc, WorldOK(w), e = w.next - 1,
           NEW ps \in Seq(Comps \X Values)
    PROVE  Grown(w, e, AddAllToNewest(w, ps))
<1> DEFINE n == Len(ps)
<1>1. n \in Nat /\ \A i \in 1..n : ps[i] \in Comps \X Values
  OBVIOUS
<1>2. PICK g : /\ g[0] = w
               /\ Grow!Steps(g, ps, n)
               /\ g[n] = Grow!Folded(w, ps)
  BY Grow!FoldedBySteps
<1> HIDE DEF n
<1> DEFINE T == {i \in Nat : i <= n => Grown(w, e, g[i])}
<1>3. 0 \in T
  <2>1. EntitiesOf(w)[e] \in Bundle
    <3>1. /\ w.loc[e].sig \in Signatures
          /\ EntitiesOf(w)[e] \in [w.loc[e].sig -> Values]
      BY LivingEntity
    <3> QED BY <3>1 DEF Bundle
  <2>2. EntitiesOf(w) = [EntitiesOf(w) EXCEPT ![e] = EntitiesOf(w)[e]]
    BY DEF EntitiesOf
  <2> QED BY <1>2, <2>1, <2>2 DEF Grown
<1>4. ASSUME NEW i \in T PROVE i + 1 \in T
  <2>0. i \in Nat
    OBVIOUS
  <2> SUFFICES ASSUME i + 1 <= n PROVE Grown(w, e, g[i + 1])
    BY <2>0
  <2>1. Grown(w, e, g[i]) /\ i + 1 \in 1..n /\ (i + 1) - 1 = i
    BY <1>1, <2>0
  <2>2. g[i + 1] = AddToNewest(g[i], ps[i + 1])
    BY <1>2, <2>1 DEF Grow!Steps
  <2> QED BY <1>1, <2>1, <2>2, AddToNewestOK
<1>5. T \subseteq Nat
  OBVIOUS
<1> HIDE DEF T
<1>6. T = Nat
  BY <1>3, <1>4, <1>5, Grow!Induction
<1>7. Grown(w, e, g[n])
  BY <1>1, <1>6 DEF T
<1> QED BY <1>2, <1>7, GrowFold

\* y comes from x by an operation of the store, or by none.
StoreStep(x, y) ==
    \/ \E m \in Bundle : EntitiesOf(y) = Put(EntitiesOf(x), x.next, m) /\ y.next = x.next + 1
    \/ \E e \in DOMAIN EntitiesOf(x) :
           /\ y.next = x.next
           /\ \/ EntitiesOf(y) = Drop(EntitiesOf(x), e)
              \/ \E c \in Comps, v \in Values :
                     EntitiesOf(y) = [EntitiesOf(x) EXCEPT ![e] = Put(@, c, v)]
              \/ \E c \in Comps :
                     EntitiesOf(y) = [EntitiesOf(x) EXCEPT ![e] = Drop(@, c)]
    \/ EntitiesOf(y) = EntitiesOf(x) /\ y.next = x.next

(* Every command of a batch is one operation of the store: a create command   *)
(* and its components are one entity.                                         *)
LEMMA ApplyEcsOK ==
    ASSUME NEW w, WorldOK(w), NEW k \in EcsCommands
    PROVE  WorldOK(ApplyEcs(w, k)) /\ StoreStep(w, ApplyEcs(w, k))
<1> DEFINE y == ApplyEcs(w, k)
<1>1. CASE k.op = "create"
  <2>1. k.with \in Seq(Comps \X Values)
    BY <1>1 DEF EcsCommands
  <2> DEFINE x == CreateEntity(w, Nothing)
  <2> DEFINE e == w.next
  <2>2. Nothing \in Bundle
    BY DEF Nothing, Bundle, Signatures
  <2>3. /\ WorldOK(x) /\ x.next = w.next + 1
        /\ EntitiesOf(x) = Put(EntitiesOf(w), e, Nothing)
    BY <2>2, CreateOK
  <2>4. y = AddAllToNewest(x, k.with)
    BY <1>1 DEF ApplyEcs
  <2>5. e \in DOMAIN x.loc
    BY DEF CreateEntity, Put
  <2>6. e \in Nat
    BY DEF WorldOK, IdsOK
  <2> HIDE DEF x, y, e
  <2>7. e = x.next - 1
    BY <2>3, <2>6 DEF e
  <2>8. Grown(x, e, y)
    BY <2>1, <2>3, <2>4, <2>5, <2>7, AddAllOK
  <2>9. PICK m \in Bundle : EntitiesOf(y) = [EntitiesOf(x) EXCEPT ![e] = m]
    BY <2>8 DEF Grown
  <2>10. EntitiesOf(y) = Put(EntitiesOf(w), e, m)
    BY <2>3, <2>9 DEF Put
  <2> QED BY <2>3, <2>8, <2>10 DEF Grown, StoreStep, y, e
<1>2. CASE k.op = "destroy"
  <2>1. y = DestroyEntity(w, k.e)
    BY <1>2 DEF ApplyEcs
  <2>2. CASE k.e \in DOMAIN w.loc
    <3>1. WorldOK(y) /\ EntitiesOf(y) = Drop(EntitiesOf(w), k.e) /\ y.next = w.next
      BY <2>1, <2>2, DestroyOK
    <3>2. k.e \in DOMAIN EntitiesOf(w)
      BY <2>2 DEF EntitiesOf
    <3> QED BY <3>1, <3>2 DEF StoreStep
  <2>3. CASE k.e \notin DOMAIN w.loc
    <3>1. y = w
      BY <2>1, <2>3 DEF DestroyEntity, HasEntity
    <3> QED BY <3>1 DEF StoreStep
  <2> QED BY <2>2, <2>3
<1>3. CASE k.op \in {"set", "field"}
  <2>1. y = AddComponent(w, k.e, k.c, k.v) /\ k.c \in Comps /\ k.v \in Values
    BY <1>3 DEF ApplyEcs, EcsCommands
  <2>2. /\ WorldOK(y) /\ y.next = w.next
        /\ IF k.e \in DOMAIN w.loc
           THEN EntitiesOf(y) = [EntitiesOf(w) EXCEPT ![k.e] = Put(@, k.c, k.v)]
           ELSE EntitiesOf(y) = EntitiesOf(w)
    <3>0. PICK e : e = k.e
      OBVIOUS
    <3>1. PICK c \in Comps, v \in Values : c = k.c /\ v = k.v
      BY <2>1
    <3>2. PICK z : z = AddComponent(w, e, c, v)
      OBVIOUS
    <3>3. /\ WorldOK(z) /\ z.next = w.next
          /\ IF e \in DOMAIN w.loc
             THEN EntitiesOf(z) = [EntitiesOf(w) EXCEPT ![e] = Put(@, c, v)]
             ELSE EntitiesOf(z) = EntitiesOf(w)
      BY <3>2, AddOK
    <3>4. y = z
      BY <2>1, <3>0, <3>1, <3>2
    <3> HIDE DEF y
    <3> QED BY <3>0, <3>1, <3>3, <3>4
  <2>3. k.e \in DOMAIN w.loc => k.e \in DOMAIN EntitiesOf(w)
    BY DEF EntitiesOf
  <2> HIDE DEF y
  <2> QED BY <2>1, <2>2, <2>3 DEF StoreStep, y
<1>4. CASE k.op = "remove"
  <2>1. y = RemoveComponent(w, k.e, k.c) /\ k.c \in Comps
    BY <1>4 DEF ApplyEcs, EcsCommands
  <2>2. /\ WorldOK(y) /\ y.next = w.next
        /\ IF HasComponent(w, k.e, k.c)
           THEN EntitiesOf(y) = [EntitiesOf(w) EXCEPT ![k.e] = Drop(@, k.c)]
           ELSE EntitiesOf(y) = EntitiesOf(w)
    BY <2>1, RemoveOK
  <2>3. HasComponent(w, k.e, k.c) => k.e \in DOMAIN EntitiesOf(w)
    BY DEF EntitiesOf, HasComponent, HasEntity
  <2> HIDE DEF y
  <2> QED BY <2>1, <2>2, <2>3 DEF StoreStep, y
<1> QED BY <1>1, <1>2, <1>3, <1>4 DEF EcsCommands

LEMMA StoreStepIs ==
    ASSUME StoreStep(ecs, ecs') PROVE [Store!Next]_(Store!storeVars)
<1> USE DEF Store!storeVars
<1>1. CASE \E m \in Bundle : /\ EntitiesOf(ecs') = Put(EntitiesOf(ecs), ecs.next, m)
                             /\ ecs'.next = ecs.next + 1
  <2>1. Store!Create
    BY <1>1 DEF Store!Create, Store!Bundle, Bundle, Signatures, Store!Put, Put
  <2> QED BY <2>1 DEF Store!Next
<1>2. ASSUME NEW e \in DOMAIN EntitiesOf(ecs), ecs'.next = ecs.next,
             EntitiesOf(ecs') = Drop(EntitiesOf(ecs), e)
      PROVE  Store!Next
  <2>1. Store!Destroy
    BY <1>2 DEF Store!Destroy, Store!Drop, Drop
  <2> QED BY <2>1 DEF Store!Next
<1>3. ASSUME NEW e \in DOMAIN EntitiesOf(ecs), ecs'.next = ecs.next,
             NEW c \in Comps, NEW v \in Values,
             EntitiesOf(ecs') = [EntitiesOf(ecs) EXCEPT ![e] = Put(@, c, v)]
      PROVE  Store!Next
  <2>1. Store!Write
    BY <1>3 DEF Store!Write, Store!Put, Put
  <2> QED BY <2>1 DEF Store!Next
<1>4. ASSUME NEW e \in DOMAIN EntitiesOf(ecs), ecs'.next = ecs.next,
             NEW c \in Comps,
             EntitiesOf(ecs') = [EntitiesOf(ecs) EXCEPT ![e] = Drop(@, c)]
      PROVE  Store!Next
  <2>1. Store!Remove
    BY <1>4 DEF Store!Remove, Store!Drop, Drop
  <2> QED BY <2>1 DEF Store!Next
<1>5. CASE EntitiesOf(ecs') = EntitiesOf(ecs) /\ ecs'.next = ecs.next
  BY <1>5
<1> QED BY <1>1, <1>2, <1>3, <1>4, <1>5 DEF StoreStep

(* Every step of the tick is a step of the store, or none. *)
LEMMA KernelEcsStep ==
    ASSUME WorldConsistent, TickInv, [KernelNext]_kernelVars
    PROVE  WorldConsistent' /\ [Store!Next]_(Store!storeVars)
<1>0. WorldOK(ecs)
  BY DEF WorldConsistent
<1>1. CASE UNCHANGED ecs
  BY <1>0, <1>1 DEF WorldConsistent, Store!storeVars
<1>2. CASE BuildEntity
  <2>1. ecs.next \in 1..Len(Founders) /\ ecs' = CreateEntity(ecs, Founders[ecs.next])
    BY <1>0, <1>2, BuiltAssumption DEF BuildEntity, WorldOK, IdsOK
  <2>2. Founders[ecs.next] \in Bundle
    BY <2>1, BuiltAssumption
  <2>3. WorldOK(ecs') /\ StoreStep(ecs, ecs')
    BY <1>0, <2>1, <2>2, CreateOK DEF StoreStep
  <2> QED BY <2>3, StoreStepIs DEF WorldConsistent
<1>3. CASE EcsCommand
  <2>1. ecsQueue # <<>> /\ ecsQueue \in Seq(EcsCommands) /\ ecs' = ApplyEcs(ecs, Head(ecsQueue))
    BY <1>3 DEF EcsCommand, TickInv, ClockInv
  <2>2. Head(ecsQueue) \in EcsCommands
    BY <2>1
  <2>3. WorldOK(ecs') /\ StoreStep(ecs, ecs')
    BY <1>0, <2>1, <2>2, ApplyEcsOK
  <2> QED BY <2>3, StoreStepIs DEF WorldConsistent
<1> QED
  BY <1>1, <1>2, <1>3
     DEF KernelNext, kernelVars, BeginTick, RunFloor, EcsCommandRaises, WorldCommandRaises,
         Raise, WorldCommand, EmitTick

LEMMA KernelEcsInit == KernelInit => WorldConsistent /\ Store!Init
BY InitOK DEF KernelInit, WorldConsistent, Store!Init, EmptyWorld

LEMMA KernelEcsAlways == KernelSpec => []WorldConsistent
BY KernelEcsInit, KernelEcsStep, TickAlways, PTL DEF KernelSpec

(* Batches applied tick after tick, also cut short by a command that raises,  *)
(* leave the store's two indices in agreement (world.py:375-436).             *)
THEOREM TicksKeepWorldConsistent == KernelSpec => []WorldConsistent
BY KernelEcsAlways

(* And every command of a batch is one operation of the store: create with    *)
(* its components, destroy, set, field write or remove (world.py:375-436).    *)
THEOREM TicksImplementStore == KernelSpec => ImplementsStore
<1>1. KernelInit => Store!Init
  BY KernelEcsInit
<1>2. WorldConsistent /\ TickInv /\ [KernelNext]_kernelVars => [Store!Next]_(Store!storeVars)
  BY KernelEcsStep
<1> QED
  BY <1>1, <1>2, KernelEcsAlways, TickAlways, PTL DEF KernelSpec, ImplementsStore, Store!Spec

-----------------------------------------------------------------------------
(* The floor: one write *)

FloorOf(de, at, ba, st, oc, du, ef) ==
    [desire |-> de, assigned |-> at, band |-> ba, status |-> st, occupant |-> oc,
     durability |-> du, efficiency |-> ef]

FloorTyped(f) ==
    /\ f = FloorOf(f.desire, f.assigned, f.band, f.status, f.occupant, f.durability,
                   f.efficiency)
    /\ f.desire \in [Workers -> Nat]
    /\ f.assigned \in [Workers -> Stations \cup {None}]
    /\ f.band \in [Workers -> Nat]
    /\ f.status \in [Stations -> Statuses]
    /\ f.occupant \in [Stations -> Workers \cup {None}]
    /\ f.durability \in [Stations -> Nat]
    /\ f.efficiency \in [Stations -> Nat]

LEMMA FloorOfIs ==
    ASSUME NEW de, NEW at, NEW ba, NEW st, NEW oc, NEW du, NEW ef
    PROVE  LET g == FloorOf(de, at, ba, st, oc, du, ef)
           IN  /\ g.desire = de /\ g.assigned = at /\ g.band = ba /\ g.status = st
               /\ g.occupant = oc /\ g.durability = du /\ g.efficiency = ef
BY DEF FloorOf

(* A write changes its field of its worker or station, and nothing else. *)
LEMMA WriteDesire ==
    ASSUME NEW f, FloorTyped(f), NEW a \in Workers, NEW v \in Nat
    PROVE  LET g == ApplyWrite(f, Set("desire", a, v))
           IN  /\ FloorTyped(g)
               /\ g.desire = [f.desire EXCEPT ![a] = v]
               /\ g.assigned = f.assigned /\ g.band = f.band /\ g.status = f.status
               /\ g.occupant = f.occupant /\ g.durability = f.durability /\ g.efficiency = f.efficiency
<1>1. ApplyWrite(f, Set("desire", a, v)) = [f EXCEPT !.desire[a] = v]
  BY DEF ApplyWrite, Set
<1>2. [f EXCEPT !.desire[a] = v] = [f EXCEPT !.desire = [f.desire EXCEPT ![a] = v]]
  BY Zenon
<1>3. ASSUME NEW u
      PROVE  [f EXCEPT !.desire = u] = FloorOf(u, f.assigned, f.band, f.status, f.occupant, f.durability, f.efficiency)
  BY DEF FloorTyped, FloorOf
<1>4. PICK u : u = [f.desire EXCEPT ![a] = v]
  OBVIOUS
<1>5. PICK g : g = FloorOf(u, f.assigned, f.band, f.status, f.occupant, f.durability, f.efficiency)
  OBVIOUS
<1>6. /\ g.desire = u
      /\ g.assigned = f.assigned /\ g.band = f.band /\ g.status = f.status
      /\ g.occupant = f.occupant /\ g.durability = f.durability /\ g.efficiency = f.efficiency
  BY <1>5, FloorOfIs
<1>7. u \in [Workers -> Nat]
  BY <1>4 DEF FloorTyped
<1>8. FloorTyped(g)
  BY <1>5, <1>6, <1>7 DEF FloorTyped
<1> QED BY <1>1, <1>2, <1>3, <1>4, <1>5, <1>6, <1>8

LEMMA WriteAssigned ==
    ASSUME NEW f, FloorTyped(f), NEW a \in Workers, NEW v \in Stations \cup {None}
    PROVE  LET g == ApplyWrite(f, Set("assigned", a, v))
           IN  /\ FloorTyped(g)
               /\ g.assigned = [f.assigned EXCEPT ![a] = v]
               /\ g.desire = f.desire /\ g.band = f.band /\ g.status = f.status
               /\ g.occupant = f.occupant /\ g.durability = f.durability /\ g.efficiency = f.efficiency
<1>1. ApplyWrite(f, Set("assigned", a, v)) = [f EXCEPT !.assigned[a] = v]
  BY DEF ApplyWrite, Set
<1>2. [f EXCEPT !.assigned[a] = v] = [f EXCEPT !.assigned = [f.assigned EXCEPT ![a] = v]]
  BY Zenon
<1>3. ASSUME NEW u
      PROVE  [f EXCEPT !.assigned = u] = FloorOf(f.desire, u, f.band, f.status, f.occupant, f.durability, f.efficiency)
  BY DEF FloorTyped, FloorOf
<1>4. PICK u : u = [f.assigned EXCEPT ![a] = v]
  OBVIOUS
<1>5. PICK g : g = FloorOf(f.desire, u, f.band, f.status, f.occupant, f.durability, f.efficiency)
  OBVIOUS
<1>6. /\ g.assigned = u
      /\ g.desire = f.desire /\ g.band = f.band /\ g.status = f.status
      /\ g.occupant = f.occupant /\ g.durability = f.durability /\ g.efficiency = f.efficiency
  BY <1>5, FloorOfIs
<1>7. u \in [Workers -> Stations \cup {None}]
  BY <1>4 DEF FloorTyped
<1>8. FloorTyped(g)
  BY <1>5, <1>6, <1>7 DEF FloorTyped
<1> QED BY <1>1, <1>2, <1>3, <1>4, <1>5, <1>6, <1>8

LEMMA WriteBand ==
    ASSUME NEW f, FloorTyped(f), NEW a \in Workers, NEW v \in Nat
    PROVE  LET g == ApplyWrite(f, Set("band", a, v))
           IN  /\ FloorTyped(g)
               /\ g.band = [f.band EXCEPT ![a] = v]
               /\ g.desire = f.desire /\ g.assigned = f.assigned /\ g.status = f.status
               /\ g.occupant = f.occupant /\ g.durability = f.durability /\ g.efficiency = f.efficiency
<1>1. ApplyWrite(f, Set("band", a, v)) = [f EXCEPT !.band[a] = v]
  BY DEF ApplyWrite, Set
<1>2. [f EXCEPT !.band[a] = v] = [f EXCEPT !.band = [f.band EXCEPT ![a] = v]]
  BY Zenon
<1>3. ASSUME NEW u
      PROVE  [f EXCEPT !.band = u] = FloorOf(f.desire, f.assigned, u, f.status, f.occupant, f.durability, f.efficiency)
  BY DEF FloorTyped, FloorOf
<1>4. PICK u : u = [f.band EXCEPT ![a] = v]
  OBVIOUS
<1>5. PICK g : g = FloorOf(f.desire, f.assigned, u, f.status, f.occupant, f.durability, f.efficiency)
  OBVIOUS
<1>6. /\ g.band = u
      /\ g.desire = f.desire /\ g.assigned = f.assigned /\ g.status = f.status
      /\ g.occupant = f.occupant /\ g.durability = f.durability /\ g.efficiency = f.efficiency
  BY <1>5, FloorOfIs
<1>7. u \in [Workers -> Nat]
  BY <1>4 DEF FloorTyped
<1>8. FloorTyped(g)
  BY <1>5, <1>6, <1>7 DEF FloorTyped
<1> QED BY <1>1, <1>2, <1>3, <1>4, <1>5, <1>6, <1>8

LEMMA WriteStatus ==
    ASSUME NEW f, FloorTyped(f), NEW o \in Stations, NEW v \in Statuses
    PROVE  LET g == ApplyWrite(f, Set("status", o, v))
           IN  /\ FloorTyped(g)
               /\ g.status = [f.status EXCEPT ![o] = v]
               /\ g.desire = f.desire /\ g.assigned = f.assigned /\ g.band = f.band
               /\ g.occupant = f.occupant /\ g.durability = f.durability /\ g.efficiency = f.efficiency
<1>1. ApplyWrite(f, Set("status", o, v)) = [f EXCEPT !.status[o] = v]
  BY DEF ApplyWrite, Set
<1>2. [f EXCEPT !.status[o] = v] = [f EXCEPT !.status = [f.status EXCEPT ![o] = v]]
  BY Zenon
<1>3. ASSUME NEW u
      PROVE  [f EXCEPT !.status = u] = FloorOf(f.desire, f.assigned, f.band, u, f.occupant, f.durability, f.efficiency)
  BY DEF FloorTyped, FloorOf
<1>4. PICK u : u = [f.status EXCEPT ![o] = v]
  OBVIOUS
<1>5. PICK g : g = FloorOf(f.desire, f.assigned, f.band, u, f.occupant, f.durability, f.efficiency)
  OBVIOUS
<1>6. /\ g.status = u
      /\ g.desire = f.desire /\ g.assigned = f.assigned /\ g.band = f.band
      /\ g.occupant = f.occupant /\ g.durability = f.durability /\ g.efficiency = f.efficiency
  BY <1>5, FloorOfIs
<1>7. u \in [Stations -> Statuses]
  BY <1>4 DEF FloorTyped
<1>8. FloorTyped(g)
  BY <1>5, <1>6, <1>7 DEF FloorTyped
<1> QED BY <1>1, <1>2, <1>3, <1>4, <1>5, <1>6, <1>8

LEMMA WriteOccupant ==
    ASSUME NEW f, FloorTyped(f), NEW o \in Stations, NEW v \in Workers \cup {None}
    PROVE  LET g == ApplyWrite(f, Set("occupant", o, v))
           IN  /\ FloorTyped(g)
               /\ g.occupant = [f.occupant EXCEPT ![o] = v]
               /\ g.desire = f.desire /\ g.assigned = f.assigned /\ g.band = f.band
               /\ g.status = f.status /\ g.durability = f.durability /\ g.efficiency = f.efficiency
<1>1. ApplyWrite(f, Set("occupant", o, v)) = [f EXCEPT !.occupant[o] = v]
  BY DEF ApplyWrite, Set
<1>2. [f EXCEPT !.occupant[o] = v] = [f EXCEPT !.occupant = [f.occupant EXCEPT ![o] = v]]
  BY Zenon
<1>3. ASSUME NEW u
      PROVE  [f EXCEPT !.occupant = u] = FloorOf(f.desire, f.assigned, f.band, f.status, u, f.durability, f.efficiency)
  BY DEF FloorTyped, FloorOf
<1>4. PICK u : u = [f.occupant EXCEPT ![o] = v]
  OBVIOUS
<1>5. PICK g : g = FloorOf(f.desire, f.assigned, f.band, f.status, u, f.durability, f.efficiency)
  OBVIOUS
<1>6. /\ g.occupant = u
      /\ g.desire = f.desire /\ g.assigned = f.assigned /\ g.band = f.band
      /\ g.status = f.status /\ g.durability = f.durability /\ g.efficiency = f.efficiency
  BY <1>5, FloorOfIs
<1>7. u \in [Stations -> Workers \cup {None}]
  BY <1>4 DEF FloorTyped
<1>8. FloorTyped(g)
  BY <1>5, <1>6, <1>7 DEF FloorTyped
<1> QED BY <1>1, <1>2, <1>3, <1>4, <1>5, <1>6, <1>8

LEMMA WriteDurability ==
    ASSUME NEW f, FloorTyped(f), NEW o \in Stations, NEW v \in Nat
    PROVE  LET g == ApplyWrite(f, Set("durability", o, v))
           IN  /\ FloorTyped(g)
               /\ g.durability = [f.durability EXCEPT ![o] = v]
               /\ g.desire = f.desire /\ g.assigned = f.assigned /\ g.band = f.band
               /\ g.status = f.status /\ g.occupant = f.occupant /\ g.efficiency = f.efficiency
<1>1. ApplyWrite(f, Set("durability", o, v)) = [f EXCEPT !.durability[o] = v]
  BY DEF ApplyWrite, Set
<1>2. [f EXCEPT !.durability[o] = v] = [f EXCEPT !.durability = [f.durability EXCEPT ![o] = v]]
  BY Zenon
<1>3. ASSUME NEW u
      PROVE  [f EXCEPT !.durability = u] = FloorOf(f.desire, f.assigned, f.band, f.status, f.occupant, u, f.efficiency)
  BY DEF FloorTyped, FloorOf
<1>4. PICK u : u = [f.durability EXCEPT ![o] = v]
  OBVIOUS
<1>5. PICK g : g = FloorOf(f.desire, f.assigned, f.band, f.status, f.occupant, u, f.efficiency)
  OBVIOUS
<1>6. /\ g.durability = u
      /\ g.desire = f.desire /\ g.assigned = f.assigned /\ g.band = f.band
      /\ g.status = f.status /\ g.occupant = f.occupant /\ g.efficiency = f.efficiency
  BY <1>5, FloorOfIs
<1>7. u \in [Stations -> Nat]
  BY <1>4 DEF FloorTyped
<1>8. FloorTyped(g)
  BY <1>5, <1>6, <1>7 DEF FloorTyped
<1> QED BY <1>1, <1>2, <1>3, <1>4, <1>5, <1>6, <1>8

LEMMA WriteEfficiency ==
    ASSUME NEW f, FloorTyped(f), NEW o \in Stations, NEW v \in Nat
    PROVE  LET g == ApplyWrite(f, Set("efficiency", o, v))
           IN  /\ FloorTyped(g)
               /\ g.efficiency = [f.efficiency EXCEPT ![o] = v]
               /\ g.desire = f.desire /\ g.assigned = f.assigned /\ g.band = f.band
               /\ g.status = f.status /\ g.occupant = f.occupant /\ g.durability = f.durability
<1>1. ApplyWrite(f, Set("efficiency", o, v)) = [f EXCEPT !.efficiency[o] = v]
  BY DEF ApplyWrite, Set
<1>2. [f EXCEPT !.efficiency[o] = v] = [f EXCEPT !.efficiency = [f.efficiency EXCEPT ![o] = v]]
  BY Zenon
<1>3. ASSUME NEW u
      PROVE  [f EXCEPT !.efficiency = u] = FloorOf(f.desire, f.assigned, f.band, f.status, f.occupant, f.durability, u)
  BY DEF FloorTyped, FloorOf
<1>4. PICK u : u = [f.efficiency EXCEPT ![o] = v]
  OBVIOUS
<1>5. PICK g : g = FloorOf(f.desire, f.assigned, f.band, f.status, f.occupant, f.durability, u)
  OBVIOUS
<1>6. /\ g.efficiency = u
      /\ g.desire = f.desire /\ g.assigned = f.assigned /\ g.band = f.band
      /\ g.status = f.status /\ g.occupant = f.occupant /\ g.durability = f.durability
  BY <1>5, FloorOfIs
<1>7. u \in [Stations -> Nat]
  BY <1>4 DEF FloorTyped
<1>8. FloorTyped(g)
  BY <1>5, <1>6, <1>7 DEF FloorTyped
<1> QED BY <1>1, <1>2, <1>3, <1>4, <1>5, <1>6, <1>8

-----------------------------------------------------------------------------
(* The floor: batches of writes *)

(* Writes one after the other. *)
LEMMA ApplyNone ==
    ASSUME NEW g PROVE ApplyFloor(g, <<>>) = g
BY WriteFold, Write!FoldedNothing

LEMMA ApplyOne ==
    ASSUME NEW g, NEW x PROVE ApplyFloor(g, <<x>>) = ApplyWrite(g, x)
BY WriteFold, Write!FoldedOne

LEMMA ConcatIs ==
    ASSUME NEW s, NEW r, IsSeq(s), IsSeq(r)
    PROVE  IsSeq(s \o r)
<1> DEFINE S == {s[i] : i \in DOMAIN s}
<1> DEFINE R == {r[i] : i \in DOMAIN r}
<1>1. s \in Seq(S) /\ r \in Seq(R)
  BY DEF IsSeq
<1> HIDE DEF S, R
<1>2. s \in Seq(S \cup R) /\ r \in Seq(S \cup R)
  BY <1>1
<1>3. s \o r \in Seq(S \cup R)
  BY <1>2
<1> QED BY <1>3, SeqIs

LEMMA ApplyConcat ==
    ASSUME NEW g, NEW s, NEW r, IsSeq(s), IsSeq(r)
    PROVE  ApplyFloor(g, s \o r) = ApplyFloor(ApplyFloor(g, s), r)
<1> DEFINE S == {s[i] : i \in DOMAIN s}
<1> DEFINE R == {r[i] : i \in DOMAIN r}
<1>1. s \in Seq(S) /\ r \in Seq(R)
  BY DEF IsSeq
<1> HIDE DEF S, R
<1>2. s \in Seq(S \cup R) /\ r \in Seq(S \cup R)
  BY <1>1
<1>3. Write!Folded(g, s \o r) = Write!Folded(Write!Folded(g, s), r)
  BY <1>2, Write!FoldedConcat
<1> QED BY <1>3, WriteFold

(* One more write, or none. *)
LEMMA ApplyMore ==
    ASSUME NEW g, NEW s, IsSeq(s), NEW x, NEW m, m = <<>> \/ m = <<x>>
    PROVE  /\ IsSeq(s \o m)
           /\ m = <<>> => ApplyFloor(g, s \o m) = ApplyFloor(g, s)
           /\ m = <<x>> => ApplyFloor(g, s \o m) = ApplyWrite(ApplyFloor(g, s), x)
<1>1. IsSeq(m)
  <2>1. <<x>> \in Seq({x}) /\ <<>> \in Seq({x})
    OBVIOUS
  <2> QED BY <2>1, SeqIs
<1>2. IsSeq(s \o m) /\ ApplyFloor(g, s \o m) = ApplyFloor(ApplyFloor(g, s), m)
  BY <1>1, ConcatIs, ApplyConcat
<1> QED BY <1>2, ApplyNone, ApplyOne

(* Sequences joined one way or the other. *)
LEMMA Regrouped ==
    ASSUME NEW r, NEW s, NEW t, IsSeq(r), IsSeq(s), IsSeq(t)
    PROVE  r \o (s \o t) = (r \o s) \o t
<1>1. PICK R, S, T : r \in Seq(R) /\ s \in Seq(S) /\ t \in Seq(T)
  BY DEF IsSeq
<1>2. r \in Seq(R \cup S \cup T) /\ s \in Seq(R \cup S \cup T) /\ t \in Seq(R \cup S \cup T)
  BY <1>1
<1> QED BY <1>2

-----------------------------------------------------------------------------
(* The floor: orders *)

\* e has every element of S once.
Enumerates(e, S) ==
    /\ Cardinality(S) \in Nat
    /\ e \in [1..Cardinality(S) -> S]
    /\ \A x \in S : \E i \in 1..Cardinality(S) : e[i] = x
    /\ \A i, j \in 1..Cardinality(S) : i < j => e[i] # e[j]

(* A finite set listed in an order that puts no element before itself. *)
LEMMA InOrderIs ==
    ASSUME NEW before, NEW S, Turn!Lines(before, S), IsFiniteSet(S),
           \A x \in S : <<x, x>> \notin before
    PROVE  Enumerates(InOrder(S, before), S)
<1> DEFINE n == Cardinality(S)
<1> DEFINE e == InOrder(S, before)
<1>1. n \in Nat
  BY FS_CardinalityType
<1>0. Turn!IsFiniteSet(S) /\ Turn!Cardinality(S) = Cardinality(S)
  BY DEF IsFiniteSet, Turn!IsFiniteSet, Cardinality, Turn!Cardinality
<1>2. \E s : Turn!Lists(s, before, S)
  BY <1>0, Turn!ListExists
<1>3. /\ e \in [1..n -> S]
      /\ \A x \in S : \E i \in DOMAIN e : e[i] = x
      /\ \A i, j \in DOMAIN e : i < j => <<e[i], e[j]>> \in before
  BY <1>0, <1>2 DEF InOrder, Turn!Lists
<1> HIDE DEF e, n
<1>4. DOMAIN e = 1..n
  BY <1>3
<1>5. \A i, j \in 1..n : i < j => e[i] # e[j]
  BY <1>3, <1>4
<1> QED BY <1>1, <1>3, <1>4, <1>5 DEF e, n, Enumerates

LEMMA AscendingIs ==
    ASSUME NEW S, S \subseteq Int, IsFiniteSet(S)
    PROVE  Enumerates(Ascending(S), S)
<1> DEFINE before == {p \in S \X S : p[1] < p[2]}
<1>1. \A x, y \in S : <<x, y>> \in before <=> x < y
  OBVIOUS
<1>2. Ascending(S) = InOrder(S, before)
  BY DEF Ascending
<1> HIDE DEF before
<1>3. Turn!Lines(before, S)
  BY <1>1 DEF Turn!Lines
<1>4. \A x \in S : <<x, x>> \notin before
  BY <1>1
<1> QED BY <1>2, <1>3, <1>4, InOrderIs

LEMMA StationOrderIs == Enumerates(StationOrder, Stations)
<1> DEFINE before == {p \in Stations \X Stations :
                         \/ RoomOf[p[1]] < RoomOf[p[2]]
                         \/ RoomOf[p[1]] = RoomOf[p[2]] /\ p[1] < p[2]}
<1>0. Stations \subseteq Int /\ IsFiniteSet(Stations) /\ \A x \in Stations : RoomOf[x] \in Int
  BY FloorAssumption
<1>1. \A x, y \in Stations : <<x, y>> \in before <=>
          RoomOf[x] < RoomOf[y] \/ (RoomOf[x] = RoomOf[y] /\ x < y)
  OBVIOUS
<1>2. StationOrder = InOrder(Stations, before)
  BY DEF StationOrder
<1> HIDE DEF before
<1>3. Turn!Lines(before, Stations)
  <2>1. \A x, y \in Stations : x # y => <<x, y>> \in before \/ <<y, x>> \in before
    BY <1>0, <1>1
  <2>2. \A x, y, z \in Stations :
            <<x, y>> \in before /\ <<y, z>> \in before => <<x, z>> \in before
    BY <1>0, <1>1
  <2> QED BY <2>1, <2>2 DEF Turn!Lines
<1>4. \A x \in Stations : <<x, x>> \notin before
  BY <1>0, <1>1
<1> QED BY <1>0, <1>2, <1>3, <1>4, InOrderIs

LEMMA LeastIs ==
    ASSUME NEW S, S \subseteq Stations, S # {}
    PROVE  LeastOf(S) \in S
<1>1. S \subseteq Int /\ IsFiniteSet(S)
  BY FloorAssumption, FS_Subset
<1> DEFINE before == {p \in S \X S : p[1] > p[2]}
<1>2. \A x, y \in S : <<x, y>> \in before <=> x > y
  BY <1>1
<1> HIDE DEF before
<1>3. Turn!Lines(before, S)
  BY <1>1, <1>2 DEF Turn!Lines
<1>4. \E x \in S : \A y \in S : y # x => <<y, x>> \in before
  <2>1. Turn!IsFiniteSet(S)
    BY <1>1 DEF IsFiniteSet, Turn!IsFiniteSet
  <2> QED BY <1>3, <2>1, Turn!LastExists
<1>5. \E x \in S : \A y \in S : x <= y
  <2>1. PICK x \in S : \A y \in S : y # x => <<y, x>> \in before
    BY <1>4
  <2>2. ASSUME NEW y \in S PROVE x <= y
    <3>1. x \in Int /\ y \in Int
      BY <1>1
    <3>2. y # x => y > x
      BY <1>2, <2>1
    <3> QED BY <3>1, <3>2
  <2> QED BY <2>2
<1> QED BY <1>5 DEF LeastOf

\* The first i of a sequence.
Done(s, i) == {s[j] : j \in 1..i}

-----------------------------------------------------------------------------
(* The floor: the desires *)

\* g is f with some desires grown.
Grew(f, g) ==
    /\ FloorTyped(g)
    /\ g.assigned = f.assigned /\ g.band = f.band /\ g.status = f.status
    /\ g.occupant = f.occupant /\ g.durability = f.durability
    /\ g.efficiency = f.efficiency
    /\ \A a \in Workers : g.desire[a] >= f.desire[a]

LEMMA DesiresOK ==
    ASSUME NEW f, FloorTyped(f)
    PROVE  IsSeq(DesireWrites(f)) /\ Grew(f, ApplyFloor(f, DesireWrites(f)))
<1> DEFINE ws == DesireWrites(f)
<1>1. PICK e, n : /\ n \in Nat /\ e \in [1..n -> Workers]
                  /\ ws = [i \in DOMAIN e |-> Set("desire", e[i], f.desire[e[i]] + 1)]
  <2> DEFINE S == {a \in Workers : f.desire[a] < MaxDesire}
  <2>1. S \subseteq Workers /\ S \subseteq Int /\ IsFiniteSet(S)
    BY FloorAssumption, FS_Subset
  <2>2. ws = [i \in DOMAIN Ascending(S) |->
                  Set("desire", Ascending(S)[i], f.desire[Ascending(S)[i]] + 1)]
    BY DEF DesireWrites
  <2> HIDE DEF S, ws
  <2>3. Cardinality(S) \in Nat /\ Ascending(S) \in [1..Cardinality(S) -> S]
    BY <2>1, AscendingIs DEF Enumerates
  <2>4. Ascending(S) \in [1..Cardinality(S) -> Workers]
    BY <2>1, <2>3
  <2> QED BY <2>2, <2>3, <2>4
<1> HIDE DEF ws
<1> DEFINE R == {ws[i] : i \in 1..n}
<1>2. /\ ws = [i \in 1..n |-> ws[i]]
      /\ \A i \in 1..n : e[i] \in Workers /\ ws[i] = Set("desire", e[i], f.desire[e[i]] + 1)
  BY <1>1
<1>3. ws \in Seq(R) /\ Len(ws) = n
  BY <1>1, <1>2
<1> HIDE DEF R
<1>4. PICK g : /\ g[0] = f
               /\ Write!Steps(g, ws, n)
               /\ g[n] = Write!Folded(f, ws)
  BY <1>3, Write!FoldedBySteps
<1> DEFINE T == {i \in Nat : i <= n => Grew(f, g[i])}
<1>5. 0 \in T
  BY <1>4 DEF Grew, FloorTyped
<1>6. ASSUME NEW i \in T PROVE i + 1 \in T
  <2>0. i \in Nat
    OBVIOUS
  <2> SUFFICES ASSUME i + 1 <= n PROVE Grew(f, g[i + 1])
    BY <2>0
  <2>1. Grew(f, g[i]) /\ i + 1 \in 1..n /\ (i + 1) - 1 = i
    BY <1>1, <2>0
  <2> DEFINE a == e[i + 1]
  <2>2. a \in Workers /\ g[i + 1] = ApplyWrite(g[i], Set("desire", a, f.desire[a] + 1))
    BY <1>2, <1>4, <2>1 DEF Write!Steps
  <2>3. f.desire[a] \in Nat /\ f.desire[a] + 1 \in Nat
    BY <2>2 DEF FloorTyped
  <2> HIDE DEF a, T
  <2>4. PICK x, y : x = g[i] /\ y = g[i + 1]
    OBVIOUS
  <2>5. FloorTyped(x) /\ y = ApplyWrite(x, Set("desire", a, f.desire[a] + 1))
    BY <2>1, <2>2, <2>4 DEF Grew
  <2>6. /\ FloorTyped(y) /\ y.desire = [x.desire EXCEPT ![a] = f.desire[a] + 1]
        /\ y.assigned = x.assigned /\ y.band = x.band /\ y.status = x.status
        /\ y.occupant = x.occupant /\ y.durability = x.durability /\ y.efficiency = x.efficiency
    BY <2>2, <2>3, <2>5, WriteDesire
  <2>7. Grew(f, x) /\ x.desire \in [Workers -> Nat] /\ f.desire \in [Workers -> Nat]
    BY <2>1, <2>4, <2>5 DEF FloorTyped
  <2>8. \A b \in Workers : y.desire[b] >= f.desire[b]
    BY <2>2, <2>3, <2>6, <2>7 DEF Grew
  <2>9. Grew(f, y)
    BY <2>6, <2>7, <2>8 DEF Grew
  <2> QED BY <2>4, <2>9
<1>7. T \subseteq Nat
  OBVIOUS
<1> HIDE DEF T
<1>8. T = Nat
  BY <1>5, <1>6, <1>7, Write!Induction
<1>9. Grew(f, g[n])
  BY <1>1, <1>8 DEF T
<1>10. IsSeq(ws)
  BY <1>3, SeqIs
<1> QED BY <1>4, <1>9, <1>10, WriteFold DEF ws

-----------------------------------------------------------------------------
(* The floor: the workers' turns *)

Placed(f) ==
    \A a \in Workers : f.assigned[a] # None =>
        Wants(f, a) /\ RoomOf[f.assigned[a]] = RoomOf[a]
RunningLast(f) == \A o \in Stations : f.status[o] \in Active => f.durability[o] > 0

\* Between two ticks a worker that is assigned wants its work, in its own room,
\* and a station that runs is not used up.
FloorInv(f) == FloorTyped(f) /\ HoldersAgree(f) /\ Placed(f) /\ RunningLast(f)

Keeps(f, a) == f.assigned[a] # None /\ ~GivesUp(f, a)
FreeFor(f, a) ==
    {o \in Stations : RoomOf[o] = RoomOf[a] /\ Usable(f, o) /\ f.occupant[o] = None}

\* The floor g to which the writes of the workers in done lead from f, when
\* they have claimed the stations c: who keeps its station still has it, who
\* was given one holds it and no other does, who goes without found none free.
Turned(f, c, g, done) ==
    /\ FloorTyped(g)
    /\ g.durability = f.durability /\ g.efficiency = f.efficiency
    /\ \A a \in Workers : g.desire[a] >= f.desire[a]
    /\ c \subseteq Stations
    /\ \A a \in Workers : a \notin done \/ Keeps(f, a) => g.assigned[a] = f.assigned[a]
    /\ \A a \in done : ~Keeps(f, a) /\ g.assigned[a] # None =>
           /\ Wants(f, a)
           /\ g.assigned[a] \in FreeFor(f, a) /\ g.assigned[a] \in c
           /\ g.occupant[g.assigned[a]] = a
    /\ \A a \in done : ~Keeps(f, a) /\ Wants(f, a) /\ g.assigned[a] = None =>
           FreeFor(f, a) \subseteq c
    /\ \A o \in c :
           /\ g.occupant[o] \in done /\ ~Keeps(f, g.occupant[o])
           /\ g.assigned[g.occupant[o]] = o
           /\ g.status[o] = "RUNNING_IDLE"
    /\ \A o \in Stations \ c :
           g.occupant[o] = f.occupant[o] /\ g.status[o] = f.status[o]

(* The station of a worker who holds it is usable, and kept. *)
LEMMA HolderKeeps ==
    ASSUME NEW f, FloorInv(f), NEW a \in Workers, NEW o \in Stations, f.occupant[o] = a
    PROVE  f.assigned[a] = o /\ Keeps(f, a)
<1>1. f.assigned[a] = o
  BY DEF FloorInv, HoldersAgree, Holds
<1>2. o # None /\ a # None
  BY FloorAssumption
<1>3. f.status[o] \in Active
  BY <1>2 DEF FloorInv, HoldersAgree
<1>4. Usable(f, o)
  BY <1>3 DEF FloorInv, RunningLast, Usable, Active
<1>5. Wants(f, a) /\ RoomOf[o] = RoomOf[a]
  BY <1>1, <1>2 DEF FloorInv, Placed
<1> QED BY <1>1, <1>2, <1>4, <1>5 DEF Keeps, GivesUp

(* Nobody has to release what it holds: the release writes are for floors that *)
(* do not come about.                                                          *)
LEMMA ReleasesNothing ==
    ASSUME NEW f, FloorInv(f), NEW a \in Workers
    PROVE  ReleaseWrites(f, a) = <<>>
<1>1. ASSUME GivesUp(f, a), f.occupant[f.assigned[a]] = a PROVE FALSE
  <2>1. f.assigned[a] \in Stations
    BY <1>1 DEF GivesUp, FloorInv, FloorTyped
  <2> QED BY <1>1, <2>1, HolderKeeps DEF Keeps
<1> QED BY <1>1 DEF ReleaseWrites

(* A free station waits to be started. *)
LEMMA FreeIs ==
    ASSUME NEW f, FloorInv(f), NEW a \in Workers, NEW o \in FreeFor(f, a)
    PROVE  /\ o \in Stations /\ o # None
           /\ f.occupant[o] = None /\ f.status[o] = "NOT_OCCUPIED"
           /\ RoomOf[o] = RoomOf[a] /\ f.durability[o] > 0
<1>1. o \in Stations /\ f.occupant[o] = None /\ Usable(f, o) /\ RoomOf[o] = RoomOf[a]
  BY DEF FreeFor
<1>2. f.status[o] \notin Active /\ f.status[o] \in Statuses
  BY <1>1 DEF FloorInv, HoldersAgree, FloorTyped
<1>3. f.status[o] = "NOT_OCCUPIED" /\ f.durability[o] > 0
  BY <1>1, <1>2 DEF Usable, Active
<1> QED BY <1>1, <1>3, FloorAssumption

LEMMA ChoiceIs ==
    ASSUME NEW f, NEW a, NEW c
    PROVE  IF FreeFor(f, a) \subseteq c THEN Choice(f, a, c) = None
           ELSE Choice(f, a, c) \in FreeFor(f, a) \ c
<1> DEFINE free == {o \in Stations \ c :
                       RoomOf[o] = RoomOf[a] /\ Usable(f, o) /\ f.occupant[o] = None}
<1>1. free = FreeFor(f, a) \ c /\ free \subseteq Stations
  BY DEF FreeFor
<1>2. Choice(f, a, c) = IF free = {} THEN None ELSE LeastOf(free)
  BY DEF Choice
<1> HIDE DEF free
<1>3. free # {} => LeastOf(free) \in free
  BY <1>1, LeastIs
<1> QED BY <1>1, <1>2, <1>3

\* What a worker's turn makes of the floor g.
AfterTurn(f, a, o, now, g, h) ==
    /\ FloorTyped(h)
    /\ h.desire = g.desire /\ h.durability = g.durability /\ h.efficiency = g.efficiency
    /\ h.assigned = [g.assigned EXCEPT ![a] = now]
    /\ h.occupant = IF o = None THEN g.occupant ELSE [g.occupant EXCEPT ![o] = a]
    /\ h.status = IF o = None THEN g.status ELSE [g.status EXCEPT ![o] = "RUNNING_IDLE"]

\* The writes ws and those of a turn that takes o, or nothing, and ends at now.
WrittenBy(f, a, o, now, ws) ==
    ws \o ReleaseWrites(f, a)
       \o (IF o # None THEN TakeWrites(f, a, o) ELSE <<>>)
       \o (IF f.assigned[a] # now THEN <<Set("assigned", a, now)>> ELSE <<>>)
       \o (IF f.band[a] # LoadBand(f, a)
           THEN <<Set("band", a, LoadBand(f, a))>> ELSE <<>>)

(* The writes of a turn: occupant and status of the station that is taken, the *)
(* worker's assignment and its load band.                                      *)
LEMMA TurnWrites ==
    ASSUME NEW f, FloorInv(f), NEW a \in Workers,
           NEW o \in FreeFor(f, a) \cup {None}, NEW now \in Stations \cup {None},
           NEW ws, IsSeq(ws), NEW b, FloorTyped(ApplyFloor(b, ws)),
           ApplyFloor(b, ws).assigned[a] = f.assigned[a],
           NEW vs, vs = WrittenBy(f, a, o, now, ws)
    PROVE  IsSeq(vs) /\ AfterTurn(f, a, o, now, ApplyFloor(b, ws), ApplyFloor(b, vs))
<1>1. PICK m1, m2, m3, m4 :
          /\ m1 = IF o # None THEN <<Set("occupant", o, a)>> ELSE <<>>
          /\ m2 = IF o # None THEN <<Set("status", o, "RUNNING_IDLE")>> ELSE <<>>
          /\ m3 = IF f.assigned[a] # now THEN <<Set("assigned", a, now)>> ELSE <<>>
          /\ m4 = IF f.band[a] # LoadBand(f, a)
                  THEN <<Set("band", a, LoadBand(f, a))>> ELSE <<>>
  OBVIOUS
<1>2. IsSeq(m1) /\ IsSeq(m2)
  <2>1. \A x : <<x>> \in Seq({x}) /\ <<>> \in Seq({x})
    OBVIOUS
  <2>2. \A x : IsSeq(<<x>>) /\ IsSeq(<<>>)
    BY <2>1, SeqIs
  <2> QED BY <1>1, <2>2
<1>3. ws \o ReleaseWrites(f, a) = ws
  <2>1. \A s : IsSeq(s) => s \o <<>> = s
    BY DEF IsSeq
  <2> QED BY <2>1, ReleasesNothing
<1>4. (IF o # None THEN TakeWrites(f, a, o) ELSE <<>>) = m1 \o m2
  <2>1. CASE o = None
    BY <1>1, <2>1
  <2>2. CASE o # None
    <3>1. f.occupant[o] = None /\ f.status[o] = "NOT_OCCUPIED" /\ a # None
      BY <2>2, FreeIs, FloorAssumption
    <3>2. TakeWrites(f, a, o) = <<Set("occupant", o, a)>> \o <<Set("status", o, "RUNNING_IDLE")>>
      BY <3>1 DEF TakeWrites
    <3> QED BY <1>1, <2>2, <3>2
  <2> QED BY <2>1, <2>2
<1>5. PICK x1, x2, x3, x4 :
          x1 = ws \o m1 /\ x2 = x1 \o m2 /\ x3 = x2 \o m3 /\ x4 = x3 \o m4
  OBVIOUS
<1>6. ws \o (m1 \o m2) = x2
  BY <1>2, <1>5, Regrouped
<1>7. PICK g, h1, h2, h3, h4 :
          /\ g = ApplyFloor(b, ws) /\ h1 = ApplyFloor(b, x1) /\ h2 = ApplyFloor(b, x2)
          /\ h3 = ApplyFloor(b, x3) /\ h4 = ApplyFloor(b, x4)
  OBVIOUS
<1>8. IsSeq(x1) /\ IsSeq(x2) /\ IsSeq(x3) /\ IsSeq(x4)
  <2>1. IsSeq(x1)
    BY <1>1, <1>5, ApplyMore
  <2>2. IsSeq(x2)
    BY <1>1, <1>5, <2>1, ApplyMore
  <2>3. IsSeq(x3)
    BY <1>1, <1>5, <2>2, ApplyMore
  <2> QED BY <1>1, <1>5, <2>1, <2>2, <2>3, ApplyMore
<1>9. h1 = IF o # None
       THEN ApplyWrite(g, Set("occupant", o, a))
       ELSE g
  <2>1. CASE o # None
    <3>1. m1 = <<Set("occupant", o, a)>>
      BY <1>1, <2>1
    <3>2. ApplyFloor(b, ws \o m1) = ApplyWrite(ApplyFloor(b, ws), Set("occupant", o, a))
      BY <1>8, <3>1, ApplyMore
    <3> QED BY <1>5, <1>7, <2>1, <3>2
  <2>2. CASE ~(o # None)
    <3>1. m1 = <<>>
      BY <1>1, <2>2
    <3>2. ApplyFloor(b, ws \o m1) = ApplyFloor(b, ws)
      BY <1>8, <3>1, ApplyMore
    <3> QED BY <1>5, <1>7, <2>2, <3>2
  <2> QED BY <2>1, <2>2
<1>19. h2 = IF o # None
       THEN ApplyWrite(h1, Set("status", o, "RUNNING_IDLE"))
       ELSE h1
  <2>1. CASE o # None
    <3>1. m2 = <<Set("status", o, "RUNNING_IDLE")>>
      BY <1>1, <2>1
    <3>2. ApplyFloor(b, x1 \o m2) = ApplyWrite(ApplyFloor(b, x1), Set("status", o, "RUNNING_IDLE"))
      BY <1>8, <3>1, ApplyMore
    <3> QED BY <1>5, <1>7, <2>1, <3>2
  <2>2. CASE ~(o # None)
    <3>1. m2 = <<>>
      BY <1>1, <2>2
    <3>2. ApplyFloor(b, x1 \o m2) = ApplyFloor(b, x1)
      BY <1>8, <3>1, ApplyMore
    <3> QED BY <1>5, <1>7, <2>2, <3>2
  <2> QED BY <2>1, <2>2
<1>10. h3 = IF f.assigned[a] # now
       THEN ApplyWrite(h2, Set("assigned", a, now))
       ELSE h2
  <2>1. CASE f.assigned[a] # now
    <3>1. m3 = <<Set("assigned", a, now)>>
      BY <1>1, <2>1
    <3>2. ApplyFloor(b, x2 \o m3) = ApplyWrite(ApplyFloor(b, x2), Set("assigned", a, now))
      BY <1>8, <3>1, ApplyMore
    <3> QED BY <1>5, <1>7, <2>1, <3>2
  <2>2. CASE ~(f.assigned[a] # now)
    <3>1. m3 = <<>>
      BY <1>1, <2>2
    <3>2. ApplyFloor(b, x2 \o m3) = ApplyFloor(b, x2)
      BY <1>8, <3>1, ApplyMore
    <3> QED BY <1>5, <1>7, <2>2, <3>2
  <2> QED BY <2>1, <2>2
<1>11. h4 = IF f.band[a] # LoadBand(f, a)
       THEN ApplyWrite(h3, Set("band", a, LoadBand(f, a)))
       ELSE h3
  <2>1. CASE f.band[a] # LoadBand(f, a)
    <3>1. m4 = <<Set("band", a, LoadBand(f, a))>>
      BY <1>1, <2>1
    <3>2. ApplyFloor(b, x3 \o m4) = ApplyWrite(ApplyFloor(b, x3), Set("band", a, LoadBand(f, a)))
      BY <1>8, <3>1, ApplyMore
    <3> QED BY <1>5, <1>7, <2>1, <3>2
  <2>2. CASE ~(f.band[a] # LoadBand(f, a))
    <3>1. m4 = <<>>
      BY <1>1, <2>2
    <3>2. ApplyFloor(b, x3 \o m4) = ApplyFloor(b, x3)
      BY <1>8, <3>1, ApplyMore
    <3> QED BY <1>5, <1>7, <2>2, <3>2
  <2> QED BY <2>1, <2>2
<1>12. FloorTyped(g) /\ g.assigned[a] = f.assigned[a]
  BY <1>7
<1>13. o # None => o \in Stations
  BY FreeIs
<1>14. /\ FloorTyped(h1) /\ h1.desire = g.desire /\ h1.durability = g.durability
       /\ h1.efficiency = g.efficiency /\ h1.assigned = g.assigned /\ h1.status = g.status
       /\ h1.occupant = IF o = None THEN g.occupant ELSE [g.occupant EXCEPT ![o] = a]
  BY <1>9, <1>12, <1>13, WriteOccupant
<1>15. /\ FloorTyped(h2) /\ h2.desire = h1.desire /\ h2.durability = h1.durability
       /\ h2.efficiency = h1.efficiency /\ h2.assigned = h1.assigned
       /\ h2.occupant = h1.occupant
       /\ h2.status = IF o = None THEN h1.status ELSE [h1.status EXCEPT ![o] = "RUNNING_IDLE"]
  <2>1. "RUNNING_IDLE" \in Statuses
    BY DEF Statuses
  <2> QED BY <1>19, <1>13, <1>14, <2>1, WriteStatus
<1>16. /\ FloorTyped(h3) /\ h3.desire = h2.desire /\ h3.durability = h2.durability
       /\ h3.efficiency = h2.efficiency /\ h3.status = h2.status
       /\ h3.occupant = h2.occupant
       /\ h3.assigned = [h2.assigned EXCEPT ![a] = now]
  <2>1. CASE f.assigned[a] # now
    BY <1>10, <1>15, <2>1, WriteAssigned
  <2>2. CASE f.assigned[a] = now
    <3>1. h3 = h2
      BY <1>10, <2>2
    <3>2. h2.assigned[a] = now /\ h2.assigned \in [Workers -> Stations \cup {None}]
      BY <1>12, <1>14, <1>15, <2>2 DEF FloorTyped
    <3> QED BY <1>15, <3>1, <3>2
  <2> QED BY <2>1, <2>2
<1>17. /\ FloorTyped(h4) /\ h4.desire = h3.desire /\ h4.durability = h3.durability
       /\ h4.efficiency = h3.efficiency /\ h4.status = h3.status
       /\ h4.occupant = h3.occupant /\ h4.assigned = h3.assigned
  <2>1. LoadBand(f, a) \in Nat
    <3>1. f.desire[a] \in Nat /\ Threshold \in Nat
      BY FloorAssumption DEF FloorInv, FloorTyped
    <3> QED BY <3>1 DEF LoadBand, Wants
  <2>2. FloorTyped(h3)
    BY <1>16
  <2>3. CASE f.band[a] # LoadBand(f, a)
    <3>1. h4 = ApplyWrite(h3, Set("band", a, LoadBand(f, a)))
      BY <1>11, <2>3
    <3> QED BY <2>1, <2>2, <3>1, WriteBand
  <2>4. CASE f.band[a] = LoadBand(f, a)
    <3>1. h4 = h3
      BY <1>11, <2>4
    <3> QED BY <2>2, <3>1
  <2> QED BY <2>3, <2>4
<1>18. AfterTurn(f, a, o, now, g, h4)
  BY <1>14, <1>15, <1>16, <1>17 DEF AfterTurn
<1>20. x4 = vs
  BY <1>1, <1>3, <1>4, <1>5, <1>6 DEF WrittenBy
<1> QED BY <1>7, <1>8, <1>18, <1>20

(* A turn leads from a floor where those before had their turn to one where   *)
(* this worker had it too.                                                    *)
LEMMA TurnKeepsOrder ==
    ASSUME NEW f, FloorInv(f), NEW c, NEW g, NEW done, done \subseteq Workers,
           Turned(f, c, g, done), NEW a \in Workers, a \notin done,
           NEW o, o = IF Keeps(f, a) \/ ~Wants(f, a) THEN None ELSE Choice(f, a, c),
           NEW now, now = IF Keeps(f, a) THEN f.assigned[a] ELSE o,
           NEW h, AfterTurn(f, a, o, now, g, h)
    PROVE  Turned(f, c \cup ({o} \ {None}), h, done \cup {a})
<1> DEFINE d == c \cup ({o} \ {None})
<1> DEFINE done2 == done \cup {a}
<1>1. g.assigned[a] = f.assigned[a] /\ FloorTyped(g) /\ FloorTyped(h)
  BY DEF Turned, AfterTurn
<1>2. /\ g.assigned \in [Workers -> Stations \cup {None}]
      /\ g.occupant \in [Stations -> Workers \cup {None}]
      /\ g.status \in [Stations -> Statuses]
  BY <1>1 DEF FloorTyped
<1>3. None \notin Workers /\ None \notin Stations
  BY FloorAssumption
<1>4. o # None => o \in FreeFor(f, a) \ c /\ ~Keeps(f, a) /\ Wants(f, a) /\ o \in Stations
  BY ChoiceIs, FreeIs
<1>5. \A x \in c : x \in Stations /\ x # o
  BY <1>3, <1>4 DEF Turned
<1>6. /\ h.assigned[a] = now
      /\ \A x \in Workers : x # a => h.assigned[x] = g.assigned[x]
  BY <1>2 DEF AfterTurn
<1>7. /\ \A x \in Stations : x # o => h.occupant[x] = g.occupant[x] /\ h.status[x] = g.status[x]
      /\ o # None => h.occupant[o] = a /\ h.status[o] = "RUNNING_IDLE"
  BY <1>2, <1>4 DEF AfterTurn
<1>8. /\ h.durability = f.durability /\ h.efficiency = f.efficiency
      /\ \A x \in Workers : h.desire[x] >= f.desire[x]
  BY DEF AfterTurn, Turned
<1>9. d \subseteq Stations
  BY <1>4, <1>5
<1>10. ASSUME NEW x \in Workers, x \notin done2 \/ Keeps(f, x)
       PROVE  h.assigned[x] = f.assigned[x]
  <2>1. CASE x = a
    BY <1>6, <1>10, <2>1
  <2>2. CASE x # a
    BY <1>6, <1>10, <2>2 DEF Turned
  <2> QED BY <2>1, <2>2
<1>11. ASSUME NEW x \in done2, ~Keeps(f, x), h.assigned[x] # None
       PROVE  /\ Wants(f, x)
              /\ h.assigned[x] \in FreeFor(f, x) /\ h.assigned[x] \in d
              /\ h.occupant[h.assigned[x]] = x
  <2>1. CASE x = a
    BY <1>4, <1>6, <1>7, <1>11, <2>1
  <2>2. CASE x # a
    <3>1. x \in done /\ h.assigned[x] = g.assigned[x]
      BY <1>6, <2>2
    <3>2. /\ Wants(f, x) /\ g.assigned[x] \in FreeFor(f, x) /\ g.assigned[x] \in c
          /\ g.occupant[g.assigned[x]] = x
      BY <1>11, <3>1 DEF Turned
    <3> QED BY <1>5, <1>7, <3>1, <3>2
  <2> QED BY <2>1, <2>2
<1>12. ASSUME NEW x \in done2, ~Keeps(f, x), Wants(f, x), h.assigned[x] = None
       PROVE  FreeFor(f, x) \subseteq d
  <2>1. CASE x = a
    <3>1. Choice(f, a, c) = None
      BY <1>6, <1>12, <2>1
    <3>2. None \notin FreeFor(f, a)
      BY <1>3 DEF FreeFor
    <3>3. FreeFor(f, a) \subseteq c
      BY <3>1, <3>2, ChoiceIs
    <3> QED BY <2>1, <3>3
  <2>2. CASE x # a
    <3>1. x \in done /\ g.assigned[x] = None
      BY <1>6, <1>12, <2>2
    <3>2. FreeFor(f, x) \subseteq c
      BY <1>12, <3>1 DEF Turned
    <3> QED BY <3>2
  <2> QED BY <2>1, <2>2
<1>13. ASSUME NEW x \in d
       PROVE  /\ h.occupant[x] \in done2 /\ ~Keeps(f, h.occupant[x])
              /\ h.assigned[h.occupant[x]] = x
              /\ h.status[x] = "RUNNING_IDLE"
  <2>1. CASE x = o /\ o # None
    BY <1>4, <1>6, <1>7, <2>1
  <2>2. CASE x \in c
    <3>1. /\ g.occupant[x] \in done /\ ~Keeps(f, g.occupant[x])
          /\ g.assigned[g.occupant[x]] = x
          /\ g.status[x] = "RUNNING_IDLE"
      BY <2>2 DEF Turned
    <3> QED BY <1>5, <1>6, <1>7, <2>2, <3>1
  <2> QED BY <2>1, <2>2
<1>14. ASSUME NEW x \in Stations \ d
       PROVE  h.occupant[x] = f.occupant[x] /\ h.status[x] = f.status[x]
  <2>1. x \in Stations \ c /\ x # o
    BY <1>3
  <2> QED BY <1>7, <2>1 DEF Turned
<1> QED
  BY <1>1, <1>8, <1>9, <1>10, <1>11, <1>12, <1>13, <1>14 DEF Turned

\* What the turns so far carry, when they are those of the workers in done.
TurnOK(f, b, t, done) ==
    /\ t.read = f /\ IsSeq(t.writes)
    /\ Turned(f, t.claimed, ApplyFloor(b, t.writes), done)

LEMMA OneTurn ==
    ASSUME NEW f, FloorInv(f), NEW b, NEW done, done \subseteq Workers,
           NEW t, TurnOK(f, b, t, done), NEW a \in Workers, a \notin done
    PROVE  TurnOK(f, b, AssignTurn(t, a), done \cup {a})
<1>1. PICK o : o = IF Keeps(f, a) \/ ~Wants(f, a) THEN None ELSE Choice(f, a, t.claimed)
  OBVIOUS
<1>2. PICK now : now = IF Keeps(f, a) THEN f.assigned[a] ELSE o
  OBVIOUS
<1>3. PICK ws, vs : ws = t.writes /\ vs = WrittenBy(f, a, o, now, ws)
  OBVIOUS
<1>4. t.read = f
  BY DEF TurnOK
<1>5. AssignTurn(t, a) = [read |-> f, claimed |-> t.claimed \cup ({o} \ {None}), writes |-> vs]
  BY <1>1, <1>2, <1>3, <1>4 DEF AssignTurn, Keeps, WrittenBy
<1>6. PICK g, h : g = ApplyFloor(b, ws) /\ h = ApplyFloor(b, vs)
  OBVIOUS
<1>7. IsSeq(ws) /\ Turned(f, t.claimed, g, done)
  BY <1>3, <1>6 DEF TurnOK
<1>8. FloorTyped(g) /\ g.assigned[a] = f.assigned[a]
  BY <1>7 DEF Turned
<1>9. o \in FreeFor(f, a) \cup {None}
  BY <1>1, ChoiceIs
<1>10. now \in Stations \cup {None}
  <2>1. f.assigned[a] \in Stations \cup {None}
    BY DEF FloorInv, FloorTyped
  <2>2. FreeFor(f, a) \subseteq Stations
    BY DEF FreeFor
  <2> QED BY <1>2, <1>9, <2>1, <2>2
<1>11. IsSeq(vs) /\ AfterTurn(f, a, o, now, g, h)
  BY <1>3, <1>6, <1>7, <1>8, <1>9, <1>10, TurnWrites
<1>12. Turned(f, t.claimed \cup ({o} \ {None}), h, done \cup {a})
  BY <1>1, <1>2, <1>7, <1>11, TurnKeepsOrder
<1> QED BY <1>5, <1>6, <1>11, <1>12 DEF TurnOK

(* Done, one element after the other. *)
LEMMA DoneMore ==
    ASSUME NEW S, NEW e, Enumerates(e, S), NEW i \in Nat, i + 1 <= Cardinality(S)
    PROVE  /\ Done(e, i + 1) = Done(e, i) \cup {e[i + 1]}
           /\ e[i + 1] \in S /\ e[i + 1] \notin Done(e, i)
           /\ Done(e, i) \subseteq S
<1>1. PICK n \in Nat : n = Cardinality(S)
  BY DEF Enumerates
<1>2. 1..(i + 1) = (1..i) \cup {i + 1} /\ i + 1 \in 1..n /\ 1..i \subseteq 1..n
  BY <1>1
<1>3. \A j \in 1..i : e[j] # e[i + 1]
  <2>1. \A j \in 1..i : j \in 1..n /\ j < i + 1
    BY <1>1
  <2> QED BY <1>1, <1>2, <2>1 DEF Enumerates
<1>4. \A j \in 1..n : e[j] \in S
  BY <1>1 DEF Enumerates
<1>5. Done(e, i + 1) = Done(e, i) \cup {e[i + 1]}
  BY <1>2 DEF Done
<1>6. e[i + 1] \notin Done(e, i)
  BY <1>3 DEF Done
<1>7. Done(e, i) \subseteq S
  BY <1>2, <1>4 DEF Done
<1> QED BY <1>2, <1>4, <1>5, <1>6, <1>7

LEMMA DoneAll ==
    ASSUME NEW S, NEW e, Enumerates(e, S)
    PROVE  /\ e \in Seq(S) /\ Len(e) = Cardinality(S)
           /\ Done(e, 0) = {} /\ Done(e, Cardinality(S)) = S
<1>1. PICK n \in Nat : n = Cardinality(S)
  BY DEF Enumerates
<1>2. e \in [1..n -> S] /\ \A x \in S : \E i \in 1..n : e[i] = x
  BY <1>1 DEF Enumerates
<1>3. e \in Seq(S) /\ Len(e) = n
  BY <1>2
<1>4. Done(e, n) = S
  BY <1>2 DEF Done
<1>5. 1..0 = {}
  OBVIOUS
<1>6. Done(e, 0) = {}
  BY <1>5 DEF Done
<1> QED BY <1>1, <1>3, <1>4, <1>6

(* All workers have had their turn. *)
LEMMA AssignmentOK ==
    ASSUME NEW f, FloorInv(f), NEW b, Grew(f, b)
    PROVE  /\ IsSeq(AssignmentWrites(f))
           /\ \E c : Turned(f, c, ApplyFloor(b, AssignmentWrites(f)), Workers)
<1> DEFINE e == Ascending(Workers)
<1> DEFINE t0 == [read |-> f, claimed |-> {}, writes |-> <<>>]
<1>1. Enumerates(e, Workers)
  BY FloorAssumption, AscendingIs
<1>2. AssignmentWrites(f) = Turn!Folded(t0, e).writes
  BY TurnFold DEF AssignmentWrites
<1> HIDE DEF e
<1>3. TurnOK(f, b, t0, {})
  <2>1. ApplyFloor(b, t0.writes) = b
    BY ApplyNone
  <2>2. Turned(f, {}, b, {})
    BY DEF Grew, Turned
  <2> QED BY <2>1, <2>2, NoneIs DEF TurnOK
<1> HIDE DEF t0
<1>4. PICK n \in Nat : n = Cardinality(Workers)
  BY <1>1 DEF Enumerates
<1>5. e \in Seq(Workers) /\ Len(e) = n /\ Done(e, 0) = {} /\ Done(e, n) = Workers
  BY <1>1, <1>4, DoneAll
<1>6. PICK t : /\ t[0] = t0
               /\ Turn!Steps(t, e, n)
               /\ t[n] = Turn!Folded(t0, e)
  BY <1>5, Turn!FoldedBySteps
<1> DEFINE T == {i \in Nat : i <= n => TurnOK(f, b, t[i], Done(e, i))}
<1>7. 0 \in T
  BY <1>3, <1>5, <1>6
<1>8. ASSUME NEW i \in T PROVE i + 1 \in T
  <2>0. i \in Nat
    OBVIOUS
  <2> SUFFICES ASSUME i + 1 <= n PROVE TurnOK(f, b, t[i + 1], Done(e, i + 1))
    BY <2>0
  <2>1. TurnOK(f, b, t[i], Done(e, i)) /\ i + 1 \in 1..n /\ (i + 1) - 1 = i
    BY <2>0
  <2>2. /\ Done(e, i + 1) = Done(e, i) \cup {e[i + 1]}
        /\ e[i + 1] \in Workers /\ e[i + 1] \notin Done(e, i)
        /\ Done(e, i) \subseteq Workers
    BY <1>1, <1>4, <2>0, DoneMore
  <2>3. t[i + 1] = AssignTurn(t[i], e[i + 1])
    BY <1>6, <2>1 DEF Turn!Steps
  <2> HIDE DEF T
  <2> QED BY <2>1, <2>2, <2>3, OneTurn
<1>9. T \subseteq Nat
  OBVIOUS
<1> HIDE DEF T
<1>10. T = Nat
  BY <1>7, <1>8, <1>9, Turn!Induction
<1>11. TurnOK(f, b, t[n], Workers)
  BY <1>4, <1>5, <1>10 DEF T
<1> QED BY <1>2, <1>6, <1>11 DEF TurnOK

-----------------------------------------------------------------------------
(* The floor: the stations *)

\* What the workstation system makes of station o of the floor g, on what it
\* read of f: a station that ran runs on for its worker or breaks and loses
\* it, any other stays as it is but for its efficiency.
Settled(f, g, h, o) ==
    IF f.status[o] \in Active
    THEN \/ /\ h.status[o] \in Active /\ h.occupant[o] = g.occupant[o]
            /\ h.durability[o] > 0
         \/ h.status[o] = "BROKEN" /\ h.occupant[o] = None
    ELSE /\ h.status[o] = g.status[o] /\ h.occupant[o] = g.occupant[o]
         /\ h.durability[o] = g.durability[o]

\* The floor h of which the stations in done are settled, from g.
Worked(f, g, h, done) ==
    /\ FloorTyped(h)
    /\ h.assigned = g.assigned /\ h.desire = g.desire
    /\ \A o \in done : Settled(f, g, h, o)
    /\ \A o \in Stations \ done :
           /\ h.status[o] = g.status[o] /\ h.occupant[o] = g.occupant[o]
           /\ h.durability[o] = g.durability[o] /\ h.efficiency[o] = g.efficiency[o]

\* As the assignment leaves the floor g: wear as read, running stations as read.
Handed(f, g) ==
    /\ g.durability = f.durability /\ g.efficiency = f.efficiency
    /\ \A o \in Stations : f.status[o] \in Active =>
           g.status[o] = f.status[o] /\ g.occupant[o] = f.occupant[o]

\* A write of a field that changes.
Changed(field, o, old, new) == IF old # new THEN <<Set(field, o, new)>> ELSE <<>>

(* What StationWrites writes: new durability and efficiency, a status and an   *)
(* occupant where they are to change.                                          *)
LEMMA StationWritesAre ==
    ASSUME NEW f, FloorInv(f), NEW o \in Stations
    PROVE  \E du \in Nat, ef \in Nat, s0 \in Statuses, s \in Statuses,
              oc \in Workers \cup {None} :
              /\ StationWrites(f, o)
                 = Changed("durability", o, f.durability[o], du)
                   \o Changed("efficiency", o, f.efficiency[o], ef)
                   \o Changed("status", o, s0, s)
                   \o Changed("occupant", o, f.occupant[o], oc)
              /\ f.status[o] \in Active =>
                     /\ s0 = f.status[o]
                     /\ \/ s \in Active /\ oc = f.occupant[o] /\ du > 0
                        \/ s = "BROKEN" /\ oc = None
              /\ f.status[o] \notin Active =>
                     s = s0 /\ oc = f.occupant[o] /\ du = f.durability[o]
<1> DEFINE spent == f.durability[o] = 0
<1> DEFINE s0 == IF spent THEN "BROKEN" ELSE f.status[o]
<1> DEFINE dead == s0 \in {"UNAVAILABLE", "BROKEN"}
<1> DEFINE oc0 == IF dead THEN None ELSE f.occupant[o]
<1> DEFINE desired == IF dead THEN s0
                      ELSE IF oc0 = None THEN "NOT_OCCUPIED"
                      ELSE StatusFromLoad(f, o, oc0)
<1> DEFINE use == IF desired = "PRODUCING_OVERDRIVE" THEN 2 ELSE 1
<1> DEFINE less(x) == IF x > use THEN x - use ELSE 0
<1> DEFINE du == IF desired \in Active THEN less(f.durability[o]) ELSE f.durability[o]
<1> DEFINE ef == IF desired \in Active THEN less(f.efficiency[o])
                 ELSE IF desired = "NOT_OCCUPIED" /\ f.efficiency[o] < MaxEfficiency
                      THEN f.efficiency[o] + 1 ELSE f.efficiency[o]
<1> DEFINE s == IF du = 0 THEN "BROKEN" ELSE desired
<1> DEFINE oc == IF du = 0 THEN None ELSE oc0
<1>1. /\ f.durability[o] \in Nat /\ f.efficiency[o] \in Nat
      /\ f.status[o] \in Statuses /\ f.occupant[o] \in Workers \cup {None}
      /\ f.occupant[o] # None <=> f.status[o] \in Active
      /\ f.status[o] \in Active => f.durability[o] > 0
  BY DEF FloorInv, FloorTyped, HoldersAgree, RunningLast
<1>2. StationWrites(f, o)
      = Changed("durability", o, f.durability[o], du)
        \o Changed("efficiency", o, f.efficiency[o], ef)
        \o Changed("status", o, s0, s)
        \o Changed("occupant", o, f.occupant[o], oc)
  BY DEF StationWrites, Changed
<1>3. StatusFromLoad(f, o, oc0) \in Active
  BY DEF StatusFromLoad, Active, Statuses
<1>4. CASE f.status[o] \in Active
  <2>1. ~spent /\ s0 = f.status[o] /\ ~dead /\ oc0 = f.occupant[o] /\ oc0 # None
    BY <1>1, <1>4 DEF Active
  <2>2. desired \in Active
    BY <1>3, <2>1
  <2>3. use \in {1, 2}
    OBVIOUS
  <2> HIDE DEF use, desired, s0, spent, dead, oc0
  <2>4. less(f.durability[o]) \in Nat /\ less(f.efficiency[o]) \in Nat
    BY <1>1, <2>3
  <2> HIDE DEF less
  <2>5. du \in Nat /\ ef \in Nat
    BY <2>2, <2>4
  <2> HIDE DEF du, ef
  <2>6. desired \in Statuses /\ "BROKEN" \in Statuses
    BY <2>2 DEF Active, Statuses
  <2>7. s \in Statuses /\ oc \in Workers \cup {None} /\ s0 \in Statuses
    BY <1>1, <2>1, <2>6
  <2>8. \/ s \in Active /\ oc = f.occupant[o] /\ du > 0
        \/ s = "BROKEN" /\ oc = None
    BY <2>1, <2>2, <2>5
  <2> HIDE DEF s, oc
  <2> QED BY <1>2, <1>4, <2>1, <2>5, <2>7, <2>8
<1>5. CASE f.status[o] \notin Active
  <2>1. f.occupant[o] = None /\ oc0 = None /\ oc = None
    BY <1>1, <1>5
  <2>2. f.status[o] \in {"UNAVAILABLE", "BROKEN", "NOT_OCCUPIED"}
    BY <1>1, <1>5 DEF Active
  <2>3. desired = s0 /\ s0 \in {"UNAVAILABLE", "BROKEN", "NOT_OCCUPIED"}
    BY <2>1, <2>2
  <2>4. desired \notin Active
    BY <2>3 DEF Active
  <2>5. du = f.durability[o]
    BY <2>4
  <2>6. s = s0
    BY <2>3, <2>5
  <2>7. s0 \in Statuses
    BY <2>3 DEF Statuses
  <2>8. ef \in Nat
    BY <1>1, <2>4
  <2> HIDE DEF s, oc, du, ef, s0, desired, spent, dead, oc0, use, less
  <2> QED BY <1>1, <1>2, <1>5, <2>1, <2>5, <2>6, <2>7, <2>8
<1> QED BY <1>4, <1>5

(* A field's writes, one or none. *)
LEMMA ChangedIs ==
    ASSUME NEW field, NEW x, NEW old, NEW new PROVE IsSeq(Changed(field, x, old, new))
<1>1. PICK w : w = Set(field, x, new)
  OBVIOUS
<1>2. <<w>> \in Seq({w}) /\ <<>> \in Seq({w})
  OBVIOUS
<1>3. IsSeq(<<w>>) /\ IsSeq(<<>>)
  BY <1>2, SeqIs
<1> QED BY <1>1, <1>3 DEF Changed

(* One station's writes settle it and leave the others alone. *)
LEMMA OneStation ==
    ASSUME NEW f, FloorInv(f), NEW g, Handed(f, g),
           NEW done, done \subseteq Stations, NEW o \in Stations, o \notin done,
           NEW ws, IsSeq(ws), NEW b, Worked(f, g, ApplyFloor(b, ws), done)
    PROVE  /\ IsSeq(ws \o StationWrites(f, o))
           /\ Worked(f, g, ApplyFloor(b, ws \o StationWrites(f, o)), done \cup {o})
<1>1. PICK du \in Nat, ef \in Nat, s0 \in Statuses, s \in Statuses, oc \in Workers \cup {None} :
          /\ StationWrites(f, o)
             = Changed("durability", o, f.durability[o], du)
               \o Changed("efficiency", o, f.efficiency[o], ef)
               \o Changed("status", o, s0, s)
               \o Changed("occupant", o, f.occupant[o], oc)
          /\ f.status[o] \in Active =>
                 /\ s0 = f.status[o]
                 /\ \/ s \in Active /\ oc = f.occupant[o] /\ du > 0
                    \/ s = "BROKEN" /\ oc = None
          /\ f.status[o] \notin Active =>
                 s = s0 /\ oc = f.occupant[o] /\ du = f.durability[o]
  BY StationWritesAre
<1>2. PICK m1, m2, m3, m4 :
          /\ m1 = Changed("durability", o, f.durability[o], du)
          /\ m2 = Changed("efficiency", o, f.efficiency[o], ef)
          /\ m3 = Changed("status", o, s0, s)
          /\ m4 = Changed("occupant", o, f.occupant[o], oc)
  OBVIOUS
<1>3. PICK x1, x2, x3, x4 :
          x1 = ws \o m1 /\ x2 = x1 \o m2 /\ x3 = x2 \o m3 /\ x4 = x3 \o m4
  OBVIOUS
<1>4. ws \o StationWrites(f, o) = x4
  <2>1. IsSeq(m1) /\ IsSeq(m2) /\ IsSeq(m3) /\ IsSeq(m4)
    BY <1>2, ChangedIs
  <2>2. StationWrites(f, o) = ((m1 \o m2) \o m3) \o m4
    BY <1>1, <1>2
  <2>3. PICK y2, y3 : y2 = m1 \o m2 /\ y3 = y2 \o m3
    OBVIOUS
  <2>4. IsSeq(y2) /\ IsSeq(y3)
    BY <2>1, <2>3, ConcatIs
  <2>5. ws \o (y3 \o m4) = (ws \o y3) \o m4
    BY <2>1, <2>4, Regrouped
  <2>6. ws \o y3 = (ws \o y2) \o m3
    <3>1. ws \o (y2 \o m3) = (ws \o y2) \o m3
      BY <2>1, <2>4, Regrouped
    <3> QED BY <2>3, <3>1
  <2>7. ws \o y2 = (ws \o m1) \o m2
    BY <2>1, <2>3, Regrouped
  <2> QED BY <1>3, <2>2, <2>3, <2>5, <2>6, <2>7
<1>5. PICK h, h1, h2, h3, h4 :
          /\ h = ApplyFloor(b, ws) /\ h1 = ApplyFloor(b, x1) /\ h2 = ApplyFloor(b, x2)
          /\ h3 = ApplyFloor(b, x3) /\ h4 = ApplyFloor(b, x4)
  OBVIOUS
<1>6. IsSeq(x1) /\ IsSeq(x2) /\ IsSeq(x3) /\ IsSeq(x4)
  <2>1. IsSeq(m1) /\ IsSeq(m2) /\ IsSeq(m3) /\ IsSeq(m4)
    BY <1>2, ChangedIs
  <2>2. IsSeq(x1)
    BY <1>3, <2>1, ConcatIs
  <2>3. IsSeq(x2)
    BY <1>3, <2>1, <2>2, ConcatIs
  <2>4. IsSeq(x3)
    BY <1>3, <2>1, <2>3, ConcatIs
  <2> QED BY <1>3, <2>1, <2>2, <2>3, <2>4, ConcatIs
<1>7. Worked(f, g, h, done) /\ FloorTyped(h)
  BY <1>5 DEF Worked
<1>8. /\ h.durability[o] = f.durability[o] /\ h.efficiency[o] = f.efficiency[o]
      /\ h.status[o] = g.status[o] /\ h.occupant[o] = g.occupant[o]
  BY <1>7 DEF Worked, Handed
<1>9. /\ FloorTyped(h1) /\ h1.desire = h.desire /\ h1.assigned = h.assigned
      /\ h1.efficiency = h.efficiency /\ h1.status = h.status /\ h1.occupant = h.occupant
      /\ h1.durability = [h.durability EXCEPT ![o] = du]
  <2>1. CASE f.durability[o] # du
    <3>1. m1 = <<Set("durability", o, du)>>
      BY <1>2, <2>1 DEF Changed
    <3>2. ApplyFloor(b, ws \o m1) = ApplyWrite(ApplyFloor(b, ws), Set("durability", o, du))
      BY <1>6, <3>1, ApplyMore
    <3>3. h1 = ApplyWrite(h, Set("durability", o, du))
      BY <1>3, <1>5, <3>2
    <3> QED BY <1>7, <3>3, WriteDurability
  <2>2. CASE f.durability[o] = du
    <3>1. m1 = <<>>
      BY <1>2, <2>2 DEF Changed
    <3>2. ApplyFloor(b, ws \o m1) = ApplyFloor(b, ws)
      BY <1>6, <3>1, ApplyMore
    <3>3. h1 = h
      BY <1>3, <1>5, <3>2
    <3>4. h.durability \in [Stations -> Nat]
      BY <1>7 DEF FloorTyped
    <3> QED BY <1>7, <1>8, <2>2, <3>3, <3>4
  <2> QED BY <2>1, <2>2
<1>10. /\ FloorTyped(h2) /\ h2.desire = h1.desire /\ h2.assigned = h1.assigned
       /\ h2.durability = h1.durability /\ h2.status = h1.status /\ h2.occupant = h1.occupant
       /\ \A x \in Stations : x # o => h2.efficiency[x] = h1.efficiency[x]
  <2>1. CASE f.efficiency[o] # ef
    <3>1. m2 = <<Set("efficiency", o, ef)>>
      BY <1>2, <2>1 DEF Changed
    <3>2. ApplyFloor(b, x1 \o m2) = ApplyWrite(ApplyFloor(b, x1), Set("efficiency", o, ef))
      BY <1>6, <3>1, ApplyMore
    <3>3. h2 = ApplyWrite(h1, Set("efficiency", o, ef))
      BY <1>3, <1>5, <3>2
    <3>4. /\ FloorTyped(h2) /\ h2.desire = h1.desire /\ h2.assigned = h1.assigned
          /\ h2.durability = h1.durability /\ h2.status = h1.status
          /\ h2.occupant = h1.occupant
          /\ h2.efficiency = [h1.efficiency EXCEPT ![o] = ef]
      BY <1>9, <3>3, WriteEfficiency
    <3>5. h1.efficiency \in [Stations -> Nat]
      BY <1>9 DEF FloorTyped
    <3> QED BY <3>4, <3>5
  <2>2. CASE f.efficiency[o] = ef
    <3>1. m2 = <<>>
      BY <1>2, <2>2 DEF Changed
    <3>2. ApplyFloor(b, x1 \o m2) = ApplyFloor(b, x1)
      BY <1>6, <3>1, ApplyMore
    <3>3. h2 = h1
      BY <1>3, <1>5, <3>2
    <3> QED BY <1>9, <3>3
  <2> QED BY <2>1, <2>2
<1>11. /\ FloorTyped(h3) /\ h3.desire = h2.desire /\ h3.assigned = h2.assigned
       /\ h3.durability = h2.durability /\ h3.efficiency = h2.efficiency
       /\ h3.occupant = h2.occupant
       /\ h3.status = IF s0 # s THEN [h2.status EXCEPT ![o] = s] ELSE h2.status
  <2>1. CASE s0 # s
    <3>1. m3 = <<Set("status", o, s)>>
      BY <1>2, <2>1 DEF Changed
    <3>2. ApplyFloor(b, x2 \o m3) = ApplyWrite(ApplyFloor(b, x2), Set("status", o, s))
      BY <1>6, <3>1, ApplyMore
    <3>3. h3 = ApplyWrite(h2, Set("status", o, s))
      BY <1>3, <1>5, <3>2
    <3> QED BY <1>10, <2>1, <3>3, WriteStatus
  <2>2. CASE s0 = s
    <3>1. m3 = <<>>
      BY <1>2, <2>2 DEF Changed
    <3>2. ApplyFloor(b, x2 \o m3) = ApplyFloor(b, x2)
      BY <1>6, <3>1, ApplyMore
    <3>3. h3 = h2
      BY <1>3, <1>5, <3>2
    <3> QED BY <1>10, <2>2, <3>3
  <2> QED BY <2>1, <2>2
<1>12. /\ FloorTyped(h4) /\ h4.desire = h3.desire /\ h4.assigned = h3.assigned
       /\ h4.durability = h3.durability /\ h4.efficiency = h3.efficiency
       /\ h4.status = h3.status
       /\ h4.occupant = IF f.occupant[o] # oc THEN [h3.occupant EXCEPT ![o] = oc]
                        ELSE h3.occupant
  <2>1. CASE f.occupant[o] # oc
    <3>1. m4 = <<Set("occupant", o, oc)>>
      BY <1>2, <2>1 DEF Changed
    <3>2. ApplyFloor(b, x3 \o m4) = ApplyWrite(ApplyFloor(b, x3), Set("occupant", o, oc))
      BY <1>6, <3>1, ApplyMore
    <3>3. h4 = ApplyWrite(h3, Set("occupant", o, oc))
      BY <1>3, <1>5, <3>2
    <3> QED BY <1>11, <2>1, <3>3, WriteOccupant
  <2>2. CASE f.occupant[o] = oc
    <3>1. m4 = <<>>
      BY <1>2, <2>2 DEF Changed
    <3>2. ApplyFloor(b, x3 \o m4) = ApplyFloor(b, x3)
      BY <1>6, <3>1, ApplyMore
    <3>3. h4 = h3
      BY <1>3, <1>5, <3>2
    <3> QED BY <1>11, <2>2, <3>3
  <2> QED BY <2>1, <2>2
<1>13. /\ h.durability \in [Stations -> Nat] /\ h.status \in [Stations -> Statuses]
       /\ h.occupant \in [Stations -> Workers \cup {None}]
  BY <1>7 DEF FloorTyped
<1>14. /\ h4.durability[o] = du
       /\ h4.status[o] = IF s0 # s THEN s ELSE g.status[o]
       /\ h4.occupant[o] = IF f.occupant[o] # oc THEN oc ELSE g.occupant[o]
  BY <1>8, <1>9, <1>10, <1>11, <1>12, <1>13
<1>15. \A x \in Stations : x # o =>
           /\ h4.status[x] = h.status[x] /\ h4.occupant[x] = h.occupant[x]
           /\ h4.durability[x] = h.durability[x] /\ h4.efficiency[x] = h.efficiency[x]
  BY <1>9, <1>10, <1>11, <1>12, <1>13
<1>16. Settled(f, g, h4, o)
  <2>1. CASE f.status[o] \in Active
    <3>1. /\ s0 = f.status[o] /\ g.status[o] = f.status[o] /\ g.occupant[o] = f.occupant[o]
          /\ \/ s \in Active /\ oc = f.occupant[o] /\ du > 0
             \/ s = "BROKEN" /\ oc = None
      BY <1>1, <2>1 DEF Handed
    <3>2. h4.status[o] = s /\ h4.occupant[o] = oc
      BY <1>14, <3>1
    <3> QED BY <1>14, <2>1, <3>1, <3>2 DEF Settled
  <2>2. CASE f.status[o] \notin Active
    <3>1. s = s0 /\ oc = f.occupant[o] /\ du = f.durability[o]
      BY <1>1, <2>2
    <3>2. du = g.durability[o]
      BY <3>1 DEF Handed
    <3> QED BY <1>14, <2>2, <3>1, <3>2 DEF Settled
  <2> QED BY <2>1, <2>2
<1>17. ASSUME NEW x \in done \cup {o} PROVE Settled(f, g, h4, x)
  <2>1. CASE x = o
    BY <1>16, <2>1
  <2>2. CASE x \in done
    <3>1. x # o
      BY <2>2
    <3>2. Settled(f, g, h, x)
      BY <1>7, <2>2 DEF Worked
    <3> QED BY <1>15, <2>2, <3>1, <3>2 DEF Settled
  <2> QED BY <2>1, <2>2
<1>18. h4.assigned = g.assigned /\ h4.desire = g.desire
  BY <1>7, <1>9, <1>10, <1>11, <1>12 DEF Worked
<1>19. \A x \in Stations \ (done \cup {o}) :
           /\ h4.status[x] = g.status[x] /\ h4.occupant[x] = g.occupant[x]
           /\ h4.durability[x] = g.durability[x] /\ h4.efficiency[x] = g.efficiency[x]
  BY <1>7, <1>15 DEF Worked
<1>20. Worked(f, g, h4, done \cup {o})
  BY <1>12, <1>17, <1>18, <1>19 DEF Worked
<1> QED BY <1>4, <1>5, <1>6, <1>20

(* All stations, room by room, have been seen to. *)
LEMMA StationsOK ==
    ASSUME NEW f, FloorInv(f), NEW b, FloorTyped(b), Handed(f, b)
    PROVE  /\ IsSeq(WorkstationWrites(f))
           /\ Worked(f, b, ApplyFloor(b, WorkstationWrites(f)), Stations)
<1> DEFINE e == StationOrder
<1> DEFINE ss == [i \in DOMAIN e |-> StationWrites(f, e[i])]
<1>1. Enumerates(e, Stations)
  BY StationOrderIs
<1>2. WorkstationWrites(f) = Join!Folded(<<>>, ss)
  BY JoinFold DEF WorkstationWrites
<1> HIDE DEF e
<1>3. PICK n \in Nat : n = Cardinality(Stations)
  BY <1>1 DEF Enumerates
<1>4. e \in Seq(Stations) /\ Len(e) = n /\ Done(e, 0) = {} /\ Done(e, n) = Stations
  BY <1>1, <1>3, DoneAll
<1>5. /\ \A i \in 1..n : ss[i] = StationWrites(f, e[i])
      /\ ss \in Seq({ss[i] : i \in 1..n}) /\ Len(ss) = n
  <2>1. DOMAIN e = 1..n
    BY <1>4
  <2> QED BY <1>3, <2>1
<1> HIDE DEF ss
<1>6. PICK w : /\ w[0] = <<>>
               /\ Join!Steps(w, ss, n)
               /\ w[n] = Join!Folded(<<>>, ss)
  BY <1>5, Join!FoldedBySteps
<1> DEFINE Seen(i) == IsSeq(w[i]) /\ Worked(f, b, ApplyFloor(b, w[i]), Done(e, i))
<1> DEFINE T == {i \in Nat : i <= n => Seen(i)}
<1>7. Seen(0)
  <2>1. ApplyFloor(b, <<>>) = b
    BY ApplyNone
  <2>2. Worked(f, b, b, {})
    BY DEF Worked
  <2> QED BY <1>4, <1>6, <2>1, <2>2, NoneIs
<1>8. ASSUME NEW i \in T PROVE i + 1 \in T
  <2>0. i \in Nat
    OBVIOUS
  <2> SUFFICES ASSUME i + 1 <= n PROVE Seen(i + 1)
    BY <2>0
  <2>1. Seen(i) /\ i + 1 \in 1..n /\ (i + 1) - 1 = i
    BY <2>0
  <2>2. /\ Done(e, i + 1) = Done(e, i) \cup {e[i + 1]}
        /\ e[i + 1] \in Stations /\ e[i + 1] \notin Done(e, i)
        /\ Done(e, i) \subseteq Stations
    BY <1>1, <1>3, <2>0, DoneMore
  <2>3. w[i + 1] = w[i] \o StationWrites(f, e[i + 1])
    BY <1>5, <1>6, <2>1 DEF Join!Steps
  <2> HIDE DEF T
  <2>4. PICK o, ws, done : o = e[i + 1] /\ ws = w[i] /\ done = Done(e, i)
    OBVIOUS
  <2>5. /\ o \in Stations /\ o \notin done /\ done \subseteq Stations
        /\ IsSeq(ws) /\ Worked(f, b, ApplyFloor(b, ws), done)
    BY <2>1, <2>2, <2>4
  <2>6. /\ IsSeq(ws \o StationWrites(f, o))
        /\ Worked(f, b, ApplyFloor(b, ws \o StationWrites(f, o)), done \cup {o})
    BY <2>5, OneStation
  <2>7. w[i + 1] = ws \o StationWrites(f, o) /\ Done(e, i + 1) = done \cup {o}
    BY <2>2, <2>3, <2>4
  <2> QED BY <2>6, <2>7
<1>9. T \subseteq Nat
  OBVIOUS
<1>10. 0 \in T
  BY <1>7
<1> HIDE DEF T
<1>11. T = Nat
  BY <1>8, <1>9, <1>10, Join!Induction
<1>12. Seen(n)
  BY <1>11 DEF T
<1> QED BY <1>2, <1>4, <1>6, <1>12

-----------------------------------------------------------------------------
(* The floor: a tick *)

(* What a turn claims was free: no station that ran is touched. *)
LEMMA TurnedHands ==
    ASSUME NEW f, FloorInv(f), NEW c, NEW g, Turned(f, c, g, Workers)
    PROVE  /\ Handed(f, g)
           /\ \A o \in c : f.status[o] = "NOT_OCCUPIED" /\ f.durability[o] > 0
<1>1. ASSUME NEW o \in c PROVE f.status[o] = "NOT_OCCUPIED" /\ f.durability[o] > 0
  <2>1. PICK a \in Workers : a = g.occupant[o] /\ ~Keeps(f, a) /\ g.assigned[a] = o
    BY DEF Turned
  <2>2. o \in Stations /\ o # None
    BY FloorAssumption DEF Turned
  <2>3. o \in FreeFor(f, a)
    BY <2>1, <2>2 DEF Turned
  <2> QED BY <2>3, FreeIs
<1>2. \A o \in Stations : f.status[o] \in Active => o \notin c
  BY <1>1 DEF Active
<1> QED BY <1>1, <1>2 DEF Handed, Turned

(* After the workers' turns and the stations' the two sides agree again.      *)
LEMMA TickAgrees ==
    ASSUME NEW f, FloorInv(f), NEW c, NEW g, Turned(f, c, g, Workers),
           NEW h, Worked(f, g, h, Stations)
    PROVE  FloorInv(h)
<1>1. /\ Handed(f, g)
      /\ \A o \in c : f.status[o] = "NOT_OCCUPIED" /\ f.durability[o] > 0
  BY TurnedHands
<1>2. FloorTyped(h) /\ h.assigned = g.assigned /\ h.desire = g.desire
  BY DEF Worked
<1>3. None \notin Workers /\ None \notin Stations
  BY FloorAssumption
<1>4. \A o \in Stations : Settled(f, g, h, o)
  BY DEF Worked
<1>5. ASSUME NEW o \in Stations
      PROVE  /\ h.status[o] \in Active => h.durability[o] > 0
             /\ h.occupant[o] # None <=> h.status[o] \in Active
             /\ h.occupant[o] # None => h.occupant[o] = g.occupant[o]
  <2>1. f.occupant[o] # None <=> f.status[o] \in Active
    BY DEF FloorInv, HoldersAgree
  <2>2. CASE f.status[o] \in Active
    <3>1. g.occupant[o] = f.occupant[o] /\ f.occupant[o] # None
      BY <1>1, <2>1, <2>2 DEF Handed
    <3>2. "BROKEN" \notin Active
      BY DEF Active
    <3> QED BY <1>4, <2>2, <3>1, <3>2 DEF Settled
  <2>3. CASE f.status[o] \notin Active
    <3>1. /\ h.status[o] = g.status[o] /\ h.occupant[o] = g.occupant[o]
          /\ h.durability[o] = f.durability[o]
      BY <1>1, <1>4, <2>3 DEF Settled, Handed
    <3>2. CASE o \in c
      <4>1. "RUNNING_IDLE" \in Active
        BY DEF Active, Statuses
      <4>2. g.occupant[o] \in Workers /\ g.status[o] = "RUNNING_IDLE"
        BY <3>2 DEF Turned
      <4> QED BY <1>1, <1>3, <3>1, <3>2, <4>1, <4>2
    <3>3. CASE o \notin c
      <4>1. g.occupant[o] = f.occupant[o] /\ g.status[o] = f.status[o]
        BY <3>3 DEF Turned
      <4> QED BY <2>1, <2>3, <3>1, <4>1
    <3> QED BY <3>2, <3>3
  <2> QED BY <2>2, <2>3
<1>6. ASSUME NEW a \in Workers, NEW o \in Stations, h.occupant[o] = a
      PROVE  h.assigned[a] = o
  <2>1. g.occupant[o] = a
    BY <1>3, <1>5, <1>6
  <2>2. CASE o \in c
    BY <1>2, <2>1, <2>2 DEF Turned
  <2>3. CASE o \notin c
    <3>1. f.occupant[o] = a
      BY <2>1, <2>3 DEF Turned
    <3>2. f.assigned[a] = o /\ Keeps(f, a)
      BY <3>1, HolderKeeps
    <3> QED BY <1>2, <3>2 DEF Turned
  <2> QED BY <2>2, <2>3
<1>7. ASSUME NEW a \in Workers, NEW o \in Stations, h.assigned[a] = o
      PROVE  h.occupant[o] = a \/ h.status[o] = "BROKEN"
  <2>1. CASE Keeps(f, a)
    <3>1. f.assigned[a] = o
      BY <1>2, <1>7, <2>1 DEF Turned
    <3>2. f.status[o] # "BROKEN"
      BY <2>1, <3>1 DEF Keeps, GivesUp, Usable
    <3>3. f.occupant[o] = a
      BY <3>1, <3>2 DEF FloorInv, HoldersAgree, Holds
    <3>4. f.status[o] \in Active
      BY <1>3, <3>3 DEF FloorInv, HoldersAgree
    <3>5. g.occupant[o] = a
      BY <1>1, <3>3, <3>4 DEF Handed
    <3> QED BY <1>4, <3>4, <3>5 DEF Settled
  <2>2. CASE ~Keeps(f, a)
    <3>1. g.assigned[a] = o /\ g.assigned[a] # None
      BY <1>2, <1>3, <1>7
    <3>2. o \in FreeFor(f, a) /\ g.occupant[o] = a
      BY <2>2, <3>1 DEF Turned
    <3>3. f.status[o] \notin Active
      BY <3>2, FreeIs DEF Active
    <3> QED BY <1>4, <3>2, <3>3 DEF Settled
  <2> QED BY <2>1, <2>2
<1>8. ASSUME NEW a \in Workers, h.assigned[a] # None
      PROVE  Wants(h, a) /\ RoomOf[h.assigned[a]] = RoomOf[a]
  <2>1. Wants(f, a) /\ RoomOf[g.assigned[a]] = RoomOf[a]
    <3>1. CASE Keeps(f, a)
      BY <1>2, <1>8, <3>1 DEF Turned, FloorInv, Placed
    <3>2. CASE ~Keeps(f, a)
      BY <1>2, <1>8, <3>2 DEF Turned, FreeFor
    <3> QED BY <3>1, <3>2
  <2>2. h.desire[a] >= f.desire[a]
    BY <1>2 DEF Turned
  <2>3. h.desire[a] \in Nat /\ f.desire[a] \in Nat /\ Threshold \in Nat
    BY <1>2, FloorAssumption DEF FloorInv, FloorTyped
  <2> QED BY <1>2, <2>1, <2>2, <2>3 DEF Wants
<1>9. HoldersAgree(h)
  BY <1>5, <1>6, <1>7 DEF HoldersAgree, Holds
<1> QED BY <1>2, <1>5, <1>8, <1>9 DEF FloorInv, Placed, RunningLast

(* The tick's batch in its three parts. *)
LEMMA FloorTick ==
    ASSUME NEW f, FloorInv(f), NEW h, h = ApplyFloor(f, FloorBatch(f))
    PROVE  /\ FloorInv(h)
           /\ \E c, g : Turned(f, c, g, Workers) /\ h.assigned = g.assigned
<1>1. PICK ds, ts, ws : /\ ds = DesireWrites(f) /\ ts = AssignmentWrites(f)
                        /\ ws = WorkstationWrites(f)
  OBVIOUS
<1>2. PICK b : b = ApplyFloor(f, ds)
  OBVIOUS
<1>3. IsSeq(ds) /\ Grew(f, b)
  BY <1>1, <1>2, DesiresOK DEF FloorInv
<1>4. PICK g : g = ApplyFloor(b, ts)
  OBVIOUS
<1>5. PICK c : IsSeq(ts) /\ Turned(f, c, g, Workers)
  BY <1>1, <1>3, <1>4, AssignmentOK
<1>6. FloorTyped(g) /\ Handed(f, g)
  BY <1>5, TurnedHands DEF Turned
<1>7. IsSeq(ws) /\ Worked(f, g, ApplyFloor(g, ws), Stations)
  BY <1>1, <1>6, StationsOK
<1>8. IsSeq(ds) /\ IsSeq(ts) /\ IsSeq(ws)
  BY <1>3, <1>5, <1>7
<1>9. h = ApplyFloor(g, ws)
  <2>1. PICK ss : ss = ds \o ts
    OBVIOUS
  <2>2. IsSeq(ss) /\ ApplyFloor(f, ss) = g
    <3>1. IsSeq(ds \o ts) /\ ApplyFloor(f, ds \o ts) = ApplyFloor(ApplyFloor(f, ds), ts)
      BY <1>8, ConcatIs, ApplyConcat
    <3> QED BY <1>2, <1>4, <2>1, <3>1
  <2>3. ApplyFloor(f, ss \o ws) = ApplyFloor(ApplyFloor(f, ss), ws)
    BY <1>8, <2>2, ApplyConcat
  <2>4. FloorBatch(f) = ss \o ws
    BY <1>1, <2>1 DEF FloorBatch
  <2> QED BY <2>2, <2>3, <2>4
<1>10. FloorInv(h)
  BY <1>5, <1>7, <1>9, TickAgrees
<1>11. h.assigned = g.assigned
  BY <1>7, <1>9 DEF Worked
<1> QED BY <1>5, <1>10, <1>11

LEMMA FloorInit == KernelInit => FloorInv(floor)
<1> SUFFICES ASSUME KernelInit PROVE FloorInv(floor)
  OBVIOUS
<1>1. floor \in NewFloors(Nat, Nat)
  BY BuiltAssumption DEF KernelInit
<1>2. PICK de, at, ba, st, oc, du, ef :
          /\ floor = FloorOf(de, at, ba, st, oc, du, ef)
          /\ de \in [Workers -> Nat] /\ at = [a \in Workers |-> None]
          /\ ba = [a \in Workers |-> 0]
          /\ st = [o \in Stations |-> "NOT_OCCUPIED"] /\ oc = [o \in Stations |-> None]
          /\ du \in [Stations -> Nat] /\ ef = [o \in Stations |-> MaxEfficiency]
  BY <1>1 DEF NewFloors, FloorOf
<1>3. /\ floor.desire = de /\ floor.assigned = at /\ floor.band = ba /\ floor.status = st
      /\ floor.occupant = oc /\ floor.durability = du /\ floor.efficiency = ef
  BY <1>2, FloorOfIs
<1>4. FloorTyped(floor)
  <2>1. "NOT_OCCUPIED" \in Statuses /\ MaxEfficiency \in Nat
    BY FloorAssumption DEF Statuses
  <2>2. at \in [Workers -> Stations \cup {None}] /\ ba \in [Workers -> Nat]
    BY <1>2
  <2>3. st \in [Stations -> Statuses] /\ oc \in [Stations -> Workers \cup {None}]
    BY <1>2, <2>1
  <2>4. ef \in [Stations -> Nat]
    BY <1>2, <2>1
  <2> QED BY <1>2, <1>3, <2>2, <2>3, <2>4 DEF FloorTyped
<1>5. HoldersAgree(floor)
  <2>1. None \notin Workers /\ None \notin Stations
    BY FloorAssumption
  <2>2. "NOT_OCCUPIED" \notin Active
    BY DEF Active
  <2> QED BY <1>2, <1>3, <2>1, <2>2 DEF HoldersAgree, Holds
<1>6. Placed(floor) /\ RunningLast(floor)
  BY <1>2, <1>3 DEF Placed, RunningLast, Active
<1> QED BY <1>4, <1>5, <1>6 DEF FloorInv

LEMMA FloorKept == FloorInv(floor) /\ [KernelNext]_kernelVars => FloorInv(floor)'
<1>1. CASE RunFloor
  <2> SUFFICES ASSUME FloorInv(floor) PROVE FloorInv(floor')
    BY DEF FloorInv, FloorTyped, HoldersAgree, Holds, Placed, RunningLast, Wants
  <2> QED BY <1>1, FloorTick DEF RunFloor
<1>2. CASE UNCHANGED floor
  BY <1>2 DEF FloorInv, FloorTyped, HoldersAgree, Holds, Placed, RunningLast, Wants
<1> QED
  BY <1>1, <1>2
     DEF KernelNext, kernelVars, BuildEntity, BeginTick, EcsCommand, EcsCommandRaises,
         WorldCommandRaises, Raise, WorldCommand, EmitTick

LEMMA FloorAlways == KernelSpec => []FloorInv(floor)
BY FloorInit, FloorKept, PTL DEF KernelSpec

(* Workers and stations agree on who works where after every tick, for any     *)
(* number of workers, stations and rooms, although the assignment and the     *)
(* workstation system both write status and occupant from what they read      *)
(* before the tick (work_assignment_system.py:21-92,                          *)
(* object_workstation_system.py:36-123).                                      *)
THEOREM FloorAlwaysAgrees == KernelSpec => []FloorAgrees
<1>1. FloorInv(floor) => FloorAgrees
  BY DEF FloorInv, FloorAgrees
<1> QED BY <1>1, FloorAlways, PTL

(* Those who are given stations are as many as the stations they are given.   *)
LEMMA AsManyAs ==
    ASSUME NEW S, IsFiniteSet(S), NEW at,
           \A x, y \in S : at[x] = at[y] => x = y
    PROVE  Cardinality(S) = Cardinality({at[x] : x \in S})
<1> DEFINE T == {at[x] : x \in S}
<1> DEFINE m == [x \in S |-> at[x]]
<1>1. m \in [S -> T] /\ IsInjective(m)
  BY DEF IsInjective
<1>2. \A t \in T : \E x \in S : m[x] = t
  OBVIOUS
<1>3. m \in Bijection(S, T)
  BY <1>1, <1>2 DEF Bijection, Injection, Surjection
<1>4. ExistsBijection(S, T)
  BY <1>3 DEF ExistsBijection
<1> HIDE DEF T, m
<1>5. Cardinality(T) = Cardinality(S)
  BY <1>4, FS_Bijection
<1> QED BY <1>5 DEF T

Seekers(f, r) ==
    {a \in Workers : RoomOf[a] = r /\ Wants(f, a)
        /\ (f.assigned[a] = None \/ GivesUp(f, a))}
FreeIn(f, r) ==
    {o \in Stations : RoomOf[o] = r /\ Usable(f, o) /\ f.occupant[o] = None}

\* The seekers of room r are served by the floor g.
RoomServed(f, g, r) ==
    LET given == {g.assigned[a] : a \in Seekers(f, r)} \ {None}
    IN  /\ given \subseteq FreeIn(f, r)
        /\ Cardinality({a \in Seekers(f, r) : g.assigned[a] # None}) = Cardinality(given)
        /\ given = FreeIn(f, r) \/ Cardinality(given) = Cardinality(Seekers(f, r))

LEMMA TurnsServe ==
    ASSUME NEW f, FloorInv(f), NEW c, NEW g, Turned(f, c, g, Workers), NEW r
    PROVE  RoomServed(f, g, r)
<1> DEFINE seekers == Seekers(f, r)
<1> DEFINE free == FreeIn(f, r)
<1> DEFINE given == {g.assigned[a] : a \in seekers} \ {None}
<1>1. \A a \in seekers :
          a \in Workers /\ ~Keeps(f, a) /\ Wants(f, a) /\ FreeFor(f, a) = free
  BY DEF FreeFor, Seekers, FreeIn, Keeps
<1>2. \A a \in seekers : g.assigned[a] # None =>
          g.assigned[a] \in free /\ g.occupant[g.assigned[a]] = a
  BY <1>1 DEF Turned
<1>0. seekers \subseteq Workers /\ free \subseteq Stations
  BY DEF Seekers, FreeIn
<1> DEFINE served == {a \in seekers : g.assigned[a] # None}
<1>3. given = {g.assigned[a] : a \in served} /\ given \subseteq free
  BY <1>2
<1> HIDE DEF seekers, free
<1>4. Cardinality(served) = Cardinality(given)
  <2>1. IsFiniteSet(served)
    <3>1. served \subseteq Workers
      BY <1>0
    <3> QED BY <3>1, FloorAssumption, FS_Subset
  <2>2. \A x, y \in served : g.assigned[x] = g.assigned[y] => x = y
    BY <1>2
  <2> HIDE DEF served, given
  <2>3. PICK at : at = g.assigned
    OBVIOUS
  <2>4. \A x, y \in served : at[x] = at[y] => x = y
    BY <2>2, <2>3
  <2>5. Cardinality(served) = Cardinality({at[x] : x \in served})
    BY <2>1, <2>4, AsManyAs
  <2> QED BY <1>3, <2>3, <2>5
<1>5. ASSUME served = seekers PROVE Cardinality(given) = Cardinality(seekers)
  BY <1>4, <1>5
<1>6. ASSUME served # seekers PROVE given = free
  <2>1. PICK a \in seekers : g.assigned[a] = None
    BY <1>6
  <2>2. free \subseteq c
    BY <1>1, <2>1 DEF Turned
  <2>3. ASSUME NEW o \in free PROVE o \in given
    <3>1. PICK w \in Workers : w = g.occupant[o] /\ ~Keeps(f, w) /\ g.assigned[w] = o
      BY <2>2 DEF Turned
    <3>2. o # None
      BY <1>0, FloorAssumption
    <3>3. Wants(f, w) /\ o \in FreeFor(f, w)
      BY <3>1, <3>2 DEF Turned
    <3>4. w \in seekers
      BY <3>1, <3>3 DEF seekers, free, Seekers, FreeIn, FreeFor, Keeps
    <3> QED BY <3>1, <3>2, <3>4
  <2> QED BY <1>3, <2>3
<1>7. given = free \/ Cardinality(given) = Cardinality(seekers)
  BY <1>5, <1>6
<1> QED BY <1>3, <1>4, <1>7 DEF RoomServed, seekers, free

(* In every tick a room's seekers are given its free stations until there are *)
(* none of either left, no station to two of them                             *)
(* (work_assignment_system.py:103-118).                                       *)
THEOREM StationsAlwaysTaken == KernelSpec => FreeStationsAreTaken
<1>1. ASSUME FloorInv(floor), RunFloor, NEW r PROVE RoomServed(floor, floor', r)
  <2>1. PICK c, g : Turned(floor, c, g, Workers) /\ floor'.assigned = g.assigned
    BY <1>1, FloorTick DEF RunFloor
  <2>2. RoomServed(floor, g, r)
    BY <1>1, <2>1, TurnsServe
  <2> QED BY <2>1, <2>2 DEF RoomServed
<1>2. FloorInv(floor) /\ [KernelNext]_kernelVars =>
        [RunFloor =>
           \A r \in {RoomOf[a] : a \in Workers} :
               LET seekers == {a \in Workers : RoomOf[a] = r /\ Wants(floor, a)
                                   /\ (floor.assigned[a] = None \/ GivesUp(floor, a))}
                   free == {o \in Stations : RoomOf[o] = r /\ Usable(floor, o)
                                   /\ floor.occupant[o] = None}
                   given == {floor'.assigned[a] : a \in seekers} \ {None}
               IN  /\ given \subseteq free
                   /\ Cardinality({a \in seekers : floor'.assigned[a] # None})
                      = Cardinality(given)
                   /\ given = free \/ Cardinality(given) = Cardinality(seekers)]_kernelVars
  BY <1>1 DEF RoomServed, FreeIn, Seekers
<1> QED
  BY <1>2, FloorAlways, PTL DEF KernelSpec, FreeStationsAreTaken
=============================================================================
