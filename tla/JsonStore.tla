----------------------------- MODULE JsonStore ------------------------------
(***************************************************************************)
(* Json values and their storage (src/json.hh, src/json.cc).               *)
(*                                                                         *)
(* A Json is a primitive or a pointer to an ArrayJson or ObjectJson; copies *)
(* share it and count references, and a function that changes a Json first *)
(* makes its storage its own (uniqueify).  An ObjectJson is an open array  *)
(* of items, erased ones included, chained by hash.  The operators take    *)
(* the storage h and a value v to <<h, v>>.  Strings and numbers are one   *)
(* kind of primitive; capacities are left out, they only move storage.     *)
(***************************************************************************)
EXTENDS Integers, Sequences, FiniteSets

CONSTANTS
  JVars,       \* the Json variables of a program
  JKeys,       \* keys; the numeric ones are IndexKey's
  IndexKey,    \* String(i): the key of array index i, a sequence
  HashCode,    \* String::hashcode of each key
  HashInit,    \* 8: buckets of a new table
  ChainLimit,  \* 4: a longer chain doubles the table
  NodeIds,     \* bound: storage blocks, positive numbers
  MaxSlots     \* bound: items of all blocks; an array has at most Len(IndexKey)

VARIABLES
  heap,        \* the storage
  jvar,        \* the value of each variable
  jwant        \* what each variable should be, a tree

jsonVars == <<heap, jvar, jwant>>

JNull == <<"null">>
JPrim == <<"prim">>
Arr(n) == <<"arr", n>>     \* n = 0: make_array() has no storage yet
Obj(n) == <<"obj", n>>
Complex(v) == v[1] \in {"arr", "obj"} /\ v[2] # 0

(* What is wanted of a variable whose value was put into itself: nothing.  *)
(* Bound: a program does so while it has one block (LoopRoom), and with    *)
(* the value no more than assign the variable anew.                        *)
Looped == <<"looped">>

Free == [kind |-> "free", rc |-> 0, items |-> <<>>, hash |-> <<>>]
FreeIds(h) == {n \in NodeIds : h[n].kind = "free"}
NewId(h) == CHOOSE n \in FreeIds(h) : \A m \in FreeIds(h) : n <= m

-----------------------------------------------------------------------------
(* ObjectJson.  Items have a key, a value and the next item of their       *)
(* bucket: 0 at the end (-1 in the code), -2 if the item is erased.         *)
LivePos(o) == {p \in DOMAIN o.items : o.items[p].next # -2}
Bucket(o, key) == (HashCode[key] % Len(o.hash)) + 1

Chain(o, key) ==
  LET from[p \in 0..Len(o.items)] == IF p = 0 THEN <<>> ELSE <<p>> \o from[o.items[p].next] IN
  IF o.hash = <<>> THEN <<>> ELSE from[o.hash[Bucket(o, key)]]

FindPos(o, key) ==
  LET c == Chain(o, key)
      hit == {i \in DOMAIN c : o.items[c[i]].key = key}
  IN  IF hit = {} THEN 0 ELSE c[CHOOSE i \in hit : \A j \in hit : i <= j]

Rehash(o) ==
  LET size == 2 * Len(o.hash)
      b(p) == (HashCode[o.items[p].key] % size) + 1
      first(S) == IF S = {} THEN 0 ELSE CHOOSE p \in S : \A q \in S : p <= q
      after(p) == first({q \in LivePos(o) : q > p /\ b(q) = b(p)})
      relink(p) == IF p \in LivePos(o) THEN [o.items[p] EXCEPT !.next = after(p)] ELSE o.items[p]
      upto[p \in 0..Len(o.items)] == IF p = 0 THEN <<>> ELSE Append(upto[p - 1], relink(p))
  IN  [o EXCEPT !.hash = [i \in 1..size |-> first({p \in LivePos(o) : b(p) = i})],
                !.items = upto[Len(o.items)]]

(* find_insert and get_insert: the item of the key, which may be new.      *)
FindInsert(o0, key, val) ==
  LET o == IF o0.hash = <<>> THEN [o0 EXCEPT !.hash = [i \in 1..HashInit |-> 0]] ELSE o0
      c == Chain(o, key)
      n == Len(o.items) + 1
      linked == IF c = <<>> THEN [o EXCEPT !.hash[Bucket(o, key)] = n]
                ELSE [o EXCEPT !.items[c[Len(c)]] = [@ EXCEPT !.next = n]]
      added == [linked EXCEPT !.items = Append(@, [key |-> key, val |-> val, next |-> 0])]
  IN  IF FindPos(o, key) # 0 THEN [o |-> o, p |-> FindPos(o, key), new |-> FALSE]
      ELSE [o |-> IF Len(c) > ChainLimit THEN Rehash(added) ELSE added, p |-> n, new |-> TRUE]

(* erase: the item leaves its chain and its place stays unused.            *)
ErasePos(o, p) ==
  LET c == Chain(o, o.items[p].key)
      at == CHOOSE i \in DOMAIN c : c[i] = p
      next == o.items[p].next
      cut == IF at = 1 THEN [o EXCEPT !.hash[Bucket(o, o.items[p].key)] = next]
             ELSE [o EXCEPT !.items[c[at - 1]] = [@ EXCEPT !.next = next]]
  IN  [cut EXCEPT !.items[p] = [key |-> @.key, val |-> JNull, next |-> -2]]

-----------------------------------------------------------------------------
(* References.                                                             *)
ValuesOf(node) ==
  IF node.kind = "arr" THEN node.items
  ELSE [p \in DOMAIN node.items |-> node.items[p].val]

MutRef(h, v) == h
Ref(h, v) == IF Complex(v) THEN [h EXCEPT ![v[2]].rc = @ + 1] ELSE h

RECURSIVE Deref(_, _), DerefAll(_, _), RefAll(_, _)
Deref(h, v) ==
  CASE ~Complex(v) -> h
    [] Complex(v) /\ h[v[2]].rc > 1 -> [h EXCEPT ![v[2]].rc = @ - 1]
    [] OTHER -> [DerefAll(h, ValuesOf(h[v[2]])) EXCEPT ![v[2]] = Free]
DerefAll(h, vs) == IF vs = <<>> THEN h ELSE DerefAll(Deref(h, Head(vs)), Tail(vs))
RefAll(h, vs) == IF vs = <<>> THEN h ELSE RefAll(Ref(h, Head(vs)), Tail(vs))

(* uniqueify_array and uniqueify_object.                                   *)
NewNode(h, kind, items, hash) ==
  [h EXCEPT ![NewId(h)] = [kind |-> kind, rc |-> 1, items |-> items, hash |-> hash]]

UniqueifyArray(h, v) ==
  CASE v[1] = "arr" /\ v[2] # 0 /\ h[v[2]].rc = 1 -> <<h, v>>
    [] v[1] = "arr" /\ v[2] # 0 /\ h[v[2]].rc # 1 ->
         <<Deref(RefAll(NewNode(h, "arr", h[v[2]].items, <<>>), h[v[2]].items), v), Arr(NewId(h))>>
    [] OTHER -> <<NewNode(h, "arr", <<>>, <<>>), Arr(NewId(h))>>

FromArray(items) ==
  LET upto[i \in 0..Len(items)] ==
        IF i = 0 THEN [Free EXCEPT !.kind = "obj", !.rc = 1]
        ELSE FindInsert(upto[i - 1], IndexKey[i], items[i]).o
  IN  upto[Len(items)]

MutUniqueifyObject(h, v) ==
  IF v[1] = "obj" /\ v[2] # 0 THEN <<h, v>> ELSE <<NewNode(h, "obj", <<>>, <<>>), Obj(NewId(h))>>
UniqueifyObject(h, v) ==
  LET node == h[v[2]] IN
  CASE v[1] = "obj" /\ v[2] # 0 /\ h[v[2]].rc = 1 -> <<h, v>>
    [] v[1] = "obj" /\ v[2] # 0 /\ h[v[2]].rc # 1 ->
         <<Deref(RefAll(NewNode(h, "obj", node.items, node.hash), ValuesOf(node)), v), Obj(NewId(h))>>
    [] v[1] = "arr" /\ v[2] # 0 ->
         <<Deref(RefAll([h EXCEPT ![NewId(h)] = FromArray(node.items)], node.items), v), Obj(NewId(h))>>
    [] OTHER -> <<NewNode(h, "obj", <<>>, <<>>), Obj(NewId(h))>>

-----------------------------------------------------------------------------
(* The operations on a Json v; x is the value argument, a copy already.    *)
GetInsertKey(h, v, key) ==
  LET u == UniqueifyObject(h, v)
      f == FindInsert(u[1][u[2][2]], key, JNull)
  IN  [h |-> [u[1] EXCEPT ![u[2][2]] = f.o], v |-> u[2], p |-> f.p]

(* hard_get_insert extends the array with nulls.                           *)
Extended(items, n) == items \o [i \in 1..(IF n > Len(items) THEN n - Len(items) ELSE 0) |-> JNull]
GetInsertIndex(h, v, i) ==
  LET u == UniqueifyArray(h, v) IN
  IF v[1] = "obj" THEN GetInsertKey(h, v, IndexKey[i])
  ELSE [h |-> [u[1] EXCEPT ![u[2][2]].items = Extended(@, i)], v |-> u[2], p |-> i]

SlotValue(r) == ValuesOf(r.h[r.v[2]])[r.p]
StoreSlot(r, h, x) ==
  <<IF h[r.v[2]].kind = "arr" THEN [h EXCEPT ![r.v[2]].items[r.p] = x]
    ELSE [h EXCEPT ![r.v[2]].items[r.p] = [@ EXCEPT !.val = x]], r.v>>

AssignSlot(r, x) == StoreSlot(r, Deref(r.h, SlotValue(r)), x)

SetKey(h, v, key, x) == AssignSlot(GetInsertKey(h, v, key), x)
SetIndex(h, v, i, x) == AssignSlot(GetInsertIndex(h, v, i), x)

(* v[key] = v and v[i] = v: the proxy makes the slot first and then takes  *)
(* v by reference, which by now is the block with the slot.                *)
AssignSelf(r) == AssignSlot([r EXCEPT !.h = Ref(r.h, r.v)], r.v)

(* unset and erase(key); on an object that never had an item the code      *)
(* reads a table that is not there, EraseDefined is its precondition.      *)
EraseDefined(h, v) == v[1] = "obj" => v[2] # 0 /\ h[v[2]].hash # <<>>
Unset(h, v, key) ==
  LET u == UniqueifyObject(h, v)
      o == u[1][u[2][2]]
      p == FindPos(o, key)
  IN  CASE v[1] # "obj" -> <<h, v>>
        [] v[1] = "obj" /\ p = 0 -> u
        [] OTHER -> <<Deref([u[1] EXCEPT ![u[2][2]] = ErasePos(o, p)], o.items[p].val), u[2]>>

(* insert(pair): an existing item is not replaced.                         *)
InsertPair(h, v, key, x) ==
  LET u == UniqueifyObject(h, v)
      f == FindInsert(u[1][u[2][2]], key, x)
      h2 == [u[1] EXCEPT ![u[2][2]] = f.o]
  IN  <<IF f.new THEN h2 ELSE Deref(h2, x), u[2]>>

ArrayOp(h, v, items(_)) ==
  LET u == UniqueifyArray(h, v) IN <<[u[1] EXCEPT ![u[2][2]].items = items(@)], u[2]>>

InsertItem(h, v, pos, x) ==
  LET ins(s) == SubSeq(s, 1, pos - 1) \o <<x>> \o SubSeq(s, pos, Len(s)) IN ArrayOp(h, v, ins)
PushBack(h, v, x) == LET app(s) == Append(s, x) IN ArrayOp(h, v, app)

EraseRange(h, v, first, last) ==
  LET u == UniqueifyArray(h, v)
      s == u[1][u[2][2]].items
      cut(t) == SubSeq(t, 1, first - 1) \o SubSeq(t, last + 1, Len(t))
  IN  IF first > last THEN <<h, v>>
      ELSE ArrayOp(DerefAll(u[1], SubSeq(s, first, last)), u[2], cut)

PopBack(h, v) == LET n == Len(h[v[2]].items) IN EraseRange(h, v, n, n)

Resize(h, v, n) ==
  LET u == UniqueifyArray(h, v)
      s == u[1][u[2][2]].items
      grow(t) == Extended(t, n)
  IN  IF n < Len(s) THEN EraseRange(u[1], u[2], n + 1, Len(s)) ELSE ArrayOp(u[1], u[2], grow)

(* clear: an array or object that is not shared keeps its storage.         *)
Clear(h, v) ==
  CASE ~Complex(v) -> <<h, IF v[1] \in {"arr", "obj"} THEN v ELSE JNull>>
    [] Complex(v) /\ h[v[2]].rc = 1 ->
         <<[DerefAll(h, ValuesOf(h[v[2]])) EXCEPT ![v[2]].items = <<>>, ![v[2]].hash = [b \in DOMAIN @ |-> 0]], v>>
    [] OTHER -> <<Deref(h, v), <<v[1], 0>>>>

(* merge assigns a copy of every pair of object w.                         *)
Merge(h, v, w) ==
  LET o == h[w[2]]
      upto[p \in 0..Len(o.items)] ==
        IF p = 0 THEN UniqueifyObject(h, v)
        ELSE LET hv == upto[p - 1] IN
             IF p \notin LivePos(o) THEN hv
             ELSE SetKey(Ref(hv[1], o.items[p].val), hv[2], o.items[p].key, o.items[p].val)
  IN  IF ~Complex(w) THEN <<h, v>> ELSE upto[Len(o.items)]

-----------------------------------------------------------------------------
(* Trees: what a Json means.  An array is the sequence of its elements, an *)
(* object the sequence of its pairs in the order they were inserted.       *)
RECURSIVE Tree(_, _)
Tree(h, v) ==
  CASE v[1] \notin {"arr", "obj"} -> v
    [] v[1] \in {"arr", "obj"} /\ v[2] = 0 -> <<v[1], <<>>>>
    [] v[1] = "arr" /\ v[2] # 0 ->
         <<"arr", [i \in DOMAIN h[v[2]].items |-> Tree(h, h[v[2]].items[i])]>>
    [] OTHER ->
         LET live == SelectSeq(h[v[2]].items, LAMBDA item : item.next # -2) IN
         <<"obj", [i \in DOMAIN live |-> <<live[i].key, Tree(h, live[i].val)>>]>>

TPairs(t) ==
  CASE t[1] = "obj" -> t[2]
    [] t[1] = "arr" -> [i \in DOMAIN t[2] |-> <<IndexKey[i], t[2][i]>>]
    [] OTHER -> <<>>
TElems(t) == IF t[1] = "arr" THEN t[2] ELSE <<>>
THas(t, key) == \E i \in DOMAIN TPairs(t) : TPairs(t)[i][1] = key
TGet(t, key) ==
  LET s == TPairs(t) IN IF THas(t, key) THEN s[CHOOSE i \in DOMAIN s : s[i][1] = key][2] ELSE JNull
TSet(t, key, x) ==
  LET s == TPairs(t) IN
  <<"obj", IF THas(t, key) THEN [i \in DOMAIN s |-> IF s[i][1] = key THEN <<key, x>> ELSE s[i]]
           ELSE Append(s, <<key, x>>)>>
TUnset(t, key) ==
  IF t[1] # "obj" THEN t ELSE <<"obj", SelectSeq(t[2], LAMBDA pair : pair[1] # key)>>
TSetIndex(t, i, x) ==
  IF t[1] = "obj" THEN TSet(t, IndexKey[i], x)
  ELSE <<"arr", [Extended(TElems(t), i) EXCEPT ![i] = x]>>
TCut(t, first, last) ==
  <<"arr", SubSeq(TElems(t), 1, first - 1) \o SubSeq(TElems(t), last + 1, Len(TElems(t)))>>
TMerge(t, w) ==
  LET upto[i \in 0..Len(TPairs(w))] ==
        IF i = 0 THEN <<"obj", TPairs(t)>> ELSE TSet(upto[i - 1], w[2][i][1], w[2][i][2])
  IN  upto[Len(TPairs(w))]

-----------------------------------------------------------------------------
(* What a program may do with a Json v, and what must become of its tree.  *)
Size(h, v) == IF Complex(v) THEN Len(h[v[2]].items) ELSE 0
IsNullOr(v, kind) == v[1] \in {"null", kind}

Changes(h, v, t, x, tx) ==
  {[do |-> SetKey(Ref(h, x), v, key, x), want |-> TSet(t, key, tx)] : key \in JKeys}
  \cup {[do |-> InsertPair(Ref(h, x), v, key, x), want |-> IF THas(t, key) THEN t ELSE TSet(t, key, tx)] :
          key \in IF v[1] = "obj" THEN JKeys ELSE {}}
  \cup (IF ~IsNullOr(v, "arr") THEN {}
        ELSE {[do |-> PushBack(Ref(h, x), v, x), want |-> <<"arr", Append(TElems(t), tx)>>]}
             \cup {[do |-> InsertItem(Ref(h, x), v, 1, x), want |-> <<"arr", <<tx>> \o TElems(t)>>]})

(* v[i] = x through a proxy, for an x that is not v.                       *)
Assignments(h, v, t, x, tx) ==
  {[do |-> SetIndex(Ref(h, x), v, i, x), want |-> TSetIndex(t, i, tx)] : i \in 1..Len(IndexKey)}
SelfAssignments(h, v) ==
  {[do |-> AssignSelf(GetInsertKey(h, v, key)), want |-> Looped] : key \in JKeys}
  \cup {[do |-> AssignSelf(GetInsertIndex(h, v, i)), want |-> Looped] : i \in 1..Len(IndexKey)}

Reductions(h, v, t) ==
  {[do |-> Unset(h, v, key), want |-> TUnset(t, key)] : key \in IF EraseDefined(h, v) THEN JKeys ELSE {}}
  \cup {[do |-> Clear(h, v), want |-> IF t[1] \in {"arr", "obj"} THEN <<t[1], <<>>>> ELSE JNull]}
  \cup (IF ~IsNullOr(v, "arr") THEN {}
        ELSE {[do |-> Resize(h, v, n), want |-> <<"arr", SubSeq(Extended(TElems(t), n), 1, n)>>] : n \in 0..2}
             \cup (IF Size(h, v) = 0 THEN {}
                   ELSE {[do |-> PopBack(h, v), want |-> TCut(t, Len(TElems(t)), Len(TElems(t)))],
                         [do |-> EraseRange(h, v, 1, 1), want |-> TCut(t, 1, 1)]}))

Slots(h) == {<<n, p>> \in NodeIds \X (1..MaxSlots) : p <= Len(h[n].items)}
Bounded(h) ==
  /\ Cardinality(Slots(h)) <= MaxSlots
  /\ \A n \in NodeIds : Len(h[n].items) <= IF h[n].kind = "arr" THEN Len(IndexKey) ELSE MaxSlots
HasRoom(n) == Cardinality(FreeIds(heap)) >= n
LoopRoom == HasRoom(Cardinality(NodeIds) - 1)

(* x becomes what c says, out of the values of the variables in `of`.      *)
Became(x, of, c) ==
  /\ \A y \in of : jwant[y] # Looped
  /\ Bounded(c.do[1])
  /\ heap' = c.do[1] /\ jvar' = [jvar EXCEPT ![x] = c.do[2]]
  /\ jwant' = [jwant EXCEPT ![x] = c.want]

JsonInit ==
  /\ heap = [n \in NodeIds |-> Free]
  /\ jvar = [x \in JVars |-> JNull] /\ jwant = [x \in JVars |-> JNull]

(* Json(), make_array(), make_object() and primitives assigned to x.       *)
Make(x, v) ==
  Became(x, {}, [do |-> <<Deref(heap, jvar[x]), v>>, want |-> IF v[1] \in {"arr", "obj"} THEN <<v[1], <<>>>> ELSE v])

(* x = y and x = y.get(key).  When x is y and holds the only reference to  *)
(* its block, operator= frees the item before it reads it: undefined, and  *)
(* left out.                                                               *)
Copy(x, y) == Became(x, {y}, [do |-> <<Deref(Ref(heap, jvar[y]), jvar[x]), jvar[y]>>, want |-> jwant[y]])
CopyItem(x, y, key) ==
  LET p == FindPos(heap[jvar[y][2]], key)
      v == IF p = 0 THEN JNull ELSE heap[jvar[y][2]].items[p].val
  IN  /\ Complex(jvar[y]) /\ jvar[y][1] = "obj"
      /\ x = y /\ p # 0 => heap[jvar[y][2]].rc > 1
      /\ Became(x, {y}, [do |-> <<Deref(Ref(heap, v), jvar[x]), v>>, want |-> TGet(jwant[y], key)])

Change(x) ==
  /\ HasRoom(1) /\ jwant[x] # Looped
  /\ \/ \E c \in Changes(heap, jvar[x], jwant[x], JPrim, JPrim)
                 \cup Assignments(heap, jvar[x], jwant[x], JPrim, JPrim) : Became(x, {x}, c)
     \/ \E y \in JVars :
          /\ Complex(jvar[y])
          /\ \/ \E c \in Changes(heap, jvar[x], jwant[x], jvar[y], jwant[y]) : Became(x, {x, y}, c)
             \/ /\ x # y
                /\ \E c \in Assignments(heap, jvar[x], jwant[x], jvar[y], jwant[y]) : Became(x, {x, y}, c)
     \/ /\ Complex(jvar[x]) /\ LoopRoom
        /\ \E c \in SelfAssignments(heap, jvar[x]) : Became(x, {x}, c)
     \/ \E c \in Reductions(heap, jvar[x], jwant[x]) : Became(x, {x}, c)

(* x.get_insert(key) and then a change of the element.                     *)
ChangeItem(x, key) ==
  LET r == GetInsertKey(heap, jvar[x], key)
      t == TGet(jwant[x], key)
  IN  /\ HasRoom(2) /\ jwant[x] # Looped
      /\ \E c \in Changes(r.h, SlotValue(r), t, JPrim, JPrim) \cup Reductions(r.h, SlotValue(r), t)
                  \cup Assignments(r.h, SlotValue(r), t, JPrim, JPrim) :
           Became(x, {x}, [do |-> StoreSlot(r, c.do[1], c.do[2]), want |-> TSet(jwant[x], key, c.want)])

MergeFrom(x, y) ==
  /\ HasRoom(1) /\ IsNullOr(jvar[x], "obj") /\ IsNullOr(jvar[y], "obj")
  /\ Became(x, {x, y},
       [do |-> Merge(heap, jvar[x], jvar[y]),
        want |-> IF Complex(jvar[y]) THEN TMerge(jwant[x], jwant[y]) ELSE jwant[x]])

JsonNext ==
  \E x \in JVars :
    \/ \E v \in {JNull, JPrim, Arr(0), Obj(0)} : Make(x, v)
    \/ \E y \in JVars : Copy(x, y) \/ MergeFrom(x, y)
    \/ \E y \in JVars, key \in JKeys : CopyItem(x, y, key)
    \/ Change(x)
    \/ \E key \in JKeys : ChangeItem(x, key)

-----------------------------------------------------------------------------
(* Properties.                                                             *)

(* "Json objects are not references, and two Json values cannot share      *)
(* subobjects" (json.cc:28-29): however storage is shared, rehashed and    *)
(* reused, every variable is the tree that its own assignments made, with  *)
(* an object's pairs in the order of insertion, and find agrees.  Excepted *)
(* is what x["a"] = x and x[i] = x make, which do share: the value is its  *)
(* own item.  The other variables are as they were, and stay right when x  *)
(* is assigned anew.                                                       *)
JsonIsValue ==
  \A x \in JVars : jwant[x] # Looped =>
    /\ Tree(heap, jvar[x]) = jwant[x]
    /\ Complex(jvar[x]) /\ jvar[x][1] = "obj" =>
         \A key \in JKeys : (FindPos(heap[jvar[x][2]], key) # 0) = THas(jwant[x], key)

(* Reference counts are exact: a block is freed when its last reference    *)
(* goes, neither earlier nor later (ComplexJson::ref and deref,            *)
(* json.hh:484-497).                                                       *)
RefcountsExact ==
  \A n \in NodeIds :
    heap[n].rc = Cardinality({x \in JVars : Complex(jvar[x]) /\ jvar[x][2] = n})
                 + Cardinality({<<m, p>> \in Slots(heap) :
                     LET w == ValuesOf(heap[m])[p] IN Complex(w) /\ w[2] = n})
=============================================================================
