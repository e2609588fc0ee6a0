----------------------------- MODULE CartProofs -----------------------------
(***************************************************************************)
(* Proofs about Cart, for any number of requests, offers and quantities:   *)
(* the version of the document, which only pushes and rewritten lists      *)
(* raise, is enough for the lines; the page shows the stored cart with the *)
(* right sums, as far as a request that ran alone answered it; and every   *)
(* cart is a list of bought lines with natural amounts.                    *)
(***************************************************************************)
EXTENDS Cart, Sums

Fields == {"lines", "subtotal", "discount", "total", "coupon", "version"}

Rec == LineType(1..added)

\* A cart, stored or read: each quantity was written for its line.
IsCart(c) ==
  /\ DOMAIN c = Fields
  /\ c.lines \in Seq(Rec) /\ c.version \in Nat
  /\ \A j \in DOMAIN c.lines : c.lines[j].quantity \in wrote[c.lines[j].id]

\* Position by position, two carts hold the same lines.
SameLines(c, d) ==
  /\ DOMAIN c.lines = DOMAIN d.lines
  /\ \A j \in DOMAIN c.lines : c.lines[j].id = d.lines[j].id

\* What is asked for is on offer.
IsAsk(ask) ==
  /\ ask.do = "add" => ask.of \in Offers /\ ask.quantity \in Quantities
  /\ ask.do = "update" => ask.quantity \in Quantities

\* A copy is no newer than its cart, and as new only with the same lines.
IsCopy(q) ==
  /\ {"ask", "of", "copy"} \subseteq DOMAIN q
  /\ q.of \in DOMAIN carts /\ IsCart(q.copy)
  /\ q.copy.version <= carts[q.of].version
  /\ q.copy.version = carts[q.of].version => SameLines(q.copy, carts[q.of])

IsRequest(q) ==
  /\ "at" \in DOMAIN q
  /\ q.at \in {"sent", "create", "have"} => "ask" \in DOMAIN q /\ IsAsk(q.ask)
  /\ q.at = "have" => IsCopy(q)

\* The inductive strengthening of both properties.
CartInv ==
  /\ \E S : carts \in Seq(S)
  /\ added \in Nat /\ wrote \in Seq(SUBSET Nat) /\ Len(wrote) = added
  /\ \A i \in DOMAIN carts : IsCart(carts[i])
  /\ DOMAIN req = Requests
  /\ \A r \in Requests : IsRequest(req[r])
  /\ NoLineLost

-----------------------------------------------------------------------------
(* Edits.                                                                  *)

LEMMA ConcatType ==
  ASSUME NEW S, NEW s \in Seq(S), NEW t \in Seq(S)
  PROVE  s \o t \in Seq(S) /\ Len(s \o t) = Len(s) + Len(t)
  OBVIOUS

\* A list without one of its elements.
LEMMA RemoveAtType ==
  ASSUME NEW S, NEW s \in Seq(S), NEW i \in 1..Len(s)
  PROVE  /\ RemoveAt(s, i) \in Seq(S)
         /\ \A j \in DOMAIN RemoveAt(s, i) :
              \E k \in DOMAIN s : RemoveAt(s, i)[j] = s[k]
<1> DEFINE a == SubSeq(s, 1, i - 1)  b == SubSeq(s, i + 1, Len(s))
<1>1. /\ a \in Seq(S) /\ Len(a) = i - 1 /\ \A j \in 1..Len(a) : a[j] = s[j]
      /\ b \in Seq(S) /\ Len(b) = Len(s) - i /\ \A j \in 1..Len(b) : b[j] = s[i + j]
  OBVIOUS
<1>2. RemoveAt(s, i) = a \o b
  BY DEF RemoveAt
<1>. HIDE DEF a, b
<1>0. Len(s) \in Nat /\ i \in 1..Len(s) /\ DOMAIN s = 1..Len(s)
  OBVIOUS
<1>3. /\ a \o b \in Seq(S) /\ Len(a \o b) = Len(s) - 1
      /\ DOMAIN (a \o b) = 1..(Len(s) - 1)
  <2>1. a \o b \in Seq(S) /\ Len(a \o b) = Len(a) + Len(b)
    BY <1>1, ConcatType
  <2>2. DOMAIN (a \o b) = 1..Len(a \o b)
    BY <2>1
  <2>. QED
    BY <1>0, <1>1, <2>1, <2>2
<1>4. ASSUME NEW j \in 1..(Len(s) - 1)
      PROVE  (a \o b)[j] = IF j < i THEN s[j] ELSE s[j + 1]
  <2>1. CASE j < i
    <3>1. j \in 1..Len(a)
      BY <1>0, <1>1, <2>1
    <3>2. (a \o b)[j] = a[j]
      BY <1>1, <3>1
    <3>. QED
      BY <1>1, <2>1, <3>1, <3>2
  <2>2. CASE ~(j < i)
    <3>1. j - Len(a) \in 1..Len(b) /\ j \in (Len(a) + 1)..(Len(a) + Len(b))
      BY <1>0, <1>1, <2>2
    <3>2. (a \o b)[j] = b[j - Len(a)]
      BY <1>1, <3>1
    <3>3. i + (j - Len(a)) = j + 1
      BY <1>0, <1>1
    <3>4. b[j - Len(a)] = s[i + (j - Len(a))]
      BY <1>1, <3>1
    <3>. QED
      BY <2>2, <3>2, <3>3, <3>4
  <2>. QED
    BY <2>1, <2>2
<1>5. \A j \in 1..(Len(s) - 1) : \E k \in DOMAIN s : (a \o b)[j] = s[k]
  <2> TAKE j \in 1..(Len(s) - 1)
  <2>1. CASE j < i
    <3>1. j \in DOMAIN s
      BY <1>0
    <3>. QED
      BY <1>4, <2>1, <3>1
  <2>2. CASE ~(j < i)
    <3>1. j + 1 \in DOMAIN s
      BY <1>0
    <3>. QED
      BY <1>4, <2>2, <3>1
  <2>. QED
    BY <2>1, <2>2
<1>. QED
  BY <1>0, <1>2, <1>3, <1>5

LEMMA LineFields ==
  ASSUME NEW c, IsCart(c), NEW j \in DOMAIN c.lines
  PROVE  c.lines[j].id \in 1..added /\ c.lines[j].quantity \in Nat \ {0}
<1>1. c.lines[j] \in Rec
  BY DEF IsCart
<1>. QED
  BY <1>1 DEF Rec, LineType

\* The edits a request may make.
LEMMA EditCases ==
  ASSUME NEW c, IsCart(c), NEW ask, IsAsk(ask), NEW e \in Edits(c, ask)
  PROVE  \/ e = Push(ask) /\ ask.of \in Offers /\ ask.quantity \in Quantities
         \/ \E i \in DOMAIN c.lines, q \in Nat \ {0} : e = Put(i, q)
         \/ \E i \in DOMAIN c.lines : e = Whole(RemoveAt(c.lines, i))
         \/ e = Whole(<<>>)
         \/ e = Leave
<1>1. CASE ask.do = "add"
  <2>1. ask.of \in Offers /\ ask.quantity \in Quantities /\ ask.quantity \in Nat \ {0}
    BY <1>1, CartAssumption DEF IsAsk
  <2>2. Edits(c, ask) \subseteq {Push(ask)} \cup
          {Put(i, c.lines[i].quantity + ask.quantity) : i \in Existing(c, ask.of)}
    BY <1>1 DEF Edits, First
  <2>3. \A i \in Existing(c, ask.of) :
          i \in DOMAIN c.lines /\ c.lines[i].quantity + ask.quantity \in Nat \ {0}
    <3>1. \A i \in DOMAIN c.lines : c.lines[i].quantity \in Nat \ {0}
      BY LineFields
    <3>. QED
      BY <2>1, <3>1 DEF Existing, Positions
  <2>. QED
    BY <2>1, <2>2, <2>3
<1>2. CASE ask.do = "update"
  <2>1. Edits(c, ask) \subseteq {Put(i, ask.quantity) : i \in DOMAIN c.lines}
    BY <1>2 DEF Edits, LineAt, Positions
  <2>2. ask.quantity \in Nat \ {0}
    BY <1>2, CartAssumption DEF IsAsk
  <2>. QED
    BY <2>1, <2>2
<1>3. CASE ask.do = "remove"
  <2>1. Edits(c, ask) \subseteq {Whole(RemoveAt(c.lines, i)) : i \in DOMAIN c.lines}
    BY <1>3 DEF Edits, LineAt, Positions
  <2>. QED
    BY <2>1
<1>4. CASE ask.do \notin {"add", "update", "remove"}
  <2>1. Edits(c, ask) \subseteq {Leave, Whole(<<>>)}
    BY <1>4 DEF Edits
  <2>. QED
    BY <2>1
<1>. QED
  BY <1>1, <1>2, <1>3, <1>4

\* The work on a copy keeps the lines of the edit.
LEMMA WorkedLines ==
  ASSUME NEW c, IsCart(c), NEW ask, NEW e
  PROVE  Worked(c, ask, e).lines = Edited(c.lines, e)
<1> DEFINE d == [c EXCEPT !.lines = Edited(c.lines, e)]
<1>1. DOMAIN d = Fields /\ d.lines = Edited(c.lines, e)
  BY DEF IsCart, Fields
<1>2. Discounted(d, ask).lines = d.lines /\ DOMAIN Discounted(d, ask) = Fields
  <2>. HIDE DEF d
  <2>. QED
    BY <1>1 DEF Discounted, Fields
<1>3. Worked(c, ask, e) = calculateCart(Discounted(d, ask))
  BY DEF Worked
<1>. HIDE DEF d
<1>4. calculateCart(Discounted(d, ask)).lines = Discounted(d, ask).lines
  BY <1>2 DEF calculateCart, Fields
<1>. QED
  BY <1>1, <1>2, <1>3, <1>4

\* What is written for a line is kept.
LEMMA CartsGrow ==
  ASSUME added \in Nat, wrote \in Seq(SUBSET Nat), Len(wrote) = added,
         added' \in Nat, added <= added',
         \A k \in 1..added : wrote[k] \subseteq wrote'[k]
  PROVE  /\ Rec \subseteq Rec' /\ Seq(Rec) \subseteq Seq(Rec')
         /\ \A c : IsCart(c) => IsCart(c)'
<1>1. Rec \subseteq Rec'
  BY DEF Rec, LineType
<1>2. Seq(Rec) \subseteq Seq(Rec')
  BY <1>1
<1>3. ASSUME NEW c, IsCart(c) PROVE IsCart(c)'
  <2>1. \A j \in DOMAIN c.lines : c.lines[j].id \in 1..added
    BY <1>3, LineFields
  <2>. QED
    BY <1>2, <1>3, <2>1 DEF IsCart
<1>. QED
  BY <1>1, <1>2, <1>3

-----------------------------------------------------------------------------
(* Saving: what happens to the list, by the kind of edit.                  *)

\* What a save makes of the list and of the histories: every quantity was
\* written for its line, every line is kept or taken, and the list keeps its
\* positions unless the version goes up.
Kept(stored, lines, version) ==
  /\ added' \in Nat /\ added <= added'
  /\ wrote' \in Seq(SUBSET Nat) /\ Len(wrote') = added'
  /\ \A k \in 1..added : wrote[k] \subseteq wrote'[k]
  /\ lines \in Seq(Rec')
  /\ \A j \in DOMAIN lines : lines[j].quantity \in wrote'[lines[j].id]
  /\ version \in Nat /\ stored.version <= version
  /\ version = stored.version =>
       /\ DOMAIN lines = DOMAIN stored.lines
       /\ \A j \in DOMAIN lines : lines[j].id = stored.lines[j].id
  /\ taken \subseteq taken'
  /\ \A j \in DOMAIN stored.lines :
       \/ stored.lines[j].id \in taken'
       \/ \E k \in DOMAIN lines : lines[k].id = stored.lines[j].id
  /\ \A id \in (added + 1)..added' : \E k \in DOMAIN lines : lines[k].id = id

LEMMA PushKeeps ==
  ASSUME NEW stored, IsCart(stored), NEW of \in Offers, NEW q \in Nat \ {0},
         added \in Nat, wrote \in Seq(SUBSET Nat), Len(wrote) = added,
         added' = added + 1, wrote' = Append(wrote, {q}), taken \subseteq taken'
  PROVE  Kept(stored, Append(stored.lines, [id |-> added + 1, of |-> of, quantity |-> q]),
              stored.version + 1)
<1> DEFINE l == [id |-> added + 1, of |-> of, quantity |-> q]
           lines == Append(stored.lines, l)
           n == Len(stored.lines)
<1>1. /\ wrote' \in Seq(SUBSET Nat) /\ Len(wrote') = added'
      /\ \A k \in 1..added : wrote'[k] = wrote[k]
      /\ wrote'[added + 1] = {q}
  <2>1. {q} \in SUBSET Nat
    OBVIOUS
  <2>. QED
    BY <2>1
<1>2. Rec \subseteq Rec' /\ l \in Rec'
  BY DEF Rec, LineType
<1>3. stored.lines \in Seq(Rec') /\ n \in Nat /\ DOMAIN stored.lines = 1..n
  <2>1. stored.lines \in Seq(Rec)
    BY DEF IsCart
  <2>. QED
    BY <1>2, <2>1
<1>. HIDE DEF l
<1>4. /\ lines \in Seq(Rec') /\ DOMAIN lines = 1..(n + 1) /\ lines[n + 1] = l
      /\ \A j \in 1..n : lines[j] = stored.lines[j]
  BY <1>2, <1>3
<1>5. l.id = added + 1 /\ l.quantity = q
  BY DEF l
<1>6. \A j \in 1..n : /\ stored.lines[j].id \in 1..added
                      /\ stored.lines[j].quantity \in wrote[stored.lines[j].id]
  BY <1>3, LineFields DEF IsCart
<1>. HIDE DEF lines, n
<1>7. \A j \in DOMAIN lines : lines[j].quantity \in wrote'[lines[j].id]
  BY <1>1, <1>3, <1>4, <1>5, <1>6
<1>8. /\ \A j \in 1..n : \E k \in DOMAIN lines : lines[k].id = stored.lines[j].id
      /\ \E k \in DOMAIN lines : lines[k].id = added + 1
  <2>1. 1..n \subseteq DOMAIN lines /\ n + 1 \in DOMAIN lines
    BY <1>3, <1>4
  <2>2. \A j \in 1..n : lines[j].id = stored.lines[j].id
    BY <1>4
  <2>. QED
    BY <1>4, <1>5, <2>1, <2>2
<1>9. stored.version \in Nat
  BY DEF IsCart
<1>10. /\ added' \in Nat /\ added <= added' /\ (added + 1)..added' = {added + 1}
       /\ \A k \in 1..added : wrote[k] \subseteq wrote'[k]
       /\ stored.version + 1 \in Nat /\ stored.version <= stored.version + 1
       /\ stored.version + 1 # stored.version
  BY <1>1, <1>9
<1>11. Kept(stored, lines, stored.version + 1)
  BY <1>1, <1>3, <1>4, <1>7, <1>8, <1>10 DEF Kept
<1>. QED
  BY <1>11 DEF lines, l

LEMMA NothingKeeps ==
  ASSUME NEW stored, IsCart(stored),
         added \in Nat, wrote \in Seq(SUBSET Nat), Len(wrote) = added,
         added' = added, wrote' = wrote, taken \subseteq taken'
  PROVE  Kept(stored, stored.lines, stored.version)
<1>1. Rec' = Rec /\ (added + 1)..added' = {}
  BY DEF Rec, LineType
<1>. QED
  BY <1>1 DEF Kept, IsCart

LEMMA PutKeeps ==
  ASSUME NEW stored, IsCart(stored), NEW copy, SameLines(copy, stored),
         NEW i \in DOMAIN copy.lines, NEW q \in Nat \ {0},
         added \in Nat, wrote \in Seq(SUBSET Nat), Len(wrote) = added, added' = added,
         wrote' = [wrote EXCEPT ![copy.lines[i].id] = @ \cup {q}],
         taken \subseteq taken'
  PROVE  Kept(stored, [stored.lines EXCEPT ![i].quantity = q], stored.version)
<1> DEFINE lines == [stored.lines EXCEPT ![i].quantity = q]
           id == stored.lines[i].id
<1>1. i \in DOMAIN stored.lines /\ copy.lines[i].id = id
  BY DEF SameLines
<1>2. stored.lines \in Seq(Rec) /\ stored.lines[i] \in Rec /\ id \in 1..added
  BY <1>1, LineFields DEF IsCart
<1>3. [stored.lines[i] EXCEPT !.quantity = q] \in Rec
      /\ [stored.lines[i] EXCEPT !.quantity = q].id = id
      /\ [stored.lines[i] EXCEPT !.quantity = q].quantity = q
  BY <1>2 DEF Rec, LineType
<1>4. /\ lines \in Seq(Rec) /\ DOMAIN lines = DOMAIN stored.lines
      /\ lines[i] = [stored.lines[i] EXCEPT !.quantity = q]
      /\ \A j \in DOMAIN lines \ {i} : lines[j] = stored.lines[j]
  <2>. HIDE DEF id
  <2>. QED
    BY <1>1, <1>2, <1>3
<1>5. /\ wrote' \in Seq(SUBSET Nat) /\ Len(wrote') = added'
      /\ wrote'[id] = wrote[id] \cup {q}
      /\ \A k \in 1..added \ {id} : wrote'[k] = wrote[k]
  <2>1. /\ wrote \in [1..added -> SUBSET Nat] /\ id \in 1..added
        /\ wrote' = [wrote EXCEPT ![id] = wrote[id] \cup {q}]
    BY <1>1, <1>2
  <2>. HIDE DEF id
  <2>2. wrote[id] \cup {q} \in SUBSET Nat
    BY <2>1
  <2>3. wrote' \in [1..added -> SUBSET Nat]
    BY <2>1, <2>2
  <2>. QED
    BY <2>1, <2>3
<1>6. \A j \in DOMAIN stored.lines :
        /\ stored.lines[j].id \in 1..added
        /\ stored.lines[j].quantity \in wrote[stored.lines[j].id]
  BY LineFields DEF IsCart
<1>7. Rec' = Rec /\ (added + 1)..added' = {} /\ stored.version \in Nat
  BY DEF Rec, LineType, IsCart
<1>. HIDE DEF lines, id
<1>8. \A k \in 1..added : wrote[k] \subseteq wrote'[k]
  BY <1>5
<1>9. \A j \in DOMAIN lines : lines[j].id = stored.lines[j].id
  BY <1>3, <1>4 DEF id
<1>10. \A j \in DOMAIN lines : lines[j].quantity \in wrote'[lines[j].id]
  <2>1. lines[i].quantity = q /\ lines[i].id = id
    BY <1>3, <1>4
  <2>. QED
    BY <1>4, <1>5, <1>6, <1>8, <2>1
<1>11. Kept(stored, lines, stored.version)
  BY <1>4, <1>5, <1>7, <1>8, <1>9, <1>10 DEF Kept
<1>. QED
  BY <1>11 DEF lines

\* A rewritten list has lines of the copy only; the others of the copy, which
\* are those stored, are taken.
LEMMA WholeKeeps ==
  ASSUME NEW stored, IsCart(stored), NEW copy, IsCart(copy), SameLines(copy, stored),
         NEW lines \in Seq(Rec),
         \A j \in DOMAIN lines : \E k \in DOMAIN copy.lines : lines[j] = copy.lines[k],
         added \in Nat, wrote \in Seq(SUBSET Nat), Len(wrote) = added,
         added' = added, wrote' = wrote,
         taken' = taken \cup ({copy.lines[j].id : j \in DOMAIN copy.lines}
                              \ {lines[j].id : j \in DOMAIN lines})
  PROVE  Kept(stored, lines, stored.version + 1)
<1>1. Rec' = Rec /\ (added + 1)..added' = {}
      /\ stored.version \in Nat /\ stored.version + 1 \in Nat
      /\ stored.version <= stored.version + 1 /\ stored.version + 1 # stored.version
  BY DEF Rec, LineType, IsCart
<1>2. \A j \in DOMAIN lines : lines[j].quantity \in wrote'[lines[j].id]
  BY DEF IsCart
<1>3. \A j \in DOMAIN stored.lines :
        \/ stored.lines[j].id \in taken'
        \/ \E k \in DOMAIN lines : lines[k].id = stored.lines[j].id
  BY DEF SameLines
<1>. QED
  BY <1>1, <1>2, <1>3 DEF Kept

-----------------------------------------------------------------------------
(* The steps.                                                              *)

\* What a save writes, by the kind of its edit.
LEMMA SaveWrites ==
  ASSUME CartInv, NEW r \in Requests, Save(r)
  PROVE  LET i == req[r].of
         IN  \E lines, version :
               /\ i \in DOMAIN carts /\ Kept(carts[i], lines, version)
               /\ carts'[i].lines = lines /\ carts'[i].version = version
               /\ DOMAIN carts'[i] = Fields
               /\ \E c : carts' = [carts EXCEPT ![i] = c]
<1> DEFINE i == req[r].of  copy == req[r].copy  ask == req[r].ask
           stored == carts[i]
<1>1. /\ i \in DOMAIN carts /\ IsCart(copy) /\ IsCart(stored) /\ IsAsk(ask)
      /\ copy.version = stored.version => SameLines(copy, stored)
  BY DEF CartInv, IsRequest, IsCopy, Save
<1>2. PICK e \in Edits(copy, ask) :
        LET new == Worked(copy, ask, e)
            ids(lines) == {lines[j].id : j \in DOMAIN lines}
        IN  /\ VersionHolds(stored, copy, e)
            /\ carts' = [carts EXCEPT ![i] = Written(@, copy, new, e)]
            /\ added' = IF e.kind = "push" THEN added + 1 ELSE added
            /\ wrote' = IF e.kind = "push" THEN Append(wrote, {ask.quantity})
                       ELSE IF e.kind = "put" /\ Changes(copy, e)
                       THEN [wrote EXCEPT ![copy.lines[e.at].id] = @ \cup {e.quantity}]
                       ELSE wrote
            /\ taken' = taken \cup (ids(copy.lines) \ ids(new.lines))
  BY DEF Save
<1> DEFINE new == Worked(copy, ask, e)
           lines == IF Changes(copy, e) THEN Edited(stored.lines, e) ELSE stored.lines
           version == IF Changes(copy, e) /\ e.kind \in {"push", "whole"}
                      THEN stored.version + 1 ELSE stored.version
<1>3. /\ carts'[i] = Written(stored, copy, new, e)
      /\ \E c : carts' = [carts EXCEPT ![i] = c]
  <2>1. carts' = [carts EXCEPT ![i] = Written(carts[i], copy, new, e)]
    BY <1>2
  <2>2. \E S : carts \in Seq(S)
    BY DEF CartInv
  <2>. QED
    BY <1>1, <2>1, <2>2
<1>4. carts'[i].lines = lines /\ carts'[i].version = version /\ DOMAIN carts'[i] = Fields
  BY <1>3 DEF Written, Fields
<1>5. /\ added \in Nat /\ wrote \in Seq(SUBSET Nat) /\ Len(wrote) = added
      /\ taken \subseteq taken'
      /\ copy.lines \in Seq(Rec)
      /\ new.lines = Edited(copy.lines, e)
  BY <1>1, <1>2, WorkedLines DEF CartInv, IsCart
<1>6. Kept(stored, lines, version)
  <2>1. CASE e = Push(ask) /\ ask.of \in Offers /\ ask.quantity \in Quantities
    <3> DEFINE l == [id |-> added + 1, of |-> ask.of, quantity |-> ask.quantity]
    <3>1. /\ e.kind = "push" /\ e.line = l
      BY <2>1 DEF Push, Line
    <3>2. Edited(copy.lines, e) = Append(copy.lines, l)
          /\ Edited(stored.lines, e) = Append(stored.lines, l)
      BY <3>1 DEF Edited
    <3>3. Append(copy.lines, l) # copy.lines
      <4>. HIDE DEF l
      <4>1. Len(Append(copy.lines, l)) = Len(copy.lines) + 1 /\ Len(copy.lines) \in Nat
        BY <1>5
      <4>. QED
        BY <4>1
    <3>4. lines = Append(stored.lines, l) /\ version = stored.version + 1
      BY <3>1, <3>2, <3>3 DEF Changes
    <3>5. added' = added + 1 /\ wrote' = Append(wrote, {ask.quantity})
      BY <1>2, <3>1
    <3>6. ask.quantity \in Nat \ {0}
      BY <2>1, CartAssumption
    <3>. HIDE DEF lines, version, stored, ask
    <3>. QED
      BY <1>1, <1>5, <2>1, <3>4, <3>5, <3>6, PushKeeps
  <2>2. CASE ~Changes(copy, e) /\ e.kind # "push"
    <3>1. lines = stored.lines /\ version = stored.version
          /\ added' = added /\ wrote' = wrote
      BY <1>2, <2>2
    <3>. HIDE DEF lines, version, stored
    <3>. QED
      BY <1>1, <1>5, <3>1, NothingKeeps
  <2>3. ASSUME NEW k \in DOMAIN copy.lines, NEW q \in Nat \ {0}, e = Put(k, q), Changes(copy, e)
        PROVE  Kept(stored, lines, version)
    <3>1. e.kind = "put" /\ e.at = k /\ e.quantity = q
      BY <2>3 DEF Put
    <3>2. SameLines(copy, stored)
      BY <1>1, <1>2, <2>3, <3>1 DEF VersionHolds
    <3>3. lines = [stored.lines EXCEPT ![k].quantity = q] /\ version = stored.version
      BY <2>3, <3>1 DEF Edited
    <3>4. added' = added /\ wrote' = [wrote EXCEPT ![copy.lines[k].id] = @ \cup {q}]
      BY <1>2, <2>3, <3>1
    <3>. HIDE DEF lines, version, stored, copy
    <3>. QED
      BY <1>1, <1>5, <3>2, <3>3, <3>4, PutKeeps
  <2>4. ASSUME NEW ls \in Seq(Rec), e = Whole(ls), Changes(copy, e),
               \A j \in DOMAIN ls : \E k \in DOMAIN copy.lines : ls[j] = copy.lines[k]
        PROVE  Kept(stored, lines, version)
    <3>1. e.kind = "whole" /\ e.lines = ls
      BY <2>4 DEF Whole
    <3>2. SameLines(copy, stored)
      BY <1>1, <1>2, <2>4, <3>1 DEF VersionHolds
    <3>3. lines = ls /\ version = stored.version + 1 /\ new.lines = ls
      BY <1>5, <2>4, <3>1 DEF Edited
    <3>4. /\ added' = added /\ wrote' = wrote
          /\ taken' = taken \cup ({copy.lines[j].id : j \in DOMAIN copy.lines}
                                  \ {ls[j].id : j \in DOMAIN ls})
      BY <1>2, <3>1, <3>3
    <3>. HIDE DEF lines, version, stored, copy, new
    <3>5. Kept(stored, ls, stored.version + 1)
      BY <1>1, <1>5, <2>4, <3>2, <3>4, WholeKeeps
    <3>. QED
      BY <3>3, <3>5
  <2>5. ASSUME NEW k \in DOMAIN copy.lines, e = Whole(RemoveAt(copy.lines, k)), Changes(copy, e)
        PROVE  Kept(stored, lines, version)
    <3>1. k \in 1..Len(copy.lines)
      BY <1>5
    <3>2. /\ RemoveAt(copy.lines, k) \in Seq(Rec)
          /\ \A j \in DOMAIN RemoveAt(copy.lines, k) :
               \E m \in DOMAIN copy.lines : RemoveAt(copy.lines, k)[j] = copy.lines[m]
      BY <1>5, <3>1, RemoveAtType
    <3>. HIDE DEF lines, version, stored, copy
    <3>. QED
      BY <2>4, <2>5, <3>2
  <2>6. CASE e = Whole(<<>>) /\ Changes(copy, e)
    <3>1. <<>> \in Seq(Rec) /\ DOMAIN <<>> = {}
      OBVIOUS
    <3>. HIDE DEF lines, version, stored, copy
    <3>. QED
      BY <2>4, <2>6, <3>1
  <2>7. CASE e = Leave
    BY <2>2, <2>7 DEF Leave, Changes, Edited
  <2>. HIDE DEF lines, version, stored, copy, ask
  <2>8. e.kind = "push" => e = Push(ask) /\ ask.of \in Offers /\ ask.quantity \in Quantities
    BY <1>1, <1>2, EditCases DEF Push, Put, Whole, Leave
  <2>. QED
    BY <1>1, <1>2, <2>1, <2>2, <2>3, <2>5, <2>6, <2>7, <2>8, EditCases
<1>. QED
  BY <1>1, <1>3, <1>4, <1>6

\* Versions and histories go up, and a list keeps its positions meanwhile.
Grows ==
  /\ added' \in Nat /\ added <= added'
  /\ \A k \in 1..added : wrote[k] \subseteq wrote'[k]
  /\ DOMAIN carts \subseteq DOMAIN carts'
  /\ \A i \in DOMAIN carts :
       /\ carts'[i].version \in Nat /\ carts[i].version <= carts'[i].version
       /\ carts'[i].version = carts[i].version => SameLines(carts[i], carts'[i])

\* A request stays one while others go on.
LEMMA RequestsLast ==
  ASSUME CartInv, Grows
  PROVE  \A q : IsRequest(q) => IsRequest(q)'
<1> SUFFICES ASSUME NEW q, IsRequest(q) PROVE IsRequest(q)'
  OBVIOUS
<1>1. \A c : IsCart(c) => IsCart(c)'
  BY CartsGrow DEF CartInv, Grows
<1>2. ASSUME IsCopy(q) PROVE IsCopy(q)'
  <2>1. /\ {"ask", "of", "copy"} \subseteq DOMAIN q /\ q.of \in DOMAIN carts
        /\ IsCart(q.copy) /\ IsCart(carts[q.of])
        /\ q.copy.version <= carts[q.of].version
        /\ q.copy.version = carts[q.of].version => SameLines(q.copy, carts[q.of])
    BY <1>2 DEF IsCopy, CartInv
  <2>2. /\ q.of \in DOMAIN carts' /\ IsCart(q.copy)'
        /\ carts'[q.of].version \in Nat /\ carts[q.of].version <= carts'[q.of].version
        /\ carts'[q.of].version = carts[q.of].version
             => SameLines(carts[q.of], carts'[q.of])
    BY <1>1, <2>1 DEF Grows
  <2>3. q.copy.version \in Nat /\ carts[q.of].version \in Nat
    BY <2>1 DEF IsCart
  <2>4. q.copy.version <= carts'[q.of].version
    BY <2>1, <2>2, <2>3
  <2>5. q.copy.version = carts'[q.of].version => SameLines(q.copy, carts'[q.of])
    <3>1. ASSUME q.copy.version = carts'[q.of].version
          PROVE  /\ q.copy.version = carts[q.of].version
                 /\ carts'[q.of].version = carts[q.of].version
      BY <3>1, <2>1, <2>2, <2>3
    <3>. QED
      BY <2>1, <2>2, <3>1 DEF SameLines
  <2>. QED
    BY <2>1, <2>2, <2>4, <2>5 DEF IsCopy
<1>. QED
  BY <1>2 DEF IsRequest

\* A step that changes requests only.
LEMMA RequestStep ==
  ASSUME CartInv, UNCHANGED <<carts, added, wrote, taken>>,
         DOMAIN req' = Requests, \A r \in Requests : IsRequest(req'[r])
  PROVE  CartInv'
<1>1. Grows
  <2>1. \A i \in DOMAIN carts : carts[i].version \in Nat
    BY DEF CartInv, IsCart
  <2>. QED
    BY <2>1 DEF CartInv, Grows, SameLines
<1>2. \A r \in Requests : IsRequest(req[r])'
  BY <1>1, RequestsLast
<1>3. \A i \in DOMAIN carts' : IsCart(carts[i])'
  BY <1>1, CartsGrow DEF CartInv, Grows
<1>4. NoLineLost'
  BY DEF CartInv, NoLineLost, LineAt, Positions
<1>. QED
  BY <1>2, <1>3, <1>4 DEF CartInv

\* One request moves on.
LEMMA OneMoves ==
  ASSUME CartInv, UNCHANGED <<carts, added, wrote, taken>>, NEW r \in Requests,
         NEW q, req' = [req EXCEPT ![r] = q], IsRequest(q)
  PROVE  CartInv'
<1>1. DOMAIN req' = Requests /\ \A s \in Requests : req'[s] = IF s = r THEN q ELSE req[s]
  BY DEF CartInv
<1>2. \A s \in Requests : IsRequest(req'[s])
  BY <1>1 DEF CartInv
<1>. QED
  BY <1>1, <1>2, RequestStep

LEMMA IdleIsRequest == IsRequest(Idle)
  BY DEF IsRequest, Idle

\* q is what request r becomes with cart c, number i.
Reads(q, r, i, c) ==
  /\ With(r, i, c) = [req EXCEPT ![r] = q]
  /\ "at" \in DOMAIN q
  /\ \/ q.at = "answer"
     \/ /\ q.at = "have" /\ {"ask", "of", "copy"} \subseteq DOMAIN q
        /\ q.ask = req[r].ask /\ q.of = i /\ q.copy = c

LEMMA WithReads ==
  ASSUME NEW r, NEW i, NEW c
  PROVE  \E q : Reads(q, r, i, c)
<1>1. CASE req[r].ask.do = "load"
  <2> DEFINE q == [at |-> "answer", alone |-> req[r].alone, cart |-> Visible(c)]
  <2>1. With(r, i, c) = [req EXCEPT ![r] = q]
    BY <1>1 DEF With
  <2>2. "at" \in DOMAIN q /\ q.at = "answer"
    OBVIOUS
  <2>. HIDE DEF q
  <2>. QED
    BY <2>1, <2>2 DEF Reads
<1>2. CASE req[r].ask.do # "load"
  <2> DEFINE q == [at |-> "have", ask |-> req[r].ask, alone |-> req[r].alone,
                   of |-> i, copy |-> c]
  <2>1. With(r, i, c) = [req EXCEPT ![r] = q]
    BY <1>2 DEF With
  <2>2. /\ "at" \in DOMAIN q /\ q.at = "have" /\ {"ask", "of", "copy"} \subseteq DOMAIN q
        /\ q.ask = req[r].ask /\ q.of = i /\ q.copy = c
    OBVIOUS
  <2>. HIDE DEF q
  <2>. QED
    BY <2>1, <2>2 DEF Reads
<1>. QED
  BY <1>1, <1>2

LEMMA FindKeeps ==
  ASSUME CartInv, NEW r \in Requests, Find(r)
  PROVE  CartInv'
<1>1. /\ req[r].at = "sent" /\ UNCHANGED <<carts, added, wrote, taken>>
      /\ r \in DOMAIN req /\ IsRequest(req[r]) /\ IsAsk(req[r].ask)
  BY DEF Find, CartInv, IsRequest
<1>2. CASE Found = {}
  <2> DEFINE q == [req[r] EXCEPT !.at = "create"]
  <2>1. req' = [req EXCEPT ![r] = q]
    BY <1>2 DEF Find
  <2>2. IsRequest(q)
    BY <1>1 DEF IsRequest
  <2>. HIDE DEF q
  <2>. QED
    BY <1>1, <2>1, <2>2, OneMoves
<1>3. CASE Found # {}
  <2>1. PICK i \in Found : req' = With(r, i, carts[i])
    BY <1>3 DEF Find
  <2>2. i \in DOMAIN carts
    <3>1. carts # <<>> /\ i = 1
      BY <2>1 DEF Found
    <3>. QED
      BY <3>1 DEF CartInv
  <2>3. PICK q : Reads(q, r, i, carts[i])
    BY WithReads
  <2>4. IsCart(carts[i]) /\ carts[i].version \in Nat
    BY <2>2 DEF CartInv, IsCart
  <2>5. IsRequest(q)
    BY <1>1, <2>2, <2>3, <2>4 DEF Reads, IsRequest, IsCopy, SameLines
  <2>. QED
    BY <1>1, <2>1, <2>3, <2>5, OneMoves DEF Reads
<1>. QED
  BY <1>2, <1>3

LEMMA CreateCartKeeps ==
  ASSUME CartInv, NEW r \in Requests, CreateCart(r)
  PROVE  CartInv'
<1> DEFINE n == Len(carts)
<1>1. /\ req[r].at = "create" /\ UNCHANGED <<added, wrote, taken>>
      /\ r \in DOMAIN req /\ IsRequest(req[r]) /\ IsAsk(req[r].ask)
      /\ carts' = Append(carts, NewCart) /\ req' = With(r, n + 1, NewCart)
  BY DEF CreateCart, CartInv, IsRequest
<1>2. /\ \E S : carts' \in Seq(S)
      /\ n \in Nat /\ DOMAIN carts = 1..n /\ DOMAIN carts' = 1..(n + 1)
      /\ carts'[n + 1] = NewCart /\ \A i \in 1..n : carts'[i] = carts[i]
  <2>1. PICK S : carts \in Seq(S)
    BY DEF CartInv
  <2>2. carts \in Seq(S \cup {NewCart})
    BY <2>1
  <2>3. carts' \in Seq(S \cup {NewCart})
    BY <1>1, <2>2
  <2>. HIDE DEF n
  <2>. QED
    BY <1>1, <2>2, <2>3 DEF n
<1>3. IsCart(NewCart) /\ NewCart.version = 0 /\ NewCart.lines = <<>>
  <2>1. <<>> \in Seq(Rec) /\ DOMAIN <<>> = {}
    OBVIOUS
  <2>. QED
    BY <2>1 DEF IsCart, NewCart, Fields
<1>. HIDE DEF n
<1>4. Grows
  <2>1. \A i \in DOMAIN carts : carts[i].version \in Nat
    BY DEF CartInv, IsCart
  <2>. QED
    BY <1>1, <1>2, <2>1 DEF CartInv, Grows, SameLines
<1>5. \A c : IsCart(c) => IsCart(c)'
  BY <1>4, CartsGrow DEF CartInv, Grows
<1>6. \A i \in DOMAIN carts' : IsCart(carts[i])'
  BY <1>2, <1>3, <1>5 DEF CartInv
<1>7. DOMAIN req' = Requests /\ \A s \in Requests : IsRequest(req[s])'
  <2>1. PICK m : m = n + 1
    OBVIOUS
  <2>2. PICK q : Reads(q, r, m, NewCart)
    BY WithReads
  <2>3. /\ DOMAIN req' = Requests
        /\ \A s \in Requests : req'[s] = IF s = r THEN q ELSE req[s]
    BY <1>1, <2>1, <2>2 DEF CartInv, Reads
  <2>4. IsRequest(q)'
    BY <1>1, <1>2, <1>3, <1>5, <2>1, <2>2 DEF Reads, IsRequest, IsCopy, SameLines
  <2>5. \A p : IsRequest(p) => IsRequest(p)'
    BY <1>4, RequestsLast
  <2>. QED
    BY <2>3, <2>4, <2>5 DEF CartInv
<1>8. NoLineLost'
  <2>1. \A id \in (1..added) \ taken : \E i \in 1..n : LineAt(carts[i], id) # {}
    BY <1>2 DEF CartInv, NoLineLost
  <2>2. \A i \in 1..n : carts'[i] = carts[i] /\ i \in DOMAIN carts'
    BY <1>2
  <2>3. \A id \in (1..added') \ taken' : \E i \in DOMAIN carts' : LineAt(carts'[i], id) # {}
    BY <1>1, <2>1, <2>2
  <2>. QED
    BY <2>3 DEF NoLineLost, LineAt, Positions
<1>. QED
  BY <1>1, <1>2, <1>4, <1>6, <1>7, <1>8 DEF CartInv

LEMMA OtherKeeps ==
  ASSUME CartInv, NEW r \in Requests, Refuse(r) \/ Show(r) \/ LoseAnswer(r)
  PROVE  CartInv'
<1>1. req' = [req EXCEPT ![r] = Idle] /\ UNCHANGED <<carts, added, wrote, taken>>
  BY DEF Refuse, Show, LoseAnswer
<1>. QED
  BY <1>1, IdleIsRequest, OneMoves

LEMMA PlaceOrderKeeps ==
  ASSUME CartInv, PlaceOrder \/ UNCHANGED vars
  PROVE  CartInv'
<1>1. UNCHANGED <<carts, added, wrote, taken, req>>
  BY DEF PlaceOrder, vars
<1>2. DOMAIN req' = Requests /\ \A r \in Requests : IsRequest(req'[r])
  BY <1>1 DEF CartInv
<1>. QED
  BY <1>1, <1>2, RequestStep

LEMMA SendKeeps ==
  ASSUME CartInv, NEW r \in Requests, Send(r)
  PROVE  CartInv'
<1>1. PICK ask \in Asks :
        req' = [s \in Requests |->
                  IF s = r THEN [at |-> "sent", ask |-> ask, alone |-> Quiet]
                  ELSE IF Active(s) THEN [req[s] EXCEPT !.alone = FALSE]
                  ELSE req[s]]
  BY DEF Send
<1>2. UNCHANGED <<carts, added, wrote, taken>>
  BY DEF Send
<1>3. IsAsk(ask)
  <2>1. CASE ask \in [do : {"add"}, of : Offers, quantity : Quantities]
    BY <2>1 DEF IsAsk
  <2>2. ASSUME NEW ids, ask \in [do : {"update"}, id : ids, quantity : Quantities]
        PROVE  IsAsk(ask)
    BY <2>2 DEF IsAsk
  <2>3. CASE ask.do \notin {"add", "update"}
    BY <2>3 DEF IsAsk
  <2>4. ASSUME ask.do \in {"add", "update"}
        PROVE  \/ ask \in [do : {"add"}, of : Offers, quantity : Quantities]
               \/ \E ids : ask \in [do : {"update"}, id : ids, quantity : Quantities]
    <3> DEFINE ids == {shown.lines[i].id : i \in DOMAIN shown.lines}
    <3>1. /\ \A a \in {[do |-> d] : d \in {"load", "clear", "coupon"}} :
                a.do \notin {"add", "update"}
          /\ \A a \in {[do |-> "dropCoupon"] : x \in {y \in {1} : shown.coupon}} :
                a.do \notin {"add", "update"}
      OBVIOUS
    <3>2. \A a \in [do : {"remove"}, id : ids] : a.do \notin {"add", "update"}
      OBVIOUS
    <3>. HIDE DEF ids
    <3>. QED
      BY <2>4, <3>1, <3>2 DEF Asks, ids
  <2>. QED
    BY <2>1, <2>2, <2>3, <2>4
<1>4. ASSUME NEW s \in Requests PROVE IsRequest(req'[s])
  <2>1. IsRequest(req[s])
    BY DEF CartInv
  <2>2. CASE s = r
    <3> DEFINE q == [at |-> "sent", ask |-> ask, alone |-> Quiet]
    <3>1. req'[s] = q
      BY <1>1, <2>2
    <3>2. IsRequest(q)
      BY <1>3 DEF IsRequest
    <3>. QED
      BY <3>1, <3>2
  <2>3. CASE s # r /\ Active(s)
    <3> DEFINE p == req[s]  q == [p EXCEPT !.alone = FALSE]
    <3>1. req'[s] = q
      BY <1>1, <2>3
    <3>2. DOMAIN q = DOMAIN p /\ \A x \in DOMAIN p \ {"alone"} : q[x] = p[x]
      OBVIOUS
    <3>3. IsRequest(p)
      BY <2>1
    <3>. HIDE DEF q, p
    <3>4. "at" \in DOMAIN q /\ q.at = p.at
      BY <3>2, <3>3 DEF IsRequest
    <3>5. q.at \in {"sent", "create", "have"} => "ask" \in DOMAIN q /\ IsAsk(q.ask)
      BY <3>2, <3>3, <3>4 DEF IsRequest
    <3>6. q.at = "have" => IsCopy(q)
      BY <3>2, <3>3, <3>4 DEF IsRequest, IsCopy
    <3>7. IsRequest(q)
      BY <3>4, <3>5, <3>6 DEF IsRequest
    <3>. QED
      BY <3>1, <3>7
  <2>4. CASE s # r /\ ~Active(s)
    BY <1>1, <2>1, <2>4
  <2>. QED
    BY <2>2, <2>3, <2>4
<1>. QED
  BY <1>1, <1>2, <1>4, RequestStep

LEMMA SaveKeeps ==
  ASSUME CartInv, NEW r \in Requests, Save(r)
  PROVE  CartInv'
<1>1. PICK k, lines, version, c :
        /\ k \in DOMAIN carts /\ Kept(carts[k], lines, version)
        /\ carts'[k].lines = lines /\ carts'[k].version = version
        /\ DOMAIN carts'[k] = Fields
        /\ carts' = [carts EXCEPT ![k] = c]
  BY SaveWrites
<1>2. /\ \E S : carts' \in Seq(S)
      /\ DOMAIN carts' = DOMAIN carts
      /\ \A i \in DOMAIN carts \ {k} : carts'[i] = carts[i]
  <2>1. PICK S : carts \in Seq(S)
    BY DEF CartInv
  <2>2. carts \in Seq(S \cup {c}) /\ c \in S \cup {c}
    BY <2>1
  <2>3. carts' \in Seq(S \cup {c})
    BY <1>1, <2>2
  <2>. QED
    BY <1>1, <2>1, <2>3
<1>3. Grows
  <2>1. \A i \in DOMAIN carts : carts[i].version \in Nat
    BY DEF CartInv, IsCart
  <2>2. /\ carts'[k].version \in Nat /\ carts[k].version <= carts'[k].version
        /\ carts'[k].version = carts[k].version => SameLines(carts[k], carts'[k])
    BY <1>1 DEF Kept, SameLines
  <2>3. \A i \in DOMAIN carts \ {k} :
          /\ carts'[i].version \in Nat /\ carts[i].version <= carts'[i].version
          /\ SameLines(carts[i], carts'[i])
    BY <1>2, <2>1 DEF SameLines
  <2>4. /\ added' \in Nat /\ added <= added'
        /\ \A m \in 1..added : wrote[m] \subseteq wrote'[m]
    BY <1>1 DEF Kept
  <2>. QED
    BY <1>2, <2>2, <2>3, <2>4 DEF Grows
<1>4. \A i \in DOMAIN carts' : IsCart(carts[i])'
  <2>1. IsCart(carts[k])'
    BY <1>1 DEF Kept, IsCart
  <2>2. \A d : IsCart(d) => IsCart(d)'
    BY <1>3, CartsGrow DEF CartInv, Grows
  <2>3. \A i \in DOMAIN carts \ {k} : IsCart(carts[i])'
    BY <1>2, <2>2 DEF CartInv
  <2>. QED
    BY <1>2, <2>1, <2>3
<1>5. DOMAIN req' = Requests /\ \A s \in Requests : IsRequest(req[s])'
  <2>1. PICK q : req' = [req EXCEPT ![r] = q] /\ "at" \in DOMAIN q /\ q.at \in {"idle", "answer"}
    <3>1. PICK new : req' = [req EXCEPT ![r] =
                               IF req[r].ask.do = "clear" THEN Idle
                               ELSE [at |-> "answer", alone |-> @.alone, cart |-> Visible(new)]]
      BY DEF Save
    <3> DEFINE q == [at |-> "answer", alone |-> req[r].alone, cart |-> Visible(new)]
    <3>2. r \in DOMAIN req
      BY DEF CartInv
    <3>3. /\ "at" \in DOMAIN q /\ q.at = "answer"
          /\ "at" \in DOMAIN Idle /\ Idle.at = "idle"
      BY DEF Idle
    <3>4. req' = [req EXCEPT ![r] = Idle] \/ req' = [req EXCEPT ![r] = q]
      BY <3>1, <3>2
    <3>. HIDE DEF q
    <3>. QED
      BY <3>3, <3>4
  <2>2. /\ DOMAIN req' = Requests
        /\ \A s \in Requests : req'[s] = IF s = r THEN q ELSE req[s]
    BY <2>1 DEF CartInv
  <2>3. IsRequest(q)'
    BY <2>1 DEF IsRequest
  <2>4. \A p : IsRequest(p) => IsRequest(p)'
    BY <1>3, RequestsLast
  <2>. QED
    BY <2>2, <2>3, <2>4 DEF CartInv
<1>6. NoLineLost'
  <2>1. SUFFICES ASSUME NEW id \in (1..added') \ taken'
                 PROVE  \E i \in DOMAIN carts' : \E j \in DOMAIN carts'[i].lines :
                          carts'[i].lines[j].id = id
    BY DEF NoLineLost, LineAt, Positions
  <2>2. CASE id \in 1..added
    <3>1. id \notin taken
      BY <1>1 DEF Kept
    <3>2. PICK i \in DOMAIN carts : \E j \in DOMAIN carts[i].lines : carts[i].lines[j].id = id
      BY <2>2, <3>1 DEF CartInv, NoLineLost, LineAt, Positions
    <3>3. CASE i = k
      <4>1. PICK j \in DOMAIN carts[k].lines : carts[k].lines[j].id = id
        BY <3>2, <3>3
      <4>2. \/ carts[k].lines[j].id \in taken'
            \/ \E m \in DOMAIN lines : lines[m].id = carts[k].lines[j].id
        BY <1>1 DEF Kept
      <4>3. \E m \in DOMAIN lines : lines[m].id = id
        BY <2>1, <4>1, <4>2
      <4>. QED
        BY <1>1, <1>2, <4>3
    <3>4. CASE i # k
      BY <1>2, <3>2, <3>4
    <3>. QED
      BY <3>3, <3>4
  <2>3. CASE id \notin 1..added
    <3>1. id \in (added + 1)..added'
      BY <2>3, <1>1 DEF CartInv, Kept
    <3>. QED
      BY <1>1, <1>2, <3>1 DEF Kept
  <2>. QED
    BY <2>2, <2>3
<1>7. added' \in Nat /\ wrote' \in Seq(SUBSET Nat) /\ Len(wrote') = added'
  BY <1>1 DEF Kept
<1>. QED
  BY <1>2, <1>4, <1>5, <1>6, <1>7 DEF CartInv

LEMMA InitCart == Init => CartInv
<1> SUFFICES ASSUME Init PROVE CartInv
  OBVIOUS
<1>1. carts = <<>> /\ added = 0 /\ wrote = <<>> /\ req = [r \in Requests |-> Idle]
  BY DEF Init
<1>2. <<>> \in Seq({}) /\ <<>> \in Seq(SUBSET Nat) /\ Len(<<>>) = 0 /\ DOMAIN <<>> = {}
  OBVIOUS
<1>3. NoLineLost
  BY <1>1 DEF NoLineLost
<1>4. \A r \in Requests : IsRequest(req[r])
  BY <1>1, IdleIsRequest
<1>. QED
  BY <1>1, <1>2, <1>3, <1>4 DEF CartInv

LEMMA CartHolds == Spec => []CartInv
<1>1. Init => CartInv
  BY InitCart
<1>2. CartInv /\ [Next]_vars => CartInv'
  <2> SUFFICES ASSUME CartInv, [Next]_vars PROVE CartInv'
    OBVIOUS
  <2>1. CASE \E r \in Requests : Send(r)
    BY <2>1, SendKeeps
  <2>2. CASE \E r \in Requests : Find(r)
    BY <2>2, FindKeeps
  <2>3. CASE \E r \in Requests : CreateCart(r)
    BY <2>3, CreateCartKeeps
  <2>4. CASE \E r \in Requests : Save(r)
    BY <2>4, SaveKeeps
  <2>5. CASE \E r \in Requests : Refuse(r) \/ Show(r) \/ LoseAnswer(r)
    BY <2>5, OtherKeeps
  <2>6. CASE PlaceOrder \/ UNCHANGED vars
    BY <2>6, PlaceOrderKeeps
  <2>. QED
    BY <2>1, <2>2, <2>3, <2>4, <2>5, <2>6 DEF Next
<1>. QED
  BY <1>1, <1>2, PTL DEF Spec

(* No line is lost to another request: a rewritten list (removeItem,       *)
(* clearCart) never overwrites a line pushed (addItem) after it was read.  *)
THEOREM LinesKept == Spec => []NoLineLost
<1>1. CartInv => NoLineLost
  BY DEF CartInv
<1>. QED
  BY <1>1, CartHolds, PTL

(* A quantity set at a position (addItem, updateItemQuantity) is written   *)
(* to the line it was meant for, or the save fails.                        *)
THEOREM QuantitiesHit == Spec => []QuantityHitsItsLine
<1>1. CartInv => QuantityHitsItsLine
  BY DEF CartInv, IsCart, QuantityHitsItsLine, Positions
<1>. QED
  BY <1>1, CartHolds, PTL

-----------------------------------------------------------------------------
(* The cart the page shows.  A request that runs alone works on the stored *)
(* cart itself and answers with what it stores.  The page has the stored   *)
(* cart as long as it shows the answer of such a request and no request    *)
(* has made another.                                                       *)

\* The sums of a cart are those of its lines.
Right(c) == c.subtotal = SumOf(c.lines) /\ c.total = Total(c)

\* What a request that has run alone has seen of the stored carts.
Sees(q, stored) ==
  /\ q.at = "create" => stored = <<>>
  /\ q.at = "have" => q.of = 1 /\ stored # <<>> /\ q.copy = stored[1]
  /\ q.at = "answer" => stored # <<>> /\ q.cart = Visible(stored[1])

AloneInv ==
  \A r \in Requests : Active(r) =>
    /\ "alone" \in DOMAIN req[r] /\ req[r].alone \in BOOLEAN
    /\ req[r].alone => Sees(req[r], carts) /\ \A s \in Requests \ {r} : ~Active(s)

SumsInv == mixed \/ carts = <<>> \/ Right(carts[1])

SeenInv ==
  seen => /\ carts # <<>>
          /\ (\A r \in Requests : req[r].at # "answer") => shown = Visible(carts[1])

RightInv == CartInv /\ AloneInv /\ SumsInv /\ SeenInv

LEMMA CalculatedRight ==
  ASSUME NEW d, Fields \subseteq DOMAIN d
  PROVE  Right(calculateCart(d))
<1> DEFINE n == calculateCart(d)
<1>1. /\ n.lines = d.lines /\ n.coupon = d.coupon /\ n.discount = d.discount
      /\ n.subtotal = SumOf(d.lines) /\ n.total = Total(d)
  BY DEF calculateCart, Fields
<1>2. Total(n) = Total(d)
  <2>. HIDE DEF n
  <2>. QED
    BY <1>1 DEF Total
<1>. HIDE DEF n
<1>3. Right(n)
  BY <1>1, <1>2 DEF Right
<1>. QED
  BY <1>3 DEF n

LEMMA WorkedRight ==
  ASSUME NEW c, IsCart(c), NEW ask, NEW e
  PROVE  Right(Worked(c, ask, e))
<1> DEFINE d == [c EXCEPT !.lines = Edited(c.lines, e)]
<1>1. DOMAIN d = Fields
  BY DEF IsCart
<1>. HIDE DEF d
<1>2. Fields \subseteq DOMAIN Discounted(d, ask)
  BY <1>1 DEF Discounted
<1>3. Right(calculateCart(Discounted(d, ask)))
  BY <1>2, CalculatedRight
<1>. QED
  BY <1>3 DEF Worked, d

\* A cart that is still the copy becomes what the request made of the copy.
LEMMA WrittenAlone ==
  ASSUME NEW c, IsCart(c), NEW ask, NEW e
  PROVE  /\ Visible(Written(c, c, Worked(c, ask, e), e)) = Visible(Worked(c, ask, e))
         /\ Right(Written(c, c, Worked(c, ask, e), e))
<1> DEFINE new == Worked(c, ask, e)  w == Written(c, c, new, e)
<1>1. new.lines = Edited(c.lines, e) /\ Right(new)
  BY WorkedLines, WorkedRight
<1>. HIDE DEF new
<1>2. /\ w.lines = new.lines /\ w.subtotal = new.subtotal /\ w.discount = new.discount
      /\ w.total = new.total /\ w.coupon = new.coupon
  BY <1>1 DEF Written, Changes
<1>. HIDE DEF w
<1>3. Visible(w) = Visible(new) /\ Right(w)
  BY <1>1, <1>2 DEF Visible, Right, Total
<1>. QED
  BY <1>3 DEF w, new

LEMMA NoLines == SumOf(<<>>) = 0
<1> DEFINE f == [i \in DOMAIN <<>> |-> Price[<<>>[i].of] * <<>>[i].quantity]
<1>1. DOMAIN f = {}
  OBVIOUS
<1>. HIDE DEF f
<1>2. SumFunction(f) = 0
  BY <1>1, SumEmpty DEF SumFunction
<1>. QED
  BY <1>2 DEF SumOf, f

LEMMA NewCartRight == Right(NewCart)
  BY NoLines DEF NewCart, Right, Total

\* One request moves on: no other one runs alone, and this one has seen what
\* it had to.
LEMMA AloneMoves ==
  ASSUME CartInv, AloneInv, NEW r \in Requests, Active(r), NEW q, req' = [req EXCEPT ![r] = q],
         "at" \in DOMAIN q,
         q.at # "idle" => /\ "alone" \in DOMAIN q /\ q.alone = req[r].alone
                          /\ req[r].alone => Sees(q, carts')
  PROVE  AloneInv'
<1>1. DOMAIN req = Requests /\ \A s \in Requests : req'[s] = IF s = r THEN q ELSE req[s]
  BY DEF CartInv
<1>2. ASSUME NEW s \in Requests, Active(s)'
      PROVE  /\ "alone" \in DOMAIN req'[s] /\ req'[s].alone \in BOOLEAN
             /\ req'[s].alone => Sees(req'[s], carts') /\ \A p \in Requests \ {s} : ~Active(p)'
  <2>1. CASE s = r
    BY <1>1, <1>2, <2>1 DEF AloneInv, Active
  <2>2. CASE s # r
    BY <1>1, <1>2, <2>2 DEF AloneInv, Active
  <2>. QED
    BY <2>1, <2>2
<1>. QED
  BY <1>2 DEF AloneInv

\* What a request becomes when it has read cart i.
LEMMA WithSees ==
  ASSUME NEW r, NEW i, NEW c
  PROVE  \E q : /\ With(r, i, c) = [req EXCEPT ![r] = q]
                /\ {"at", "alone"} \subseteq DOMAIN q /\ q.alone = req[r].alone
                /\ \/ q.at = "answer" /\ "cart" \in DOMAIN q /\ q.cart = Visible(c)
                   \/ q.at = "have" /\ q.of = i /\ q.copy = c
<1>1. CASE req[r].ask.do = "load"
  <2> DEFINE q == [at |-> "answer", alone |-> req[r].alone, cart |-> Visible(c)]
  <2>1. With(r, i, c) = [req EXCEPT ![r] = q]
    BY <1>1 DEF With
  <2>2. /\ {"at", "alone"} \subseteq DOMAIN q /\ q.alone = req[r].alone
        /\ q.at = "answer" /\ "cart" \in DOMAIN q /\ q.cart = Visible(c)
    OBVIOUS
  <2>. HIDE DEF q
  <2>. QED
    BY <2>1, <2>2
<1>2. CASE req[r].ask.do # "load"
  <2> DEFINE q == [at |-> "have", ask |-> req[r].ask, alone |-> req[r].alone,
                   of |-> i, copy |-> c]
  <2>1. With(r, i, c) = [req EXCEPT ![r] = q]
    BY <1>2 DEF With
  <2>2. /\ {"at", "alone"} \subseteq DOMAIN q /\ q.alone = req[r].alone
        /\ q.at = "have" /\ q.of = i /\ q.copy = c
    OBVIOUS
  <2>. HIDE DEF q
  <2>. QED
    BY <2>1, <2>2
<1>. QED
  BY <1>1, <1>2

LEMMA FindRight ==
  ASSUME RightInv, NEW r \in Requests, Find(r)
  PROVE  AloneInv' /\ SumsInv' /\ SeenInv'
<1>0. /\ CartInv /\ AloneInv /\ Active(r) /\ req[r].at = "sent" /\ DOMAIN req = Requests
      /\ "at" \in DOMAIN req[r] /\ "alone" \in DOMAIN req[r]
      /\ UNCHANGED <<carts, shown, mixed, seen>>
  BY DEF RightInv, CartInv, AloneInv, Active, Find, IsRequest
<1>1. PICK q : /\ req' = [req EXCEPT ![r] = q]
               /\ {"at", "alone"} \subseteq DOMAIN q /\ q.alone = req[r].alone
               /\ Sees(q, carts)
  <2>1. CASE Found = {}
    <3> DEFINE q == [req[r] EXCEPT !.at = "create"]
    <3>1. req' = [req EXCEPT ![r] = q]
      BY <2>1 DEF Find
    <3>2. {"at", "alone"} \subseteq DOMAIN q /\ q.alone = req[r].alone /\ q.at = "create"
      BY <1>0
    <3>3. carts = <<>>
      BY <2>1 DEF Found
    <3>. HIDE DEF q
    <3>. QED
      BY <3>1, <3>2, <3>3 DEF Sees
  <2>2. CASE Found # {}
    <3>1. req' = With(r, 1, carts[1]) /\ carts # <<>>
      BY <2>2 DEF Find, Found
    <3>2. PICK i, c : i = 1 /\ c = carts[1]
      OBVIOUS
    <3>3. PICK q : /\ With(r, i, c) = [req EXCEPT ![r] = q]
                   /\ {"at", "alone"} \subseteq DOMAIN q /\ q.alone = req[r].alone
                   /\ \/ q.at = "answer" /\ "cart" \in DOMAIN q /\ q.cart = Visible(c)
                      \/ q.at = "have" /\ q.of = i /\ q.copy = c
      BY WithSees
    <3>. QED
      BY <3>1, <3>2, <3>3 DEF Sees
  <2>. QED
    BY <2>1, <2>2
<1>2. AloneInv'
  BY <1>0, <1>1, AloneMoves
<1>3. SumsInv'
  BY <1>0 DEF RightInv, SumsInv
<1>4. SeenInv'
  BY <1>0, <1>1 DEF RightInv, SeenInv
<1>. QED
  BY <1>2, <1>3, <1>4

LEMMA CreateRight ==
  ASSUME RightInv, NEW r \in Requests, CreateCart(r)
  PROVE  AloneInv' /\ SumsInv' /\ SeenInv'
<1>0. /\ CartInv /\ AloneInv /\ Active(r) /\ req[r].at = "create" /\ DOMAIN req = Requests
      /\ carts' = Append(carts, NewCart) /\ UNCHANGED <<shown, mixed, seen>>
      /\ req' = With(r, Len(carts) + 1, NewCart)
  BY DEF RightInv, CartInv, Active, CreateCart
<1>1. PICK n : n = Len(carts) + 1
  OBVIOUS
<1>2. PICK q : /\ req' = [req EXCEPT ![r] = q]
               /\ {"at", "alone"} \subseteq DOMAIN q /\ q.alone = req[r].alone
               /\ \/ q.at = "answer" /\ "cart" \in DOMAIN q /\ q.cart = Visible(NewCart)
                  \/ q.at = "have" /\ q.of = n /\ q.copy = NewCart
  <2>1. req' = With(r, n, NewCart)
    BY <1>0, <1>1
  <2>. QED
    BY <2>1, WithSees
<1>3. /\ carts' # <<>> /\ (carts = <<>> => n = 1 /\ carts'[1] = NewCart)
      /\ carts # <<>> => carts'[1] = carts[1]
  <2>1. PICK S : carts \in Seq(S)
    BY <1>0 DEF CartInv
  <2>2. carts \in Seq(S \cup {NewCart})
    BY <2>1
  <2>. QED
    BY <1>0, <1>1, <2>2
<1>4. AloneInv'
  <2>1. req[r].alone => Sees(q, carts')
    BY <1>0, <1>2, <1>3 DEF AloneInv, Sees
  <2>. QED
    BY <1>0, <1>2, <2>1, AloneMoves
<1>5. SumsInv'
  BY <1>0, <1>3, NewCartRight DEF RightInv, SumsInv
<1>6. SeenInv'
  <2>1. \A s \in Requests : req'[s].at # "answer" => req[s].at # "answer"
    BY <1>0, <1>2
  <2>. QED
    BY <1>0, <1>3, <2>1 DEF RightInv, SeenInv
<1>. QED
  BY <1>4, <1>5, <1>6

LEMMA SaveRight ==
  ASSUME RightInv, NEW r \in Requests, Save(r)
  PROVE  AloneInv' /\ SumsInv' /\ SeenInv'
<1> DEFINE i == req[r].of  copy == req[r].copy  ask == req[r].ask
<1>0. /\ CartInv /\ AloneInv /\ Active(r) /\ req[r].at = "have" /\ DOMAIN req = Requests
      /\ i \in DOMAIN carts /\ IsCart(copy) /\ UNCHANGED shown
      /\ req[r].alone \in BOOLEAN
  BY DEF RightInv, CartInv, AloneInv, Active, Save, IsRequest, IsCopy
<1>1. PICK e : /\ carts' = [carts EXCEPT ![i] = Written(@, copy, Worked(copy, ask, e), e)]
               /\ req' = [req EXCEPT ![r] =
                            IF ask.do = "clear" THEN Idle
                            ELSE [at |-> "answer", alone |-> @.alone,
                                  cart |-> Visible(Worked(copy, ask, e))]]
               /\ seen' = (seen /\ ask.do # "clear")
               /\ mixed' = ~req[r].alone
  BY DEF Save
<1>2. /\ carts # <<>> /\ carts' # <<>>
      /\ carts'[i] = Written(carts[i], copy, Worked(copy, ask, e), e)
  <2>1. PICK S : carts \in Seq(S)
    BY <1>0 DEF CartInv
  <2>. HIDE DEF i, copy, ask
  <2>2. carts # <<>> /\ DOMAIN carts' = DOMAIN carts
    BY <1>0, <1>1, <2>1
  <2>. QED
    BY <1>0, <1>1, <2>1, <2>2
<1>3. req[r].alone => /\ i = 1 /\ Visible(carts'[1]) = Visible(Worked(copy, ask, e))
                      /\ Right(carts'[1])
  <2>1. SUFFICES ASSUME req[r].alone
                 PROVE  /\ i = 1 /\ Visible(carts'[1]) = Visible(Worked(copy, ask, e))
                        /\ Right(carts'[1])
    OBVIOUS
  <2>2. i = 1 /\ copy = carts[1]
    BY <1>0, <2>1 DEF AloneInv, Sees
  <2>3. carts'[1] = Written(copy, copy, Worked(copy, ask, e), e)
    BY <1>2, <2>2
  <2>. HIDE DEF copy, ask, i
  <2>. QED
    BY <1>0, <2>2, <2>3, WrittenAlone
<1>4. PICK q : /\ req' = [req EXCEPT ![r] = q] /\ "at" \in DOMAIN q
               /\ \/ ask.do = "clear" /\ q.at = "idle"
                  \/ /\ ask.do # "clear" /\ q.at = "answer" /\ "alone" \in DOMAIN q
                     /\ q.alone = req[r].alone /\ q.cart = Visible(Worked(copy, ask, e))
  <2> DEFINE a == [at |-> "answer", alone |-> req[r].alone,
                   cart |-> Visible(Worked(copy, ask, e))]
  <2>1. /\ "at" \in DOMAIN a /\ a.at = "answer" /\ "alone" \in DOMAIN a
        /\ a.alone = req[r].alone /\ a.cart = Visible(Worked(copy, ask, e))
        /\ "at" \in DOMAIN Idle /\ Idle.at = "idle"
    BY DEF Idle
  <2>2. req' = [req EXCEPT ![r] = IF ask.do = "clear" THEN Idle ELSE a]
    BY <1>0, <1>1
  <2>. HIDE DEF a, copy, ask
  <2>3. CASE ask.do = "clear"
    BY <2>1, <2>2, <2>3
  <2>4. CASE ask.do # "clear"
    BY <2>1, <2>2, <2>4
  <2>. QED
    BY <2>3, <2>4
<1>. HIDE DEF i, copy, ask
<1>5. AloneInv'
  <2>1. q.at # "idle" /\ req[r].alone => Sees(q, carts')
    BY <1>2, <1>3, <1>4 DEF Sees
  <2>. QED
    BY <1>0, <1>4, <2>1, AloneMoves
<1>6. SumsInv'
  BY <1>1, <1>3, Zenon DEF SumsInv
<1>7. SeenInv'
  <2>1. ask.do # "clear" => req'[r].at = "answer"
    BY <1>0, <1>4
  <2>. QED
    BY <1>1, <1>2, <2>1 DEF SeenInv
<1>. QED
  BY <1>5, <1>6, <1>7

\* A request ends with its answer, or without one.
LEMMA EndRight ==
  ASSUME RightInv, NEW r \in Requests, Refuse(r) \/ Show(r) \/ LoseAnswer(r)
  PROVE  AloneInv' /\ SumsInv' /\ SeenInv'
<1>0. /\ CartInv /\ AloneInv /\ Active(r) /\ req' = [req EXCEPT ![r] = Idle]
      /\ UNCHANGED <<carts, mixed>> /\ DOMAIN req = Requests
      /\ "at" \in DOMAIN Idle /\ Idle.at = "idle"
  BY DEF RightInv, CartInv, Active, Idle, Refuse, Show, LoseAnswer
<1>1. AloneInv'
  BY <1>0, AloneMoves
<1>2. SumsInv'
  BY <1>0 DEF RightInv, SumsInv
<1>3. SeenInv'
  <2>1. CASE Refuse(r)
    <3>1. \A s \in Requests : req'[s].at # "answer" => req[s].at # "answer"
      BY <1>0, <2>1 DEF Refuse
    <3>. QED
      BY <1>0, <2>1, <3>1 DEF Refuse, RightInv, SeenInv
  <2>2. CASE Show(r)
    <3>1. req[r].at = "answer" /\ shown' = req[r].cart /\ seen' = req[r].alone
      BY <2>2 DEF Show
    <3>2. req[r].alone => carts # <<>> /\ req[r].cart = Visible(carts[1])
      BY <1>0, <3>1 DEF AloneInv, Sees
    <3>. QED
      BY <1>0, <3>1, <3>2, Zenon DEF SeenInv
  <2>3. CASE LoseAnswer(r)
    BY <2>3 DEF LoseAnswer, SeenInv
  <2>. QED
    BY <2>1, <2>2, <2>3
<1>. QED
  BY <1>1, <1>2, <1>3

LEMMA SendRight ==
  ASSUME RightInv, NEW r \in Requests, Send(r)
  PROVE  AloneInv' /\ SumsInv' /\ SeenInv'
<1>1. PICK ask :
        /\ req' = [s \in Requests |->
                     IF s = r THEN [at |-> "sent", ask |-> ask, alone |-> Quiet]
                     ELSE IF Active(s) THEN [req[s] EXCEPT !.alone = FALSE]
                     ELSE req[s]]
        /\ shown' = IF ask.do = "load" THEN Visible(NewCart) ELSE shown
        /\ seen' = (seen /\ ask.do # "load")
  BY DEF Send
<1>2. ~Active(r) /\ UNCHANGED <<carts, mixed>>
  BY DEF Send
<1>3. ASSUME NEW s \in Requests, Active(s), s # r
      PROVE  /\ req'[s].at = req[s].at
             /\ "alone" \in DOMAIN req'[s] /\ req'[s].alone = FALSE
  <2> DEFINE p == req[s]  q == [p EXCEPT !.alone = FALSE]
  <2>1. req'[s] = q
    BY <1>1, <1>3
  <2>2. {"at", "alone"} \subseteq DOMAIN p
    BY <1>3 DEF RightInv, AloneInv, CartInv, IsRequest
  <2>. HIDE DEF p
  <2>3. q.at = p.at /\ "alone" \in DOMAIN q /\ q.alone = FALSE
    BY <2>2
  <2>. QED
    BY <2>1, <2>3 DEF p
<1>4. /\ req'[r].at = "sent" /\ "alone" \in DOMAIN req'[r] /\ req'[r].alone = Quiet
  <2> DEFINE q == [at |-> "sent", ask |-> ask, alone |-> Quiet]
  <2>1. req'[r] = q
    BY <1>1
  <2>2. q.at = "sent" /\ "alone" \in DOMAIN q /\ q.alone = Quiet
    OBVIOUS
  <2>. HIDE DEF q
  <2>. QED
    BY <2>1, <2>2
<1>5. \A s \in Requests : s # r /\ ~Active(s) => req'[s] = req[s]
  BY <1>1
<1>6. AloneInv'
  <2>1. ASSUME NEW s \in Requests, Active(s)'
        PROVE  /\ "alone" \in DOMAIN req'[s] /\ req'[s].alone \in BOOLEAN
               /\ req'[s].alone => Sees(req'[s], carts') /\ \A p \in Requests \ {s} : ~Active(p)'
    <3>1. CASE s = r
      <4>1. Sees(req'[r], carts') /\ Quiet \in BOOLEAN
        BY <1>4 DEF Sees, Quiet
      <4>2. Quiet => \A p \in Requests \ {r} : ~Active(p)'
        BY <1>5 DEF Quiet, Active
      <4>. QED
        BY <1>4, <3>1, <4>1, <4>2
    <3>2. CASE s # r /\ Active(s)
      BY <1>3, <3>2
    <3>3. CASE s # r /\ ~Active(s)
      BY <1>5, <2>1, <3>3 DEF Active
    <3>. QED
      BY <3>1, <3>2, <3>3
  <2>. QED
    BY <2>1 DEF AloneInv
<1>7. SumsInv'
  BY <1>2 DEF RightInv, SumsInv
<1>8. SeenInv'
  <2>1. \A s \in Requests : req'[s].at # "answer" => req[s].at # "answer"
    BY <1>2, <1>3, <1>5 DEF Active
  <2>. QED
    BY <1>1, <1>2, <2>1 DEF RightInv, SeenInv
<1>. QED
  BY <1>6, <1>7, <1>8

LEMMA RightHolds == Spec => []RightInv
<1>1. Init => RightInv
  <2> SUFFICES ASSUME Init PROVE RightInv
    OBVIOUS
  <2>1. CartInv
    BY InitCart
  <2>2. AloneInv /\ SumsInv /\ SeenInv
    BY DEF Init, AloneInv, Active, Idle, SumsInv, SeenInv
  <2>. QED
    BY <2>1, <2>2 DEF RightInv
<1>2. RightInv /\ CartInv' /\ [Next]_vars => RightInv'
  <2> SUFFICES ASSUME RightInv, CartInv', [Next]_vars PROVE RightInv'
    OBVIOUS
  <2>1. CASE \E r \in Requests : Send(r)
    BY <2>1, SendRight DEF RightInv
  <2>2. CASE \E r \in Requests : Find(r)
    BY <2>2, FindRight DEF RightInv
  <2>3. CASE \E r \in Requests : CreateCart(r)
    BY <2>3, CreateRight DEF RightInv
  <2>4. CASE \E r \in Requests : Save(r)
    BY <2>4, SaveRight DEF RightInv
  <2>5. CASE \E r \in Requests : Refuse(r) \/ Show(r) \/ LoseAnswer(r)
    BY <2>5, EndRight DEF RightInv
  <2>6. CASE PlaceOrder
    <3>1. UNCHANGED <<carts, req, mixed>> /\ seen' = FALSE
      BY <2>6 DEF PlaceOrder
    <3>. QED
      BY <3>1 DEF RightInv, AloneInv, Active, SumsInv, SeenInv
  <2>7. CASE UNCHANGED vars
    BY <2>7 DEF vars, RightInv, AloneInv, Active, SumsInv, SeenInv
  <2>. QED
    BY <2>1, <2>2, <2>3, <2>4, <2>5, <2>6, <2>7 DEF Next
<1>. QED
  BY <1>1, <1>2, CartHolds, PTL DEF Spec

(* With nothing under way, a page whose last answer came from a request    *)
(* that ran alone shows the stored cart, and its sums are those of its     *)
(* lines unless they were last computed by a request that overlapped with  *)
(* another (getCart, the handlers and calculateCart).                      *)
THEOREM PageIsRight == Spec => []ShownCartIsRight
<1>1. RightInv => ShownCartIsRight
  <2> SUFFICES ASSUME RightInv, Quiet, seen
               PROVE  /\ carts # <<>> /\ shown = Visible(carts[1])
                      /\ mixed \/ (shown.subtotal = SumOf(shown.lines) /\ shown.total = Total(shown))
    BY DEF ShownCartIsRight
  <2>1. carts # <<>> /\ shown = Visible(carts[1])
    BY DEF RightInv, SeenInv, Quiet, Active
  <2>2. mixed \/ Right(carts[1])
    BY <2>1 DEF RightInv, SumsInv
  <2>3. Right(carts[1]) => Right(shown)
    BY <2>1 DEF Right, Visible, Total
  <2>. QED
    BY <2>1, <2>2, <2>3 DEF Right
<1>. QED
  BY <1>1, RightHolds, PTL

-----------------------------------------------------------------------------
(* The types.  The amounts of a cart are sums over bought lines, or what   *)
(* is left of one, and there are at most as many carts as there were       *)
(* requests that looked for one before the first was stored.               *)

Amounts(c) == {c.subtotal, c.discount, c.total} \subseteq Nat /\ c.coupon \in BOOLEAN

\* What the page is given: bought lines, of the first n, and amounts.
Shows(c, n) == c.lines \in Seq(LineType(1..n)) /\ Amounts(c)

MoneyInv ==
  /\ \A i \in DOMAIN carts : Amounts(carts[i])
  /\ Shows(shown, added)
  /\ \A r \in Requests :
       /\ req[r].at = "have" => Amounts(req[r].copy)
       /\ req[r].at = "answer" => "cart" \in DOMAIN req[r] /\ Shows(req[r].cart, added)

Creators == {r \in Requests : req[r].at = "create"}

PlacesInv ==
  /\ \A r \in Requests : req[r].at \in {"idle", "sent", "create", "have", "answer"}
  /\ Len(carts) + Cardinality(Creators) <= Cardinality(Requests)

PastInv ==
  /\ sent \in 0..MaxSent /\ taken \subseteq 1..added
  /\ {mixed, seen, lineIds} \subseteq BOOLEAN

CartTypes == RightInv /\ MoneyInv /\ PlacesInv /\ PastInv

\* Any list of bought lines has a sum.
LEMMA SumOfNat ==
  ASSUME NEW ids, NEW lines \in Seq(LineType(ids))
  PROVE  SumOf(lines) \in Nat
<1> DEFINE f == [i \in DOMAIN lines |-> Price[lines[i].of] * lines[i].quantity]
<1>1. IsFiniteSet(DOMAIN lines)
  <2>1. Len(lines) \in Nat /\ DOMAIN lines = 1..Len(lines)
    OBVIOUS
  <2>. QED
    BY <2>1, FS_Interval
<1>2. ASSUME NEW i \in DOMAIN lines
      PROVE  f[i] \in Nat
  <2>1. lines[i] \in LineType(ids)
    OBVIOUS
  <2>2. lines[i].of \in Offers /\ lines[i].quantity \in Nat
    BY <2>1 DEF LineType
  <2>3. Price[lines[i].of] \in Nat
    BY <2>2, CartAssumption
  <2>4. \A m, n \in Nat : m * n \in Nat
    OBVIOUS
  <2>. QED
    BY <2>2, <2>3, <2>4
<1>3. DOMAIN f = DOMAIN lines
  OBVIOUS
<1>. HIDE DEF f
<1>4. SumFunctionOnSet(f, DOMAIN lines) \in Nat
  BY <1>1, <1>2, SumNat
<1>. QED
  BY <1>3, <1>4 DEF SumOf, SumFunction, f

\* The work on a copy leaves amounts.
LEMMA WorkedAmounts ==
  ASSUME NEW c, IsCart(c), Amounts(c), NEW ask, NEW e, NEW ids,
         Edited(c.lines, e) \in Seq(LineType(ids))
  PROVE  Amounts(Worked(c, ask, e))
<1> DEFINE d == [c EXCEPT !.lines = Edited(c.lines, e)]  p == Discounted(d, ask)
<1>1. /\ DOMAIN d = Fields /\ d.lines = Edited(c.lines, e) /\ Amounts(d)
  BY DEF IsCart, Fields, Amounts
<1>2. SumOf(d.lines) \in Nat
  BY <1>1, SumOfNat
<1>. HIDE DEF d
<1>3. DOMAIN p = Fields /\ p.lines = d.lines
  BY <1>1 DEF Discounted, Fields
<1>4. p.subtotal \in Nat /\ p.discount \in Nat /\ p.coupon \in BOOLEAN
  <2>1. Least(CouponValue, SumOf(d.lines)) \in Nat
    BY <1>2, CartAssumption DEF Least
  <2>2. CASE ask.do = "coupon"
    BY <1>1, <2>1, <2>2 DEF Discounted, Fields, Amounts
  <2>3. CASE ask.do \in {"dropCoupon", "clear"}
    BY <1>1, <2>3 DEF Discounted, Fields, Amounts
  <2>4. CASE ask.do \notin {"coupon", "dropCoupon", "clear"}
    BY <1>1, <2>4 DEF Discounted, Fields, Amounts
  <2>. QED
    BY <2>2, <2>3, <2>4
<1>. HIDE DEF p
<1>5. Total(p) \in Nat
  BY <1>2, <1>3, <1>4 DEF Total, AtLeastZero
<1>6. Amounts(calculateCart(p))
  <2> DEFINE n == calculateCart(p)
  <2>1. n.subtotal = SumOf(p.lines) /\ n.total = Total(p) /\ n.discount = p.discount
        /\ n.coupon = p.coupon
    BY <1>3 DEF calculateCart, Fields
  <2>. HIDE DEF n
  <2>2. Amounts(n)
    BY <1>2, <1>3, <1>4, <1>5, <2>1 DEF Amounts
  <2>. QED
    BY <2>2 DEF n
<1>. QED
  BY <1>6 DEF Worked, p, d

\* The edited copy is a list of bought lines again.
LEMMA EditedTyped ==
  ASSUME NEW c, IsCart(c), NEW ask, IsAsk(ask), NEW e \in Edits(c, ask),
         added \in Nat, added' = IF e.kind = "push" THEN added + 1 ELSE added
  PROVE  Edited(c.lines, e) \in Seq(Rec')
<1>0. c.lines \in Seq(Rec) /\ Rec \subseteq Rec' /\ c.lines \in Seq(Rec')
  <2>1. c.lines \in Seq(Rec) /\ 1..added \subseteq 1..added'
    BY DEF IsCart
  <2>2. Rec \subseteq Rec'
    BY <2>1 DEF Rec, LineType
  <2>. QED
    BY <2>1, <2>2
<1>1. CASE e = Push(ask) /\ ask.of \in Offers /\ ask.quantity \in Quantities
  <2> DEFINE l == [id |-> added + 1, of |-> ask.of, quantity |-> ask.quantity]
  <2>1. e.kind = "push" /\ e.line = l
    BY <1>1 DEF Push, Line
  <2>2. l \in Rec'
    <3>1. ask.quantity \in Nat \ {0} /\ added + 1 \in 1..added'
      <4>1. ask.quantity \in Nat \ {0}
        BY <1>1, CartAssumption
      <4>2. added' = added + 1
        BY <2>1
      <4>. QED
        BY <4>1, <4>2
    <3>2. l \in LineType(1..added')
      BY <1>1, <3>1 DEF LineType
    <3>. QED
      BY <3>2 DEF Rec, LineType
  <2>3. Edited(c.lines, e) = Append(c.lines, l)
    BY <2>1 DEF Edited
  <2>. HIDE DEF l
  <2>. QED
    BY <1>0, <2>2, <2>3
<1>2. ASSUME NEW i \in DOMAIN c.lines, NEW q \in Nat \ {0}, e = Put(i, q)
      PROVE  Edited(c.lines, e) \in Seq(Rec')
  <2>1. Edited(c.lines, e) = [c.lines EXCEPT ![i].quantity = q]
    BY <1>2 DEF Put, Edited
  <2>2. c.lines[i] \in Rec'
    BY <1>0
  <2>3. [c.lines[i] EXCEPT !.quantity = q] \in Rec'
    BY <2>2 DEF Rec, LineType
  <2>. QED
    BY <1>0, <2>1, <2>3
<1>3. ASSUME NEW i \in DOMAIN c.lines, e = Whole(RemoveAt(c.lines, i))
      PROVE  Edited(c.lines, e) \in Seq(Rec')
  <2>1. Edited(c.lines, e) = RemoveAt(c.lines, i)
    BY <1>3 DEF Whole, Edited
  <2>2. i \in 1..Len(c.lines)
    BY <1>0
  <2>. QED
    BY <1>0, <2>1, <2>2, RemoveAtType
<1>4. CASE e = Whole(<<>>)
  <2>1. Edited(c.lines, e) = <<>>
    BY <1>4 DEF Whole, Edited
  <2>. QED
    BY <2>1
<1>5. CASE e = Leave
  <2>1. Edited(c.lines, e) = c.lines
    BY <1>5 DEF Leave, Edited
  <2>. QED
    BY <1>0, <2>1
<1>. QED
  BY <1>1, <1>2, <1>3, <1>4, <1>5, EditCases

LEMMA NewCartShows == (\A n : Shows(Visible(NewCart), n)) /\ Amounts(NewCart)
<1>1. \A n : <<>> \in Seq(LineType(1..n))
  OBVIOUS
<1>. QED
  BY <1>1 DEF Shows, Visible, NewCart, Amounts

\* What is shown of a cart with amounts.
LEMMA VisibleShows ==
  ASSUME NEW c, IsCart(c), Amounts(c)
  PROVE  Shows(Visible(c), added)
  BY DEF IsCart, Rec, Shows, Visible, Amounts

LEMMA ShowsLasts ==
  ASSUME added \in Nat, added' \in Nat, added <= added'
  PROVE  \A c : Shows(c, added) => Shows(c, added')
<1>1. 1..added \subseteq 1..added'
  OBVIOUS
<1>2. LineType(1..added) \subseteq LineType(1..added')
  BY <1>1 DEF LineType
<1>3. Seq(LineType(1..added)) \subseteq Seq(LineType(1..added'))
  BY <1>2
<1>. QED
  BY <1>3 DEF Shows

States == {"idle", "sent", "create", "have", "answer"}

\* One request moves on, and the carts stay.
LEMMA OneTyped ==
  ASSUME CartTypes, NEW r \in Requests, NEW q, req' = [req EXCEPT ![r] = q],
         q.at \in States, added' \in Nat, added <= added',
         q.at = "have" => Amounts(q.copy), q.at = "answer" => "cart" \in DOMAIN q /\ Shows(q.cart, added')
  PROVE  \A s \in Requests : /\ req'[s].at \in States
                             /\ req'[s].at = "have" => Amounts(req'[s].copy)
                             /\ req'[s].at = "answer" => "cart" \in DOMAIN req'[s] /\ Shows(req'[s].cart, added')
<1>1. \A s \in Requests : req'[s] = IF s = r THEN q ELSE req[s]
  BY DEF CartTypes, RightInv, CartInv
<1>2. \A c : Shows(c, added) => Shows(c, added')
  BY ShowsLasts DEF CartTypes, RightInv, CartInv
<1>3. \A s \in Requests : /\ req[s].at \in States
                          /\ req[s].at = "have" => Amounts(req[s].copy)
                          /\ req[s].at = "answer" => "cart" \in DOMAIN req[s] /\ Shows(req[s].cart, added)
  BY DEF CartTypes, MoneyInv, PlacesInv, States
<1>. QED
  BY <1>1, <1>2, <1>3

\* A step after which no more requests create a cart, and there are as many.
LEMMA CountKept ==
  ASSUME CartTypes, Len(carts') = Len(carts), Creators' \subseteq Creators
  PROVE  Len(carts') + Cardinality(Creators') <= Cardinality(Requests)
<1>1. IsFiniteSet(Requests) /\ Creators \subseteq Requests
  BY CartAssumption DEF Creators
<1>2. IsFiniteSet(Creators) /\ Cardinality(Creators) \in Nat /\ Cardinality(Requests) \in Nat
  BY <1>1, FS_Subset, FS_CardinalityType
<1>3. Cardinality(Creators') <= Cardinality(Creators) /\ Cardinality(Creators') \in Nat
  BY <1>2, FS_Subset, FS_CardinalityType
<1>4. Len(carts) \in Nat
  BY DEF CartTypes, RightInv, CartInv
<1>. QED
  BY <1>2, <1>3, <1>4 DEF CartTypes, PlacesInv

LEMMA FindTyped ==
  ASSUME CartTypes, NEW r \in Requests, Find(r)
  PROVE  MoneyInv' /\ PlacesInv'
<1>0. /\ r \in DOMAIN req /\ "at" \in DOMAIN req[r] /\ req[r].at = "sent"
      /\ UNCHANGED <<carts, shown, added>> /\ added \in Nat
      /\ Len(carts) \in Nat
  BY DEF CartTypes, RightInv, CartInv, Find, IsRequest
<1>1. added' \in Nat /\ added <= added'
  BY <1>0
<1>2. CASE Found = {}
  <2> DEFINE q == [req[r] EXCEPT !.at = "create"]
  <2>1. req' = [req EXCEPT ![r] = q]
    BY <1>2 DEF Find
  <2>2. q.at = "create"
    BY <1>0
  <2>. HIDE DEF q
  <2>3. \A s \in Requests : /\ req'[s].at \in States
                            /\ req'[s].at = "have" => Amounts(req'[s].copy)
                            /\ req'[s].at = "answer" => "cart" \in DOMAIN req'[s] /\ Shows(req'[s].cart, added')
    BY <1>1, <2>1, <2>2, OneTyped DEF States
  <2>4. Len(carts') + Cardinality(Creators') <= Cardinality(Requests)
    <3>1. carts' = <<>> /\ Len(carts') = 0
      BY <1>0, <1>2 DEF Found
    <3>2. IsFiniteSet(Requests) /\ Creators' \subseteq Requests
      BY CartAssumption DEF Creators
    <3>3. /\ Cardinality(Creators') <= Cardinality(Requests)
          /\ Cardinality(Creators') \in Nat
      BY <3>2, FS_Subset, FS_CardinalityType
    <3>. QED
      BY <3>1, <3>3
  <2>. QED
    BY <1>0, <2>3, <2>4 DEF CartTypes, MoneyInv, PlacesInv, States
<1>3. CASE Found # {}
  <2>1. PICK i \in Found : req' = With(r, i, carts[i])
    BY <1>3 DEF Find
  <2>2. i \in DOMAIN carts /\ IsCart(carts[i]) /\ Amounts(carts[i])
    <3>1. carts # <<>> /\ i = 1
      BY <2>1 DEF Found
    <3>2. i \in DOMAIN carts
      BY <3>1 DEF CartTypes, RightInv, CartInv
    <3>. QED
      BY <3>2 DEF CartTypes, RightInv, CartInv, MoneyInv
  <2>3. PICK c : c = carts[i]
    OBVIOUS
  <2>4. PICK q : /\ With(r, i, c) = [req EXCEPT ![r] = q]
                 /\ {"at", "alone"} \subseteq DOMAIN q /\ q.alone = req[r].alone
                 /\ \/ q.at = "answer" /\ "cart" \in DOMAIN q /\ q.cart = Visible(c)
                    \/ q.at = "have" /\ q.of = i /\ q.copy = c
    BY WithSees
  <2>5. Shows(Visible(c), added') /\ Amounts(c)
    BY <1>0, <2>2, <2>3, VisibleShows
  <2>6. \A s \in Requests : /\ req'[s].at \in States
                            /\ req'[s].at = "have" => Amounts(req'[s].copy)
                            /\ req'[s].at = "answer" => "cart" \in DOMAIN req'[s] /\ Shows(req'[s].cart, added')
    BY <1>1, <2>1, <2>3, <2>4, <2>5, OneTyped DEF States
  <2>7. Creators' \subseteq Creators
    <3>1. \A s \in Requests : req'[s] = IF s = r THEN q ELSE req[s]
      BY <2>1, <2>3, <2>4 DEF CartTypes, RightInv, CartInv
    <3>. QED
      BY <2>4, <3>1 DEF Creators
  <2>8. Len(carts') + Cardinality(Creators') <= Cardinality(Requests)
    BY <1>0, <2>7, CountKept
  <2>. QED
    BY <1>0, <2>6, <2>8 DEF CartTypes, MoneyInv, PlacesInv, States
<1>. QED
  BY <1>2, <1>3

LEMMA CreateTyped ==
  ASSUME CartTypes, NEW r \in Requests, CreateCart(r)
  PROVE  MoneyInv' /\ PlacesInv'
<1>0. /\ req[r].at = "create" /\ UNCHANGED <<shown, added>> /\ added \in Nat
      /\ carts' = Append(carts, NewCart) /\ req' = With(r, Len(carts) + 1, NewCart)
      /\ \A s \in Requests : IsRequest(req[s])
  BY DEF CartTypes, RightInv, CartInv, CreateCart
<1>2. PICK n, c : n = Len(carts) + 1 /\ c = NewCart
  OBVIOUS
<1>3. PICK q : /\ With(r, n, c) = [req EXCEPT ![r] = q]
               /\ {"at", "alone"} \subseteq DOMAIN q /\ q.alone = req[r].alone
               /\ \/ q.at = "answer" /\ "cart" \in DOMAIN q /\ q.cart = Visible(c)
                  \/ q.at = "have" /\ q.of = n /\ q.copy = c
  BY WithSees
<1>4. Shows(Visible(c), added') /\ Amounts(c)
  BY <1>2, NewCartShows
<1>5. \A s \in Requests : /\ req'[s].at \in States
                          /\ req'[s].at = "have" => Amounts(req'[s].copy)
                          /\ req'[s].at = "answer" => "cart" \in DOMAIN req'[s] /\ Shows(req'[s].cart, added')
  BY <1>0, <1>2, <1>3, <1>4, OneTyped DEF States
<1>6. /\ Len(carts) \in Nat /\ Len(carts') = Len(carts) + 1
      /\ \A i \in DOMAIN carts' : carts'[i] = NewCart \/ (i \in DOMAIN carts /\ carts'[i] = carts[i])
  <2>1. PICK S : carts \in Seq(S)
    BY DEF CartTypes, RightInv, CartInv
  <2>2. carts \in Seq(S \cup {NewCart})
    BY <2>1
  <2>. QED
    BY <1>0, <2>2
<1>7. Creators' = Creators \ {r} /\ r \in Creators
  <2>1. \A s \in Requests : req'[s] = IF s = r THEN q ELSE req[s]
    BY <1>0, <1>2, <1>3 DEF CartTypes, RightInv, CartInv
  <2>. QED
    BY <1>0, <1>3, <2>1 DEF Creators
<1>8. Len(carts') + Cardinality(Creators') <= Cardinality(Requests)
  <2>1. IsFiniteSet(Creators) /\ Cardinality(Creators) \in Nat /\ Cardinality(Requests) \in Nat
    BY CartAssumption, FS_Subset, FS_CardinalityType DEF Creators
  <2>2. Cardinality(Creators') = Cardinality(Creators) - 1
    BY <1>7, <2>1, FS_RemoveElement
  <2>. QED
    BY <1>6, <2>1, <2>2 DEF CartTypes, PlacesInv
<1>9. \A i \in DOMAIN carts' : Amounts(carts'[i])
  BY <1>6, NewCartShows DEF CartTypes, MoneyInv
<1>. QED
  BY <1>0, <1>5, <1>8, <1>9 DEF CartTypes, MoneyInv, PlacesInv, States

LEMMA SaveTyped ==
  ASSUME CartTypes, NEW r \in Requests, Save(r)
  PROVE  MoneyInv' /\ PlacesInv' /\ taken' \subseteq 1..added'
<1> DEFINE i == req[r].of  copy == req[r].copy  ask == req[r].ask
<1>0. /\ req[r].at = "have" /\ IsRequest(req[r]) /\ DOMAIN req = Requests /\ UNCHANGED shown
      /\ i \in DOMAIN carts /\ IsCart(copy) /\ IsAsk(ask)
      /\ Amounts(copy) /\ Amounts(carts[i]) /\ added \in Nat
  BY DEF CartTypes, RightInv, CartInv, MoneyInv, Save, IsRequest, IsCopy
<1>1. PICK e \in Edits(copy, ask) :
        /\ carts' = [carts EXCEPT ![i] = Written(@, copy, Worked(copy, ask, e), e)]
        /\ req' = [req EXCEPT ![r] =
                     IF ask.do = "clear" THEN Idle
                     ELSE [at |-> "answer", alone |-> @.alone,
                           cart |-> Visible(Worked(copy, ask, e))]]
        /\ added' = IF e.kind = "push" THEN added + 1 ELSE added
        /\ taken' \subseteq taken \cup {copy.lines[j].id : j \in DOMAIN copy.lines}
  BY DEF Save
<1>2. added' \in Nat /\ added <= added'
  BY <1>0, <1>1
<1>3. PICK new : new = Worked(copy, ask, e)
  OBVIOUS
<1>4. new.lines \in Seq(LineType(1..added')) /\ Amounts(new)
  <2>1. Edited(copy.lines, e) \in Seq(LineType(1..added'))
    <3>. HIDE DEF i, copy, ask
    <3>1. Edited(copy.lines, e) \in Seq(Rec')
      BY <1>0, <1>1, EditedTyped
    <3>. QED
      BY <3>1 DEF Rec
  <2>. HIDE DEF i, copy, ask
  <2>2. new.lines = Edited(copy.lines, e)
    BY <1>0, <1>3, WorkedLines
  <2>3. Amounts(Worked(copy, ask, e))
    BY <1>0, <2>1, WorkedAmounts
  <2>. QED
    BY <1>3, <2>1, <2>2, <2>3
<1>5. Shows(Visible(new), added')
  BY <1>4 DEF Shows, Visible, Amounts
<1>6. Amounts(Written(carts[i], copy, new, e))
  <2>. HIDE DEF i, copy, ask
  <2>. QED
    BY <1>0, <1>4 DEF Written, Amounts
<1>. HIDE DEF i, copy, ask
<1>7. /\ Len(carts') = Len(carts) /\ DOMAIN carts' = DOMAIN carts
      /\ \A j \in DOMAIN carts' : Amounts(carts'[j])
  <2>1. PICK S : carts \in Seq(S)
    BY DEF CartTypes, RightInv, CartInv
  <2>2. PICK w : w = Written(carts[i], copy, new, e)
    OBVIOUS
  <2>3. carts' = [carts EXCEPT ![i] = w]
    BY <1>1, <1>3, <2>2
  <2>4. /\ carts \in Seq(S \cup {w}) /\ Len(carts') = Len(carts) /\ DOMAIN carts' = DOMAIN carts
        /\ \A j \in DOMAIN carts' : carts'[j] = IF j = i THEN w ELSE carts[j]
    BY <1>0, <2>1, <2>3
  <2>. QED
    BY <1>6, <2>2, <2>4 DEF CartTypes, MoneyInv
<1>8. PICK q : /\ req' = [req EXCEPT ![r] = q]
               /\ q.at = "idle" \/ (q.at = "answer" /\ "cart" \in DOMAIN q /\ q.cart = Visible(new))
  <2> DEFINE a == [at |-> "answer", alone |-> req[r].alone, cart |-> Visible(new)]
  <2>1. a.at = "answer" /\ "cart" \in DOMAIN a /\ a.cart = Visible(new) /\ Idle.at = "idle"
    BY DEF Idle
  <2>2. req' = [req EXCEPT ![r] = IF ask.do = "clear" THEN Idle ELSE a]
    BY <1>0, <1>1, <1>3
  <2>. HIDE DEF a
  <2>. QED
    BY <2>1, <2>2
<1>9. \A s \in Requests : /\ req'[s].at \in States
                          /\ req'[s].at = "have" => Amounts(req'[s].copy)
                          /\ req'[s].at = "answer" => "cart" \in DOMAIN req'[s] /\ Shows(req'[s].cart, added')
  BY <1>2, <1>5, <1>8, OneTyped DEF States
<1>10. Len(carts') + Cardinality(Creators') <= Cardinality(Requests)
  <2>1. \A s \in Requests : req'[s] = IF s = r THEN q ELSE req[s]
    BY <1>0, <1>8
  <2>2. Creators' \subseteq Creators
    BY <1>8, <2>1 DEF Creators
  <2>. QED
    BY <1>7, <2>2, CountKept
<1>11. Shows(shown', added')
  BY <1>0, <1>2, ShowsLasts DEF CartTypes, MoneyInv
<1>12. MoneyInv' /\ PlacesInv'
  BY <1>7, <1>9, <1>10, <1>11 DEF MoneyInv, PlacesInv, States
<1>13. taken' \subseteq 1..added'
  <2>1. \A j \in DOMAIN copy.lines : copy.lines[j].id \in 1..added
    BY <1>0, LineFields
  <2>2. 1..added \subseteq 1..added'
    BY <1>0, <1>2
  <2>. QED
    BY <1>1, <2>1, <2>2 DEF CartTypes, PastInv
<1>. QED
  BY <1>12, <1>13

LEMMA EndTyped ==
  ASSUME CartTypes, NEW r \in Requests, Refuse(r) \/ Show(r) \/ LoseAnswer(r)
  PROVE  MoneyInv' /\ PlacesInv'
<1>1. /\ req' = [req EXCEPT ![r] = Idle] /\ UNCHANGED <<carts, added>>
      /\ Idle.at = "idle" /\ DOMAIN req = Requests /\ added \in Nat
  BY DEF Refuse, Show, LoseAnswer, Idle, CartTypes, RightInv, CartInv
<1>2. added' \in Nat /\ added <= added'
  BY <1>1
<1>3. \A s \in Requests : /\ req'[s].at \in States
                          /\ req'[s].at = "have" => Amounts(req'[s].copy)
                          /\ req'[s].at = "answer" => "cart" \in DOMAIN req'[s] /\ Shows(req'[s].cart, added')
  BY <1>1, <1>2, OneTyped DEF States
<1>4. Creators' \subseteq Creators
  BY <1>1 DEF Creators
<1>5. Len(carts') + Cardinality(Creators') <= Cardinality(Requests)
  BY <1>1, <1>4, CountKept
<1>6. Shows(shown', added')
  <2>1. shown' = shown \/ (req[r].at = "answer" /\ shown' = req[r].cart)
    BY DEF Refuse, Show, LoseAnswer
  <2>2. Shows(shown', added)
    BY <2>1 DEF CartTypes, MoneyInv
  <2>. QED
    BY <1>1, <2>2
<1>7. \A j \in DOMAIN carts' : Amounts(carts'[j])
  BY <1>1 DEF CartTypes, MoneyInv
<1>. QED
  BY <1>3, <1>5, <1>6, <1>7 DEF MoneyInv, PlacesInv, States

LEMMA SendTyped ==
  ASSUME CartTypes, NEW r \in Requests, Send(r)
  PROVE  MoneyInv' /\ PlacesInv'
<1>1. PICK ask :
        /\ req' = [s \in Requests |->
                     IF s = r THEN [at |-> "sent", ask |-> ask, alone |-> Quiet]
                     ELSE IF Active(s) THEN [req[s] EXCEPT !.alone = FALSE]
                     ELSE req[s]]
        /\ shown' = IF ask.do = "load" THEN Visible(NewCart) ELSE shown
  BY DEF Send
<1>2. UNCHANGED <<carts, added>>
  BY DEF Send
<1>3. \A s \in Requests : /\ req[s].at \in States
                          /\ req[s].at = "have" => Amounts(req[s].copy)
                          /\ req[s].at = "answer" => "cart" \in DOMAIN req[s] /\ Shows(req[s].cart, added)
  BY DEF CartTypes, MoneyInv, PlacesInv, States
<1>4. ASSUME NEW s \in Requests
      PROVE  /\ req'[s].at \in States /\ (req'[s].at = "create" => req[s].at = "create")
             /\ req'[s].at = "have" => Amounts(req'[s].copy)
             /\ req'[s].at = "answer" => "cart" \in DOMAIN req'[s] /\ Shows(req'[s].cart, added')
  <2>1. CASE s = r
    <3>1. req'[s].at = "sent"
      BY <1>1, <2>1
    <3>. QED
      BY <3>1 DEF States
  <2>2. CASE s # r /\ Active(s)
    <3> DEFINE p == req[s]  q == [p EXCEPT !.alone = FALSE]
    <3>1. req'[s] = q
      BY <1>1, <2>2
    <3>2. /\ p.at \in States /\ "at" \in DOMAIN p
          /\ p.at = "have" => "copy" \in DOMAIN p /\ Amounts(p.copy)
          /\ p.at = "answer" => "cart" \in DOMAIN p /\ Shows(p.cart, added)
      BY <1>3 DEF CartTypes, RightInv, CartInv, IsRequest, IsCopy
    <3>. HIDE DEF p
    <3>3. q.at = p.at /\ (p.at = "have" => q.copy = p.copy) /\ (p.at = "answer" => "cart" \in DOMAIN q /\ q.cart = p.cart)
      BY <3>2
    <3>. HIDE DEF q
    <3>4. /\ q.at \in States /\ (q.at = "create" => p.at = "create")
          /\ q.at = "have" => Amounts(q.copy)
          /\ q.at = "answer" => "cart" \in DOMAIN q /\ Shows(q.cart, added)
      BY <3>2, <3>3
    <3>. QED
      BY <1>2, <3>1, <3>4 DEF p
  <2>3. CASE s # r /\ ~Active(s)
    <3>1. req'[s] = req[s]
      BY <1>1, <2>3
    <3>. QED
      BY <1>2, <1>3, <3>1
  <2>. QED
    BY <2>1, <2>2, <2>3
<1>5. Creators' \subseteq Creators
  BY <1>4 DEF Creators
<1>6. Len(carts') + Cardinality(Creators') <= Cardinality(Requests)
  BY <1>2, <1>5, CountKept
<1>7. Shows(shown', added')
  BY <1>1, <1>2, NewCartShows DEF CartTypes, MoneyInv
<1>8. \A j \in DOMAIN carts' : Amounts(carts'[j])
  BY <1>2 DEF CartTypes, MoneyInv
<1>. QED
  BY <1>4, <1>6, <1>7, <1>8 DEF MoneyInv, PlacesInv, States

LEMMA PlaceTyped ==
  ASSUME CartTypes, PlaceOrder \/ UNCHANGED vars
  PROVE  MoneyInv' /\ PlacesInv'
<1>1. UNCHANGED <<carts, added, req>> /\ (shown' = shown \/ shown' = Visible(NewCart))
  BY DEF PlaceOrder, vars
<1>2. Shows(shown', added')
  BY <1>1, NewCartShows DEF CartTypes, MoneyInv
<1>. QED
  BY <1>1, <1>2 DEF CartTypes, MoneyInv, PlacesInv, Creators

\* The counters and the marks.
LEMMA PastTyped ==
  ASSUME CartTypes, [Next]_vars, taken' \subseteq 1..added'
  PROVE  PastInv'
<1>1. sent' \in 0..MaxSent
  <2>1. sent' = sent \/ (sent < MaxSent /\ sent' = sent + 1)
    BY DEF Next, Send, Find, CreateCart, Save, Refuse, Show, LoseAnswer, PlaceOrder, vars
  <2>2. MaxSent \in Nat /\ sent \in 0..MaxSent
    BY CartAssumption DEF CartTypes, PastInv
  <2>. QED
    BY <2>1, <2>2
<1>2. lineIds' \in BOOLEAN
  <2>1. lineIds' = lineIds
    BY DEF Next, Send, Find, CreateCart, Save, Refuse, Show, LoseAnswer, PlaceOrder, vars
  <2>. QED
    BY <2>1 DEF CartTypes, PastInv
<1>3. mixed' \in BOOLEAN
  <2>1. mixed' = mixed \/ \E r \in Requests : mixed' = ~req[r].alone
    BY DEF Next, Send, Find, CreateCart, Save, Refuse, Show, LoseAnswer, PlaceOrder, vars
  <2>. QED
    BY <2>1 DEF CartTypes, PastInv
<1>4. seen' \in BOOLEAN
  <2>1. CASE \E r \in Requests : Show(r)
    BY <2>1 DEF Show, Active, CartTypes, RightInv, AloneInv
  <2>2. CASE ~\E r \in Requests : Show(r)
    <3>1. seen' = seen \/ seen' = FALSE \/ \E x : seen' = (seen /\ x)
      BY <2>2 DEF Next, Send, Find, CreateCart, Save, Refuse, LoseAnswer, PlaceOrder, vars
    <3>. QED
      BY <3>1 DEF CartTypes, PastInv
  <2>. QED
    BY <2>1, <2>2
<1>. QED
  BY <1>1, <1>2, <1>3, <1>4 DEF PastInv

LEMMA CartTypesHold == Spec => []CartTypes
<1>1. Init /\ RightInv => CartTypes
  <2> SUFFICES ASSUME Init, RightInv PROVE CartTypes
    OBVIOUS
  <2>1. carts = <<>> /\ Len(carts) = 0 /\ DOMAIN carts = {} /\ \A r \in Requests : req[r].at = "idle"
    BY DEF Init, Idle
  <2>2. MoneyInv
    BY <2>1, NewCartShows DEF Init, MoneyInv
  <2>3. PlacesInv
    <3>1. Creators = {}
      BY <2>1 DEF Creators
    <3>2. Cardinality(Creators) = 0 /\ Cardinality(Requests) \in Nat
      BY <3>1, FS_EmptySet, FS_CardinalityType, CartAssumption
    <3>. QED
      BY <2>1, <3>2 DEF PlacesInv
  <2>4. PastInv
    <3>1. sent = 0 /\ taken = {} /\ mixed = FALSE /\ seen = FALSE /\ lineIds \in LineIds
      BY DEF Init
    <3>2. lineIds \in BOOLEAN /\ 0 \in 0..MaxSent
      BY <3>1, CartAssumption
    <3>. QED
      BY <3>1, <3>2 DEF PastInv
  <2>. QED
    BY <2>2, <2>3, <2>4 DEF CartTypes
<1>2. CartTypes /\ RightInv' /\ [Next]_vars => CartTypes'
  <2> SUFFICES ASSUME CartTypes, RightInv', [Next]_vars PROVE CartTypes'
    OBVIOUS
  <2>1. CASE \E r \in Requests : Save(r)
    BY <2>1, SaveTyped, PastTyped DEF CartTypes
  <2>2. CASE ~\E r \in Requests : Save(r)
    <3>1. UNCHANGED <<added, taken>>
      BY <2>2 DEF Next, Send, Find, CreateCart, Refuse, Show, LoseAnswer, PlaceOrder, vars
    <3>2. PastInv'
      BY <3>1, PastTyped DEF CartTypes, PastInv
    <3>3. MoneyInv' /\ PlacesInv'
      BY <2>2, SendTyped, FindTyped, CreateTyped, EndTyped, PlaceTyped DEF Next
    <3>. QED
      BY <3>2, <3>3 DEF CartTypes
  <2>. QED
    BY <2>1, <2>2
<1>. QED
  BY <1>1, <1>2, RightHolds, PTL DEF Spec

(* Stored and shown carts are lists of bought lines with natural amounts,  *)
(* and a customer has no more carts than requests that overlap: getCart    *)
(* creates one only for a request that found none, and all that found none *)
(* are still under way when the first is stored.                           *)
THEOREM CartTyping == Spec => []TypeOK
<1>1. CartTypes => TypeOK
  <2> SUFFICES ASSUME CartTypes PROVE TypeOK
    OBVIOUS
  <2>1. /\ \A i \in DOMAIN carts : IsCart(carts[i])
        /\ Len(wrote) = added /\ Len(carts) \in Nat
    BY DEF CartTypes, RightInv, CartInv
  <2>2. ASSUME NEW c \in {carts[i] : i \in DOMAIN carts} \cup {shown}
        PROVE  /\ \A i \in DOMAIN c.lines : c.lines[i] \in LineType(1..added)
               /\ {c.subtotal, c.discount, c.total} \subseteq Nat
               /\ c.coupon \in BOOLEAN
    <3>1. c.lines \in Seq(LineType(1..added)) /\ Amounts(c)
      BY <2>1 DEF CartTypes, MoneyInv, IsCart, Rec, Shows
    <3>. QED
      BY <3>1 DEF Amounts
  <2>3. Len(carts) <= Cardinality(Requests)
    <3>1. Cardinality(Creators) \in Nat /\ Cardinality(Requests) \in Nat
      BY CartAssumption, FS_Subset, FS_CardinalityType DEF Creators
    <3>. QED
      BY <2>1, <3>1 DEF CartTypes, PlacesInv
  <2>. QED
    BY <2>1, <2>2, <2>3 DEF CartTypes, PlacesInv, PastInv, TypeOK
<1>. QED
  BY <1>1, CartTypesHold, PTL
=============================================================================
