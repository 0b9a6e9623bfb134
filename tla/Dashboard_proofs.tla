-------------------------- MODULE Dashboard_proofs --------------------------
(***************************************************************************)
(* Proofs about Dashboard for any registered dashboards and rows, a        *)
(* default period of any length, and any number of days, edits, lost and   *)
(* failed requests.                                                        *)
(***************************************************************************)
EXTENDS Dashboard, FiniteSetTheorems, SequenceTheorems, TLAPS

-----------------------------------------------------------------------------
(* The host's rows.                                                        *)

LEMMA RowsAreFinite ==
  ASSUME NEW S \in SUBSET DOMAIN Rows
  PROVE  IsFiniteSet(S) /\ Cardinality(S) \in Nat /\ S \subseteq Nat
<1>1. Len(Rows) \in Nat /\ DOMAIN Rows = 1..Len(Rows)
  BY HostAssumption
<1>2. IsFiniteSet(DOMAIN Rows)
  BY <1>1, FS_Interval
<1> QED BY <1>1, <1>2, FS_Subset, FS_CardinalityType

\* The positions of the rows that match, each once, in order.
LEMMA MatchingIsSorted ==
  ASSUME NEW q
  PROVE  LET found == {i \in DOMAIN Rows : InQuery(Rows[i], q)}
         IN /\ Matching(q) \in Bijection(1..Cardinality(found), found)
            /\ \A i, j \in 1..Cardinality(found) : i < j => Matching(q)[i] < Matching(q)[j]
<1> DEFINE S == {i \in DOMAIN Rows : InQuery(Rows[i], q)}
           n == Cardinality(S)
           Below(k) == {j \in S : j < k}
           place == [k \in S |-> Cardinality(Below(k)) + 1]
           f == Matching(q)
<1>1. IsFiniteSet(S) /\ n \in Nat /\ S \subseteq Nat
  BY RowsAreFinite
<1>2. f = [k \in 1..n |-> CHOOSE i \in S : Cardinality(Below(i)) = k - 1]
  BY DEF Matching
<1> HIDE DEF S, f
<1>3. ASSUME NEW k \in S
      PROVE  IsFiniteSet(Below(k)) /\ Cardinality(Below(k)) \in Nat /\ Cardinality(Below(k)) < n
  <2>1. Below(k) \in SUBSET (S \ {k})
    BY <1>1
  <2>2. IsFiniteSet(S \ {k}) /\ Cardinality(S \ {k}) = n - 1
    BY <1>1, FS_RemoveElement
  <2> QED BY <1>1, <2>1, <2>2, FS_Subset, FS_CardinalityType
<1>4. ASSUME NEW j \in S, NEW k \in S, j < k
      PROVE  Cardinality(Below(j)) < Cardinality(Below(k))
  <2>1. Below(j) \in SUBSET Below(k)
    <3>1. \A i \in S : i \in Nat
      BY <1>1
    <3>2. \A i \in S : i < j => i < k
      BY <1>4, <3>1
    <3> QED BY <3>2
  <2>2. j \in Below(k) /\ j \notin Below(j)
    BY <1>1, <1>4
  <2>3. Cardinality(Below(j)) <= Cardinality(Below(k)) /\ Cardinality(Below(j)) # Cardinality(Below(k))
    <3>1. IsFiniteSet(Below(k)) /\ Below(j) # Below(k)
      BY <1>3, <2>2
    <3> HIDE DEF Below
    <3> QED BY <2>1, <3>1, FS_Subset
  <2> QED BY <1>3, <2>3
<1>5. place \in [S -> 1..n]
  BY <1>1, <1>3
<1>6. \A j, k \in S : j # k => place[j] # place[k]
  <2> SUFFICES ASSUME NEW j \in S, NEW k \in S, j # k
               PROVE  place[j] # place[k]
    OBVIOUS
  <2>1. j < k \/ k < j
    BY <1>1
  <2>2. Cardinality(Below(j)) \in Nat /\ Cardinality(Below(k)) \in Nat
    BY <1>3
  <2>3. Cardinality(Below(j)) # Cardinality(Below(k))
    BY <1>4, <2>1, <2>2
  <2> HIDE DEF Below
  <2> QED BY <2>2, <2>3
<1>7. IsFiniteSet(1..n) /\ Cardinality(1..n) = n
  BY <1>1, FS_Interval
<1>8. place \in Injection(S, 1..n)
  BY <1>5, <1>6 DEF Injection, IsInjective
<1>9. place \in Surjection(S, 1..n)
  BY <1>1, <1>7, <1>8, FS_Injection
<1>10. ASSUME NEW i \in 1..n PROVE f[i] \in S /\ place[f[i]] = i
  <2>1. PICK k \in S : place[k] = i
    BY <1>9 DEF Surjection
  <2>2. Cardinality(Below(k)) = i - 1
    <3>1. Cardinality(Below(k)) + 1 = i /\ Cardinality(Below(k)) \in Nat
      BY <1>3, <2>1
    <3> HIDE DEF Below
    <3> QED BY <3>1
  <2>3. f[i] = CHOOSE r \in S : Cardinality(Below(r)) = i - 1
    BY <1>2
  <2>4. f[i] \in S /\ Cardinality(Below(f[i])) = i - 1
    BY <2>2, <2>3
  <2> QED BY <2>4
<1>11. f \in [1..n -> S]
  BY <1>2, <1>10
<1>12. \A i, j \in 1..n : i # j => f[i] # f[j]
  BY <1>10
<1>13. \A k \in S : \E i \in 1..n : f[i] = k
  BY <1>5, <1>6, <1>10
<1>14. \A i, j \in 1..n : i < j => f[i] < f[j]
  <2> SUFFICES ASSUME NEW i \in 1..n, NEW j \in 1..n, i < j, ~(f[i] < f[j])
               PROVE  FALSE
    OBVIOUS
  <2>1. f[i] \in S /\ f[j] \in S /\ f[i] \in Nat /\ f[j] \in Nat /\ f[i] # f[j]
    <3>1. i # j
      BY <1>1
    <3> QED BY <1>1, <1>10, <1>12, <3>1
  <2>2. f[j] < f[i]
    BY <2>1
  <2>3. Cardinality(Below(f[j])) < Cardinality(Below(f[i]))
    BY <1>4, <2>1, <2>2
  <2>4. place[f[i]] = i /\ place[f[j]] = j
    BY <1>10
  <2>5. Cardinality(Below(f[i])) \in Nat /\ Cardinality(Below(f[j])) \in Nat
    BY <1>3, <2>1
  <2> HIDE DEF Below
  <2> QED BY <2>1, <2>3, <2>4, <2>5
<1>15. f \in Bijection(1..n, S)
  BY <1>11, <1>12, <1>13 DEF Bijection, Injection, Surjection, IsInjective
<1> QED BY <1>14, <1>15 DEF S, f

LEMMA MatchingIsASeq ==
  ASSUME NEW q
  PROVE  Matching(q) \in Seq(Nat) /\ Len(Matching(q)) \in Nat
<1> DEFINE S == {i \in DOMAIN Rows : InQuery(Rows[i], q)}
<1>1. Cardinality(S) \in Nat /\ S \subseteq Nat
  BY RowsAreFinite
<1>2. Matching(q) \in [1..Cardinality(S) -> S]
  BY MatchingIsSorted DEF Bijection, Injection
<1> HIDE DEF S
<1>3. Matching(q) \in Seq(S)
  BY <1>1, <1>2, IsASeq
<1> QED BY <1>1, <1>3, SeqMonotonic, LenProperties

\* One page of the answer: the rows continue those before the offset, and
\* there is a next offset exactly when something is left.
LEMMA PageOfRows ==
  ASSUME NEW q, NEW offset \in 0..Len(Matching(q)), NEW limit \in Nat,
         NEW total \in {Nil, Len(Matching(q))}
  PROVE  LET all == Matching(q)
             items == Items(q, offset, limit)
             next == NextOffset(items, offset, limit, total)
         IN /\ items \in Seq(Nat) /\ Len(items) \in Nat
            /\ offset + Len(items) <= Len(all)
            /\ SubSeq(all, 1, offset) \o items = SubSeq(all, 1, offset + Len(items))
            /\ next # Nil => next = offset + Len(items) /\ next \in Nat /\ items # <<>>
            /\ next = Nil /\ limit # 0 => offset + Len(items) = Len(all)
            /\ limit = 0 => offset + Len(items) = Len(all) /\ next = Nil
<1> DEFINE all == Matching(q)
           n == Len(all)
           end == IF limit = 0 \/ offset + limit > n THEN n ELSE offset + limit
           items == Items(q, offset, limit)
           next == NextOffset(items, offset, limit, total)
<1>1. all \in Seq(Nat) /\ n \in Nat
  BY MatchingIsASeq
<1>2. items = SubSeq(all, offset + 1, end) /\ offset \in 0..n
  BY DEF Items
<1> HIDE DEF all, items
<1>3. end \in offset..n /\ offset + 1 \in 1..n + 1 /\ offset \in Nat
  BY <1>1, <1>2
<1>4. \A i \in offset + 1..end : all[i] \in Nat
  BY <1>1, <1>3, ElementOfSeq
<1>5. items \in Seq(Nat) /\ Len(items) = end - offset
  <2> DEFINE m == offset + 1
  <2>1. m \in Int /\ end \in Int /\ \A i \in m..end : all[i] \in Nat
    BY <1>1, <1>3, <1>4
  <2> HIDE DEF m, end
  <2>2. /\ SubSeq(all, m, end) \in Seq(Nat)
        /\ Len(SubSeq(all, m, end)) = IF m <= end THEN end - m + 1 ELSE 0
    BY <2>1, SubSeqProperties
  <2> QED BY <1>1, <1>2, <1>3, <2>1, <2>2 DEF m
<1>6. SubSeq(all, 1, offset) \o items = SubSeq(all, 1, end)
  <2>1. 1 \in 1..n + 1 /\ offset \in 1 - 1..n /\ end \in offset..n
    BY <1>1, <1>2, <1>3
  <2> HIDE DEF end
  <2> QED BY <1>1, <1>2, <2>1, ConcatAdjacentSubSeq
<1>7. items = <<>> <=> Len(items) = 0
  BY <1>5, EmptySeq
<1>8. Len(items) \in Nat /\ offset + Len(items) = end
  BY <1>1, <1>3, <1>5
<1>9. next # Nil => next = offset + Len(items) /\ next \in Nat /\ items # <<>>
  BY <1>8, <1>3 DEF NextOffset
<1>10. Nil \notin Nat
  BY DashboardAssumption
<1>11. next = Nil /\ limit # 0 => end = n
  BY <1>1, <1>3, <1>7, <1>8, <1>10 DEF NextOffset, all
<1>12. limit = 0 => end = n /\ next = Nil
  BY DEF NextOffset
<1> QED BY <1>3, <1>5, <1>6, <1>8, <1>9, <1>11, <1>12 DEF all, items
-----------------------------------------------------------------------------
(* Filters.                                                                *)

\* A parsed filter is a period with both ends, in order.
Explicit(f) == f \in Filters /\ f.from \in Int /\ f.to \in Int /\ f.from <= f.to

LEMMA ParseIsExplicit ==
  ASSUME NEW q \in Filters, NEW today \in Int
  PROVE  Explicit(Parse(q, today)) /\ Parse(q, today).store = q.store
BY DashboardAssumption DEF Parse, Filters, Explicit

\* A period that is named means the same on every day, and parsing it again
\* changes nothing.
LEMMA ParseIsStable ==
  ASSUME NEW q \in Filters, NEW today \in Int, NEW other \in Int
  PROVE  /\ q.from # Nil /\ q.to # Nil => Parse(q, today) = Parse(q, other)
         /\ Parse(Parse(q, today), other) = Parse(q, today)
<1>1. q.from # Nil /\ q.to # Nil => Parse(q, today) = Parse(q, other)
  BY DEF Parse
<1> DEFINE p == Parse(q, today)
<1>2. /\ Explicit(p) /\ p = [from |-> p.from, to |-> p.to, store |-> p.store]
  BY ParseIsExplicit DEF Parse
<1> HIDE DEF p
<1>3. p.from # Nil /\ p.to # Nil /\ ~(p.from > p.to)
  BY <1>2, DashboardAssumption DEF Explicit
<1>4. Parse(p, other) = p
  BY <1>2, <1>3 DEF Parse
<1> QED BY <1>1, <1>4 DEF p

LEMMA ExplicitIsParsed ==
  ASSUME NEW f, Explicit(f), NEW today \in Int
  PROVE  Parse(f, today) = f
<1>1. f = [from |-> f.from, to |-> f.to, store |-> f.store] /\ f.from \in Int /\ f.to \in Int /\ ~(f.from > f.to)
  BY DEF Explicit, Filters
<1>2. f.from # Nil /\ f.to # Nil
  BY <1>1, DashboardAssumption
<1> QED BY <1>1, <1>2 DEF Parse
-----------------------------------------------------------------------------
(* Cards and the replies that fill them.                                   *)

Full(b) == b.state \in {"shown", "empty"}

\* The rows of b begin the answer to its question, and it says what follows.
RowsOf(b) ==
  LET all == Matching(b.query)
  IN /\ Len(b.rows) <= Len(all)
     /\ b.rows = SubSeq(all, 1, Len(b.rows))
     /\ b.next = Nil /\ ~b.cut => b.rows = all
     /\ b.next # Nil => /\ b.next = [filters |-> b.query.filters, search |-> b.query.search,
                                     offset |-> Len(b.rows)]
                        /\ b.rows # <<>>

\* What a card of widget v, the i-th, may hold.
Content(v, i, b) ==
  /\ b.next # Nil => v.kind = "table" /\ Full(b)
  /\ Full(b) => b.of = i
  /\ Full(b) /\ IsLazy(v) => b.query # Nil /\ Explicit(b.query.filters)
  /\ Full(b) /\ HasRows(v) => RowsOf(b)

LEMMA Distinct ==
  /\ Nil \notin Queries /\ Nil \notin Asks /\ Nil \notin Replies /\ Nil \notin Pending
  /\ Nil \notin Int /\ Nil \notin Nat /\ Nil \notin Stores /\ Nil \notin Texts
  /\ Nil # Failed /\ Failed \in Replies
  /\ \A r \in Replies : r # Failed => r \in [kind : {"body", "rows"}, body : Bodies]
<1>1. Failed \in Replies /\ \A r \in Replies : r # Failed => r \in [kind : {"body", "rows"}, body : Bodies]
  BY DEF Replies
<1> QED BY <1>1, NilAssumption, DashboardAssumption

LEMMA TableHasRows ==
  ASSUME NEW v PROVE /\ v.kind = "table" => HasRows(v) /\ IsLazy(v)
                     /\ HasRows(v) => IsLazy(v)
BY DEF HasRows, IsLazy

\* Cards without content.
LEMMA LoadingForms ==
  /\ Loading \in Bodies /\ Loading.state = "loading" /\ Loading.of = Nil /\ Loading.rows = <<>>
  /\ Loading.next = Nil /\ ~Loading.cut
  /\ \A s \in States, i \in Nat :
       LET b == [Loading EXCEPT !.state = s, !.of = i]
       IN /\ b \in Bodies /\ b.state = s /\ b.of = i
          /\ b.query = Nil /\ b.rows = <<>> /\ b.next = Nil /\ ~b.cut
  /\ LET b == [Loading EXCEPT !.state = "error"]
     IN b \in Bodies /\ b.state = "error" /\ b.next = Nil
<1>1. /\ Loading \in Bodies /\ Loading.state = "loading" /\ Loading.of = Nil /\ Loading.rows = <<>>
      /\ Loading.next = Nil /\ ~Loading.cut
  BY EmptySeq DEF Loading, Bodies, States
<1>2. /\ DOMAIN Loading = {"state", "of", "query", "rows", "next", "cut"} /\ Loading.query = Nil
  BY DEF Loading
<1>3. ASSUME NEW s \in States, NEW i \in Nat
      PROVE  LET b == [Loading EXCEPT !.state = s, !.of = i]
             IN /\ b \in Bodies /\ b.state = s /\ b.of = i
                /\ b.query = Nil /\ b.rows = <<>> /\ b.next = Nil /\ ~b.cut
  BY <1>1, <1>2 DEF Bodies
<1>4. LET b == [Loading EXCEPT !.state = "error"]
      IN b \in Bodies /\ b.state = "error" /\ b.next = Nil
  BY <1>1, <1>2 DEF Bodies, States
<1> QED BY <1>1, <1>3, <1>4

\* A card that renders with the page.
LEMMA StaticForm ==
  ASSUME NEW i \in Nat
  PROVE  Static(i) \in Bodies /\ Static(i).state = "shown" /\ Static(i).of = i /\ Static(i).next = Nil
<1>1. "shown" \in States
  BY DEF States
<1> DEFINE b == [Loading EXCEPT !.state = "shown", !.of = i]
<1>2. Static(i) = b
  BY DEF Static
<1>3. b \in Bodies /\ b.state = "shown" /\ b.of = i /\ b.next = Nil
  BY <1>1, LoadingForms, Zenon
<1> HIDE DEF b
<1> QED BY <1>2, <1>3

\* The reply to a card: all of it, or its first page.
LEMMA CardReply ==
  ASSUME NEW i \in Nat, i \in W, widgets[i].size \in Nat, day \in Int,
         NEW asked \in Asks, asked.offset = 0, NEW ok \in BOOLEAN
  PROVE  LET r == Reply(i, asked, ok)
         IN /\ r \in Replies /\ r # Failed /\ r.kind = "body" /\ r.body \in Bodies
            /\ r.body.state # "loading" /\ Content(widgets[i], i, r.body)
            /\ Full(r.body) /\ IsLazy(widgets[i]) =>
                 r.body.query = [filters |-> Parse(asked.filters, day), search |-> asked.search]
<1> DEFINE v == widgets[i]
           q == [filters |-> Parse(asked.filters, day), search |-> asked.search]
           all == Matching(q)
           total == IF v.total THEN Len(all) ELSE Nil
           items == Items(q, 0, Limit(v))
           next == NextOffset(items, 0, Limit(v), total)
           data == Data(v, q, 0)
           more == [filters |-> q.filters, search |-> q.search, offset |-> data.next]
           r == Reply(i, asked, ok)
<1>1. asked.filters \in Filters /\ asked.search \in Texts \cup {Nil}
  BY DEF Asks
<1>2. q \in Queries /\ Explicit(q.filters) /\ q.filters \in Filters /\ q.search \in Texts \cup {Nil}
  BY <1>1, ParseIsExplicit DEF Queries, Explicit
<1>3. <<>> \in Seq(Nat) /\ Len(<<>>) = 0
  BY EmptySeq
<1>4. \A b \in Bodies : /\ [kind |-> "body", body |-> b] \in Replies
                        /\ [kind |-> "body", body |-> b] # Failed
  <2>1. \A b : "body" \in DOMAIN [kind |-> "body", body |-> b] /\ "body" \notin DOMAIN Failed
    BY DEF Failed
  <2> QED BY <2>1 DEF Replies
<1>5. CASE ~IsLazy(v)
  <2>1. r = [kind |-> "body", body |-> Static(i)]
    BY <1>5 DEF Reply
  <2>2. Static(i) \in Bodies /\ Static(i).state = "shown" /\ Static(i).of = i /\ Static(i).next = Nil
    BY StaticForm
  <2>4. Content(v, i, Static(i))
    BY <1>5, <2>2, TableHasRows DEF Content
  <2> QED BY <1>4, <1>5, <2>1, <2>2, <2>4
<1>6. CASE IsLazy(v) /\ ~ok
  <2> DEFINE b == [Loading EXCEPT !.state = "unavailable", !.of = i]
  <2>1. r = [kind |-> "body", body |-> b]
    BY <1>6 DEF Reply, Apology
  <2>2. b \in Bodies /\ b.state = "unavailable" /\ b.next = Nil
    BY LoadingForms DEF States
  <2> HIDE DEF b
  <2>3. ~Full(b) /\ b.state # "loading"
    BY <2>2 DEF Full
  <2> QED BY <1>4, <2>1, <2>2, <2>3 DEF Content
<1>7. CASE IsLazy(v) /\ ok
  <2> DEFINE b == [state |-> IF data.empty THEN "empty" ELSE "shown", of |-> i, query |-> q,
                   rows |-> data.items, next |-> IF data.next = Nil THEN Nil ELSE more, cut |-> FALSE]
  <2>1. r = [kind |-> "body", body |-> b]
    BY <1>7 DEF Reply, QueryParams
  <2>2. /\ data.items = IF HasRows(v) THEN items ELSE <<>>
        /\ v.kind = "table" => data.next = next
        /\ v.kind # "table" => data.next = Nil
    BY TableHasRows DEF Data
  <2>3. all \in Seq(Nat) /\ Len(all) \in Nat
    BY MatchingIsASeq
  <2>4. Limit(v) \in Nat /\ (v.kind # "table" => Limit(v) = 0) /\ 0 \in 0..Len(all)
        /\ total \in {Nil, Len(all)}
    BY <2>3 DEF Limit
  <2>5. /\ items \in Seq(Nat) /\ Len(items) \in Nat /\ Len(items) <= Len(all)
        /\ SubSeq(all, 1, 0) \o items = SubSeq(all, 1, Len(items))
        /\ next # Nil => next = Len(items) /\ next \in Nat /\ items # <<>>
        /\ next = Nil /\ Limit(v) # 0 => Len(items) = Len(all)
        /\ Limit(v) = 0 => Len(items) = Len(all) /\ next = Nil
    <3> HIDE DEF q, total, items, all, next, v
    <3>1. /\ items \in Seq(Nat) /\ Len(items) \in Nat
          /\ 0 + Len(items) <= Len(all)
          /\ SubSeq(all, 1, 0) \o items = SubSeq(all, 1, 0 + Len(items))
          /\ next # Nil => next = 0 + Len(items) /\ next \in Nat /\ items # <<>>
          /\ next = Nil /\ Limit(v) # 0 => 0 + Len(items) = Len(all)
          /\ Limit(v) = 0 => 0 + Len(items) = Len(all) /\ next = Nil
      BY <2>4, PageOfRows DEF items, all, next
    <3> QED BY <3>1
  <2>6. items = SubSeq(all, 1, Len(items)) /\ SubSeq(all, 1, Len(all)) = all
    <3> HIDE DEF items, all
    <3>1. SubSeq(all, 1, 0) = <<>>
      BY SubSeqEmpty
    <3> QED BY <2>3, <2>5, <3>1, ConcatEmptySeq, SubSeqFull
  <2> HIDE DEF items, next, all, data, q, v
  <2>7. data.items \in Seq(Nat) /\ data.next \in Nat \cup {Nil}
    BY <1>3, <2>2, <2>5
  <2>8. data.next # Nil => more \in Asks
    BY <1>2, <2>7 DEF Asks
  <2>9. b \in Bodies
    BY <1>2, <2>7, <2>8 DEF Bodies, States
  <2>10. /\ b.of = i /\ b.query = q /\ b.rows = data.items /\ Full(b) /\ b.state # "loading" /\ ~b.cut
         /\ data.next = Nil => b.next = Nil
         /\ data.next # Nil => b.next = more
    BY DEF Full
  <2> HIDE DEF b
  <2>11. b.next # Nil => v.kind = "table" /\ data.next = next /\ next # Nil
    BY <2>2, <2>10
  <2>12. HasRows(v) => RowsOf(b)
    <3> SUFFICES ASSUME HasRows(v) PROVE RowsOf(b)
      OBVIOUS
    <3>1. b.rows = items
      BY <2>2, <2>10
    <3>2. b.next = Nil => Len(items) = Len(all)
      BY <2>2, <2>4, <2>5, <2>8, <2>10, Distinct
    <3>3. b.next # Nil => b.next = [filters |-> q.filters, search |-> q.search, offset |-> Len(items)] /\ items # <<>>
      BY <2>5, <2>10, <2>11
    <3> QED BY <2>5, <2>6, <2>10, <3>1, <3>2, <3>3 DEF RowsOf, all
  <2>13. Content(v, i, b)
    BY <1>2, <2>10, <2>11, <2>12, Distinct DEF Content
  <2> QED BY <1>4, <2>1, <2>9, <2>10, <2>13 DEF v, q
<1> QED BY <1>5, <1>6, <1>7

LEMMA AppendRowsFields ==
  ASSUME NEW b \in Bodies, NEW m \in Bodies
  PROVE  LET c == AppendRows(b, m)
         IN /\ c \in Bodies /\ c.state = b.state /\ c.of = b.of /\ c.query = b.query
            /\ c.rows = b.rows \o m.rows /\ c.next = m.next /\ c.cut = m.cut
<1>1. b.rows \in Seq(Nat) /\ m.rows \in Seq(Nat)
  BY DEF Bodies
<1>2. b.rows \o m.rows \in Seq(Nat)
  BY <1>1, ConcatProperties
<1> DEFINE rows == b.rows \o m.rows
<1>3. AppendRows(b, m) = [[[b EXCEPT !.rows = rows] EXCEPT !.next = m.next] EXCEPT !.cut = m.cut]
  BY DEF AppendRows
<1>4. rows \in Seq(Nat) /\ m.next \in Asks \cup {Nil} /\ m.cut \in BOOLEAN
  BY <1>2 DEF Bodies
<1> HIDE DEF rows
<1> QED BY <1>3, <1>4 DEF Bodies, rows

\* What asks for more rows is the question of the rows that are there.
LEMMA MoreIsTheQuestion ==
  ASSUME NEW i, NEW v, NEW b \in Bodies, Content(v, i, b), b.next # Nil
  PROVE  /\ v.kind = "table" /\ HasRows(v) /\ IsLazy(v) /\ Full(b) /\ RowsOf(b)
         /\ b.query \in Queries /\ Explicit(b.query.filters)
         /\ b.next \in Asks /\ b.next.filters = b.query.filters /\ b.next.search = b.query.search
         /\ b.next.offset = Len(b.rows) /\ b.next.offset > 0
         /\ b.next.offset \in 0..Len(Matching(b.query))
<1>1. v.kind = "table" /\ HasRows(v) /\ IsLazy(v) /\ Full(b)
  BY TableHasRows DEF Content
<1>2. RowsOf(b) /\ b.query \in Queries /\ Explicit(b.query.filters) /\ b.next \in Asks /\ b.rows \in Seq(Nat)
  BY <1>1 DEF Content, Bodies
<1>3. b.next = [filters |-> b.query.filters, search |-> b.query.search, offset |-> Len(b.rows)] /\ b.rows # <<>>
  BY <1>2 DEF RowsOf
<1>4. Len(b.rows) \in Nat \ {0} /\ Len(b.rows) <= Len(Matching(b.query)) /\ Len(Matching(b.query)) \in Nat
  BY <1>2, <1>3, EmptySeq, MatchingIsASeq DEF RowsOf
<1> QED BY <1>1, <1>2, <1>3, <1>4

\* The reply to a row: the rows that continue the card's, whatever day it is.
LEMMA RowReply ==
  ASSUME NEW i \in Nat, i \in W, widgets[i].size \in Nat, day \in Int,
         NEW b \in Bodies, Content(widgets[i], i, b), b.next # Nil, NEW ok \in BOOLEAN
  PROVE  LET r == Reply(i, b.next, ok)
         IN /\ r \in Replies /\ r # Failed /\ r.kind = "rows" /\ r.body \in Bodies
            /\ Content(widgets[i], i, AppendRows(b, r.body))
<1> DEFINE v == widgets[i]
           asked == b.next
           q == [filters |-> Parse(asked.filters, day), search |-> asked.search]
           all == Matching(q)
           total == IF v.total THEN Len(all) ELSE Nil
           items == Items(q, asked.offset, Limit(v))
           next == NextOffset(items, asked.offset, Limit(v), total)
           data == Data(v, q, asked.offset)
           more == [filters |-> q.filters, search |-> q.search, offset |-> data.next]
           r == Reply(i, asked, ok)
<1>1. /\ v.kind = "table" /\ HasRows(v) /\ IsLazy(v) /\ Full(b) /\ RowsOf(b)
      /\ b.query \in Queries /\ Explicit(b.query.filters)
      /\ asked \in Asks /\ asked.filters = b.query.filters /\ asked.search = b.query.search
      /\ asked.offset = Len(b.rows) /\ asked.offset > 0
      /\ asked.offset \in 0..Len(Matching(b.query))
  BY MoreIsTheQuestion
<1>2. q = b.query
  <2>1. b.query = [filters |-> b.query.filters, search |-> b.query.search]
    BY <1>1 DEF Queries
  <2>2. Parse(asked.filters, day) = b.query.filters
    BY <1>1, ExplicitIsParsed
  <2> QED BY <1>1, <2>1, <2>2
<1>3. \A c \in Bodies : /\ [kind |-> "rows", body |-> c] \in Replies
                        /\ [kind |-> "rows", body |-> c] # Failed
  <2>1. \A c : "body" \in DOMAIN [kind |-> "rows", body |-> c] /\ "body" \notin DOMAIN Failed
    BY DEF Failed
  <2> QED BY <2>1 DEF Replies
<1>4. b.rows \in Seq(Nat) /\ b.of = i
  BY <1>1 DEF Content, Bodies
<1>5. CASE ~ok
  <2> DEFINE m == [[Loading EXCEPT !.of = i] EXCEPT !.cut = TRUE]
  <2>1. r = [kind |-> "rows", body |-> m]
    BY <1>1, <1>5 DEF Reply, Apology
  <2>2. m \in Bodies /\ m.rows = <<>> /\ m.next = Nil /\ m.cut
    <3>1. Loading.rows = <<>> /\ Loading.next = Nil /\ Loading \in Bodies
      BY LoadingForms
    <3> QED BY <3>1 DEF Bodies
  <2> HIDE DEF m
  <2> DEFINE c == AppendRows(b, m)
  <2>3. /\ c.state = b.state /\ c.of = b.of /\ c.query = b.query
        /\ c.rows = b.rows /\ c.next = Nil /\ c.cut
    <3>1. b.rows \o <<>> = b.rows
      BY <1>4, ConcatEmptySeq
    <3>2. /\ c.state = b.state /\ c.of = b.of /\ c.query = b.query
          /\ c.rows = b.rows \o m.rows /\ c.next = m.next /\ c.cut = m.cut
      BY <2>2, AppendRowsFields
    <3> QED BY <2>2, <3>1, <3>2
  <2> HIDE DEF c
  <2>4. RowsOf(c)
    BY <1>1, <2>3 DEF RowsOf
  <2>5. Content(v, i, c)
    BY <1>1, <1>4, <2>3, <2>4, Distinct DEF Content, Full
  <2> QED BY <1>3, <2>1, <2>2, <2>5 DEF c
<1>6. CASE ok
  <2> DEFINE m == [state |-> IF data.empty THEN "empty" ELSE "shown", of |-> i, query |-> q,
                   rows |-> data.items, next |-> IF data.next = Nil THEN Nil ELSE more, cut |-> FALSE]
  <2>1. r = [kind |-> "rows", body |-> m]
    BY <1>1, <1>6 DEF Reply, QueryParams
  <2>2. data.items = items /\ data.next = next
    BY <1>1 DEF Data
  <2>3. all \in Seq(Nat) /\ Len(all) \in Nat
    BY MatchingIsASeq
  <2>4. Limit(v) \in Nat /\ asked.offset \in 0..Len(all) /\ total \in {Nil, Len(all)}
    BY <1>1, <1>2, <2>3 DEF Limit
  <2>5. /\ items \in Seq(Nat) /\ Len(items) \in Nat
        /\ asked.offset + Len(items) <= Len(all)
        /\ SubSeq(all, 1, asked.offset) \o items = SubSeq(all, 1, asked.offset + Len(items))
        /\ next # Nil => next = asked.offset + Len(items) /\ next \in Nat /\ items # <<>>
        /\ next = Nil /\ Limit(v) # 0 => asked.offset + Len(items) = Len(all)
        /\ Limit(v) = 0 => asked.offset + Len(items) = Len(all) /\ next = Nil
    <3> HIDE DEF q, total, items, all, next, v, asked
    <3> QED BY <2>4, PageOfRows DEF items, all, next
  <2>6. SubSeq(all, 1, Len(all)) = all
    BY <2>3, SubSeqFull
  <2> HIDE DEF items, next, all, data
  <2>7. data.next # Nil => more \in Asks
    BY <1>1, <1>2, <2>2, <2>5 DEF Asks, Queries
  <2>8. m \in Bodies
    BY <1>1, <1>2, <2>2, <2>5, <2>7 DEF Bodies, States
  <2>9. /\ m.rows = items /\ ~m.cut
        /\ next = Nil => m.next = Nil
        /\ next # Nil => m.next = more /\ more.offset = next
    BY <2>2
  <2> HIDE DEF m
  <2> DEFINE c == AppendRows(b, m)
  <2>10. /\ c.state = b.state /\ c.of = b.of /\ c.query = b.query
         /\ c.rows = b.rows \o items /\ c.next = m.next /\ ~c.cut
    BY <2>8, <2>9, AppendRowsFields
  <2> HIDE DEF c
  <2>11. /\ b.rows = SubSeq(all, 1, asked.offset)
         /\ Len(c.rows) = asked.offset + Len(items)
         /\ c.rows = SubSeq(all, 1, Len(c.rows)) /\ Len(c.rows) <= Len(all)
    <3>1. b.rows = SubSeq(all, 1, asked.offset)
      BY <1>1, <1>2 DEF RowsOf, all
    <3>2. Len(b.rows \o items) = Len(b.rows) + Len(items)
      BY <1>4, <2>5, ConcatProperties
    <3> QED BY <1>1, <2>5, <2>10, <3>1, <3>2
  <2>12. c.rows # <<>>
    <3>1. Len(c.rows) > 0
      BY <1>1, <2>5, <2>11
    <3> QED BY <3>1, EmptySeq
  <2>13. c.next = Nil => c.rows = all
    <3>1. c.next = Nil => next = Nil
      BY <2>2, <2>7, <2>9, <2>10, Distinct
    <3>2. next = Nil => Len(c.rows) = Len(all)
      BY <2>4, <2>5, <2>11
    <3> QED BY <2>6, <2>11, <3>1, <3>2
  <2>14. c.next # Nil => c.next = [filters |-> q.filters, search |-> q.search, offset |-> Len(c.rows)]
    BY <2>2, <2>5, <2>9, <2>10, <2>11
  <2>15. RowsOf(c)
    BY <1>2, <2>10, <2>11, <2>12, <2>13, <2>14 DEF RowsOf, all
  <2>16. Content(v, i, c)
    BY <1>1, <1>4, <2>10, <2>15, Distinct DEF Content, Full
  <2> QED BY <1>3, <2>1, <2>8, <2>9, <2>16 DEF c
<1> QED BY <1>5, <1>6
-----------------------------------------------------------------------------
(* What a card and its requests owe to the bar and to the search box.      *)

\* f and g say the same of the filters widget v depends on.
Agrees(v, f, g) ==
  /\ v.deps = Nil \/ "store" \in v.deps => f.store = g.store
  /\ v.deps = Nil \/ "period" \in v.deps => f.from = g.from /\ f.to = g.to

\* What a card may have been asked with: while the delay of its search box
\* runs, any text.
Wanted(w) == IF w \in typing THEN Texts \cup {Nil} ELSE {box[w]}

\* b, if it has content, answers filters f as read on a day up to last, and
\* one of the texts.
Says(v, b, f, last, texts) ==
  Full(b) /\ IsLazy(v) =>
    /\ b.query.search \in texts
    /\ \E today \in Day0..last : Agrees(v, b.query.filters, Parse(f, today))

AsksFor(v, asked, f, texts) == Agrees(v, asked.filters, f) /\ asked.search \in texts

LEMMA ParseAgrees ==
  ASSUME NEW v, NEW f, NEW g, Agrees(v, f, g), NEW today
  PROVE  Agrees(v, Parse(f, today), Parse(g, today))
BY DEF Agrees, Parse

LEMMA SaysPersists ==
  ASSUME NEW v, NEW b, NEW f, NEW g, Agrees(v, f, g),
         NEW last \in Nat, NEW later \in Nat, last <= later,
         NEW texts, NEW more, texts \subseteq more, Says(v, b, f, last, texts)
  PROVE  Says(v, b, g, later, more)
<1> SUFFICES ASSUME Full(b), IsLazy(v)
             PROVE  /\ b.query.search \in more
                    /\ \E today \in Day0..later : Agrees(v, b.query.filters, Parse(g, today))
  BY DEF Says
<1>1. PICK today \in Day0..last : Agrees(v, b.query.filters, Parse(f, today))
  BY DEF Says
<1>2. today \in Day0..later
  BY DashboardAssumption
<1>3. Agrees(v, Parse(f, today), Parse(g, today))
  BY ParseAgrees
<1>4. Agrees(v, b.query.filters, Parse(g, today))
  BY <1>1, <1>3 DEF Agrees
<1> QED BY <1>2, <1>4 DEF Says

LEMMA AsksPersist ==
  ASSUME NEW v, NEW asked, NEW f, NEW g, Agrees(v, f, g),
         NEW texts, NEW more, texts \subseteq more, AsksFor(v, asked, f, texts)
  PROVE  AsksFor(v, asked, g, more)
BY DEF AsksFor, Agrees

\* An answer served today to a request that is up to date is up to date.
LEMMA AnswerSays ==
  ASSUME NEW v, NEW asked, NEW f, NEW today \in Nat, Day0 <= today, NEW texts,
         AsksFor(v, asked, f, texts), NEW b,
         Full(b) /\ IsLazy(v) => b.query = [filters |-> Parse(asked.filters, today), search |-> asked.search]
  PROVE  Says(v, b, f, today, texts)
<1> SUFFICES ASSUME Full(b), IsLazy(v)
             PROVE  /\ b.query.search \in texts
                    /\ \E d \in Day0..today : Agrees(v, b.query.filters, Parse(f, d))
  BY DEF Says
<1>1. b.query.filters = Parse(asked.filters, today) /\ b.query.search = asked.search
  OBVIOUS
<1>2. today \in Day0..today
  BY DashboardAssumption
<1> QED BY <1>1, <1>2, ParseAgrees DEF AsksFor
-----------------------------------------------------------------------------
(* The inductive invariant.                                                *)

Registered == widgets \in Dashboards /\ Valid(widgets)

CardsHold == \A w \in W : Content(widgets[w], w, body[w])

\* A reply under way fits the card it will be put into; what a row asks for is
\* what its card offers.
RepliesFit ==
  \A e \in Elements : ~Idle(e) =>
    LET reply == flight[e].reply
        fits == reply \notin {Nil, Failed}
    IN IF e[1] = "row"
       THEN /\ body[e[2]].next # Nil /\ flight[e].asked = body[e[2]].next
            /\ fits => /\ reply.kind = "rows"
                       /\ Content(widgets[e[2]], e[2], AppendRows(body[e[2]], reply.body))
       ELSE fits => /\ reply.kind = "body" /\ reply.body.state # "loading"
                    /\ Content(widgets[e[2]], e[2], reply.body)

Asking(w) == {<<"body", w>>, <<"search", w>>}

\* Of a card that was not asked for twice at once: what it shows at rest, or
\* what it asks for and no later request will replace, and the reply to that,
\* follow the bar and the box.
Current ==
  \A w \in cards \ crossed :
    /\ Idle(<<"body", w>>) \/ Idle(<<"search", w>>)
    /\ Idle(<<"body", w>>) /\ Idle(<<"search", w>>) => Says(widgets[w], body[w], bar, day, Wanted(w))
    /\ \A e \in Asking(w) : ~Idle(e) /\ e \notin queued =>
         /\ AsksFor(widgets[w], flight[e].asked, bar, Wanted(w))
         /\ flight[e].reply \notin {Nil, Failed} =>
              Says(widgets[w], flight[e].reply.body, bar, day, Wanted(w))

\* When the URL names a period, so does the bar, and it is the same one.
Link == url.from # Nil /\ url.to # Nil =>
          bar.from # Nil /\ bar.to # Nil /\ Parse(url, day) = Parse(bar, day)

IInv == TypeOK /\ Registered /\ CardsHold /\ RepliesFit /\ Current /\ Link

LEMMA ElementFacts ==
  /\ \A e \in Elements : e[1] \in Parts /\ e[2] \in W /\ e = <<e[1], e[2]>>
  /\ \A w \in W, part \in Parts : <<part, w>> \in Elements /\ <<part, w>>[1] = part /\ <<part, w>>[2] = w
BY DEF Elements

LEMMA RegisteredFacts ==
  ASSUME Registered
  PROVE  /\ W \subseteq Nat /\ \A w \in W : w \in Nat /\ widgets[w].size \in Nat
         /\ \A w \in W : Resolve(widgets[w].key) \subseteq {w}
<1>1. W \subseteq Nat /\ \A w \in W : w \in Nat /\ widgets[w].size \in Nat
  BY HostAssumption DEF Registered, W
<1>2. ASSUME NEW w \in W PROVE Resolve(widgets[w].key) \subseteq {w}
  BY DEF Registered, Valid, Resolve, VisibleWidgets, W
<1> QED BY <1>1, <1>2

LEMMA DayFacts ==
  ASSUME TypeOK PROVE day \in Nat /\ day \in Int /\ Day0 <= day /\ Day0 \in Nat
BY DashboardAssumption DEF TypeOK

LEMMA AskingFacts ==
  ASSUME NEW w \in W
  PROVE  /\ Asking(w) \subseteq Elements /\ <<"row", w>> \in Elements
         /\ \A e \in Asking(w) : e[2] = w /\ e[1] \in {"body", "search"}
<1>1. "body" \in Parts /\ "search" \in Parts /\ "row" \in Parts
  BY DEF Parts
<1> QED BY <1>1, ElementFacts DEF Asking

\* A request as an element sends it.
LEMMA RequestFacts ==
  ASSUME NEW e, NEW f \in Filters, NEW text \in Texts \cup {Nil}
  PROVE  LET r == Request(Included(e, f, text))
         IN /\ r \in Pending /\ r # Nil /\ r.reply = Nil
            /\ r.asked.filters = f /\ r.asked.search = text /\ r.asked.offset = 0
<1>1. Included(e, f, text) \in Asks
  BY DEF Included, Asks
<1>2. Request(Included(e, f, text)) \in Pending
  BY <1>1 DEF Request, Pending
<1> QED BY <1>2, Distinct DEF Request, Included

LEMMA WantedFacts ==
  ASSUME TypeOK, NEW w \in W PROVE box[w] \in Wanted(w) /\ Wanted(w) \subseteq Texts \cup {Nil}
BY DEF TypeOK, Wanted
-----------------------------------------------------------------------------
(* Steps of the reader.                                                    *)

\* The elements S ask, after the bar, a box or nothing has changed: every card
\* is asked for or owes no more than before.
LEMMA IssueInv ==
  ASSUME IInv, NEW S, S \subseteq Elements,
         \A e \in S : e[1] \in {"body", "search"} /\ e[2] \in cards,
         \A e, g \in S : e[2] = g[2] => e = g,
         Issue(S), UNCHANGED <<widgets, day, granted, cards, body>>,
         bar' \in Filters, url' \in Filters, box' \in [W -> Texts \cup {Nil}],
         typing' \subseteq cards, edits' \in 0..MaxEdits, Link',
         \A w \in cards : \/ \E e \in S : e[2] = w
                          \/ Agrees(widgets[w], bar, bar') /\ Wanted(w) \subseteq Wanted(w)'
  PROVE  IInv'
<1> DEFINE free == {e \in S : Idle(e)}
           new(e) == Request(Included(e, bar', box'[e[2]]))
<1> USE DEF IInv
<1>1. /\ W' = W /\ Elements' = Elements /\ widgets' = widgets /\ body' = body
      /\ cards' = cards /\ day' = day
  BY DEF W, Elements
<1>2. /\ flight' = [e \in Elements |-> IF e \in free THEN new(e) ELSE flight[e]]
      /\ queued' = queued \cup (S \ free)
      /\ crossed' = {w \in W : \E e \in free : e[2] = w /\ Crossing(e)} \cup
                    {w \in crossed : ~\E e \in free : e[2] = w}
  BY DEF Issue
<1>3. ASSUME NEW e \in Elements
      PROVE  /\ new(e) \in Pending /\ new(e) # Nil /\ new(e).reply = Nil
             /\ new(e).asked.filters = bar' /\ new(e).asked.search = box'[e[2]]
             /\ new(e).asked.offset = 0
  <2>1. e[2] \in W /\ box'[e[2]] \in Texts \cup {Nil}
    BY ElementFacts
  <2> QED BY <2>1, RequestFacts
<1>4. \A e \in Elements : flight'[e] = IF e \in free THEN new(e) ELSE flight[e]
  BY <1>2
<1> HIDE DEF new
<1>5. \A e \in Elements : Idle(e)' <=> Idle(e) /\ e \notin S
  BY <1>3, <1>4 DEF Idle
<1>6. cards \subseteq W /\ crossed \subseteq cards
  BY DEF TypeOK
<1>7. TypeOK'
  <2>1. day' \in Day0..Day0 + MaxDay /\ granted' \in BOOLEAN /\ edits' \in 0..MaxEdits
    BY DEF TypeOK
  <2>2. cards' \subseteq W' /\ typing' \subseteq cards' /\ crossed' \subseteq cards'
    BY <1>1, <1>2, <1>6
  <2>3. box' \in [W' -> Texts \cup {Nil}] /\ body' \in [W' -> Bodies]
    BY <1>1 DEF TypeOK
  <2>4. flight' \in [Elements' -> Pending \cup {Nil}]
    BY <1>1, <1>2, <1>3 DEF TypeOK
  <2>5. \A w \in W' : /\ body'[w].state # "loading" => w \in cards'
                      /\ body'[w].next # Nil => Shown(w)'
    BY <1>1 DEF TypeOK, Shown
  <2>6. queued' \subseteq {e \in Elements' : e[1] # "row" /\ ~Idle(e)'}
    BY <1>1, <1>2, <1>5 DEF TypeOK
  <2>7. ASSUME NEW e \in Elements', ~Idle(e)'
        PROVE  e[2] \in cards' /\ (e[1] = "row" <=> flight'[e].asked.offset > 0)
    <3>1. CASE e \in free
      BY <1>1, <1>3, <1>4, <3>1
    <3>2. CASE e \notin free
      <4>1. flight'[e] = flight[e] /\ ~Idle(e)
        BY <1>1, <1>4, <1>5, <2>7, <3>2
      <4> QED BY <1>1, <4>1 DEF TypeOK
    <3> QED BY <3>1, <3>2
  <2> QED BY <2>1, <2>2, <2>3, <2>4, <2>5, <2>6, <2>7 DEF TypeOK
<1>8. Registered' /\ CardsHold'
  BY <1>1 DEF Registered, CardsHold, Valid, W
<1>9. RepliesFit'
  <2> SUFFICES ASSUME NEW e \in Elements', ~Idle(e)'
               PROVE  LET reply == flight'[e].reply
                          fits == reply \notin {Nil, Failed}
                      IN IF e[1] = "row"
                         THEN /\ body'[e[2]].next # Nil /\ flight'[e].asked = body'[e[2]].next
                              /\ fits => /\ reply.kind = "rows"
                                         /\ Content(widgets'[e[2]], e[2], AppendRows(body'[e[2]], reply.body))
                         ELSE fits => /\ reply.kind = "body" /\ reply.body.state # "loading"
                                      /\ Content(widgets'[e[2]], e[2], reply.body)
    BY DEF RepliesFit
  <2>1. CASE e \in free
    BY <1>1, <1>3, <1>4, <2>1
  <2>2. CASE e \notin free
    <3>1. flight'[e] = flight[e] /\ ~Idle(e)
      BY <1>1, <1>4, <1>5, <2>2
    <3> QED BY <1>1, <3>1 DEF RepliesFit
  <2> QED BY <2>1, <2>2
<1>10. Current'
  <2> SUFFICES ASSUME NEW w \in cards, w \notin crossed'
               PROVE  /\ Idle(<<"body", w>>)' \/ Idle(<<"search", w>>)'
                      /\ Idle(<<"body", w>>)' /\ Idle(<<"search", w>>)' =>
                           Says(widgets[w], body[w], bar', day, Wanted(w)')
                      /\ \A e \in Asking(w) : ~Idle(e)' /\ e \notin queued' =>
                           /\ AsksFor(widgets[w], flight'[e].asked, bar', Wanted(w)')
                           /\ flight'[e].reply \notin {Nil, Failed} =>
                                Says(widgets[w], flight'[e].reply.body, bar', day, Wanted(w)')
    BY <1>1 DEF Current, Asking
  <2>1. w \in W /\ Asking(w) \subseteq Elements /\ \A e \in Asking(w) : e[2] = w /\ e[1] \in {"body", "search"}
    BY <1>6, AskingFacts
  <2>2. box'[w] \in Wanted(w)'
    BY <2>1 DEF Wanted
  <2>3. CASE \E e \in S : e[2] = w
    <3>1. PICK e \in S : e[2] = w
      BY <2>3
    <3>2. e \in Asking(w)
      BY <3>1, ElementFacts DEF Asking
    <3>3. \A g \in Asking(w) : g # e => g \notin S
      BY <2>1, <3>1
    <3>4. CASE Idle(e)
      <4>1. e \in free /\ ~Crossing(e)
        BY <1>2, <2>1, <3>1, <3>4
      <4>2. \A g \in Asking(w) : g # e => Idle(g)
        <5>1. \A part \in {"body", "search"} \ {e[1]} : Idle(<<part, w>>)
          BY <2>1, <3>1, <3>2, <4>1 DEF Crossing
        <5> QED BY <3>2, <5>1 DEF Asking
      <4>3. ~Idle(e)' /\ \A g \in Asking(w) : g # e => Idle(g)'
        BY <1>5, <2>1, <3>2, <3>3, <4>1, <4>2
      <4>4. flight'[e] = new(e) /\ flight'[e].reply = Nil /\ AsksFor(widgets[w], flight'[e].asked, bar', Wanted(w)')
        BY <1>3, <1>4, <2>1, <2>2, <3>1, <3>2, <4>1 DEF AsksFor, Agrees
      <4> QED BY <3>2, <4>3, <4>4 DEF Asking
    <3>5. CASE ~Idle(e)
      <4>1. e \in queued' /\ ~\E g \in free : g[2] = w
        BY <1>2, <3>1, <3>5
      <4>2. w \notin crossed
        BY <1>2, <4>1
      <4>3. \A g \in Asking(w) : g # e => Idle(g)
        BY <3>2, <3>5, <4>2 DEF Current, Asking
      <4>4. ~Idle(e)' /\ \A g \in Asking(w) : g # e => Idle(g)'
        BY <1>5, <2>1, <3>2, <3>3, <3>5, <4>3
      <4> QED BY <3>2, <4>1, <4>4 DEF Asking
    <3> QED BY <3>4, <3>5
  <2>4. CASE ~\E e \in S : e[2] = w
    <3>1. Agrees(widgets[w], bar, bar') /\ Wanted(w) \subseteq Wanted(w)'
      BY <2>4
    <3>2. w \notin crossed
      BY <1>2, <2>4
    <3>3. \A e \in Asking(w) : /\ e \notin S /\ flight'[e] = flight[e] /\ (Idle(e)' <=> Idle(e))
                               /\ (e \in queued' <=> e \in queued)
      BY <1>2, <1>4, <1>5, <2>1, <2>4
    <3>4. day \in Nat /\ day <= day
      BY DayFacts
    <3>5. \A b : Says(widgets[w], b, bar, day, Wanted(w)) => Says(widgets[w], b, bar', day, Wanted(w)')
      BY <3>1, <3>4, SaysPersists
    <3>6. \A asked : AsksFor(widgets[w], asked, bar, Wanted(w)) => AsksFor(widgets[w], asked, bar', Wanted(w)')
      BY <3>1, AsksPersist
    <3>7. /\ Idle(<<"body", w>>) \/ Idle(<<"search", w>>)
          /\ Idle(<<"body", w>>) /\ Idle(<<"search", w>>) => Says(widgets[w], body[w], bar, day, Wanted(w))
          /\ \A e \in Asking(w) : ~Idle(e) /\ e \notin queued =>
               /\ AsksFor(widgets[w], flight[e].asked, bar, Wanted(w))
               /\ flight[e].reply \notin {Nil, Failed} =>
                    Says(widgets[w], flight[e].reply.body, bar, day, Wanted(w))
      BY <3>2 DEF Current
    <3>8. <<"body", w>> \in Asking(w) /\ <<"search", w>> \in Asking(w)
      BY DEF Asking
    <3> QED BY <3>3, <3>5, <3>6, <3>7, <3>8
  <2> QED BY <2>3, <2>4
<1> QED BY <1>7, <1>8, <1>9, <1>10

LEMMA ChangeFilterInv ==
  ASSUME IInv, NEW name \in FilterNames, ChangeFilter(name) PROVE IInv'
<1> USE DEF IInv
<1>1. PICK S : S = {<<"body", w>> : w \in {i \in cards : name \in ReloadsOn(widgets[i])}}
  OBVIOUS
<1>2. Issue(S) /\ UNCHANGED <<widgets, day, granted, cards, body>> /\ box' = box /\ typing' = typing
  BY <1>1 DEF ChangeFilter, search
<1>3. edits' \in 0..MaxEdits
  BY DashboardAssumption DEF ChangeFilter, Edit, TypeOK
<1>4. bar \in Filters /\ cards \subseteq W /\ typing \subseteq cards /\ box \in [W -> Texts \cup {Nil}]
  BY DEF TypeOK
<1>5. /\ bar' \in Filters
      /\ name = "store" => bar'.from = bar.from /\ bar'.to = bar.to
      /\ name # "store" => bar'.store = bar.store
  <2>1. CASE name = "store"
    <3>1. PICK s \in Stores \cup {Nil} : bar' = [bar EXCEPT !.store = s]
      BY <2>1 DEF ChangeFilter
    <3> QED BY <1>4, <2>1, <3>1 DEF Filters
  <2>2. CASE name # "store"
    <3>1. PICK part \in {"from", "to"}, d \in DateInputs : bar' = [bar EXCEPT ![part] = d]
      BY <2>2 DEF ChangeFilter
    <3>2. d \in Int \cup {Nil}
      BY DashboardAssumption DEF DateInputs
    <3> QED BY <1>4, <2>2, <3>1, <3>2 DEF Filters
  <2> QED BY <2>1, <2>2
<1>6. url' = bar'
  BY DEF ChangeFilter
<1>7. S \subseteq Elements /\ \A e \in S : e[1] = "body" /\ e[2] \in cards
  <2>1. \A w \in cards : <<"body", w>> \in Elements
    BY <1>4, AskingFacts DEF Asking
  <2> QED BY <1>1, <2>1
<1>8. \A e, g \in S : e[2] = g[2] => e = g
  BY <1>1
<1>9. ASSUME NEW w \in cards
      PROVE  \/ \E e \in S : e[2] = w
             \/ Agrees(widgets[w], bar, bar') /\ Wanted(w) \subseteq Wanted(w)'
  <2>1. CASE name \in ReloadsOn(widgets[w])
    <3>1. <<"body", w>> \in S /\ <<"body", w>>[2] = w
      BY <1>1, <2>1
    <3> QED BY <3>1
  <2>2. CASE name \notin ReloadsOn(widgets[w])
    <3>1. widgets[w].deps # Nil /\ name \notin widgets[w].deps
      BY <2>2 DEF ReloadsOn
    <3>2. name \in {"period", "store"}
      BY DEF FilterNames
    <3>3. Agrees(widgets[w], bar, bar')
      BY <1>5, <3>1, <3>2 DEF Agrees
    <3>4. Wanted(w)' = Wanted(w)
      BY <1>2 DEF Wanted
    <3> QED BY <3>3, <3>4
  <2> QED BY <2>1, <2>2
<1>10. Link'
  BY <1>6 DEF Link
<1> QED BY <1>2, <1>3, <1>4, <1>5, <1>6, <1>7, <1>8, <1>9, <1>10, IssueInv

LEMMA TypeInv ==
  ASSUME IInv, NEW w \in W, Type(w) PROVE IInv'
<1> USE DEF IInv
<1>1. /\ w \in cards /\ typing' = typing \cup {w} /\ widgets' = widgets /\ day' = day
      /\ granted' = granted /\ cards' = cards /\ bar' = bar /\ url' = url /\ body' = body
      /\ flight' = flight /\ queued' = queued /\ crossed' = crossed
      /\ edits' = edits + 1 /\ edits < MaxEdits
  BY DEF Type, Edit, page, ajax
<1>2. PICK text \in Texts \cup {Nil} : box' = [box EXCEPT ![w] = text]
  BY DEF Type
<1>3. box' \in [W -> Texts \cup {Nil}] /\ \A i \in W : i # w => box'[i] = box[i]
  BY <1>2 DEF TypeOK
<1>4. Issue({})
  <2>1. flight \in [Elements -> Pending \cup {Nil}] /\ crossed \subseteq W
    BY DEF TypeOK
  <2>2. flight = [e \in Elements |-> flight[e]]
    BY <2>1
  <2> QED BY <1>1, <2>1, <2>2 DEF Issue
<1>5. cards \subseteq W /\ typing' \subseteq cards /\ bar' \in Filters /\ url' \in Filters
      /\ edits' \in 0..MaxEdits
  BY <1>1, DashboardAssumption DEF TypeOK
<1>6. \A i \in cards : Agrees(widgets[i], bar, bar') /\ Wanted(i) \subseteq Wanted(i)'
  <2>1. \A i \in cards : Agrees(widgets[i], bar, bar')
    BY <1>1 DEF Agrees
  <2>2. ASSUME NEW i \in cards PROVE Wanted(i) \subseteq Wanted(i)'
    <3>1. i \in W /\ Wanted(i) \subseteq Texts \cup {Nil}
      BY <1>5, WantedFacts
    <3>2. CASE i \in typing'
      BY <3>1, <3>2 DEF Wanted
    <3>3. CASE i \notin typing'
      BY <1>1, <1>3, <3>1, <3>3 DEF Wanted
    <3> QED BY <3>2, <3>3
  <2> QED BY <2>1, <2>2
<1>7. Link'
  BY <1>1 DEF Link
<1>8. {} \subseteq Elements /\ UNCHANGED <<widgets, day, granted, cards, body>>
  BY <1>1
<1> QED BY <1>3, <1>4, <1>5, <1>6, <1>7, <1>8, IssueInv

LEMMA SearchInv ==
  ASSUME IInv, NEW w \in W, Search(w) PROVE IInv'
<1> USE DEF IInv
<1>1. /\ w \in typing /\ typing' = typing \ {w} /\ widgets' = widgets /\ day' = day
      /\ granted' = granted /\ cards' = cards /\ bar' = bar /\ url' = url /\ body' = body
      /\ box' = box /\ edits' = edits /\ Issue({<<"search", w>>})
  BY DEF Search, page
<1>2. PICK S : S = {<<"search", w>>}
  OBVIOUS
<1>3. /\ w \in cards /\ cards \subseteq W /\ typing' \subseteq cards /\ bar' \in Filters /\ url' \in Filters
      /\ edits' \in 0..MaxEdits /\ box' \in [W -> Texts \cup {Nil}]
  BY <1>1 DEF TypeOK
<1>4. S \subseteq Elements /\ \A e \in S : e[1] = "search" /\ e[2] = w
  BY <1>2, <1>3, AskingFacts DEF Asking
<1>5. \A i \in cards : i # w => Agrees(widgets[i], bar, bar') /\ Wanted(i) \subseteq Wanted(i)'
  BY <1>1 DEF Agrees, Wanted
<1>6. \A i \in cards : \/ \E e \in S : e[2] = i
                       \/ Agrees(widgets[i], bar, bar') /\ Wanted(i) \subseteq Wanted(i)'
  BY <1>2, <1>4, <1>5
<1>7. Link'
  BY <1>1 DEF Link
<1>8. Issue(S) /\ UNCHANGED <<widgets, day, granted, cards, body>> /\ \A e, g \in S : e = g
  BY <1>1, <1>2
<1> QED BY <1>3, <1>4, <1>6, <1>7, <1>8, IssueInv

LEMMA RetryInv ==
  ASSUME IInv, NEW w \in W, Retry(w) PROVE IInv'
<1> USE DEF IInv
<1>1. /\ body[w].state = "error" /\ widgets' = widgets /\ day' = day /\ typing' = typing
      /\ granted' = granted /\ cards' = cards /\ bar' = bar /\ url' = url /\ body' = body
      /\ box' = box /\ edits' = edits + 1 /\ edits < MaxEdits /\ Issue({<<"body", w>>})
  BY DEF Retry, page, search, Edit
<1>2. PICK S : S = {<<"body", w>>}
  OBVIOUS
<1>3. /\ w \in cards /\ cards \subseteq W /\ typing' \subseteq cards /\ bar' \in Filters /\ url' \in Filters
      /\ edits' \in 0..MaxEdits /\ box' \in [W -> Texts \cup {Nil}]
  BY <1>1, DashboardAssumption DEF TypeOK
<1>4. S \subseteq Elements /\ \A e \in S : e[1] = "body" /\ e[2] = w
  BY <1>2, <1>3, AskingFacts DEF Asking
<1>5. \A i \in cards : Agrees(widgets[i], bar, bar') /\ Wanted(i) \subseteq Wanted(i)'
  BY <1>1 DEF Agrees, Wanted
<1>6. Link'
  BY <1>1 DEF Link
<1>7. Issue(S) /\ UNCHANGED <<widgets, day, granted, cards, body>> /\ \A e, g \in S : e = g
  BY <1>1, <1>2
<1> QED BY <1>3, <1>4, <1>5, <1>6, <1>7, IssueInv

\* Current looks at nothing else.
LEMMA CurrentStays ==
  ASSUME Current, cards' = cards, crossed' = crossed, widgets' = widgets, body' = body,
         bar' = bar, day' = day, typing' = typing, box' = box, queued' = queued,
         \A w \in cards : \A e \in Asking(w) : flight'[e] = flight[e]
  PROVE  Current'
<1> SUFFICES ASSUME NEW w \in cards, w \notin crossed
             PROVE  /\ Idle(<<"body", w>>)' \/ Idle(<<"search", w>>)'
                    /\ Idle(<<"body", w>>)' /\ Idle(<<"search", w>>)' =>
                         Says(widgets[w], body[w], bar, day, Wanted(w)')
                    /\ \A e \in Asking(w) : ~Idle(e)' /\ e \notin queued =>
                         /\ AsksFor(widgets[w], flight'[e].asked, bar, Wanted(w)')
                         /\ flight'[e].reply \notin {Nil, Failed} =>
                              Says(widgets[w], flight'[e].reply.body, bar, day, Wanted(w)')
  BY DEF Current, Asking
<1>1. Wanted(w)' = Wanted(w)
  BY DEF Wanted
<1>2. <<"body", w>> \in Asking(w) /\ <<"search", w>> \in Asking(w)
  BY DEF Asking
<1>3. \A e \in Asking(w) : flight'[e] = flight[e] /\ (Idle(e)' <=> Idle(e))
  BY DEF Idle
<1> QED BY <1>1, <1>2, <1>3 DEF Current

LEMMA ScrollInv ==
  ASSUME IInv, NEW w \in W, Scroll(w) PROVE IInv'
<1> USE DEF IInv
<1> DEFINE row == <<"row", w>>
           sent == Request(body[w].next)
<1>1. /\ body[w].next # Nil /\ Idle(row) /\ flight' = [flight EXCEPT ![row] = sent]
      /\ widgets' = widgets /\ day' = day /\ granted' = granted /\ cards' = cards /\ bar' = bar
      /\ url' = url /\ box' = box /\ typing' = typing /\ body' = body /\ queued' = queued
      /\ crossed' = crossed /\ edits' = edits /\ W' = W /\ Elements' = Elements
  BY DEF Scroll, page, search, W, Elements
<1>2. row \in Elements /\ row[1] = "row" /\ row[2] = w
  BY ElementFacts DEF Parts
<1>3. /\ body[w] \in Bodies /\ body[w].next \in Asks /\ body[w].next.offset > 0 /\ w \in cards
      /\ body[w].state # "loading"
  <2>1. body[w] \in Bodies
    BY DEF TypeOK
  <2>2. Content(widgets[w], w, body[w])
    BY DEF CardsHold
  <2>3. Full(body[w]) /\ body[w].next \in Asks /\ body[w].next.offset > 0
    BY <1>1, <2>1, <2>2, MoreIsTheQuestion
  <2> QED BY <2>1, <2>3 DEF Full, TypeOK
<1>4. sent \in Pending /\ sent # Nil /\ sent.asked = body[w].next /\ sent.reply = Nil
  <2>1. sent \in Pending
    BY <1>3 DEF Request, Pending
  <2> QED BY <2>1, Distinct DEF Request
<1>5. flight'[row] = sent /\ \A e \in Elements : e # row => flight'[e] = flight[e]
  BY <1>1, <1>2 DEF TypeOK
<1> HIDE DEF sent
<1>6. TypeOK'
  <2>1. flight' \in [Elements' -> Pending \cup {Nil}]
    BY <1>1, <1>4 DEF TypeOK
  <2>2. queued' \subseteq {e \in Elements' : e[1] # "row" /\ ~Idle(e)'}
    BY <1>1, <1>2, <1>5 DEF TypeOK, Idle
  <2>3. ASSUME NEW e \in Elements', ~Idle(e)'
        PROVE  e[2] \in cards' /\ (e[1] = "row" <=> flight'[e].asked.offset > 0)
    BY <1>1, <1>2, <1>3, <1>4, <1>5, <2>3 DEF TypeOK, Idle
  <2>4. \A i \in W' : /\ body'[i].state # "loading" => i \in cards'
                      /\ body'[i].next # Nil => Shown(i)'
    BY <1>1 DEF TypeOK, Shown
  <2> QED BY <1>1, <2>1, <2>2, <2>3, <2>4 DEF TypeOK
<1>7. Registered' /\ CardsHold' /\ Link'
  BY <1>1 DEF Registered, CardsHold, Valid, W, Link
<1>8. RepliesFit'
  <2> SUFFICES ASSUME NEW e \in Elements', ~Idle(e)'
               PROVE  LET reply == flight'[e].reply
                          fits == reply \notin {Nil, Failed}
                      IN IF e[1] = "row"
                         THEN /\ body'[e[2]].next # Nil /\ flight'[e].asked = body'[e[2]].next
                              /\ fits => /\ reply.kind = "rows"
                                         /\ Content(widgets'[e[2]], e[2], AppendRows(body'[e[2]], reply.body))
                         ELSE fits => /\ reply.kind = "body" /\ reply.body.state # "loading"
                                      /\ Content(widgets'[e[2]], e[2], reply.body)
    BY DEF RepliesFit
  <2>1. CASE e = row
    BY <1>1, <1>2, <1>4, <1>5, <2>1
  <2>2. CASE e # row
    BY <1>1, <1>5, <2>2 DEF RepliesFit, Idle
  <2> QED BY <2>1, <2>2
<1>9. Current'
  <2>1. ASSUME NEW i \in cards, NEW e \in Asking(i) PROVE flight'[e] = flight[e]
    <3>1. i \in W
      BY DEF TypeOK
    <3>2. e \in Elements /\ e[1] # "row"
      BY <3>1, AskingFacts
    <3> QED BY <1>2, <1>5, <3>2
  <2> QED BY <1>1, <2>1, CurrentStays
<1> QED BY <1>6, <1>7, <1>8, <1>9

\* A page of its own: what was under way is abandoned.
LEMMA RenderInv ==
  ASSUME IInv, NEW q \in Filters, Render(q), edits' \in 0..MaxEdits PROVE IInv'
<1> USE DEF IInv
<1> DEFINE parsed == Parse(q, day)
           loads == Loads(VisibleWidgets)
           sent(e) == Request(Included(e, parsed, Nil))
           static(w) == w \in VisibleWidgets /\ ~IsLazy(widgets[w])
<1>1. /\ cards' = VisibleWidgets /\ url' = q /\ bar' = parsed /\ box' = [w \in W |-> Nil] /\ typing' = {}
      /\ body' = [w \in W |-> IF static(w) THEN Static(w) ELSE Loading]
      /\ flight' = [e \in Elements |-> IF e \in loads THEN sent(e) ELSE Nil]
      /\ queued' = {} /\ crossed' = {} /\ widgets' = widgets /\ day' = day /\ granted' = granted
      /\ W' = W /\ Elements' = Elements
  BY DEF Render, W, Elements
<1>2. parsed \in Filters
  BY DayFacts, ParseIsExplicit DEF Explicit
<1> HIDE DEF parsed
<1>3. \A e : /\ sent(e) \in Pending /\ sent(e) # Nil /\ sent(e).reply = Nil
             /\ sent(e).asked.filters = parsed /\ sent(e).asked.search = Nil /\ sent(e).asked.offset = 0
  BY <1>2, RequestFacts
<1> HIDE DEF sent
<1>4. VisibleWidgets \subseteq W
  BY DEF VisibleWidgets
<1>5. \A e \in loads : e \in Elements /\ e[1] = "body" /\ e[2] \in VisibleWidgets /\ e = <<"body", e[2]>>
  BY <1>4 DEF Loads, Elements, Parts
<1> HIDE DEF loads
<1>6. \A e \in Elements : /\ e \in loads => flight'[e] = sent(e)
                          /\ e \notin loads => flight'[e] = Nil
                          /\ Idle(e)' <=> e \notin loads
  BY <1>1, <1>3 DEF Idle
<1>7. \A w \in W : /\ body'[w] \in Bodies /\ body'[w].next = Nil
                   /\ body'[w].state # "loading" => static(w)
                   /\ Content(widgets[w], w, body'[w])
  <2> SUFFICES ASSUME NEW w \in W
               PROVE  /\ body'[w] \in Bodies /\ body'[w].next = Nil
                      /\ body'[w].state # "loading" => static(w)
                      /\ Content(widgets[w], w, body'[w])
    OBVIOUS
  <2>1. CASE static(w)
    <3>1. body'[w] = Static(w) /\ w \in Nat
      BY <1>1, <2>1, RegisteredFacts
    <3>2. Static(w) \in Bodies /\ Static(w).next = Nil /\ Static(w).of = w
      BY <3>1, StaticForm
    <3>3. Content(widgets[w], w, Static(w))
      BY <2>1, <3>2, TableHasRows DEF Content
    <3> QED BY <2>1, <3>1, <3>2, <3>3
  <2>2. CASE ~static(w)
    <3>1. body'[w] = Loading
      BY <1>1, <2>2
    <3> QED BY <3>1, LoadingForms DEF Content, Full
  <2> QED BY <2>1, <2>2
<1>8. TypeOK'
  <2>1. cards' \subseteq W' /\ typing' \subseteq cards' /\ crossed' \subseteq cards'
    BY <1>1, <1>4
  <2>2. bar' \in Filters /\ url' \in Filters /\ box' \in [W' -> Texts \cup {Nil}]
    BY <1>1, <1>2
  <2>3. body' \in [W' -> Bodies]
    BY <1>1, <1>7
  <2>4. flight' \in [Elements' -> Pending \cup {Nil}]
    BY <1>1, <1>3
  <2>5. \A w \in W' : /\ body'[w].state # "loading" => w \in cards'
                      /\ body'[w].next # Nil => Shown(w)'
    BY <1>1, <1>7
  <2>6. \A e \in Elements' : ~Idle(e)' => e[2] \in cards' /\ (e[1] = "row" <=> flight'[e].asked.offset > 0)
    BY <1>1, <1>3, <1>5, <1>6
  <2>7. day' \in Day0..Day0 + MaxDay /\ granted' \in BOOLEAN /\ edits' \in 0..MaxEdits
    BY <1>1 DEF TypeOK
  <2>8. queued' \subseteq {e \in Elements' : e[1] # "row" /\ ~Idle(e)'}
    BY <1>1
  <2> QED BY <2>1, <2>2, <2>3, <2>4, <2>5, <2>6, <2>7, <2>8 DEF TypeOK
<1>9. Registered' /\ CardsHold'
  BY <1>1, <1>7 DEF Registered, CardsHold, Valid, W
<1>10. RepliesFit'
  BY <1>1, <1>3, <1>5, <1>6 DEF RepliesFit
<1>11. Current'
  <2> SUFFICES ASSUME NEW w \in VisibleWidgets
               PROVE  /\ Idle(<<"body", w>>)' \/ Idle(<<"search", w>>)'
                      /\ Idle(<<"body", w>>)' /\ Idle(<<"search", w>>)' =>
                           Says(widgets[w], body'[w], bar', day, Wanted(w)')
                      /\ \A e \in Asking(w) : ~Idle(e)' /\ e \notin queued' =>
                           /\ AsksFor(widgets[w], flight'[e].asked, bar', Wanted(w)')
                           /\ flight'[e].reply \notin {Nil, Failed} =>
                                Says(widgets[w], flight'[e].reply.body, bar', day, Wanted(w)')
    BY <1>1 DEF Current, Asking
  <2>1. /\ w \in W /\ Asking(w) \subseteq Elements
        /\ <<"body", w>> \in Elements /\ <<"search", w>> \in Elements
    BY <1>4, AskingFacts DEF Asking
  <2>2. Idle(<<"search", w>>)'
    BY <1>5, <1>6, <2>1
  <2>3. Idle(<<"body", w>>)' => ~Full(body'[w]) \/ ~IsLazy(widgets[w])
    <3>1. IsLazy(widgets[w]) => <<"body", w>> \in loads
      BY DEF Loads, loads
    <3>2. IsLazy(widgets[w]) => body'[w].state = "loading"
      BY <1>7, <2>1
    <3> QED BY <3>2 DEF Full
  <2>4. Wanted(w)' = {Nil}
    BY <1>1, <2>1 DEF Wanted
  <2>5. ASSUME NEW e \in Asking(w), ~Idle(e)'
        PROVE  /\ AsksFor(widgets[w], flight'[e].asked, bar', Wanted(w)')
               /\ flight'[e].reply = Nil
    <3>1. flight'[e] = sent(e)
      BY <1>6, <2>1, <2>5
    <3> QED BY <1>1, <1>3, <2>4, <3>1 DEF AsksFor, Agrees
  <2> QED BY <2>2, <2>3, <2>5 DEF Says
<1>12. Link'
  <2>1. q.from # Nil /\ q.to # Nil => Parse(parsed, day) = Parse(q, day)
    BY DayFacts, ParseIsStable DEF parsed
  <2>2. parsed.from # Nil /\ parsed.to # Nil
    BY DayFacts, ParseIsExplicit, Distinct DEF Explicit, parsed
  <2> QED BY <1>1, <2>1, <2>2 DEF Link
<1> QED BY <1>8, <1>9, <1>10, <1>11, <1>12

LEMMA NewDayInv == IInv /\ NewDay => IInv'
<1> SUFFICES ASSUME IInv, NewDay PROVE IInv'
  OBVIOUS
<1> USE DEF IInv
<1>1. /\ day < Day0 + MaxDay /\ day' = day + 1
      /\ widgets' = widgets /\ granted' = granted /\ cards' = cards /\ bar' = bar
      /\ url' = url /\ box' = box /\ typing' = typing /\ body' = body /\ flight' = flight
      /\ queued' = queued /\ crossed' = crossed /\ edits' = edits /\ W' = W /\ Elements' = Elements
  BY DEF NewDay, page, search, ajax, W, Elements
<1>2. day \in Nat /\ day' \in Nat /\ day <= day' /\ day' \in Int
  BY <1>1, DayFacts
<1>3. TypeOK'
  BY <1>1, DashboardAssumption DEF TypeOK, Idle, Shown
<1>4. Registered' /\ CardsHold' /\ RepliesFit'
  BY <1>1 DEF Registered, CardsHold, RepliesFit, Valid, W, Idle
<1>5. Current'
  <2> SUFFICES ASSUME NEW w \in cards, w \notin crossed
               PROVE  /\ Idle(<<"body", w>>) \/ Idle(<<"search", w>>)
                      /\ Idle(<<"body", w>>) /\ Idle(<<"search", w>>) =>
                           Says(widgets[w], body[w], bar, day', Wanted(w))
                      /\ \A e \in Asking(w) : ~Idle(e) /\ e \notin queued =>
                           /\ AsksFor(widgets[w], flight[e].asked, bar, Wanted(w))
                           /\ flight[e].reply \notin {Nil, Failed} =>
                                Says(widgets[w], flight[e].reply.body, bar, day', Wanted(w))
    <3>1. \A w : Wanted(w)' = Wanted(w)
      BY <1>1 DEF Wanted
    <3> QED BY <1>1, <3>1 DEF Current, Asking, Idle
  <2>1. Agrees(widgets[w], bar, bar)
    BY DEF Agrees
  <2>2. \A b : Says(widgets[w], b, bar, day, Wanted(w)) => Says(widgets[w], b, bar, day', Wanted(w))
    BY <1>2, <2>1, SaysPersists
  <2> QED BY <2>2 DEF Current
<1>6. Link'
  <2> SUFFICES ASSUME url.from # Nil, url.to # Nil
               PROVE  bar.from # Nil /\ bar.to # Nil /\ Parse(url, day') = Parse(bar, day')
    BY <1>1 DEF Link
  <2>1. bar.from # Nil /\ bar.to # Nil /\ Parse(url, day) = Parse(bar, day)
    BY DEF Link
  <2>2. Parse(url, day') = Parse(url, day) /\ Parse(bar, day') = Parse(bar, day)
    BY <1>2, <2>1, ParseIsStable DEF TypeOK
  <2> QED BY <2>1, <2>2
<1> QED BY <1>3, <1>4, <1>5, <1>6

LEMMA WithdrawInv == IInv /\ Withdraw => IInv'
<1> SUFFICES ASSUME IInv, Withdraw PROVE IInv'
  OBVIOUS
<1> USE DEF IInv
<1>1. /\ granted' = FALSE /\ day' = day
      /\ widgets' = widgets /\ cards' = cards /\ bar' = bar
      /\ url' = url /\ box' = box /\ typing' = typing /\ body' = body /\ flight' = flight
      /\ queued' = queued /\ crossed' = crossed /\ edits' = edits /\ W' = W /\ Elements' = Elements
  BY DEF Withdraw, page, search, ajax, W, Elements
<1>2. TypeOK'
  BY <1>1 DEF TypeOK, Idle, Shown
<1>3. Registered' /\ CardsHold' /\ RepliesFit' /\ Link'
  BY <1>1 DEF Registered, CardsHold, RepliesFit, Valid, W, Idle, Link
<1>4. Current'
  BY <1>1, CurrentStays
<1> QED BY <1>2, <1>3, <1>4
-----------------------------------------------------------------------------
(* Steps of requests.                                                      *)

LEMMA ServeInv ==
  ASSUME IInv, NEW e \in Elements, Serve(e) PROVE IInv'
<1> USE DEF IInv
<1> DEFINE i == e[2]
           to == Resolve(widgets[i].key)
           asked == flight[e].asked
<1>1. /\ ~Idle(e) /\ flight[e].reply = Nil
      /\ widgets' = widgets /\ day' = day /\ granted' = granted /\ cards' = cards /\ bar' = bar
      /\ url' = url /\ box' = box /\ typing' = typing /\ body' = body /\ queued' = queued
      /\ crossed' = crossed /\ edits' = edits /\ W' = W /\ Elements' = Elements
  BY DEF Serve, page, search, W, Elements
<1>2. PICK ok \in BOOLEAN :
        flight' = [flight EXCEPT ![e].reply = IF to = {} THEN Failed
                                              ELSE Reply(CHOOSE j \in to : TRUE, asked, ok)]
  BY DEF Serve
<1> DEFINE reply == IF to = {} THEN Failed ELSE Reply(CHOOSE j \in to : TRUE, asked, ok)
<1>3. i \in W /\ i \in Nat /\ widgets[i].size \in Nat /\ to \subseteq {i}
  BY ElementFacts, RegisteredFacts
<1>4. reply = Failed \/ reply = Reply(i, asked, ok)
  BY <1>3
<1> HIDE DEF reply
<1>5. flight[e] \in Pending /\ asked \in Asks
  <2>1. flight[e] \in Pending \cup {Nil}
    BY DEF TypeOK
  <2> QED BY <1>1, <2>1 DEF Idle, Pending
<1>6. body[i] \in Bodies /\ Content(widgets[i], i, body[i]) /\ day \in Nat /\ day \in Int /\ Day0 <= day
  BY <1>3, DayFacts DEF TypeOK, CardsHold
<1>8. /\ reply \in Replies
      /\ reply # Failed => reply.body \in Bodies
      /\ reply # Failed /\ e[1] = "row" => /\ reply.kind = "rows"
                                           /\ Content(widgets[i], i, AppendRows(body[i], reply.body))
      /\ reply # Failed /\ e[1] # "row" =>
           /\ reply.kind = "body" /\ reply.body.state # "loading" /\ Content(widgets[i], i, reply.body)
           /\ Full(reply.body) /\ IsLazy(widgets[i]) =>
                reply.body.query = [filters |-> Parse(asked.filters, day), search |-> asked.search]
  <2>1. CASE reply = Failed
    BY <2>1, Distinct
  <2>2. CASE reply = Reply(i, asked, ok) /\ e[1] = "row"
    <3>1. body[i].next # Nil /\ asked = body[i].next
      BY <1>1, <2>2 DEF RepliesFit
    <3>2. LET r == Reply(i, body[i].next, ok)
          IN /\ r \in Replies /\ r # Failed /\ r.kind = "rows" /\ r.body \in Bodies
             /\ Content(widgets[i], i, AppendRows(body[i], r.body))
      <4> HIDE DEF i
      <4> QED BY <1>3, <1>6, <3>1, RowReply
    <3> QED BY <2>2, <3>1, <3>2
  <2>3. CASE reply = Reply(i, asked, ok) /\ e[1] # "row"
    <3>1. asked.offset = 0
      BY <1>1, <1>5, <2>3 DEF TypeOK, Asks
    <3>2. LET r == Reply(i, asked, ok)
          IN /\ r \in Replies /\ r # Failed /\ r.kind = "body" /\ r.body \in Bodies
             /\ r.body.state # "loading" /\ Content(widgets[i], i, r.body)
             /\ Full(r.body) /\ IsLazy(widgets[i]) =>
                  r.body.query = [filters |-> Parse(asked.filters, day), search |-> asked.search]
      <4> HIDE DEF i, asked
      <4> QED BY <1>3, <1>5, <1>6, <3>1, CardReply
    <3> QED BY <2>3, <3>2
  <2> QED BY <1>4, <2>1, <2>2, <2>3
<1>9. /\ flight'[e] \in Pending /\ flight'[e] # Nil /\ flight'[e].asked = asked /\ flight'[e].reply = reply
      /\ \A g \in Elements : g # e => flight'[g] = flight[g]
  <2>1. flight \in [Elements -> Pending \cup {Nil}]
    BY DEF TypeOK
  <2>2. flight' = [flight EXCEPT ![e] = [flight[e] EXCEPT !.reply = reply]]
    BY <1>2 DEF reply
  <2>3. /\ [flight[e] EXCEPT !.reply = reply] \in Pending
        /\ [flight[e] EXCEPT !.reply = reply].asked = asked /\ [flight[e] EXCEPT !.reply = reply].reply = reply
    BY <1>5, <1>8 DEF Pending
  <2>4. flight'[e] = [flight[e] EXCEPT !.reply = reply] /\ \A g \in Elements : g # e => flight'[g] = flight[g]
    BY <2>1, <2>2
  <2> QED BY <2>3, <2>4, Distinct
<1>10. \A g \in Elements : (Idle(g)' <=> Idle(g)) /\ flight'[g] \in Pending \cup {Nil}
  BY <1>1, <1>9 DEF Idle, TypeOK
<1> HIDE DEF asked
<1>11. TypeOK'
  <2>1. flight' \in [Elements' -> Pending \cup {Nil}]
    <3>1. DOMAIN flight' = Elements
      BY <1>2 DEF TypeOK
    <3>2. flight' = [g \in Elements |-> flight'[g]]
      BY <1>2 DEF TypeOK
    <3> QED BY <1>1, <1>10, <3>2
  <2>2. queued' \subseteq {g \in Elements' : g[1] # "row" /\ ~Idle(g)'}
    BY <1>1, <1>10 DEF TypeOK
  <2>3. ASSUME NEW g \in Elements', ~Idle(g)'
        PROVE  g[2] \in cards' /\ (g[1] = "row" <=> flight'[g].asked.offset > 0)
    BY <1>1, <1>9, <1>10, <2>3 DEF TypeOK, asked
  <2>4. \A w \in W' : /\ body'[w].state # "loading" => w \in cards'
                      /\ body'[w].next # Nil => Shown(w)'
    BY <1>1 DEF TypeOK, Shown
  <2> QED BY <1>1, <2>1, <2>2, <2>3, <2>4 DEF TypeOK
<1>12. Registered' /\ CardsHold' /\ Link'
  BY <1>1 DEF Registered, CardsHold, Valid, W, Link
<1>13. RepliesFit'
  <2> SUFFICES ASSUME NEW g \in Elements, ~Idle(g)
               PROVE  LET answer == flight'[g].reply
                          fits == answer \notin {Nil, Failed}
                      IN IF g[1] = "row"
                         THEN /\ body[g[2]].next # Nil /\ flight'[g].asked = body[g[2]].next
                              /\ fits => /\ answer.kind = "rows"
                                         /\ Content(widgets[g[2]], g[2], AppendRows(body[g[2]], answer.body))
                         ELSE fits => /\ answer.kind = "body" /\ answer.body.state # "loading"
                                      /\ Content(widgets[g[2]], g[2], answer.body)
    BY <1>1, <1>10 DEF RepliesFit
  <2>1. CASE g = e
    <3>1. e[1] = "row" => body[i].next # Nil /\ asked = body[i].next
      BY <1>1 DEF RepliesFit, asked
    <3> QED BY <1>8, <1>9, <2>1, <3>1
  <2>2. CASE g # e
    BY <1>9, <2>2 DEF RepliesFit
  <2> QED BY <2>1, <2>2
<1>14. Current'
  <2> SUFFICES ASSUME NEW w \in cards, w \notin crossed
               PROVE  /\ Idle(<<"body", w>>) \/ Idle(<<"search", w>>)
                      /\ Idle(<<"body", w>>) /\ Idle(<<"search", w>>) =>
                           Says(widgets[w], body[w], bar, day, Wanted(w))
                      /\ \A g \in Asking(w) : ~Idle(g) /\ g \notin queued =>
                           /\ AsksFor(widgets[w], flight'[g].asked, bar, Wanted(w))
                           /\ flight'[g].reply \notin {Nil, Failed} =>
                                Says(widgets[w], flight'[g].reply.body, bar, day, Wanted(w))
    <3>1. \A w \in cards : /\ <<"body", w>> \in Elements /\ <<"search", w>> \in Elements
                           /\ Asking(w) \subseteq Elements
      BY AskingFacts DEF TypeOK, Asking
    <3>2. \A w : Wanted(w)' = Wanted(w)
      BY <1>1 DEF Wanted
    <3>3. \A w \in cards : Asking(w)' = Asking(w)
      BY DEF Asking
    <3> QED BY <1>1, <1>10, <3>1, <3>2, <3>3 DEF Current
  <2>1. w \in W /\ Asking(w) \subseteq Elements /\ \A g \in Asking(w) : g[2] = w /\ g[1] # "row"
    BY AskingFacts DEF TypeOK
  <2>2. ASSUME NEW g \in Asking(w), ~Idle(g), g \notin queued
        PROVE  /\ AsksFor(widgets[w], flight'[g].asked, bar, Wanted(w))
               /\ flight'[g].reply \notin {Nil, Failed} =>
                    Says(widgets[w], flight'[g].reply.body, bar, day, Wanted(w))
    <3>1. CASE g = e
      <4>1. i = w /\ e[1] # "row"
        BY <2>1, <3>1
      <4>2. AsksFor(widgets[w], asked, bar, Wanted(w))
        BY <2>2, <3>1 DEF Current, asked
      <4>3. ASSUME reply # Failed PROVE Says(widgets[w], reply.body, bar, day, Wanted(w))
        <5>1. Full(reply.body) /\ IsLazy(widgets[w]) =>
                reply.body.query = [filters |-> Parse(asked.filters, day), search |-> asked.search]
          BY <1>8, <4>1, <4>3
        <5> QED BY <1>6, <4>2, <5>1, AnswerSays
      <4> QED BY <1>9, <3>1, <4>2, <4>3
    <3>2. CASE g # e
      BY <1>9, <2>1, <2>2, <3>2 DEF Current
    <3> QED BY <3>1, <3>2
  <2> QED BY <2>2 DEF Current
<1> QED BY <1>11, <1>12, <1>13, <1>14

\* Element e is done and its card shows b.
LEMMA SettleInv ==
  ASSUME IInv, NEW e \in Elements, ~Idle(e), NEW replaced \in BOOLEAN, Settle(e, replaced),
         replaced \/ e[1] = "row",
         NEW b \in Bodies, body' = [body EXCEPT ![e[2]] = b],
         b.state # "loading", b.next # Nil => Full(b), Content(widgets[e[2]], e[2], b),
         e[2] \notin crossed /\ e \notin queued /\ (\A g \in Asking(e[2]) : g # e => Idle(g)) =>
           Says(widgets[e[2]], b, bar, day, Wanted(e[2])),
         UNCHANGED <<widgets, day, granted, page, search, edits>>
  PROVE  IInv'
<1> USE DEF IInv
<1> DEFINE w == e[2]
           row == <<"row", w>>
           new == Request(Included(e, bar, box[w]))
<1>1. /\ widgets' = widgets /\ day' = day /\ granted' = granted /\ cards' = cards /\ bar' = bar
      /\ url' = url /\ box' = box /\ typing' = typing /\ edits' = edits /\ W' = W /\ Elements' = Elements
  BY DEF page, search, W, Elements
<1>2. w \in W /\ row \in Elements /\ row[1] = "row" /\ row[2] = w /\ w \in cards
  <2>1. w \in W /\ row \in Elements /\ row[1] = "row" /\ row[2] = w
    BY ElementFacts DEF Parts
  <2> QED BY <2>1 DEF TypeOK
<1>3. /\ new \in Pending /\ new # Nil /\ new.reply = Nil
      /\ new.asked.filters = bar /\ new.asked.search = box[w] /\ new.asked.offset = 0
  BY <1>2, RequestFacts DEF TypeOK
<1> HIDE DEF new
<1>4. flight \in [Elements -> Pending \cup {Nil}] /\ queued \subseteq {g \in Elements : g[1] # "row" /\ ~Idle(g)}
  BY DEF TypeOK
<1>5. /\ queued' = queued \ {e}
      /\ e \in queued => crossed' = IF Crossing(e) THEN crossed \cup {w} ELSE crossed \ {w}
      /\ e \notin queued => crossed' = crossed
  BY DEF Settle
<1>6. /\ flight' \in [Elements -> Pending \cup {Nil}]
      /\ e \in queued => flight'[e] = new
      /\ e \notin queued => flight'[e] = Nil
      /\ \A g \in Elements : g # e /\ g # row => flight'[g] = flight[g]
      /\ flight'[row] = Nil
  <2> DEFINE after == [flight EXCEPT ![e] = IF e \in queued THEN new ELSE Nil]
  <2>1. flight' = IF replaced THEN [after EXCEPT ![row] = Nil] ELSE after
    BY DEF Settle, new
  <2>2. /\ after \in [Elements -> Pending \cup {Nil}]
        /\ after[e] = IF e \in queued THEN new ELSE Nil
        /\ \A g \in Elements : g # e => after[g] = flight[g]
    BY <1>3, <1>4
  <2>3. e \in queued => e # row
    BY <1>2, <1>4
  <2> HIDE DEF after
  <2>4. CASE replaced
    BY <1>2, <2>1, <2>2, <2>3, <2>4
  <2>5. CASE ~replaced
    <3>1. e = row
      BY <2>5, ElementFacts
    <3> QED BY <1>2, <2>1, <2>2, <2>3, <2>5, <3>1
  <2> QED BY <2>4, <2>5
<1>7. /\ \A g \in Elements : g # e /\ g # row => (Idle(g)' <=> Idle(g))
      /\ Idle(row)' /\ (e \in queued => ~Idle(e)') /\ (e \notin queued => Idle(e)')
  BY <1>3, <1>6 DEF Idle
<1>8. \A g \in Elements : ~Idle(g)' => /\ g # row
                                       /\ g = e => e \in queued /\ e[1] # "row"
                                       /\ g[1] = "row" => g[2] # w
  BY <1>4, <1>7, ElementFacts
<1>9. body' \in [W -> Bodies] /\ body'[w] = b /\ \A i \in W : i # w => body'[i] = body[i]
  BY <1>2 DEF TypeOK
<1>10. TypeOK'
  <2>1. cards' \subseteq W' /\ typing' \subseteq cards' /\ crossed' \subseteq cards'
    BY <1>1, <1>2, <1>5 DEF TypeOK
  <2>2. \A i \in W' : /\ body'[i].state # "loading" => i \in cards'
                      /\ body'[i].next # Nil => Shown(i)'
    BY <1>1, <1>2, <1>9 DEF TypeOK, Shown, Full
  <2>3. queued' \subseteq {g \in Elements' : g[1] # "row" /\ ~Idle(g)'}
    BY <1>1, <1>2, <1>4, <1>5, <1>7
  <2>4. ASSUME NEW g \in Elements', ~Idle(g)'
        PROVE  g[2] \in cards' /\ (g[1] = "row" <=> flight'[g].asked.offset > 0)
    <3>1. CASE g = e
      BY <1>1, <1>2, <1>3, <1>6, <1>8, <2>4, <3>1
    <3>2. CASE g # e
      <4>1. flight'[g] = flight[g] /\ ~Idle(g) /\ g \in Elements
        BY <1>1, <1>6, <1>7, <1>8, <2>4, <3>2
      <4> QED BY <1>1, <4>1 DEF TypeOK
    <3> QED BY <3>1, <3>2
  <2>5. /\ day' \in Day0..Day0 + MaxDay /\ granted' \in BOOLEAN /\ edits' \in 0..MaxEdits
        /\ bar' \in Filters /\ url' \in Filters /\ box' \in [W' -> Texts \cup {Nil}]
    BY <1>1 DEF TypeOK
  <2>6. body' \in [W' -> Bodies] /\ flight' \in [Elements' -> Pending \cup {Nil}]
    BY <1>1, <1>6, <1>9
  <2> QED BY <2>1, <2>2, <2>3, <2>4, <2>5, <2>6 DEF TypeOK
<1>11. Registered' /\ CardsHold' /\ Link'
  <2>1. \A i \in W : Content(widgets[i], i, body'[i])
    BY <1>9 DEF CardsHold
  <2> QED BY <1>1, <2>1 DEF Registered, CardsHold, Valid, W, Link
<1>12. RepliesFit'
  <2> SUFFICES ASSUME NEW g \in Elements, ~Idle(g)'
               PROVE  LET answer == flight'[g].reply
                          fits == answer \notin {Nil, Failed}
                      IN IF g[1] = "row"
                         THEN /\ body'[g[2]].next # Nil /\ flight'[g].asked = body'[g[2]].next
                              /\ fits => /\ answer.kind = "rows"
                                         /\ Content(widgets[g[2]], g[2], AppendRows(body'[g[2]], answer.body))
                         ELSE fits => /\ answer.kind = "body" /\ answer.body.state # "loading"
                                      /\ Content(widgets[g[2]], g[2], answer.body)
    BY <1>1 DEF RepliesFit
  <2>1. CASE g = e
    BY <1>3, <1>6, <1>8, <2>1
  <2>2. CASE g # e
    <3>1. flight'[g] = flight[g] /\ ~Idle(g) /\ g[2] \in W
      BY <1>6, <1>7, <1>8, <2>2, ElementFacts
    <3>2. g[1] = "row" => body'[g[2]] = body[g[2]]
      BY <1>8, <1>9, <3>1
    <3> QED BY <3>1, <3>2 DEF RepliesFit
  <2> QED BY <2>1, <2>2
<1>13. Current'
  <2> SUFFICES ASSUME NEW i \in cards, i \notin crossed'
               PROVE  /\ Idle(<<"body", i>>)' \/ Idle(<<"search", i>>)'
                      /\ Idle(<<"body", i>>)' /\ Idle(<<"search", i>>)' =>
                           Says(widgets[i], body'[i], bar, day, Wanted(i))
                      /\ \A g \in Asking(i) : ~Idle(g)' /\ g \notin queued' =>
                           /\ AsksFor(widgets[i], flight'[g].asked, bar, Wanted(i))
                           /\ flight'[g].reply \notin {Nil, Failed} =>
                                Says(widgets[i], flight'[g].reply.body, bar, day, Wanted(i))
    <3>1. \A i : Wanted(i)' = Wanted(i) /\ Asking(i)' = Asking(i)
      BY <1>1 DEF Wanted, Asking
    <3> QED BY <1>1, <3>1 DEF Current
  <2>1. /\ i \in W /\ Asking(i) \subseteq Elements /\ <<"body", i>> \in Asking(i) /\ <<"search", i>> \in Asking(i)
        /\ \A g \in Asking(i) : g[2] = i /\ g[1] # "row" /\ g # row
        /\ \A g \in Asking(i) : g = <<"body", i>> \/ g = <<"search", i>>
    <3>1. i \in W
      BY DEF TypeOK
    <3>2. Asking(i) \subseteq Elements /\ \A g \in Asking(i) : g[2] = i /\ g[1] \in {"body", "search"}
      BY <3>1, AskingFacts
    <3>3. "body" # "row" /\ "search" # "row"
      OBVIOUS
    <3>4. \A g \in Asking(i) : g[1] # "row" /\ g # row
      BY <1>2, <3>2, <3>3
    <3>5. /\ <<"body", i>> \in Asking(i) /\ <<"search", i>> \in Asking(i)
          /\ \A g \in Asking(i) : g = <<"body", i>> \/ g = <<"search", i>>
      BY DEF Asking
    <3> QED BY <3>1, <3>2, <3>4, <3>5
  <2>2. CASE i # w \/ (e[1] = "row" /\ ~(Idle(<<"body", i>>) /\ Idle(<<"search", i>>)))
    <3>1. e \notin Asking(i)
      BY <2>1, <2>2
    <3>2. i \notin crossed
      BY <1>4, <1>5, <2>2
    <3>3. \A g \in Asking(i) : /\ flight'[g] = flight[g] /\ (Idle(g)' <=> Idle(g))
                               /\ (g \in queued' <=> g \in queued)
      BY <1>5, <1>6, <1>7, <2>1, <3>1
    <3>4. Idle(<<"body", i>>)' /\ Idle(<<"search", i>>)' => body'[i] = body[i]
      BY <1>9, <2>1, <2>2, <3>3
    <3> QED BY <2>1, <3>2, <3>3, <3>4 DEF Current
  <2>3. CASE i = w /\ e[1] = "row" /\ Idle(<<"body", i>>) /\ Idle(<<"search", i>>)
    <3>1. e \notin queued /\ i \notin crossed /\ e \notin Asking(i)
      BY <1>4, <1>5, <2>1, <2>3
    <3>2. \A g \in Asking(i) : Idle(g) /\ Idle(g)'
      BY <1>7, <2>1, <2>3, <3>1
    <3>3. Says(widgets[i], b, bar, day, Wanted(i))
      BY <2>3, <3>1, <3>2
    <3> QED BY <1>9, <2>1, <2>3, <3>2, <3>3
  <2>4. CASE i = w /\ e[1] # "row"
    <3>1. e \in Asking(i)
      BY <2>4, ElementFacts DEF Asking, Parts
    <3>2. CASE e \notin queued
      <4>1. i \notin crossed /\ \A g \in Asking(i) : g # e => Idle(g)
        BY <1>5, <2>1, <3>1, <3>2 DEF Current
      <4>2. \A g \in Asking(i) : Idle(g)'
        BY <1>7, <2>1, <3>2, <4>1
      <4>3. Says(widgets[i], b, bar, day, Wanted(i))
        BY <2>4, <3>2, <4>1
      <4> QED BY <1>9, <2>1, <2>4, <4>2, <4>3
    <3>3. CASE e \in queued
      <4>1. ~Crossing(e)
        BY <1>5, <2>4, <3>3
      <4>2. \A g \in Asking(i) : g # e => Idle(g)
        <5>1. \A part \in {"body", "search"} \ {e[1]} : Idle(<<part, i>>)
          BY <2>4, <4>1 DEF Crossing
        <5> QED BY <2>1, <3>1, <5>1
      <4>3. \A g \in Asking(i) : g # e => Idle(g)'
        BY <1>7, <2>1, <4>2
      <4>4. flight'[e].reply = Nil /\ AsksFor(widgets[i], flight'[e].asked, bar, Wanted(i)) /\ ~Idle(e)'
        BY <1>3, <1>6, <1>7, <2>1, <2>4, <3>3, WantedFacts DEF AsksFor, Agrees
      <4> QED BY <2>1, <3>1, <4>3, <4>4
    <3> QED BY <3>2, <3>3
  <2> QED BY <2>2, <2>3, <2>4
<1> QED BY <1>10, <1>11, <1>12, <1>13

LEMMA ShowErrorInv ==
  ASSUME IInv, NEW e \in Elements, ~Idle(e), ShowError(e),
         UNCHANGED <<widgets, day, granted, page, search, edits>>
  PROVE  IInv'
<1>1. PICK b : b = [Loading EXCEPT !.state = "error"]
  OBVIOUS
<1>2. b \in Bodies /\ b.state = "error" /\ b.next = Nil
  BY <1>1, LoadingForms
<1>3. ~Full(b)
  BY <1>2 DEF Full
<1>4. Content(widgets[e[2]], e[2], b) /\ Says(widgets[e[2]], b, bar, day, Wanted(e[2]))
  BY <1>2, <1>3 DEF Content, Says
<1>5. body' = [body EXCEPT ![e[2]] = b] /\ Settle(e, TRUE)
  BY <1>1 DEF ShowError
<1>6. b.state # "loading"
  BY <1>2
<1> QED BY <1>2, <1>4, <1>5, <1>6, SettleInv

LEMMA LoseInv ==
  ASSUME IInv, NEW e \in Elements, Lose(e) PROVE IInv'
BY ShowErrorInv DEF Lose

LEMMA ReceiveInv ==
  ASSUME IInv, NEW e \in Elements, Receive(e) PROVE IInv'
<1> USE DEF IInv
<1> DEFINE w == e[2]
<1>1. PICK reply : reply = flight[e].reply
  OBVIOUS
<1>2. /\ ~Idle(e) /\ reply # Nil /\ UNCHANGED <<widgets, day, granted, page, search, edits>>
      /\ reply.kind = "error" => ShowError(e)
      /\ reply.kind = "rows" => body' = [body EXCEPT ![w] = AppendRows(body[w], reply.body)] /\ Settle(e, FALSE)
      /\ reply.kind = "body" => body' = [body EXCEPT ![w] = reply.body] /\ Settle(e, TRUE)
  BY <1>1 DEF Receive
<1>3. w \in W /\ body[w] \in Bodies /\ Content(widgets[w], w, body[w]) /\ w \in cards
  BY <1>2, ElementFacts DEF TypeOK, CardsHold
<1>4. reply \in Replies
  <2>1. flight[e] \in Pending
    BY <1>2 DEF TypeOK, Idle
  <2> QED BY <1>1, <1>2, <2>1 DEF Pending
<1>5. CASE reply = Failed
  BY <1>2, <1>5, ShowErrorInv DEF Failed
<1>6. CASE reply # Failed /\ e[1] = "row"
  <2>1. /\ reply.kind = "rows" /\ reply.body \in Bodies /\ body[w].next # Nil
        /\ Content(widgets[w], w, AppendRows(body[w], reply.body))
    BY <1>1, <1>2, <1>4, <1>6, Distinct DEF RepliesFit
  <2>2. PICK b : b = AppendRows(body[w], reply.body)
    OBVIOUS
  <2>3. b \in Bodies /\ b.state = body[w].state /\ b.of = body[w].of /\ b.query = body[w].query
    BY <1>3, <2>1, <2>2, AppendRowsFields
  <2>4. Content(widgets[w], w, b) /\ b.state # "loading" /\ (b.next # Nil => Full(b))
    BY <1>3, <2>1, <2>2, <2>3 DEF Content, Full
  <2>5. ASSUME w \notin crossed, \A g \in Asking(w) : g # e => Idle(g)
        PROVE  Says(widgets[w], b, bar, day, Wanted(w))
    <3>1. /\ <<"body", w>> \in Asking(w) /\ <<"search", w>> \in Asking(w)
          /\ \A g \in Asking(w) : g # e
      BY <1>3, <1>6, AskingFacts DEF Asking
    <3>2. Says(widgets[w], body[w], bar, day, Wanted(w))
      BY <1>3, <2>5, <3>1 DEF Current
    <3> QED BY <2>3, <3>2 DEF Says, Full
  <2>6. body' = [body EXCEPT ![w] = b] /\ Settle(e, FALSE)
    BY <1>2, <2>1, <2>2
  <2> QED BY <1>2, <1>6, <2>3, <2>4, <2>5, <2>6, SettleInv
<1>7. CASE reply # Failed /\ e[1] # "row"
  <2>1. /\ reply.kind = "body" /\ reply.body \in Bodies /\ reply.body.state # "loading"
        /\ Content(widgets[w], w, reply.body)
    BY <1>1, <1>2, <1>4, <1>7, Distinct DEF RepliesFit
  <2>2. PICK b : b = reply.body
    OBVIOUS
  <2>3. b.next # Nil => Full(b)
    BY <2>1, <2>2 DEF Content
  <2>4. ASSUME w \notin crossed, e \notin queued
        PROVE  Says(widgets[w], b, bar, day, Wanted(w))
    <3>1. e \in Asking(w)
      BY <1>7, ElementFacts DEF Asking, Parts
    <3> QED BY <1>1, <1>2, <1>3, <1>7, <2>2, <2>4, <3>1 DEF Current
  <2>5. body' = [body EXCEPT ![w] = b] /\ Settle(e, TRUE)
    BY <1>2, <2>1, <2>2
  <2> QED BY <1>2, <2>1, <2>2, <2>3, <2>4, <2>5, SettleInv
<1> QED BY <1>5, <1>6, <1>7
-----------------------------------------------------------------------------
(* The invariant holds in every reachable state.                           *)

LEMMA InitInv == Init => IInv
<1> SUFFICES ASSUME Init PROVE IInv
  OBVIOUS
<1> DEFINE parsed == Parse(Bare, Day0)
           loads == Loads(W)
           sent(e) == Request(Included(e, parsed, Nil))
<1>1. /\ widgets \in Dashboards /\ Valid(widgets) /\ day = Day0 /\ granted = TRUE /\ cards = W
      /\ url = Bare /\ bar = parsed /\ box = [w \in W |-> Nil] /\ typing = {}
      /\ body = [w \in W |-> IF IsLazy(widgets[w]) THEN Loading ELSE Static(w)]
      /\ flight = [e \in Elements |-> IF e \in loads THEN sent(e) ELSE Nil]
      /\ queued = {} /\ crossed = {} /\ edits = 0
  BY DEF Init
<1>2. Registered
  BY <1>1 DEF Registered
<1>3. /\ Bare \in Filters /\ Bare.from = Nil /\ parsed \in Filters /\ Day0 \in Nat
      /\ day \in Day0..Day0 + MaxDay /\ edits \in 0..MaxEdits
  <2>1. Bare \in Filters /\ Bare.from = Nil
    BY DEF Bare, Filters
  <2>2. Day0 \in Nat /\ Day0 \in Int
    BY DashboardAssumption
  <2>3. parsed \in Filters
    BY <2>1, <2>2, ParseIsExplicit DEF Explicit
  <2> QED BY <1>1, <2>1, <2>2, <2>3, DashboardAssumption
<1> HIDE DEF parsed
<1>4. \A e : /\ sent(e) \in Pending /\ sent(e) # Nil /\ sent(e).reply = Nil
             /\ sent(e).asked.filters = parsed /\ sent(e).asked.search = Nil /\ sent(e).asked.offset = 0
  BY <1>3, RequestFacts
<1> HIDE DEF sent
<1>5. \A e \in loads : e \in Elements /\ e[1] = "body" /\ e[2] \in W
  BY DEF Loads, Elements, Parts
<1>6. \A w \in W : IsLazy(widgets[w]) => <<"body", w>> \in loads
  BY DEF Loads
<1> HIDE DEF loads
<1>7. \A e \in Elements : /\ e \in loads => flight[e] = sent(e)
                          /\ e \notin loads => flight[e] = Nil
                          /\ Idle(e) <=> e \notin loads
  BY <1>1, <1>4 DEF Idle
<1>8. ASSUME NEW w \in W
      PROVE  /\ body[w] \in Bodies /\ body[w].next = Nil
             /\ IsLazy(widgets[w]) => ~Full(body[w])
             /\ Content(widgets[w], w, body[w])
  <2>1. CASE IsLazy(widgets[w])
    <3>1. body[w] = Loading
      BY <1>1, <2>1
    <3> QED BY <3>1, LoadingForms DEF Content, Full
  <2>2. CASE ~IsLazy(widgets[w])
    <3>1. body[w] = Static(w) /\ w \in Nat
      BY <1>1, <1>2, <2>2, RegisteredFacts
    <3>2. Static(w) \in Bodies /\ Static(w).next = Nil /\ Static(w).of = w
      BY <3>1, StaticForm
    <3>3. Content(widgets[w], w, Static(w))
      BY <2>2, <3>2, TableHasRows DEF Content
    <3> QED BY <2>2, <3>1, <3>2, <3>3
  <2> QED BY <2>1, <2>2
<1>9. TypeOK
  <2>1. box \in [W -> Texts \cup {Nil}] /\ body \in [W -> Bodies]
    BY <1>1, <1>8
  <2>2. flight \in [Elements -> Pending \cup {Nil}]
    BY <1>1, <1>4
  <2>3. \A w \in W : /\ body[w].state # "loading" => w \in cards
                     /\ body[w].next # Nil => Shown(w)
    BY <1>1, <1>8
  <2>4. \A e \in Elements : ~Idle(e) => e[2] \in cards /\ (e[1] = "row" <=> flight[e].asked.offset > 0)
    BY <1>1, <1>4, <1>5, <1>7
  <2> QED BY <1>1, <1>3, <2>1, <2>2, <2>3, <2>4 DEF TypeOK
<1>10. CardsHold
  BY <1>8 DEF CardsHold
<1>11. RepliesFit
  BY <1>4, <1>5, <1>7 DEF RepliesFit
<1>12. Current
  <2> SUFFICES ASSUME NEW w \in W
               PROVE  /\ Idle(<<"body", w>>) \/ Idle(<<"search", w>>)
                      /\ Idle(<<"body", w>>) /\ Idle(<<"search", w>>) =>
                           Says(widgets[w], body[w], bar, day, Wanted(w))
                      /\ \A e \in Asking(w) : ~Idle(e) =>
                           /\ AsksFor(widgets[w], flight[e].asked, bar, Wanted(w))
                           /\ flight[e].reply = Nil
    BY <1>1 DEF Current
  <2>1. /\ Asking(w) \subseteq Elements
        /\ <<"body", w>> \in Elements /\ <<"search", w>> \in Elements
    BY AskingFacts DEF Asking
  <2>2. Idle(<<"search", w>>)
    BY <1>5, <1>7, <2>1
  <2>3. Idle(<<"body", w>>) => ~IsLazy(widgets[w])
    BY <1>6, <1>7, <2>1
  <2>4. Wanted(w) = {Nil}
    BY <1>1 DEF Wanted
  <2>5. ASSUME NEW e \in Asking(w), ~Idle(e)
        PROVE  AsksFor(widgets[w], flight[e].asked, bar, Wanted(w)) /\ flight[e].reply = Nil
    <3>1. flight[e] = sent(e)
      BY <1>7, <2>1, <2>5
    <3> QED BY <1>1, <1>4, <2>4, <3>1 DEF AsksFor, Agrees
  <2> QED BY <2>2, <2>3, <2>5 DEF Says
<1>13. Link
  BY <1>1, <1>3 DEF Link
<1> QED BY <1>2, <1>9, <1>10, <1>11, <1>12, <1>13 DEF IInv

LEMMA PagesInv ==
  ASSUME IInv, Reload \/ Apply \/ Open PROVE IInv'
<1>1. edits' \in 0..MaxEdits
  BY DashboardAssumption DEF Reload, Apply, Open, Edit, IInv, TypeOK
<1>2. CASE Reload
  BY <1>1, <1>2, RenderInv DEF Reload, IInv, TypeOK
<1>3. CASE Apply
  BY <1>1, <1>3, RenderInv DEF Apply, IInv, TypeOK
<1>4. CASE Open
  <2>1. PICK from \in Days, to \in Days : Render([from |-> from, to |-> to, store |-> Nil])
    BY <1>4 DEF Open
  <2>2. PICK q : q = [from |-> from, to |-> to, store |-> Nil]
    OBVIOUS
  <2>3. q \in Filters
    BY <2>2, DashboardAssumption DEF Filters
  <2> QED BY <1>1, <2>1, <2>2, <2>3, RenderInv
<1> QED BY <1>2, <1>3, <1>4

LEMMA StutterInv ==
  ASSUME IInv, UNCHANGED vars PROVE IInv'
<1> USE DEF IInv
<1>1. /\ widgets' = widgets /\ day' = day /\ granted' = granted /\ cards' = cards /\ bar' = bar
      /\ url' = url /\ box' = box /\ typing' = typing /\ body' = body /\ flight' = flight
      /\ queued' = queued /\ crossed' = crossed /\ edits' = edits /\ W' = W /\ Elements' = Elements
  BY DEF vars, page, search, ajax, W, Elements
<1>2. TypeOK'
  BY <1>1 DEF TypeOK, Idle, Shown
<1>3. Registered' /\ CardsHold' /\ RepliesFit' /\ Link'
  BY <1>1 DEF Registered, CardsHold, RepliesFit, Valid, W, Idle, Link
<1>4. Current'
  BY <1>1, CurrentStays
<1> QED BY <1>2, <1>3, <1>4

LEMMA StepInv == IInv /\ [Next]_vars => IInv'
<1> SUFFICES ASSUME IInv, [Next]_vars PROVE IInv'
  OBVIOUS
<1>1. ASSUME NEW name \in FilterNames, ChangeFilter(name) PROVE IInv'
  BY <1>1, ChangeFilterInv
<1>2. ASSUME NEW w \in W, Type(w) PROVE IInv'
  BY <1>2, TypeInv
<1>3. ASSUME NEW w \in W, Search(w) PROVE IInv'
  BY <1>3, SearchInv
<1>4. ASSUME NEW w \in W, Scroll(w) PROVE IInv'
  BY <1>4, ScrollInv
<1>5. ASSUME NEW w \in W, Retry(w) PROVE IInv'
  BY <1>5, RetryInv
<1>6. CASE Reload \/ Apply \/ Open
  BY <1>6, PagesInv
<1>7. CASE NewDay \/ Withdraw
  BY <1>7, NewDayInv, WithdrawInv
<1>8. ASSUME NEW e \in Elements, Serve(e) PROVE IInv'
  BY <1>8, ServeInv
<1>9. ASSUME NEW e \in Elements, Receive(e) PROVE IInv'
  BY <1>9, ReceiveInv
<1>10. ASSUME NEW e \in Elements, Lose(e) PROVE IInv'
  BY <1>10, LoseInv
<1>11. CASE UNCHANGED vars
  BY <1>11, StutterInv
<1> QED BY <1>1, <1>2, <1>3, <1>4, <1>5, <1>6, <1>7, <1>8, <1>9, <1>10, <1>11 DEF Next, Reader, Server

LEMMA SpecInv == Spec => []IInv
BY InitInv, StepInv, PTL DEF Spec
-----------------------------------------------------------------------------
(* The properties.                                                         *)

\* The page's state keeps its types; a row asks for rows after the first and
\* nothing else does; only elements with a request under way wait to send
\* another.
THEOREM PageTypes == Spec => []TypeOK
<1>1. IInv => TypeOK
  BY DEF IInv
<1> QED BY <1>1, SpecInv, PTL

\* For any rows and page sizes: what a card shows is the beginning of the
\* answer to one question, whatever was typed, picked, lost or refused between
\* its pages and however many midnights passed; without a next link and an
\* apology it is all of it.
THEOREM TablesAreOneQuery == Spec => []TableIsOneQuery
<1>1. IInv => TableIsOneQuery
  <2> SUFFICES ASSUME IInv, NEW w \in cards, Shown(w), HasRows(widgets[w])
               PROVE  LET all == Matching(body[w].query)
                      IN /\ body[w].rows = SubSeq(all, 1, Len(body[w].rows))
                         /\ body[w].next = Nil /\ ~body[w].cut => body[w].rows = all
                         /\ body[w].next # Nil => body[w].next.offset = Len(body[w].rows)
    BY DEF TableIsOneQuery
  <2>1. Content(widgets[w], w, body[w]) /\ Full(body[w])
    BY DEF IInv, TypeOK, CardsHold, Shown, Full
  <2>2. RowsOf(body[w])
    BY <2>1 DEF Content
  <2> QED BY <2>2 DEF RowsOf
<1> QED BY <1>1, SpecInv, PTL

LEMMA RestSays ==
  ASSUME IInv, NEW w \in cards, AtRest(w)
  PROVE  /\ body[w].of = w /\ Explicit(body[w].query.filters)
         /\ body[w].query.search = box[w]
         /\ \E today \in Day0..day : Agrees(widgets[w], body[w].query.filters, Parse(bar, today))
<1>1. /\ w \in W /\ Full(body[w]) /\ IsLazy(widgets[w]) /\ w \notin crossed /\ w \notin typing
      /\ <<"body", w>> \in Elements /\ <<"search", w>> \in Elements
  BY AskingFacts DEF IInv, TypeOK, AtRest, Shown, Full, Asking
<1>2. Idle(<<"body", w>>) /\ Idle(<<"search", w>>)
  BY <1>1 DEF AtRest
<1>3. Says(widgets[w], body[w], bar, day, Wanted(w)) /\ Wanted(w) = {box[w]}
  BY <1>1, <1>2 DEF IInv, Current, Wanted
<1>4. body[w].of = w /\ Explicit(body[w].query.filters)
  BY <1>1 DEF IInv, CardsHold, Content
<1> QED BY <1>1, <1>3, <1>4 DEF Says

\* For any dashboards, whatever the order in which requests are sent, served,
\* answered and lost: a card at rest follows the bar and its box.
THEOREM CardsFollowBar == Spec => []SettledCardsFollowBar
<1>1. IInv => SettledCardsFollowBar
  BY RestSays DEF SettledCardsFollowBar, Agrees, Depends
<1> QED BY <1>1, SpecInv, PTL

\* A URL that names a period is what the bar shows on every day, and a file
\* exported now covers what the cards at rest show.
THEOREM UrlNamesTheDashboard == Spec => []UrlIsTheDashboard
<1>1. IInv => UrlIsTheDashboard
  <2> SUFFICES ASSUME IInv PROVE UrlIsTheDashboard
    OBVIOUS
  <2>1. url.from # Nil /\ url.to # Nil => Parse(url, day) = Parse(bar, day)
    BY DEF IInv, Link
  <2>2. ASSUME NEW w \in cards, AtRest(w), widgets[w].deps = Nil, bar.from # Nil, bar.to # Nil
        PROVE  Exported = body[w].query.filters
    <3>1. PICK today \in Day0..day : Agrees(widgets[w], body[w].query.filters, Parse(bar, today))
      BY <2>2, RestSays
    <3>2. body[w].query.filters \in Filters
      BY <2>2, RestSays DEF Explicit
    <3>3. bar \in Filters /\ day \in Int /\ today \in Int
      BY DayFacts DEF IInv, TypeOK
    <3>4. Parse(bar, today) = Parse(bar, day) /\ Parse(bar, day) \in Filters
      BY <2>2, <3>3, ParseIsStable, ParseIsExplicit DEF Explicit
    <3>5. \A f, g \in Filters : f.from = g.from /\ f.to = g.to /\ f.store = g.store => f = g
      BY DEF Filters
    <3> QED BY <2>2, <3>1, <3>2, <3>4, <3>5 DEF Agrees, Exported
  <2> QED BY <2>1, <2>2 DEF UrlIsTheDashboard
<1> QED BY <1>1, SpecInv, PTL
=============================================================================
