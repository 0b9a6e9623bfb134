------------------------- MODULE BulkActions_proofs -------------------------
(***************************************************************************)
(* Proofs about BulkActions for any number of records, columns, values and *)
(* commits of other sessions.                                              *)
(***************************************************************************)
EXTENDS BulkActions, FiniteSetTheorems, TLAPS

\* Nothing done yet.
Fresh == n = 0 /\ wrote = {} /\ audit = <<>> /\ rejected = {}

\* What each step of a request may rely on.
Phase ==
  /\ pc \in {"idle", "authorize", "query", "getobject", "resolved", "confirm", "form"} => Fresh
  /\ pc \in {"idle", "authorize", "query"} => objs = <<>>
  /\ pc = "getobject" => ~post.all
  /\ pc = "query" => post.all
  /\ pc \in {"run", "write", "readback"} => audit = <<>> /\ rejected = {}
  /\ pc \in {"write", "readback"} => Unhandled
  /\ pc = "readback" => post.action = "edit"
  /\ pc = "write" /\ post.action = "edit" => loaded \in Row
  /\ post.ticked # {} => post.value \in Values
  /\ pc # "answered" => answer = Nil
  /\ answer \in {"forbidden", "nothing"} => Fresh
  /\ answer \in {"error", "page"} => audit = <<>> /\ rejected = {} /\ (Fresh \/ post.action \in Hosted)
  /\ answer = "success" => n = Len(objs)

\* The records a request resolved to: each once, none that never was, and none
\* but those ticked.
Resolving ==
  /\ IsInjective(objs)
  /\ \A k \in ToSet(objs) : rows[k] # Unused
  /\ ~post.all => ToSet(objs) \subseteq post.set
  /\ pc = "getobject" => /\ IsInjective(todo) /\ ToSet(todo) \subseteq post.set
                         /\ ToSet(todo) \cap ToSet(objs) = {}

\* Once the loop may run, the records are those of the page the browser posted.
Reviewed ==
  Asks => post.confirmed /\ ToSet(objs) \subseteq post.set /\ (post.all => ToSet(objs) = post.set)

Chosen == (pc \in {"run", "write", "readback", "record"} \/ answer \in {"failed", "success"} \/ wrote # {})
            => Reviewed

\* What became of the records handled so far: a key that was deleted is never
\* used again, so no commit of another session undoes it.
Worked ==
  /\ wrote \subseteq ToSet(objs)
  /\ post.action \notin Hosted
       => \A i \in 1..n : IF post.action = "delete" THEN rows[objs[i]] = Gone ELSE objs[i] \in wrote
  /\ pc = "readback" => At \in wrote \/ rows[At] = Gone

\* The entries, and the refused ones, are those of the first records.
Logged ==
  /\ IsFiniteSet(rejected) /\ Recorded <= n
  /\ IsInjective(audit) /\ ToSet(audit) \cap rejected = {}
  /\ ToSet(audit) \cup rejected = {objs[i] : i \in 1..Recorded}
  /\ answer \in {"failed", "success"} => Recorded = n

IInv == TypeOK /\ Phase /\ Resolving /\ Chosen /\ Worked /\ Logged
-----------------------------------------------------------------------------
(* Sequences of records.                                                   *)

LEMMA ListOrders ==
  ASSUME NEW S, NEW s, IsFiniteSet(S), s \in InListOrder(S), S \subseteq Records
  PROVE  s \in Seq(Records) /\ IsInjective(s) /\ ToSet(s) \subseteq S
<1>1. Cardinality(S) \in Nat
  BY FS_CardinalityType
<1>2. s \in [1..Cardinality(S) -> S] /\ \A i, j \in 1..Cardinality(S) : i # j => s[i] # s[j]
  BY DEF InListOrder, SetToSeqs
<1>3. s \in Seq(Records)
  BY <1>1, <1>2
<1> QED BY <1>2, <1>3 DEF IsInjective, ToSet

LEMMA AppendRecord ==
  ASSUME NEW s \in Seq(Records), NEW x \in Records
  PROVE  /\ Append(s, x) \in Seq(Records) /\ ToSet(Append(s, x)) = ToSet(s) \cup {x}
         /\ Len(Append(s, x)) = Len(s) + 1
         /\ IsInjective(s) /\ x \notin ToSet(s) => IsInjective(Append(s, x))
<1>1. /\ Append(s, x) \in Seq(Records) /\ Len(Append(s, x)) = Len(s) + 1 /\ Len(s) \in Nat
      /\ DOMAIN s = 1..Len(s) /\ DOMAIN Append(s, x) = 1..(Len(s) + 1)
      /\ \A i \in 1..Len(s) : Append(s, x)[i] = s[i]
      /\ Append(s, x)[Len(s) + 1] = x
  OBVIOUS
<1>2. ToSet(Append(s, x)) = ToSet(s) \cup {x}
  <2>1. \A i \in 1..(Len(s) + 1) : i \in 1..Len(s) \/ i = Len(s) + 1
    BY <1>1
  <2>2. ToSet(Append(s, x)) \subseteq ToSet(s) \cup {x}
    BY <1>1, <2>1 DEF ToSet
  <2>3. \A y \in ToSet(s) \cup {x} : y \in ToSet(Append(s, x))
    BY <1>1 DEF ToSet
  <2> QED BY <2>2, <2>3
<1>3. ASSUME IsInjective(s), x \notin ToSet(s) PROVE IsInjective(Append(s, x))
  BY <1>1, <1>3 DEF IsInjective, ToSet
<1> QED BY <1>1, <1>2, <1>3

LEMMA TailRecord ==
  ASSUME NEW s \in Seq(Records), s # <<>>
  PROVE  /\ Tail(s) \in Seq(Records) /\ Head(s) \in Records
         /\ Head(s) \in ToSet(s) /\ ToSet(Tail(s)) \subseteq ToSet(s)
         /\ IsInjective(s) => IsInjective(Tail(s)) /\ Head(s) \notin ToSet(Tail(s))
<1>1. /\ Tail(s) \in Seq(Records) /\ Len(s) \in Nat /\ Len(s) >= 1 /\ Len(Tail(s)) = Len(s) - 1
      /\ DOMAIN s = 1..Len(s) /\ DOMAIN Tail(s) = 1..(Len(s) - 1)
      /\ \A i \in 1..(Len(s) - 1) : Tail(s)[i] = s[i + 1]
      /\ Head(s) = s[1]
  OBVIOUS
<1>2. Head(s) \in Records /\ Head(s) \in ToSet(s)
  BY <1>1 DEF ToSet
<1>3. ToSet(Tail(s)) \subseteq ToSet(s)
  BY <1>1 DEF ToSet
<1>4. ASSUME IsInjective(s) PROVE IsInjective(Tail(s)) /\ Head(s) \notin ToSet(Tail(s))
  BY <1>1, <1>4 DEF IsInjective, ToSet
<1> QED BY <1>1, <1>2, <1>3, <1>4

\* The record the loop is at is one of them, and not one it has handled.
LEMMA AtNext ==
  ASSUME IInv, Unhandled
  PROVE  /\ At \in Records /\ At \in ToSet(objs) /\ n + 1 \in 1..Len(objs)
         /\ \A i \in 1..n : objs[i] # At /\ objs[i] \in Records
<1>1. objs \in Seq(Records) /\ n \in Nat /\ Len(objs) \in Nat /\ n < Len(objs) /\ DOMAIN objs = 1..Len(objs)
  BY DEF IInv, TypeOK, Unhandled
<1> QED BY <1>1 DEF IInv, Resolving, IsInjective, ToSet, At

LEMMA LiveRow ==
  ASSUME IInv, NEW k \in Records
  PROVE  Live(k) <=> rows[k] \in Row
BY BulkAssumption DEF IInv, TypeOK, Live, Row
-----------------------------------------------------------------------------
(* Choosing the records.                                                   *)

LEMMA InitIInv == Init => IInv
<1> SUFFICES ASSUME Init PROVE IInv
  OBVIOUS
<1>1. TypeOK
  BY BulkAssumption DEF Init, TypeOK, NoPost, Posts, Actions, Steps, Answers, Results
<1>2. ToSet(<<>>) = {} /\ IsInjective(<<>>)
  BY DEF ToSet, IsInjective
<1>3. IsFiniteSet({}) /\ Cardinality({}) = 0 /\ Recorded = 0
  BY FS_EmptySet DEF Init, Recorded
<1>4. Phase /\ Chosen
  BY BulkAssumption DEF Init, Phase, Fresh, Chosen, NoPost, Results
<1>5. Resolving /\ Worked
  BY <1>2 DEF Init, Resolving, Worked
<1>6. Logged
  BY <1>2, <1>3 DEF Init, Logged
<1> QED BY <1>1, <1>4, <1>5, <1>6 DEF IInv

LEMMA SendStep == IInv /\ (SendFromList \/ SendFromPage) => IInv'
<1> SUFFICES ASSUME IInv, SendFromList \/ SendFromPage PROVE IInv'
  OBVIOUS
<1>1. PICK p \in Posts : Send(p) /\ (p.ticked # {} => p.value \in Values)
  <2>1. CASE SendFromList
    <3>1. PICK action \in Actions, all \in BOOLEAN, set \in SUBSET Records :
            Send([NoPost EXCEPT !.action = action, !.all = all, !.set = set])
      BY <2>1 DEF SendFromList
    <3> DEFINE p == [NoPost EXCEPT !.action = action, !.all = all, !.set = set]
    <3>2. p \in Posts /\ p.ticked = {}
      BY DEF NoPost, Posts
    <3> HIDE DEF p
    <3> QED BY <3>1, <3>2 DEF p
  <2>2. CASE SendFromPage
    <3>1. screen \in Pages
      BY <2>2 DEF SendFromPage, IInv, TypeOK
    <3>2. PICK ticked \in SUBSET Columns, value \in Values :
            Send([action |-> screen.action, all |-> screen.all, set |-> screen.set, confirmed |-> TRUE,
                  ticked |-> ticked, value |-> IF ticked = {} THEN Nil ELSE value])
      BY <2>2 DEF SendFromPage
    <3> DEFINE p == [action |-> screen.action, all |-> screen.all, set |-> screen.set, confirmed |-> TRUE,
                     ticked |-> ticked, value |-> IF ticked = {} THEN Nil ELSE value]
    <3>3. p \in Posts /\ (p.ticked # {} => p.value \in Values)
      BY <3>1 DEF Pages, Posts
    <3> HIDE DEF p
    <3> QED BY <3>2, <3>3 DEF p
  <2> QED BY <2>1, <2>2
<1>2. /\ pc = "idle" /\ pc' = "authorize" /\ post' = p
      /\ UNCHANGED <<rows, commits, screen, todo, objs, n, loaded, wrote, audit, rejected, answer>>
  BY <1>1 DEF Send, Goto, Store, Progress, Log
<1>3. TypeOK'
  BY <1>2 DEF IInv, TypeOK, Steps
<1>4. objs = <<>> /\ Fresh
  BY <1>2 DEF IInv, Phase
<1>5. Phase'
  BY <1>1, <1>2, <1>4 DEF IInv, Phase, Fresh
<1>6. Resolving'
  BY <1>2, <1>4 DEF IInv, Resolving, ToSet
<1>7. Chosen' /\ Worked'
  BY <1>2, <1>4, BulkAssumption DEF IInv, Phase, Fresh, Chosen, Worked, Results
<1>8. Logged'
  BY <1>2 DEF IInv, Logged, Recorded
<1> QED BY <1>3, <1>5, <1>6, <1>7, <1>8 DEF IInv

Early == {"authorize", "query", "getobject", "resolved", "confirm", "form"}

\* A step before the loop changes no record and logs nothing; what it has to
\* keep is what is known of the records it chose.
LEMMA EarlyStep ==
  ASSUME IInv, pc \in Early, UNCHANGED <<Store, post, Progress, Log>>,
         screen' \in Pages \cup {Nil}, todo' \in Seq(Records), objs' \in Seq(Records),
         Resolving',
         \/ pc' = "query" /\ post.all /\ objs' = <<>> /\ answer' = answer
         \/ pc' = "getobject" /\ ~post.all /\ answer' = answer
         \/ pc' \in {"resolved", "confirm", "form"} /\ answer' = answer
         \/ pc' = "run" /\ answer' = answer /\ Reviewed'
         \/ pc' = "answered" /\ answer' \in {"forbidden", "nothing", "error", "page"}
  PROVE  IInv'
<1>1. /\ rows' = rows /\ commits' = commits /\ post' = post /\ n' = n /\ loaded' = loaded
      /\ wrote' = wrote /\ audit' = audit /\ rejected' = rejected
  BY DEF Store, Progress, Log
<1>2. Fresh /\ Fresh' /\ answer = Nil
  BY <1>1 DEF IInv, Phase, Fresh, Early
<1>3. Len(objs') \in Nat
  OBVIOUS
<1>4. TypeOK'
  BY <1>1, <1>2, <1>3 DEF IInv, TypeOK, Fresh, Steps, Answers, Results
<1>5. Phase'
  BY <1>1, <1>2, BulkAssumption DEF IInv, Phase, Fresh, Results
<1>6. Chosen'
  BY <1>2, BulkAssumption DEF Chosen, Fresh, Results
<1>7. Worked'
  BY <1>1, <1>2 DEF Worked, Fresh
<1>8. Recorded' = 0 /\ ToSet(<<>>) = {} /\ IsInjective(<<>>) /\ IsFiniteSet({})
  BY <1>2, FS_EmptySet DEF Recorded, Fresh, ToSet, IsInjective
<1>9. Logged'
  BY <1>2, <1>8, BulkAssumption DEF Logged, Fresh, Results
<1> QED BY <1>4, <1>5, <1>6, <1>7, <1>9 DEF IInv

\* Resolving says nothing new when neither the records nor the keys change.
LEMMA ResolvingKept ==
  ASSUME IInv, UNCHANGED <<rows, post, todo, objs>>, pc' # "getobject" \/ pc = "getobject"
  PROVE  Resolving'
BY DEF IInv, Resolving

LEMMA AuthorizeStep == IInv /\ Authorize => IInv'
<1> SUFFICES ASSUME IInv, Authorize PROVE IInv'
  OBVIOUS
<1>1. pc = "authorize" /\ pc \in Early /\ UNCHANGED <<Store, post, objs, Progress, Log>> /\ objs = <<>>
  BY DEF Authorize, Early, IInv, Phase
<1>2. UNCHANGED <<rows, post>> /\ post \in Posts
  BY <1>1 DEF Store, IInv, TypeOK
<1>3. objs' \in Seq(Records) /\ screen' = screen /\ screen' \in Pages \cup {Nil}
  BY <1>1 DEF Authorize, Redirect, IInv, TypeOK
<1>4. CASE pc' = "answered" /\ answer' \in {"forbidden", "nothing"} /\ UNCHANGED todo
  <2>1. Resolving'
    BY <1>1, <1>2, <1>4, ResolvingKept
  <2>2. todo' \in Seq(Records)
    BY <1>4 DEF IInv, TypeOK
  <2> QED BY <1>1, <1>3, <1>4, <2>1, <2>2, EarlyStep
<1>5. CASE /\ todo' \in InListOrder(IF post.all THEN {} ELSE post.set)
           /\ pc' = (IF post.all THEN "query" ELSE "getobject") /\ answer' = answer
  <2> DEFINE S == IF post.all THEN {} ELSE post.set
  <2>1. S \subseteq Records /\ IsFiniteSet(S)
    <3>1. S \subseteq Records
      BY <1>2 DEF Posts
    <3>2. IsFiniteSet(Records)
      BY FS_Interval, BulkAssumption DEF Records
    <3> QED BY <3>1, <3>2, FS_Subset
  <2> HIDE DEF S
  <2>2. todo' \in Seq(Records) /\ IsInjective(todo') /\ ToSet(todo') \subseteq S
    BY <1>5, <2>1, ListOrders DEF S
  <2>3. Resolving'
    <3>1. ToSet(<<>>) = {} /\ IsInjective(<<>>)
      BY DEF ToSet, IsInjective
    <3> QED BY <1>1, <1>2, <1>5, <2>2, <3>1 DEF Resolving, S
  <2> QED BY <1>1, <1>3, <1>5, <2>2, <2>3, EarlyStep
<1> QED BY <1>1, <1>4, <1>5 DEF Authorize, Redirect, Answer, Goto

LEMMA QueryStep == IInv /\ Query => IInv'
<1> SUFFICES ASSUME IInv, Query PROVE IInv'
  OBVIOUS
<1>1. pc = "query" /\ pc \in Early /\ UNCHANGED <<Store, post, todo, Progress, Log, screen>>
  BY DEF Query, Redirect, Early
<1>2. UNCHANGED <<rows, post>> /\ todo' \in Seq(Records) /\ screen' \in Pages \cup {Nil}
  BY <1>1 DEF Store, IInv, TypeOK
<1>3. CASE pc' = "answered" /\ answer' = "error" /\ UNCHANGED objs
  <2>1. Resolving' /\ objs' \in Seq(Records)
    BY <1>1, <1>2, <1>3, ResolvingKept DEF IInv, TypeOK
  <2> QED BY <1>1, <1>2, <1>3, <2>1, EarlyStep
<1>4. CASE objs' \in InListOrder(Matching) /\ pc' = "resolved" /\ answer' = answer
  <2>1. Matching \subseteq Records /\ IsFiniteSet(Matching)
    <3>1. Matching \subseteq Records
      BY DEF Matching
    <3>2. IsFiniteSet(Records)
      BY FS_Interval, BulkAssumption DEF Records
    <3> QED BY <3>1, <3>2, FS_Subset
  <2>2. objs' \in Seq(Records) /\ IsInjective(objs') /\ ToSet(objs') \subseteq Matching
    BY <1>4, <2>1, ListOrders
  <2>3. \A k \in ToSet(objs') : rows[k] # Unused
    BY <2>2 DEF Matching, Live
  <2>4. post.all
    BY <1>1 DEF IInv, Phase
  <2>5. Resolving'
    BY <1>2, <1>4, <2>2, <2>3, <2>4 DEF Resolving
  <2> QED BY <1>1, <1>2, <1>4, <2>2, <2>5, EarlyStep
<1> QED BY <1>3, <1>4 DEF Query, Redirect, Answer, Goto

LEMMA GetObjectStep == IInv /\ GetObject => IInv'
<1> SUFFICES ASSUME IInv, GetObject PROVE IInv'
  OBVIOUS
<1>1. pc = "getobject" /\ pc \in Early /\ UNCHANGED <<Store, post, Progress, Log, screen, answer>> /\ ~post.all
  BY DEF GetObject, Early, IInv, Phase
<1>2. /\ UNCHANGED <<rows, post>> /\ screen' \in Pages \cup {Nil}
      /\ todo \in Seq(Records) /\ objs \in Seq(Records)
  BY <1>1 DEF Store, IInv, TypeOK
<1>3. CASE pc' = "resolved" /\ UNCHANGED <<todo, objs>>
  <2>1. Resolving'
    BY <1>1, <1>2, <1>3, ResolvingKept
  <2> QED BY <1>1, <1>2, <1>3, <2>1, EarlyStep
<1>4. CASE /\ todo # <<>> /\ todo' = Tail(todo) /\ pc' = pc
           /\ UNCHANGED objs \/ (Live(Head(todo)) /\ objs' = Append(objs, Head(todo)))
  <2>1. /\ todo' \in Seq(Records) /\ Head(todo) \in Records /\ Head(todo) \in ToSet(todo)
        /\ ToSet(todo') \subseteq ToSet(todo) /\ IsInjective(todo') /\ Head(todo) \notin ToSet(todo')
    BY <1>1, <1>2, <1>4, TailRecord DEF IInv, Resolving
  <2>2. CASE UNCHANGED objs
    <3>1. Resolving'
      BY <1>1, <1>2, <1>4, <2>1, <2>2 DEF IInv, Resolving
    <3> QED BY <1>1, <1>2, <1>4, <2>1, <2>2, <3>1, EarlyStep
  <2>3. CASE Live(Head(todo)) /\ objs' = Append(objs, Head(todo))
    <3>1. /\ objs' \in Seq(Records) /\ ToSet(objs') = ToSet(objs) \cup {Head(todo)}
          /\ IsInjective(objs')
      BY <1>1, <1>2, <2>1, <2>3, AppendRecord DEF IInv, Resolving
    <3>2. Resolving'
      BY <1>1, <1>2, <1>4, <2>1, <2>3, <3>1 DEF IInv, Resolving, Live
    <3> QED BY <1>1, <1>2, <1>4, <2>1, <3>1, <3>2, EarlyStep
  <2> QED BY <1>4, <2>2, <2>3
<1> QED BY <1>3, <1>4 DEF GetObject, Goto

\* The steps that look at the records chosen, and at what was posted.
LEMMA DecideStep == IInv /\ (Resolved \/ ConfirmDelete \/ ResolveForm) => IInv'
<1> SUFFICES ASSUME IInv, Resolved \/ ConfirmDelete \/ ResolveForm PROVE IInv'
  OBVIOUS
<1>1. pc \in {"resolved", "confirm", "form"} /\ pc \in Early /\ UNCHANGED <<Store, Selection, Progress, Log>>
  BY DEF Resolved, ConfirmDelete, ResolveForm, Early
<1>2. /\ UNCHANGED <<rows, post, todo, objs>> /\ todo' \in Seq(Records) /\ objs' \in Seq(Records)
      /\ post \in Posts
  BY <1>1 DEF Store, Selection, IInv, TypeOK
<1>3. /\ screen' \in Pages \cup {Nil}
      /\ \/ pc' = "answered" /\ answer' \in {"nothing", "error", "page"}
         \/ pc' \in {"confirm", "form"} /\ answer' = answer
         \/ pc' = "run" /\ answer' = answer /\ Reviewed
  <2>1. screen \in Pages \cup {Nil} /\ [action |-> post.action, all |-> post.all, set |-> ToSet(objs)] \in Pages
    <3>1. ToSet(objs) \subseteq Records
      BY <1>2 DEF ToSet
    <3> QED BY <1>2, <3>1 DEF IInv, TypeOK, Posts, Pages
  <2>2. ~Differs => (post.all => ToSet(objs) = post.set)
    BY DEF Differs, Fingerprint
  <2>3. ~post.all => ToSet(objs) \subseteq post.set
    BY DEF IInv, Resolving
  <2>4. CASE Resolved
    BY <1>2, <2>1, <2>4 DEF Resolved, Redirect, Answer, Goto, Reviewed, Asks
  <2>5. CASE ConfirmDelete
    BY <2>1, <2>2, <2>3, <2>5 DEF ConfirmDelete, Redirect, Page, Answer, Goto, Reviewed
  <2>6. CASE ResolveForm
    BY <2>1, <2>2, <2>3, <2>6 DEF ResolveForm, Page, Answer, Goto, Reviewed
  <2> QED BY <2>4, <2>5, <2>6
<1>4. Resolving'
  BY <1>1, <1>2, <1>3, ResolvingKept
<1>5. Reviewed => Reviewed'
  BY <1>2 DEF Reviewed, Asks, HasForm
<1> QED BY <1>1, <1>2, <1>3, <1>4, <1>5, EarlyStep
-----------------------------------------------------------------------------
(* Running the action.                                                     *)

\* A step of the loop keeps the records chosen; the log is not written yet.
LEMMA LoopStep ==
  ASSUME IInv, pc \in {"run", "write", "readback"}, UNCHANGED <<commits, Selection, screen, Log, answer>>,
         rows' \in [Records -> Row \cup {Unused, Gone}], \A k \in Records : rows[k] # Unused => rows'[k] # Unused,
         n' \in 0..Len(objs), loaded' \in Row \cup {Nil},
         Worked',
         \/ pc' \in {"run", "record"}
         \/ pc' = "write" /\ Unhandled' /\ (post.action = "edit" => loaded' \in Row)
         \/ pc' = "readback" /\ Unhandled' /\ post.action = "edit"
  PROVE  IInv'
<1>1. /\ UNCHANGED <<commits, post, todo, objs, screen, audit, rejected, answer>>
      /\ answer = Nil /\ audit = <<>> /\ rejected = {}
  BY DEF Selection, Log, IInv, Phase
<1>2. ToSet(objs) \subseteq Records
  BY DEF IInv, TypeOK, ToSet
<1>3. TypeOK'
  BY <1>1, <1>2 DEF IInv, TypeOK, Steps, Worked
<1>4. Phase'
  BY <1>1, BulkAssumption DEF IInv, Phase, Results
<1>5. Resolving'
  BY <1>1, <1>2 DEF IInv, Resolving
<1>6. Chosen'
  BY <1>1 DEF IInv, Chosen, Reviewed, Asks, HasForm
<1>7. Logged'
  <2>1. n' >= 0 /\ Recorded' = 0 /\ ToSet(<<>>) = {} /\ IsInjective(<<>>) /\ IsFiniteSet({})
    BY <1>1, FS_EmptySet DEF Recorded, ToSet, IsInjective
  <2> QED BY <1>1, <2>1, BulkAssumption DEF Logged, Results
<1> QED BY <1>3, <1>4, <1>5, <1>6, <1>7 DEF IInv

\* A hook's error, or the end of the records, leaves everything to the log.
LEMMA StopStep ==
  ASSUME IInv, pc \in {"run", "write", "readback"}, UNCHANGED <<commits, Selection, screen, Log, answer>>,
         pc' = "record", UNCHANGED <<rows, n, loaded, wrote>>
  PROVE  IInv'
<1>1. UNCHANGED <<post, objs>>
  BY DEF Selection
<1>2. Worked'
  BY <1>1 DEF IInv, Worked
<1> QED BY <1>2, LoopStep DEF IInv, TypeOK

\* One record more has been handled.
LEMMA WorkedGrows ==
  ASSUME IInv, Unhandled, UNCHANGED <<post, objs>>, n' = n + 1, pc' = "run",
         wrote \subseteq wrote', wrote' \subseteq wrote \cup {At},
         \A k \in Records : rows[k] = Gone => rows'[k] = Gone,
         post.action \notin Hosted => IF post.action = "delete" THEN rows'[At] = Gone ELSE At \in wrote'
  PROVE  Worked' /\ n' \in 0..Len(objs)
<1>1. /\ At \in Records /\ At \in ToSet(objs) /\ n + 1 \in 1..Len(objs)
      /\ \A i \in 1..n : objs[i] # At /\ objs[i] \in Records
  BY AtNext
<1>2. n \in Nat /\ Len(objs) \in Nat /\ \A i \in 1..(n + 1) : i \in 1..n \/ i = n + 1
  BY DEF IInv, TypeOK
<1>3. wrote' \subseteq ToSet(objs)
  BY <1>1 DEF IInv, Worked
<1>4. ASSUME post.action \notin Hosted
      PROVE  \A i \in 1..n' : IF post.action = "delete" THEN rows'[objs[i]] = Gone ELSE objs[i] \in wrote'
  <2>1. \A i \in 1..n : IF post.action = "delete" THEN rows'[objs[i]] = Gone ELSE objs[i] \in wrote'
    BY <1>1, <1>4 DEF IInv, Worked
  <2> QED BY <1>2, <1>4, <2>1 DEF At
<1> QED BY <1>1, <1>2, <1>3, <1>4 DEF Worked

LEMMA LoadStep == IInv /\ Load => IInv'
<1> SUFFICES ASSUME IInv, Load PROVE IInv'
  OBVIOUS
<1>1. pc = "run" /\ UNCHANGED <<commits, Selection, screen, Log, answer>> /\ UNCHANGED <<post, objs>>
  BY DEF Load, Selection
<1>2. CASE pc' = "record" /\ UNCHANGED <<rows, n, loaded, wrote>>
  BY <1>1, <1>2, StopStep
<1>3. CASE /\ Unhandled /\ Live(At) /\ pc' = "write" /\ UNCHANGED <<rows, n, wrote>>
           /\ loaded' = IF post.action = "edit" THEN rows[At] ELSE Nil
  <2>1. rows[At] \in Row
    BY <1>3, AtNext, LiveRow
  <2>2. Worked' /\ Unhandled'
    BY <1>1, <1>3 DEF IInv, Worked, Unhandled
  <2> QED BY <1>1, <1>3, <2>1, <2>2, LoopStep DEF IInv, TypeOK
<1>4. CASE /\ Unhandled /\ ~Live(At) /\ post.action = "delete" /\ n' = n + 1
           /\ UNCHANGED <<rows, pc, loaded, wrote>>
  <2>1. rows[At] = Gone
    BY <1>4, AtNext DEF IInv, Resolving, Live
  <2>2. Worked' /\ n' \in 0..Len(objs)
    BY <1>1, <1>4, <2>1, WorkedGrows
  <2> QED BY <1>1, <1>4, <2>2, LoopStep DEF IInv, TypeOK
<1> QED BY <1>2, <1>3, <1>4 DEF Load, Stop, Goto, Progress

LEMMA DeleteRowStep == IInv /\ DeleteRow => IInv'
<1> SUFFICES ASSUME IInv, DeleteRow PROVE IInv'
  OBVIOUS
<1>1. /\ pc = "write" /\ post.action = "delete" /\ UNCHANGED <<commits, Selection, screen, Log, answer>>
      /\ UNCHANGED <<post, objs>> /\ Unhandled
  BY DEF DeleteRow, Selection, IInv, Phase
<1>2. CASE pc' = "record" /\ UNCHANGED <<rows, n, loaded, wrote>>
  BY <1>1, <1>2, StopStep
<1>3. CASE /\ rows' = [rows EXCEPT ![At] = Gone] /\ n' = n + 1 /\ pc' = "run" /\ loaded' = loaded
           /\ wrote' = IF Live(At) THEN wrote \cup {At} ELSE wrote
  <2>1. At \in Records /\ rows \in [Records -> Row \cup {Unused, Gone}]
    BY <1>1, AtNext DEF IInv, TypeOK
  <2>2. /\ rows' \in [Records -> Row \cup {Unused, Gone}] /\ rows'[At] = Gone
        /\ \A k \in Records : (rows[k] # Unused => rows'[k] # Unused) /\ (rows[k] = Gone => rows'[k] = Gone)
    BY <1>3, <2>1, BulkAssumption
  <2>3. Worked' /\ n' \in 0..Len(objs)
    BY <1>1, <1>3, <2>1, <2>2, WorkedGrows
  <2> QED BY <1>1, <1>3, <2>2, <2>3, LoopStep DEF IInv, TypeOK
<1> QED BY <1>2, <1>3 DEF DeleteRow, Stop, Goto, Progress

LEMMA UpdateRowStep == IInv /\ UpdateRow => IInv'
<1> SUFFICES ASSUME IInv, UpdateRow PROVE IInv'
  OBVIOUS
<1>1. /\ pc = "write" /\ post.action = "edit" /\ UNCHANGED <<commits, Selection, screen, Log, answer>>
      /\ UNCHANGED <<post, objs>> /\ Unhandled /\ loaded \in Row
  BY DEF UpdateRow, Selection, IInv, Phase
<1>2. CASE pc' = "record" /\ UNCHANGED <<rows, n, loaded, wrote>>
  BY <1>1, <1>2, StopStep
<1>3. CASE /\ rows' = (IF Live(At) THEN [rows EXCEPT ![At] = Merged] ELSE rows)
           /\ wrote' = (IF Live(At) THEN wrote \cup {At} ELSE wrote)
           /\ pc' = "readback" /\ UNCHANGED <<n, loaded>>
  <2>1. /\ At \in Records /\ At \in ToSet(objs) /\ \A i \in 1..n : objs[i] # At /\ objs[i] \in Records
        /\ rows \in [Records -> Row \cup {Unused, Gone}]
    BY <1>1, AtNext DEF IInv, TypeOK
  <2>2. Merged \in Row
    BY <1>1 DEF Merged, Row, IInv, Phase
  <2>3. /\ rows' \in [Records -> Row \cup {Unused, Gone}]
        /\ \A k \in Records : (rows[k] # Unused => rows'[k] # Unused) /\ (rows[k] = Gone => rows'[k] = Gone)
    BY <1>3, <2>1, <2>2, BulkAssumption DEF Live, Row
  <2>4. At' = At /\ (At \in wrote' \/ rows'[At] = Gone)
    BY <1>1, <1>3, <2>1, <2>3 DEF At, Live, IInv, Resolving
  <2>5. post.action \notin Hosted => \A i \in 1..n : objs[i] \in wrote'
    BY <1>1, <1>3 DEF IInv, Worked
  <2>6. Worked'
    BY <1>1, <1>3, <2>1, <2>4, <2>5 DEF IInv, Worked
  <2> QED BY <1>1, <1>3, <2>3, <2>6, LoopStep DEF IInv, TypeOK, Unhandled
<1> QED BY <1>2, <1>3 DEF UpdateRow, Stop, Goto, Progress

LEMMA ReadBackStep == IInv /\ ReadBack => IInv'
<1> SUFFICES ASSUME IInv, ReadBack PROVE IInv'
  OBVIOUS
<1>1. /\ pc = "readback" /\ post.action = "edit" /\ UNCHANGED <<commits, Selection, screen, Log, answer>>
      /\ UNCHANGED <<post, objs>> /\ Unhandled
  BY DEF ReadBack, Selection, IInv, Phase
<1>2. CASE pc' = "record" /\ UNCHANGED <<rows, n, loaded, wrote>>
  BY <1>1, <1>2, StopStep
<1>3. CASE Live(At) /\ n' = n + 1 /\ pc' = "run" /\ UNCHANGED <<rows, loaded, wrote>>
  <2>1. At \in wrote
    BY <1>1, <1>3 DEF IInv, Worked, Live
  <2>2. Worked' /\ n' \in 0..Len(objs)
    BY <1>1, <1>3, <2>1, WorkedGrows
  <2> QED BY <1>1, <1>3, <2>2, LoopStep DEF IInv, TypeOK
<1> QED BY <1>2, <1>3 DEF ReadBack, Stop, Goto, Progress

LEMMA HostHandleStep == IInv /\ HostHandle => IInv'
<1> SUFFICES ASSUME IInv, HostHandle PROVE IInv'
  OBVIOUS
<1>1. /\ pc = "run" /\ pc' = "run" /\ post.action \in Hosted /\ Unhandled /\ n' = n + 1
      /\ UNCHANGED <<commits, Selection, screen, Log, answer>> /\ UNCHANGED <<post, objs, loaded>>
  BY DEF HostHandle, Selection
<1>2. At \in Records /\ rows \in [Records -> Row \cup {Unused, Gone}]
  BY <1>1, AtNext DEF IInv, TypeOK
<1>3. /\ rows' \in [Records -> Row \cup {Unused, Gone}]
      /\ \A k \in Records : (rows[k] # Unused => rows'[k] # Unused) /\ (rows[k] = Gone => rows'[k] = Gone)
      /\ wrote \subseteq wrote' /\ wrote' \subseteq wrote \cup {At}
  <2>1. CASE UNCHANGED <<rows, wrote>>
    BY <1>2, <2>1
  <2>2. CASE /\ Live(At) /\ wrote' = wrote \cup {At}
             /\ \E row \in Row \cup {Gone} : rows' = [rows EXCEPT ![At] = row]
    <3>1. PICK row \in Row \cup {Gone} : rows' = [rows EXCEPT ![At] = row]
      BY <2>2
    <3>2. rows[At] # Gone /\ row # Unused
      BY <2>2, <3>1, BulkAssumption DEF Live, Row
    <3> QED BY <1>2, <2>2, <3>1, <3>2
  <2> QED BY <2>1, <2>2 DEF HostHandle
<1>4. Worked' /\ n' \in 0..Len(objs)
  BY <1>1, <1>3, WorkedGrows
<1> QED BY <1>1, <1>3, <1>4, LoopStep DEF IInv, TypeOK

\* Whatever the host did before, a result that is not logged leaves the log empty.
LEMMA HostReturnStep == IInv /\ HostReturn => IInv'
<1> SUFFICES ASSUME IInv, HostReturn PROVE IInv'
  OBVIOUS
<1>1. /\ pc = "run" /\ post.action \in Hosted /\ answer = Nil /\ audit = <<>> /\ rejected = {}
      /\ UNCHANGED <<rows, commits, post, todo, objs, n, loaded, wrote, audit, rejected>>
  BY DEF HostReturn, Store, Selection, Progress, Log, IInv, Phase
<1>2. CASE pc' = "record" /\ UNCHANGED <<screen, answer>>
  BY <1>1, <1>2, StopStep DEF Selection, Log
<1>3. CASE pc' = "answered" /\ answer' \in {"page", "error"} /\ screen' \in Pages \cup {Nil}
  <2>1. TypeOK'
    BY <1>1, <1>3 DEF IInv, TypeOK, Steps, Answers, Results
  <2>2. Phase'
    BY <1>1, <1>3, BulkAssumption DEF IInv, Phase, Fresh, Results
  <2>3. Resolving' /\ Worked'
    BY <1>1, <1>3 DEF IInv, Resolving, Worked
  <2>4. Chosen'
    BY <1>1, <1>3 DEF IInv, Chosen, Reviewed, Asks, HasForm
  <2>5. Logged'
    BY <1>1, <1>3 DEF IInv, Logged, Recorded
  <2> QED BY <2>1, <2>2, <2>3, <2>4, <2>5 DEF IInv
<1>4. screen \in Pages \cup {Nil} /\ [action |-> post.action, all |-> post.all, set |-> ToSet(objs)] \in Pages
  BY DEF IInv, TypeOK, Posts, Pages, ToSet
<1> QED BY <1>2, <1>3, <1>4 DEF HostReturn, Redirect, Page, Answer, Goto
-----------------------------------------------------------------------------
(* The audit log, and the rest of the world.                               *)

LEMMA RecordAuditStep == IInv /\ RecordAudit => IInv'
<1> SUFFICES ASSUME IInv, RecordAudit PROVE IInv'
  OBVIOUS
<1>1. /\ pc = "record" /\ answer = Nil
      /\ UNCHANGED <<rows, commits, post, todo, objs, n, loaded, wrote, screen>>
  BY DEF RecordAudit, Redirect, Store, Selection, Progress, IInv, Phase
<1>2. /\ audit \in Seq(Records) /\ objs \in Seq(Records) /\ n \in Nat /\ n <= Len(objs) /\ Len(objs) \in Nat
      /\ Len(audit) \in Nat /\ Cardinality(rejected) \in Nat /\ Recorded \in Nat
      /\ Recorded = Len(audit) + Cardinality(rejected)
      /\ DOMAIN objs = 1..Len(objs)
  BY FS_CardinalityType DEF IInv, TypeOK, Logged, Recorded
<1>3. Worked' /\ Resolving' /\ Reviewed' /\ Reviewed
  BY <1>1 DEF RecordAudit, Redirect, Answer, Goto, IInv, Worked, Resolving, Chosen, Reviewed, Asks, HasForm
<1>4. Chosen'
  BY <1>3 DEF Chosen
<1>5. CASE Recorded < n /\ UNCHANGED <<pc, answer>>
  <2> DEFINE k == objs[Recorded + 1]
  <2>1. Recorded + 1 \in 1..Len(objs) /\ k \in Records
    BY <1>2, <1>5
  <2>2. k \notin {objs[i] : i \in 1..Recorded}
    BY <1>2, <2>1 DEF IInv, Resolving, IsInjective
  <2>3. {objs[i] : i \in 1..(Recorded + 1)} = {objs[i] : i \in 1..Recorded} \cup {k}
    <3>1. 1..(Recorded + 1) = (1..Recorded) \cup {Recorded + 1}
      BY <1>2
    <3> QED BY <3>1
  <2>4. Phase'
    BY <1>1, <1>5, BulkAssumption DEF IInv, Phase, Results
  <2> HIDE DEF k
  <2>5. CASE audit' = Append(audit, k) /\ rejected' = rejected
    <3>1. /\ audit' \in Seq(Records) /\ ToSet(audit') = ToSet(audit) \cup {k} /\ Len(audit') = Len(audit) + 1
          /\ IsInjective(audit')
      BY <1>2, <2>1, <2>2, <2>5, AppendRecord DEF IInv, Logged
    <3>2. Recorded' = Recorded + 1
      BY <1>2, <2>5, <3>1 DEF Recorded
    <3>3. Logged'
      <4>1. ToSet(audit') \cap rejected' = {} /\ k \notin rejected
        BY <2>2, <2>5, <3>1 DEF IInv, Logged
      <4>2. ToSet(audit') \cup rejected' = {objs[i] : i \in 1..(Recorded + 1)}
        BY <2>3, <2>5, <3>1 DEF IInv, Logged
      <4>3. Recorded' <= n' /\ answer' = Nil
        BY <1>1, <1>2, <1>5, <3>2
      <4> QED BY <1>1, <2>5, <3>1, <3>2, <4>1, <4>2, <4>3, BulkAssumption DEF IInv, Logged, Results
    <3>4. TypeOK'
      BY <1>1, <1>5, <2>5, <3>1 DEF IInv, TypeOK
    <3> QED BY <1>3, <1>4, <2>4, <3>3, <3>4 DEF IInv
  <2>6. CASE rejected' = rejected \cup {k} /\ audit' = audit
    <3>1. k \notin rejected /\ IsFiniteSet(rejected)
      BY <2>2 DEF IInv, Logged
    <3>2. IsFiniteSet(rejected') /\ Cardinality(rejected') = Cardinality(rejected) + 1
      BY <2>6, <3>1, FS_AddElement
    <3>3. Recorded' = Recorded + 1
      BY <1>2, <2>6, <3>2 DEF Recorded
    <3>4. Logged'
      <4>1. ToSet(audit) \cap rejected' = {} /\ k \notin ToSet(audit)
        BY <2>2, <2>6 DEF IInv, Logged
      <4>2. ToSet(audit) \cup rejected' = {objs[i] : i \in 1..(Recorded + 1)}
        BY <2>3, <2>6 DEF IInv, Logged
      <4>3. Recorded' <= n' /\ answer' = Nil
        BY <1>1, <1>2, <1>5, <3>3
      <4>4. IsInjective(audit') /\ ToSet(audit') = ToSet(audit)
        BY <2>6 DEF IInv, Logged
      <4>5. {objs'[i] : i \in 1..Recorded'} = {objs[i] : i \in 1..(Recorded + 1)}
        BY <1>1, <3>3
      <4> QED BY <3>2, <4>1, <4>2, <4>3, <4>4, <4>5, BulkAssumption DEF Logged, Results
    <3>5. TypeOK'
      BY <1>1, <1>5, <2>1, <2>6 DEF IInv, TypeOK
    <3> QED BY <1>3, <1>4, <2>4, <3>4, <3>5 DEF IInv
  <2> QED BY <1>5, <2>5, <2>6 DEF RecordAudit, Goto, Redirect, k
<1>6. CASE ~(Recorded < n)
  <2>1. /\ pc' = "answered" /\ answer' = (IF Unhandled THEN "failed" ELSE "success")
        /\ UNCHANGED <<audit, rejected>>
    BY <1>6 DEF RecordAudit, Redirect, Answer, Goto, Log
  <2>2. TypeOK'
    BY <1>1, <2>1 DEF IInv, TypeOK, Steps, Answers, Results
  <2>3. Phase'
    <3> DEFINE last == Len(objs)
    <3>1. n \in Nat /\ last \in Nat /\ n <= last
      BY <1>2
    <3> HIDE DEF last
    <3>2. ~(n < last) => n = last
      BY <3>1
    <3>3. ~Unhandled => n = Len(objs)
      BY <3>2 DEF Unhandled, last
    <3> QED BY <1>1, <2>1, <3>3 DEF IInv, Phase
  <2>4. Recorded' = Recorded /\ Recorded = n
    BY <1>2, <1>6, <2>1 DEF Recorded, IInv, Logged
  <2>5. Logged'
    BY <1>1, <2>1, <2>4 DEF IInv, Logged
  <2> QED BY <1>3, <1>4, <2>2, <2>3, <2>5 DEF IInv
<1> QED BY <1>5, <1>6 DEF RecordAudit, Goto, Redirect

LEMMA CrashStep == IInv /\ Crash => IInv'
<1> SUFFICES ASSUME IInv, Crash PROVE IInv'
  OBVIOUS
<1>1. /\ pc' = "answered" /\ answer' = "lost" /\ answer = Nil
      /\ UNCHANGED <<rows, commits, post, todo, objs, n, loaded, wrote, screen, audit, rejected>>
  BY DEF Crash, Serving, Redirect, Answer, Goto, Store, Selection, Progress, Log, IInv, Phase
<1>2. TypeOK' /\ Resolving' /\ Worked'
  BY <1>1 DEF IInv, TypeOK, Steps, Answers, Results, Resolving, Worked
<1>3. Phase' /\ Chosen'
  BY <1>1 DEF IInv, Phase, Fresh, Chosen, Reviewed, Asks, HasForm
<1>4. Logged'
  BY <1>1 DEF IInv, Logged, Recorded
<1> QED BY <1>2, <1>3, <1>4 DEF IInv

LEMMA ContinueStep == IInv /\ Continue => IInv'
<1> SUFFICES ASSUME IInv, Continue PROVE IInv'
  OBVIOUS
<1>1. /\ pc' = "idle" /\ answer' = Nil /\ UNCHANGED <<rows, commits, screen>>
      /\ post' = NoPost /\ todo' = <<>> /\ objs' = <<>> /\ n' = 0 /\ loaded' = Nil /\ wrote' = {}
      /\ audit' = <<>> /\ rejected' = {}
  BY DEF Continue, Goto, Store
<1>2. ToSet(<<>>) = {} /\ IsInjective(<<>>) /\ IsFiniteSet({}) /\ Cardinality({}) = 0
  BY FS_EmptySet DEF ToSet, IsInjective
<1>3. TypeOK'
  BY <1>1 DEF IInv, TypeOK, NoPost, Posts, Steps, Answers, Actions
<1>4. Phase' /\ Chosen'
  BY <1>1, BulkAssumption DEF Phase, Fresh, Chosen, NoPost, Results
<1>5. Resolving' /\ Worked'
  BY <1>1, <1>2 DEF Resolving, Worked
<1>6. Logged'
  BY <1>1, <1>2, BulkAssumption DEF Logged, Recorded, Results
<1> QED BY <1>3, <1>4, <1>5, <1>6 DEF IInv

\* A commit of another session.
LEMMA CommitStep == IInv /\ Commit => IInv'
<1> SUFFICES ASSUME IInv, Commit PROVE IInv'
  OBVIOUS
<1>1. /\ commits' \in 0..MaxCommits
      /\ UNCHANGED <<screen, post, pc, todo, objs, n, loaded, wrote, audit, rejected, answer>>
  BY BulkAssumption DEF Commit, Progress, Log, IInv, TypeOK
<1>2. /\ rows' \in [Records -> Row \cup {Unused, Gone}]
      /\ \A k \in Records : (rows[k] # Unused => rows'[k] # Unused) /\ (rows[k] = Gone => rows'[k] = Gone)
  <2>1. rows \in [Records -> Row \cup {Unused, Gone}] /\ Unused \notin Row /\ Gone # Unused
    BY BulkAssumption DEF IInv, TypeOK, Row
  <2>2. PICK k \in Records, x \in Row \cup {Gone} : rows[k] # Gone /\ rows' = [rows EXCEPT ![k] = x]
    BY DEF Commit, Live
  <2> QED BY <2>1, <2>2
<1>3. TypeOK'
  BY <1>1, <1>2 DEF IInv, TypeOK
<1>4. ToSet(objs) \subseteq Records /\ \A i \in 1..n : objs[i] \in Records
  BY DEF IInv, TypeOK, ToSet
<1>5. Phase' /\ Resolving' /\ Chosen'
  BY <1>1, <1>2, <1>4 DEF IInv, Phase, Fresh, Unhandled, Resolving, Chosen, Reviewed, Asks, HasForm
<1>6. Worked'
  <2>1. pc = "readback" => At \in Records
    BY AtNext DEF IInv, Phase
  <2>2. At' = At
    BY <1>1 DEF At
  <2> QED BY <1>1, <1>2, <1>4, <2>1, <2>2 DEF IInv, Worked
<1>7. Logged'
  BY <1>1 DEF IInv, Logged, Recorded
<1> QED BY <1>3, <1>5, <1>6, <1>7 DEF IInv

LEMMA StutterStep == IInv /\ UNCHANGED vars => IInv'
BY DEF vars, IInv, TypeOK, Phase, Fresh, Unhandled, Resolving, Chosen, Reviewed, Asks, HasForm, Worked, At,
   Logged, Recorded

LEMMA Invariance == Spec => []IInv
<1>1. IInv /\ [Next]_vars => IInv'
  BY SendStep, AuthorizeStep, QueryStep, GetObjectStep, DecideStep, LoadStep, DeleteRowStep, UpdateRowStep,
     ReadBackStep, HostHandleStep, HostReturnStep, RecordAuditStep, CrashStep, ContinueStep, CommitStep, StutterStep DEF Next, Serve
<1> QED BY InitIInv, <1>1, PTL DEF Spec
-----------------------------------------------------------------------------
(* The properties of BulkActions.                                          *)

\* The request, the page the browser holds and the log are always values the
\* handlers produce.
THEOREM TypeCorrect == Spec => []TypeOK
<1>1. IInv => TypeOK
  BY DEF IInv
<1> QED BY <1>1, Invariance, PTL

\* Whatever other sessions commit between the page and the loop, an action that
\* shows a page first, the host's own included, changes only records of the
\* page the browser posted, and an answer that warns or refuses, or with which
\* the framework asks again, has changed nothing.
THEOREM ReviewedOnly == Spec => []OnlyReviewed
<1>1. IInv => OnlyReviewed
  BY DEF IInv, Phase, Fresh, Chosen, Reviewed, Worked, OnlyReviewed, HasForm, Asks
<1> QED BY <1>1, Invariance, PTL

\* Wherever the loop stops and whichever entries the logger refuses, each
\* record it got through has exactly one, and what an entry of a built-in
\* action says is true.
THEOREM EntriesAreTrue == Spec => []EntriesMatchHandled
<1>1. IInv => EntriesMatchHandled
  <2> SUFFICES ASSUME IInv PROVE EntriesMatchHandled
    OBVIOUS
  <2>1. n \in Nat /\ Recorded \in Nat /\ Recorded <= n
    BY FS_CardinalityType DEF IInv, TypeOK, Logged, Recorded
  <2>2. \A k \in ToSet(audit) : \E i \in 1..n : k = objs[i]
    BY <2>1 DEF IInv, Logged
  <2>3. post.action \notin Hosted
          => \A k \in ToSet(audit) : IF post.action = "delete" THEN rows[k] = Gone ELSE k \in wrote
    BY <2>2 DEF IInv, Worked
  <2>4. ToSet(audit) \cup rejected \subseteq Handled
    BY <2>1 DEF IInv, Logged, Handled
  <2>5. answer \in {"failed", "success"} => ToSet(audit) \cup rejected = Handled
    BY DEF IInv, Logged, Handled
  <2> QED BY <2>3, <2>4, <2>5 DEF EntriesMatchHandled, IInv, Logged
<1> QED BY <1>1, Invariance, PTL

\* A success after a reviewed "select all" leaves none of the reviewed records,
\* those that another session deleted first included.
THEOREM ReviewedAreGone == Spec => []SuccessClearsReviewed
<1>1. IInv => SuccessClearsReviewed
  <2> SUFFICES ASSUME IInv, answer = "success", post.action = "delete", "delete" \notin Hosted, post.all, Previews
               PROVE  \A k \in post.set : rows[k] = Gone
    BY DEF SuccessClearsReviewed
  <2>1. ToSet(objs) = post.set /\ n = Len(objs) /\ \A i \in 1..n : rows[objs[i]] = Gone
    BY DEF IInv, Phase, Chosen, Reviewed, Asks, Worked
  <2>2. \A k \in ToSet(objs) : \E i \in 1..n : k = objs[i]
    BY <2>1 DEF ToSet, IInv, TypeOK
  <2> QED BY <2>1, <2>2
<1> QED BY <1>1, Invariance, PTL
-----------------------------------------------------------------------------
(* What a bulk edit promises, where no session comes between.              *)

\* The row about to be updated is the one that was loaded.
Untouched == pc = "write" /\ post.action = "edit" => loaded = rows[At]

LEMMA UntouchedStep ==
  ASSUME MaxCommits = 0, IInv, Untouched, [Next]_vars PROVE Untouched'
<1>1. commits = 0 /\ ~Commit
  BY DEF IInv, TypeOK, Commit
<1>2. CASE Load
  BY <1>2 DEF Load, Untouched, Goto, At, Selection, Stop, Progress
<1>3. CASE UNCHANGED vars
  BY <1>3 DEF Untouched, At, vars
<1>4. CASE ~Load /\ ~UNCHANGED vars
  <2>1. pc' # "write"
    <3>1. CASE SendFromList \/ SendFromPage \/ Continue \/ Crash
      BY <3>1 DEF SendFromList, SendFromPage, Send, Continue, Crash, Redirect, Answer, Goto
    <3>2. CASE Authorize \/ Query \/ GetObject \/ Resolved \/ ConfirmDelete \/ ResolveForm
      BY <3>2 DEF Authorize, Query, GetObject, Resolved, ConfirmDelete, ResolveForm, Redirect, Page, Answer, Goto
    <3>3. CASE DeleteRow \/ UpdateRow \/ ReadBack
      BY <3>3 DEF DeleteRow, UpdateRow, ReadBack, Stop, Goto
    <3>4. CASE HostHandle \/ HostReturn \/ RecordAudit
      BY <3>4 DEF HostHandle, HostReturn, RecordAudit, Redirect, Page, Answer, Goto
    <3> QED BY <1>1, <1>4, <3>1, <3>2, <3>3, <3>4 DEF Next, Serve
  <2> QED BY <2>1 DEF Untouched
<1> QED BY <1>2, <1>3, <1>4

\* While no other session commits, a bulk edit changes no column nobody
\* ticked, of any record: the finding is the race and nothing else
\* (core/bulk_edit.go over gorm/writes.go).
THEOREM AloneOnlyTickedChange ==
  ASSUME MaxCommits = 0
  PROVE  Spec => OnlyTickedColumnsChange
<1> DEFINE Kept == UpdateRow => \A k \in Records : Live(k) => \A c \in Columns \ post.ticked : rows'[k][c] = rows[k][c]
<1>1. Init => Untouched
  BY DEF Init, Untouched
<1>2. IInv /\ Untouched /\ [Next]_vars => Untouched'
  BY UntouchedStep
<1>3. IInv /\ Untouched /\ [Next]_vars => [Kept]_vars
  <2> SUFFICES ASSUME IInv, Untouched, UpdateRow, NEW k \in Records, Live(k), NEW c \in Columns \ post.ticked
               PROVE  rows'[k][c] = rows[k][c]
    OBVIOUS
  <2>1. pc = "write" /\ post.action = "edit" /\ loaded = rows[At]
    BY DEF UpdateRow, Untouched
  <2>2. rows' = rows \/ rows' = [rows EXCEPT ![At] = Merged]
    BY DEF UpdateRow, Stop
  <2>3. Merged[c] = rows[At][c]
    BY <2>1 DEF Merged
  <2>4. rows \in [Records -> Row \cup {Unused, Gone}]
    BY DEF IInv, TypeOK
  <2> QED BY <2>2, <2>3, <2>4
<1> QED BY <1>1, <1>2, <1>3, Invariance, PTL DEF Spec, OnlyTickedColumnsChange
=============================================================================
