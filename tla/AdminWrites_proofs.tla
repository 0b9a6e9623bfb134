------------------------- MODULE AdminWrites_proofs -------------------------
(***************************************************************************)
(* Proofs about AdminWrites for any number of requests, records, children  *)
(* and values.                                                             *)
(***************************************************************************)
EXTENDS AdminWrites, TLAPS

Own(r) == IF IsInline(r) THEN Children ELSE Records

\* What is known of request r at each step: the facts the next steps rest
\* on, which other requests cannot disturb.
Control(r) ==
  /\ pc[r] # "idle" => job[r] \in Jobs
  /\ pc[r] \in {"authorize", "getparent", "getobject"} => target[r] = job[r].pk
  /\ pc[r] = "getparent" => IsInline(r)
  /\ pc[r] = "getobject" => target[r] \in Own(r) /\ job[r].kind \notin {"create", "inlinecreate"}
  /\ pc[r] \in {"insert", "updateload", "updatewrite"} => job[r].data # Invalid
  /\ pc[r] = "insert" => Op(job[r].kind) = "create"
  /\ pc[r] \in {"updateload", "updatewrite"} => Op(job[r].kind) = "update"
  /\ pc[r] \in {"preview", "deleteload", "remove"} => Op(job[r].kind) = "delete"
  /\ pc[r] = "readback" => Op(job[r].kind) # "delete"
  /\ pc[r] \in {"updateload", "updatewrite", "preview", "deleteload", "remove", "readback", "audit", "answer"}
       => target[r] \in Own(r) /\ rows[target[r]] # Unused
  /\ pc[r] = "readback"
       => target[r] \in Own(r) /\ (Made(r) \in changes \/ rows[target[r]] = Gone)
  /\ pc[r] \in {"audit", "answer"}
       => /\ ~IsInline(r) /\ target[r] \in Own(r)
          /\ IF Op(job[r].kind) = "delete" THEN rows[target[r]] = Gone ELSE Made(r) \in changes

Controlled == \A r \in Requests : Control(r)

LEMMA JobFacts ==
  ASSUME NEW j \in Jobs
  PROVE  /\ j.kind \in Kinds
         /\ j.kind \in InlineKinds => j.parent \in Records
         /\ j.kind \in {"inlineupdate", "inlinedelete"} => j.pk \in Children
         /\ j.kind \in {"edit", "saveas", "delete", "rowdelete"} => j.pk \in Records
         /\ j.pk \in Keys \cup {Nil}
         /\ (j.kind \notin InlineKinds /\ Op(j.kind) # "delete" /\ j.data # Invalid) => j.data \in Values
BY DEF Jobs, Kinds, InlineKinds, Op, Keys

LEMMA InitInv == Init => TypeOK /\ Controlled
BY WritesAssumption DEF Init, TypeOK, Controlled, Control, Keys, Rows, Steps, Results, NoJob, Entry

\* What a request writes is a row of its own kind, and never a key's state.
LEMMA Written ==
  ASSUME NEW r \in Requests, Control(r), pc[r] \in {"insert", "updatewrite"}
  PROVE  /\ Content(r) \in IF IsInline(r) THEN Records ELSE Values
         /\ Content(r) \notin {Unused, Gone}
<1>1. job[r] \in Jobs /\ job[r].data # Invalid /\ Op(job[r].kind) # "delete"
  BY DEF Control
<1> QED BY <1>1, JobFacts, WritesAssumption DEF Content, IsInline

LEMMA MadeEntry ==
  ASSUME NEW r \in Requests, target[r] \in Own(r)
  PROVE  Made(r) \in Entry
BY DEF Made, Entry, Own, Keys, Op

LEMMA RowWritten ==
  ASSUME TypeOK, NEW r \in Requests, Control(r), pc[r] \in {"insert", "updatewrite"},
         NEW k \in Own(r), rows' = [rows EXCEPT ![k] = Content(r)]
  PROVE  /\ rows' \in [Keys -> Rows]
         /\ \A x \in Records : rows'[x] \in Values \cup {Unused, Gone}
         /\ \A c \in Children : rows'[c] \in Records \cup {Unused, Gone}
<1>1. CASE IsInline(r)
  BY <1>1, Written, WritesAssumption DEF TypeOK, Own, Keys, Rows
<1>2. CASE ~IsInline(r)
  BY <1>2, Written, WritesAssumption DEF TypeOK, Own, Keys, Rows
<1> QED BY <1>1, <1>2

\* An answer that changes nothing else keeps every fact.
LEMMA RefuseInv ==
  ASSUME TypeOK, Controlled, NEW r \in Requests, pc[r] # "idle",
         NEW result \in Results, Refuse(r, result)
  PROVE  TypeOK' /\ Controlled'
BY DEF Refuse, Answer, Goto, Quiet, TypeOK, Controlled, Control, Steps, Own, IsInline, Made

\* The conjuncts that speak of one request are disturbed by its own steps
\* only: a write by another request neither revives a key nor unmakes a write.
LEMMA StepInv ==
  ASSUME TypeOK, Controlled, NEW r \in Requests, Step(r)
  PROVE  TypeOK' /\ Controlled'
<1> USE DEF Goto, Answer, Quiet, Refuse, Advance, FormError, Finish
<1>1. CASE Receive(r)
  BY <1>1, JobFacts DEF Receive, TypeOK, Controlled, Control, Steps, Own, IsInline, Made
<1>2. CASE Authorize(r)
  BY <1>2, JobFacts DEF Authorize, TypeOK, Controlled, Control, Steps, Results, Own, IsInline, Made, Op, Kinds, InlineKinds
<1>3. CASE GetParent(r)
  BY <1>3, JobFacts DEF GetParent, TypeOK, Controlled, Control, Steps, Results, Own, IsInline, Made, Op, Kinds, InlineKinds
<1>4. CASE ObjectMissing(r)
  BY <1>4, JobFacts DEF ObjectMissing, TypeOK, Controlled, Control, Steps, Results, Own, IsInline, Made
<1>5. CASE ObjectFound(r)
  <2>1. /\ pc[r] = "getobject" /\ job[r] \in Jobs /\ target[r] \in Own(r)
        /\ Live(target[r])
    BY <1>5 DEF ObjectFound, Controlled, Control
  <2>2. CASE Refuse(r, "forbidden") \/ Refuse(r, "invalid")
    BY <2>1, <2>2, RefuseInv DEF Results
  <2>3. CASE /\ job[r].data # Invalid \/ Op(job[r].kind) = "delete"
             /\ UNCHANGED status /\ Quiet
             /\ pc' = [pc EXCEPT ![r] = IF job[r].kind = "saveas" THEN "insert"
                        ELSE IF Op(job[r].kind) = "update" THEN "updateload" ELSE "preview"]
    <3>1. CASE job[r].kind = "saveas"
      BY <2>1, <2>3, <3>1 DEF TypeOK, Controlled, Control, Steps, Own, IsInline, Made, Op
    <3>2. CASE job[r].kind # "saveas" /\ Op(job[r].kind) = "update"
      BY <2>1, <2>3, <3>2 DEF TypeOK, Controlled, Control, Steps, Own, IsInline, Made, Live
    <3>3. CASE job[r].kind # "saveas" /\ Op(job[r].kind) # "update"
      <4>1. Op(job[r].kind) = "delete"
        BY <2>1, <3>3 DEF Op, Controlled, Control
      <4> QED BY <2>1, <2>3, <3>3, <4>1 DEF TypeOK, Controlled, Control, Steps, Own, IsInline, Made, Live
    <3> QED BY <3>1, <3>2, <3>3
  <2> QED BY <1>5, <2>2, <2>3 DEF ObjectFound
<1>6. CASE Preview(r)
  BY <1>6 DEF Preview, TypeOK, Controlled, Control, Steps, Results, Own, IsInline, Made
<1>7. CASE Insert(r)
  <2>1. CASE FormError(r)
    BY <1>7, <2>1 DEF Insert, TypeOK, Controlled, Control, Steps, Results, Own, IsInline, Made
  <2>2. CASE ~FormError(r)
    <3>1. PICK k \in Fresh(r) : /\ rows' = [rows EXCEPT ![k] = Content(r)]
                                /\ target' = [target EXCEPT ![r] = k]
                                /\ changes' = changes \cup {[req |-> r, op |-> "create", pk |-> k]}
      BY <1>7, <2>2 DEF Insert
    <3>2. /\ pc' = [pc EXCEPT ![r] = "readback"]
          /\ UNCHANGED <<job, status, flash, audit, rejected>>
      BY <1>7, <2>2 DEF Insert
    <3>3. k \in Own(r) /\ rows[k] = Unused
      BY <3>1 DEF Fresh, Own
    <3>4. Op(job[r].kind) = "create" /\ pc[r] = "insert"
      BY <1>7 DEF Insert, Controlled, Control
    <3>5. TypeOK'
      <4>1. Control(r) BY DEF Controlled
      <4>2. k \in Keys BY <3>3 DEF Own, Keys
      <4>3. /\ rows' \in [Keys -> Rows]
            /\ \A x \in Records : rows'[x] \in Values \cup {Unused, Gone}
            /\ \A c \in Children : rows'[c] \in Records \cup {Unused, Gone}
        BY <3>1, <3>3, <3>4, <4>1, RowWritten
      <4>4. changes' \in SUBSET Entry
        BY <3>1, <4>2 DEF TypeOK, Entry
      <4>5. target' \in [Requests -> Keys \cup {Nil}]
        BY <3>1, <4>2 DEF TypeOK
      <4> QED BY <3>2, <4>3, <4>4, <4>5 DEF TypeOK, Steps
    <3>6. Controlled'
      <4>1. ASSUME NEW s \in Requests, s # r PROVE Control(s)'
        <5>1. Control(s) BY DEF Controlled
        <5>2. pc'[s] = pc[s] /\ target'[s] = target[s] /\ job'[s] = job[s]
          BY <3>1, <3>2, <4>1 DEF TypeOK
        <5>3. \A x \in Keys : rows[x] # Unused => rows'[x] = rows[x]
          BY <3>1, <3>3 DEF TypeOK
        <5>4. \A x \in Own(s) : x \in Keys BY DEF Own, Keys
        <5> QED BY <3>1, <5>1, <5>2, <5>3, <5>4, WritesAssumption DEF Control, Own, IsInline, Made
      <4>2. Control(r)'
        <5>1. k \in Keys BY <3>3 DEF Own, Keys
        <5>2. Content(r) # Unused BY <3>4, Written DEF Controlled
        <5> QED BY <3>1, <3>2, <3>3, <3>4, <5>1, <5>2 DEF TypeOK, Controlled, Control, Own, IsInline, Made
      <4> QED BY <4>1, <4>2 DEF Controlled
    <3> QED BY <3>5, <3>6
  <2> QED BY <2>1, <2>2
<1>8. CASE UpdateLoad(r)
  <2>1. CASE FormError(r)
    BY <1>8, <2>1, RefuseInv DEF UpdateLoad, Results
  <2>2. CASE Live(target[r]) /\ Advance(r, "updatewrite")
    BY <1>8, <2>2 DEF UpdateLoad, TypeOK, Controlled, Control, Steps, Own, IsInline, Made, Live
  <2> QED BY <1>8, <2>1, <2>2 DEF UpdateLoad
<1>9. CASE UpdateWrite(r)
  <2>1. target[r] \in Own(r) /\ rows[target[r]] # Unused /\ pc[r] = "updatewrite" /\ Op(job[r].kind) = "update"
    BY <1>9 DEF UpdateWrite, Controlled, Control
  <2>2. CASE rows' = rows
    <3>1. CASE Refuse(r, IF IsInline(r) THEN "error" ELSE "invalid")
      BY <2>1, <3>1, RefuseInv DEF Results
    <3>2. CASE rows[target[r]] = Gone /\ pc' = [pc EXCEPT ![r] = "readback"] /\ UNCHANGED status /\ Quiet
      BY <2>1, <3>2 DEF TypeOK, Controlled, Control, Steps, Own, IsInline, Made
    <3>3. CASE /\ rows' = [rows EXCEPT ![target[r]] = Content(r)]
               /\ changes' = changes \cup {Made(r)}
               /\ pc' = [pc EXCEPT ![r] = "readback"]
               /\ UNCHANGED <<job, target, status, flash, audit, rejected>>
      <4>1. Made(r) \in Entry BY <2>1, MadeEntry
      <4> QED BY <2>1, <2>2, <3>3, <4>1 DEF TypeOK, Controlled, Control, Steps, Own, IsInline, Made
    <3> QED BY <1>9, <2>1, <3>1, <3>2, <3>3 DEF UpdateWrite, Live
  <2>3. CASE /\ rows' = [rows EXCEPT ![target[r]] = Content(r)]
             /\ changes' = changes \cup {Made(r)}
             /\ pc' = [pc EXCEPT ![r] = "readback"]
             /\ Live(target[r])
             /\ UNCHANGED <<job, target, status, flash, audit, rejected>>
    <3>1. TypeOK'
      <4>1. Control(r) BY DEF Controlled
      <4> QED BY <2>1, <2>3, <4>1, RowWritten, MadeEntry DEF TypeOK, Steps
    <3>2. Controlled'
      BY <2>1, <2>3, Written DEF TypeOK, Controlled, Control, Own, IsInline, Made, Live
    <3> QED BY <3>1, <3>2
  <2> QED BY <1>9, <2>2, <2>3 DEF UpdateWrite
<1>10. CASE ReadBack(r)
  BY <1>10 DEF ReadBack, TypeOK, Controlled, Control, Steps, Results, Own, IsInline, Made, Live
<1>11. CASE DeleteLoad(r)
  BY <1>11 DEF DeleteLoad, TypeOK, Controlled, Control, Steps, Results, Own, IsInline, Made, Live
<1>12. CASE Remove(r)
  <2>1. pc[r] = "remove" /\ target[r] \in Own(r) /\ Op(job[r].kind) = "delete"
    BY <1>12 DEF Remove, Controlled, Control
  <2>2. CASE RefuseDelete(r)
    BY <2>1, <2>2 DEF RefuseDelete, TypeOK, Controlled, Control, Steps, Results, Own, IsInline, Made
  <2>3. CASE rows' = [rows EXCEPT ![target[r]] = Gone]
    <3>1. TypeOK'
      BY <1>12, <2>1, <2>3, MadeEntry DEF Remove, RefuseDelete, TypeOK, Steps, Results, Own, Keys, Rows
    <3>2. Controlled'
      BY <1>12, <2>1, <2>3, WritesAssumption DEF Remove, RefuseDelete, TypeOK, Controlled, Control, Own, IsInline, Made
    <3> QED BY <3>1, <3>2
  <2> QED BY <1>12, <2>2, <2>3 DEF Remove
<1>13. CASE RecordAudit(r)
  <2>1. Made(r) \in Entry
    BY <1>13, MadeEntry DEF RecordAudit, Controlled, Control
  <2>2. TypeOK'
    <3>1. audit' \in Seq(Entry)
      BY <1>13, <2>1 DEF RecordAudit, TypeOK
    <3> QED BY <1>13, <3>1 DEF RecordAudit, TypeOK, Steps
  <2>3. Controlled'
    BY <1>13 DEF RecordAudit, TypeOK, Controlled, Control, Own, IsInline, Made
  <2> QED BY <2>2, <2>3
<1>14. CASE Fail(r)
  BY <1>14 DEF Fail, TypeOK, Controlled, Control, Steps, Results, Own, IsInline, Made
<1>15. CASE Respond(r)
  BY <1>15 DEF Respond, TypeOK, Controlled, Control, Steps, Results, Own, IsInline, Made
<1> QED BY <1>1, <1>2, <1>3, <1>4, <1>5, <1>6, <1>7, <1>8, <1>9, <1>10, <1>11, <1>12, <1>13, <1>14, <1>15 DEF Step

LEMMA CrashInv ==
  ASSUME TypeOK, Controlled, Crash
  PROVE  TypeOK' /\ Controlled'
BY DEF Crash, Quiet, Running, TypeOK, Controlled, Control, Steps, Results, Own, IsInline, Made

LEMMA StutterInv ==
  ASSUME TypeOK, Controlled, UNCHANGED vars
  PROVE  TypeOK' /\ Controlled'
BY DEF vars, TypeOK, Controlled, Control, Own, IsInline, Made

\* Every variable keeps its type, and every request its facts.
LEMMA Invariance == Spec => [](TypeOK /\ Controlled)
<1>1. TypeOK /\ Controlled /\ [Next]_vars => (TypeOK /\ Controlled)'
  BY StepInv, CrashInv, StutterInv DEF Next
<1> QED BY InitInv, <1>1, PTL DEF Spec

\* Type correctness: no request, and no number of them, stores a row of the
\* wrong kind or a key it was not given.
THEOREM TypeCorrect == Spec => []TypeOK
BY Invariance, PTL
-----------------------------------------------------------------------------
\* A deleted row is gone for good at every step.
LEMMA GoneStays ==
  ASSUME TypeOK, Controlled, [Next]_vars, NEW k \in Keys, rows[k] = Gone
  PROVE  rows'[k] = Gone
<1> USE DEF Goto, Answer, Quiet, Refuse, Advance, FormError, Finish, RefuseDelete
<1>1. CASE Crash \/ UNCHANGED vars
  BY <1>1 DEF Crash, vars
<1>2. ASSUME NEW r \in Requests, Step(r) PROVE rows'[k] = Gone
  <2>1. CASE Insert(r)
    BY <2>1, WritesAssumption DEF Insert, Fresh, TypeOK
  <2>2. CASE UpdateWrite(r)
    BY <2>2 DEF UpdateWrite, Live, TypeOK
  <2>3. CASE Remove(r)
    BY <2>3 DEF Remove, TypeOK
  <2>4. CASE rows' = rows
    BY <2>4
  <2>5. Insert(r) \/ UpdateWrite(r) \/ Remove(r) \/ rows' = rows
    BY <1>2 DEF Step, Receive, Authorize, GetParent, ObjectMissing, ObjectFound, Preview,
         UpdateLoad, ReadBack, DeleteLoad, RecordAudit, Respond, Fail
  <2> QED BY <2>1, <2>2, <2>3, <2>4, <2>5
<1> QED BY <1>1, <1>2 DEF Next

\* No interleaving of an update, a create and a delete brings a deleted
\* record back.
THEOREM DeletionIsFinal == Spec => NoResurrection
<1>1. TypeOK /\ Controlled /\ [Next]_vars => [\A k \in Keys : rows[k] = Gone => rows'[k] = Gone]_vars
  BY GoneStays
<1> QED BY <1>1, Invariance, PTL DEF Spec, NoResurrection
-----------------------------------------------------------------------------
LEMMA ParentsStep ==
  ASSUME TypeOK, Controlled, ChildrenHaveParents, [Next]_vars
  PROVE  ChildrenHaveParents'
<1> USE DEF Goto, Answer, Quiet, Refuse, Advance, FormError, Finish, RefuseDelete
<1>1. CASE rows' = rows
  BY <1>1 DEF ChildrenHaveParents, Live
<1>2. ASSUME NEW r \in Requests, NEW k \in Own(r), rows[k] # Gone, rows' = [rows EXCEPT ![k] = Content(r)],
             Control(r), pc[r] \in {"insert", "updatewrite"}, IsInline(r) => Live(Content(r))
      PROVE  ChildrenHaveParents'
  <2>1. k \in Keys /\ \A x \in Keys : rows'[x] = IF x = k THEN Content(r) ELSE rows[x]
    BY <1>2 DEF TypeOK, Own, Keys
  <2>2. Content(r) \notin {Unused, Gone}
    BY <1>2, Written
  <2>3. \A x \in Keys : Live(x) => Live(x)'
    BY <2>1, <2>2 DEF Live
  <2> SUFFICES ASSUME NEW c \in Children, Live(c)' PROVE Live(rows[c])'
    BY DEF ChildrenHaveParents
  <2>4. CASE c # k
    <3>1. rows'[c] = rows[c] /\ Live(c)
      BY <2>1, <2>4 DEF Keys, Live
    <3>2. rows[c] \in Keys /\ Live(rows[c])
      BY <3>1 DEF ChildrenHaveParents, TypeOK, Keys, Live
    <3> QED BY <2>3, <3>1, <3>2
  <2>5. CASE c = k
    <3>1. IsInline(r)
      BY <1>2, <2>5, WritesAssumption DEF Own
    <3>2. rows'[c] = Content(r) /\ Content(r) \in Keys /\ Live(Content(r))
      BY <1>2, <2>1, <2>5, <3>1, Written DEF Keys
    <3> QED BY <2>3, <3>2
  <2> QED BY <2>4, <2>5
<1>3. ASSUME NEW r \in Requests, Remove(r), rows' # rows
      PROVE  ChildrenHaveParents'
  <2>1. /\ rows' = [rows EXCEPT ![target[r]] = Gone] /\ ~Referenced(target[r]) /\ target[r] \in Keys
    BY <1>3 DEF Remove, Controlled, Control, Own, Keys
  <2>2. \A x \in Keys : rows'[x] = IF x = target[r] THEN Gone ELSE rows[x]
    BY <2>1 DEF TypeOK
  <2> SUFFICES ASSUME NEW c \in Children, Live(c)' PROVE Live(rows[c])'
    BY DEF ChildrenHaveParents
  <2>3. rows'[c] = rows[c] /\ Live(c)
    BY <2>2 DEF Keys, Live
  <2>4. rows[c] \in Keys /\ Live(rows[c]) /\ rows[c] # target[r]
    BY <2>1, <2>3 DEF ChildrenHaveParents, TypeOK, Keys, Live, Referenced
  <2> QED BY <2>2, <2>3, <2>4 DEF Live
<1>4. ASSUME NEW r \in Requests, Insert(r), rows' # rows PROVE ChildrenHaveParents'
  <2>1. PICK k \in Fresh(r) : rows' = [rows EXCEPT ![k] = Content(r)]
    BY <1>4 DEF Insert
  <2>2. k \in Own(r) /\ rows[k] # Gone
    BY <2>1, WritesAssumption DEF Fresh, Own
  <2>3. Control(r) /\ pc[r] = "insert" /\ (IsInline(r) => Live(Content(r)))
    BY <1>4 DEF Insert, Controlled, Unacceptable
  <2> QED BY <1>2, <2>1, <2>2, <2>3
<1>5. ASSUME NEW r \in Requests, UpdateWrite(r), rows' # rows PROVE ChildrenHaveParents'
  <2>1. rows' = [rows EXCEPT ![target[r]] = Content(r)] /\ Live(target[r]) /\ ~Unacceptable(r, target[r])
    BY <1>5 DEF UpdateWrite
  <2>2. Control(r) /\ pc[r] = "updatewrite" /\ target[r] \in Own(r)
    BY <1>5 DEF UpdateWrite, Controlled, Control
  <2> QED BY <1>2, <2>1, <2>2 DEF Unacceptable, Live
<1>6. \/ rows' = rows
      \/ \E r \in Requests : (Insert(r) \/ UpdateWrite(r) \/ Remove(r)) /\ rows' # rows
  BY DEF Next, Crash, vars, Step, Receive, Authorize, GetParent, ObjectMissing, ObjectFound,
         Preview, Insert, UpdateLoad, UpdateWrite, ReadBack, DeleteLoad, Remove, RecordAudit, Respond, Fail
<1> QED BY <1>1, <1>3, <1>4, <1>5, <1>6

\* Whatever parents are deleted while inline requests are under way, a child
\* that is there has a parent that is.
THEOREM NoOrphans == Spec => []ChildrenHaveParents
<1>1. Init => ChildrenHaveParents
  <2> SUFFICES ASSUME Init, NEW c \in Children, Live(c) PROVE Live(rows[c])
    BY DEF ChildrenHaveParents
  <2>1. rows[c] \in Records /\ rows[rows[c]] # Unused
    BY DEF Init, Live
  <2>2. rows[rows[c]] # Gone
    BY <2>1, WritesAssumption DEF Init
  <2> QED BY <2>1, <2>2 DEF Live
<1>2. TypeOK /\ Controlled /\ ChildrenHaveParents /\ [Next]_vars => ChildrenHaveParents'
  BY ParentsStep
<1> QED BY <1>1, <1>2, Invariance, PTL DEF Spec
-----------------------------------------------------------------------------
\* The log gains an entry only when a request that has written, or whose
\* record is gone, records it.
LEMMA LogStep ==
  ASSUME TypeOK, Controlled, EntryFollowsWrite, [Next]_vars
  PROVE  EntryFollowsWrite'
<1> USE DEF Goto, Answer, Quiet, Refuse, Advance, FormError, Finish, RefuseDelete
<1>1. changes \subseteq changes'
  BY DEF Next, Crash, vars, Step, Receive, Authorize, GetParent, ObjectMissing, ObjectFound,
         Preview, Insert, UpdateLoad, UpdateWrite, ReadBack, DeleteLoad, Remove, RecordAudit, Respond, Fail
<1>2. CASE audit' = audit
  <2>1. \A i \in DOMAIN audit : audit[i] \in Entry
    BY DEF TypeOK
  <2>2. \A i \in DOMAIN audit : audit[i].pk \in Keys
    BY <2>1 DEF Entry
  <2>3. \A k \in Keys : rows[k] = Gone => rows'[k] = Gone
    BY GoneStays
  <2> QED BY <1>1, <1>2, <2>2, <2>3 DEF EntryFollowsWrite
<1>3. CASE audit' # audit
  <2>1. PICK r \in Requests : RecordAudit(r)
    BY <1>3 DEF Next, Crash, vars, Step, Receive, Authorize, GetParent, ObjectMissing, ObjectFound,
         Preview, Insert, UpdateLoad, UpdateWrite, ReadBack, DeleteLoad, Remove, Respond, Fail
  <2>2. audit' = Append(audit, Made(r)) /\ UNCHANGED <<rows, changes>>
    BY <1>3, <2>1 DEF RecordAudit
  <2>3. IF Made(r).op = "delete" THEN rows[Made(r).pk] = Gone ELSE Made(r) \in changes
    BY <2>1 DEF RecordAudit, Controlled, Control, Made
  <2>4. audit \in Seq(Entry) BY DEF TypeOK
  <2> QED BY <2>2, <2>3, <2>4 DEF EntryFollowsWrite
<1> QED BY <1>2, <1>3

\* The audit log never runs ahead of the store, however requests interleave,
\* fail or are cut off by a crash.
THEOREM LogFollowsStore == Spec => []EntryFollowsWrite
<1>1. Init => EntryFollowsWrite
  BY DEF Init, EntryFollowsWrite
<1>2. TypeOK /\ Controlled /\ EntryFollowsWrite /\ [Next]_vars => EntryFollowsWrite'
  BY LogStep
<1> QED BY <1>1, <1>2, Invariance, PTL DEF Spec
-----------------------------------------------------------------------------
\* What the store, the log and the response owe one another at each moment
\* of a request: the strengthening under which SuccessIsAudited is inductive.
Entered(r) == EntriesOf(r) # {} \/ r \in rejected

Account(r) ==
  /\ status[r] # "none" => pc[r] = "done"
  /\ Changed(r) => pc[r] \in {"readback", "audit", "answer"} \/ status[r] \in {"success", "error", "lost"}
  /\ flash[r] = "success" => status[r] = "success"
  /\ pc[r] = "answer" => Entered(r)

Audited(r) ==
  /\ status[r] = "success" /\ ~IsInline(r) => Entered(r)
  /\ Entered(r) => pc[r] = "answer" \/ status[r] \in {"success", "lost"}
  /\ r \in rejected => EntriesOf(r) = {}
  /\ \A i \in EntriesOf(r) : EntriesOf(r) = {i} /\ audit[i] = Made(r)

Accounted == \A r \in Requests : Account(r) /\ Audited(r)

LEMMA AuditedIsAll == SuccessIsAudited <=> \A r \in Requests : Audited(r)
BY DEF SuccessIsAudited, Audited, Entered

LEMMA AccountInit == Init => Accounted
<1> SUFFICES ASSUME Init, NEW r \in Requests PROVE Account(r) /\ Audited(r)
  BY DEF Accounted
<1>1. EntriesOf(r) = {} /\ r \notin rejected /\ pc[r] = "idle" /\ status[r] = "none" /\ flash[r] = "none"
  BY DEF Init, EntriesOf
<1>2. ~Changed(r)
  BY DEF Init, Changed
<1> QED BY <1>1, <1>2 DEF Account, Audited, Entered

\* Steps other than recordAudit leave the log alone, so they only have to
\* keep each request's own account.
LEMMA AccountQuietStep ==
  ASSUME TypeOK, Controlled, Accounted, NEW r \in Requests, Step(r), ~RecordAudit(r), ~Respond(r)
  PROVE  Accounted'
<1> USE DEF Goto, Answer, Quiet, Refuse, Advance, FormError, Finish, RefuseDelete
<1>1. /\ UNCHANGED <<audit, rejected>>
      /\ pc[r] \notin {"done", "audit", "answer"}
      /\ \A s \in Requests \ {r} : /\ pc'[s] = pc[s] /\ status'[s] = status[s] /\ flash'[s] = flash[s]
                                   /\ job'[s] = job[s] /\ target'[s] = target[s]
      /\ \A s \in Requests \ {r} : Changed(s)' = Changed(s)
  BY DEF TypeOK, Step, Receive, Authorize, GetParent, ObjectMissing, ObjectFound,
         Preview, Insert, UpdateLoad, UpdateWrite, ReadBack, DeleteLoad, Remove, Fail, Changed, Made
<1>2. \A s \in Requests : EntriesOf(s)' = EntriesOf(s) /\ Entered(s)' = Entered(s)
  BY <1>1 DEF EntriesOf, Entered
<1>3. ~Entered(r) /\ EntriesOf(r) = {} /\ status[r] = "none" /\ flash[r] # "success"
  BY <1>1 DEF Accounted, Account, Audited, Entered
<1>4. /\ flash'[r] # "success"
      /\ status'[r] # "none" => pc'[r] = "done"
      /\ status'[r] = "success" => IsInline(r)'
      /\ pc'[r] # "answer"
  BY <1>1, <1>3 DEF TypeOK, Step, Receive, Authorize, GetParent, ObjectMissing, ObjectFound,
         Preview, Insert, UpdateLoad, UpdateWrite, ReadBack, DeleteLoad, Remove, Fail, IsInline
<1>5. Changed(r)' => pc'[r] \in {"readback", "audit", "answer"} \/ status'[r] \in {"success", "error", "lost"}
  BY <1>1, <1>3 DEF Accounted, Account, TypeOK, Step, Receive, Authorize, GetParent, ObjectMissing, ObjectFound,
         Preview, Insert, UpdateLoad, UpdateWrite, ReadBack, DeleteLoad, Remove, Fail, Changed, IsInline
<1>6. \A s \in Requests : Account(s)'
  BY <1>1, <1>2, <1>4, <1>5 DEF Accounted, Account
<1>7. \A s \in Requests : Audited(s)'
  BY <1>1, <1>2, <1>3, <1>4 DEF Accounted, Audited, IsInline, Made, Entered
<1> QED BY <1>6, <1>7 DEF Accounted

LEMMA AccountAudit ==
  ASSUME TypeOK, Controlled, Accounted, NEW r \in Requests, RecordAudit(r)
  PROVE  Accounted'
<1>1. /\ pc[r] = "audit" /\ pc' = [pc EXCEPT ![r] = "answer"]
      /\ UNCHANGED <<rows, job, target, status, flash, changes>>
  BY DEF RecordAudit, Goto
<1>2. EntriesOf(r) = {} /\ r \notin rejected /\ status[r] = "none"
  BY <1>1 DEF Accounted, Account, Audited, Entered
<1>3. audit \in Seq(Entry)
  BY DEF TypeOK
<1>4. \A s \in Requests : Made(s)' = Made(s) /\ IsInline(s)' = IsInline(s) /\ Changed(s)' = Changed(s)
  BY <1>1 DEF Made, IsInline, Changed
<1>5. CASE audit' = Append(audit, Made(r)) /\ rejected' = rejected
  <2>1. EntriesOf(r)' = {Len(audit) + 1} /\ audit'[Len(audit) + 1] = Made(r)
    BY <1>2, <1>3, <1>5 DEF EntriesOf, Made
  <2>2. \A s \in Requests \ {r} : EntriesOf(s)' = EntriesOf(s) /\ Entered(s)' = Entered(s)
    BY <1>3, <1>5 DEF EntriesOf, Entered, Made
  <2>3. \A s \in Requests : \A i \in EntriesOf(s) : audit'[i] = audit[i]
    BY <1>3, <1>5 DEF EntriesOf
  <2>4. Account(r)' /\ Audited(r)'
    <3>1. pc'[r] = "answer" /\ status'[r] = "none" /\ flash'[r] = flash[r] /\ r \notin rejected'
      BY <1>1, <1>2, <1>5 DEF TypeOK
    <3>2. Entered(r)' /\ flash[r] # "success" /\ Made(r)' = Made(r)
      BY <1>2, <1>4, <2>1 DEF Entered, Accounted, Account
    <3> QED BY <2>1, <3>1, <3>2, <1>1, <1>2 DEF Account, Audited
  <2>5. ASSUME NEW s \in Requests, s # r PROVE Account(s)' /\ Audited(s)'
    BY <1>1, <1>4, <1>5, <2>2, <2>3, <2>5 DEF Accounted, Account, Audited, TypeOK
  <2> QED BY <2>4, <2>5 DEF Accounted
<1>6. CASE audit' = audit /\ rejected' = rejected \cup {r}
  <2>1. \A s \in Requests : EntriesOf(s)' = EntriesOf(s)
    BY <1>6 DEF EntriesOf
  <2>2. \A s \in Requests \ {r} : Entered(s)' = Entered(s)
    BY <1>6, <2>1 DEF Entered
  <2>3. Account(r)' /\ Audited(r)'
    <3>1. pc'[r] = "answer" /\ status'[r] = "none" /\ flash'[r] = flash[r]
      BY <1>1, <1>2 DEF TypeOK
    <3>2. Entered(r)' /\ flash[r] # "success" /\ EntriesOf(r)' = {}
      BY <1>2, <1>6, <2>1 DEF Entered, Accounted, Account
    <3> QED BY <3>1, <3>2 DEF Account, Audited
  <2>4. ASSUME NEW s \in Requests, s # r PROVE Account(s)' /\ Audited(s)'
    BY <1>1, <1>4, <1>6, <2>1, <2>2, <2>4 DEF Accounted, Account, Audited, TypeOK
  <2> QED BY <2>3, <2>4 DEF Accounted
<1> QED BY <1>5, <1>6 DEF RecordAudit

LEMMA AccountRespond ==
  ASSUME TypeOK, Accounted, NEW r \in Requests, Respond(r)
  PROVE  Accounted'
<1>1. /\ pc[r] = "answer" /\ Entered(r)
      /\ pc' = [pc EXCEPT ![r] = "done"] /\ status' = [status EXCEPT ![r] = "success"]
      /\ UNCHANGED <<rows, job, target, audit, rejected, changes>>
      /\ \A s \in Requests \ {r} : flash'[s] = flash[s]
  BY DEF Respond, Answer, Goto, Accounted, Account, TypeOK
<1>2. \A s \in Requests : /\ EntriesOf(s)' = EntriesOf(s) /\ Entered(s)' = Entered(s)
                          /\ Made(s)' = Made(s) /\ IsInline(s)' = IsInline(s) /\ Changed(s)' = Changed(s)
  BY <1>1 DEF EntriesOf, Entered, Made, IsInline, Changed
<1> QED BY <1>1, <1>2 DEF Accounted, Account, Audited, TypeOK

LEMMA AccountCrash ==
  ASSUME TypeOK, Accounted, Crash
  PROVE  Accounted'
<1>1. \A s \in Requests : /\ EntriesOf(s)' = EntriesOf(s) /\ Entered(s)' = Entered(s)
                          /\ Made(s)' = Made(s) /\ IsInline(s)' = IsInline(s) /\ Changed(s)' = Changed(s)
  BY DEF Crash, Quiet, EntriesOf, Entered, Made, IsInline, Changed
<1> QED BY <1>1 DEF Crash, Quiet, Accounted, Account, Audited, Running, TypeOK

LEMMA AccountStutter ==
  ASSUME Accounted, UNCHANGED vars
  PROVE  Accounted'
<1>1. \A s \in Requests : /\ EntriesOf(s)' = EntriesOf(s) /\ Entered(s)' = Entered(s)
                          /\ Made(s)' = Made(s) /\ IsInline(s)' = IsInline(s) /\ Changed(s)' = Changed(s)
  BY DEF vars, EntriesOf, Entered, Made, IsInline, Changed
<1> QED BY <1>1 DEF vars, Accounted, Account, Audited

LEMMA AccountInv == Spec => []Accounted
<1>1. TypeOK /\ Controlled /\ Accounted /\ [Next]_vars => Accounted'
  BY AccountQuietStep, AccountAudit, AccountRespond, AccountCrash, AccountStutter DEF Next
<1> QED BY AccountInit, <1>1, Invariance, PTL DEF Spec

\* A success answer of a page route has exactly one entry, of its own write,
\* unless the logger refused it; and who has one is answered so, or was cut
\* off by a crash.
THEOREM SuccessAudited == Spec => []SuccessIsAudited
<1>1. Accounted => SuccessIsAudited
  BY AuditedIsAll DEF Accounted
<1> QED BY <1>1, AccountInv, PTL

\* A refused request leaves no trace in the store or in the log.
THEOREM RefusalsAreHarmless == Spec => []RefusalHasNoEffect
<1>1. TypeOK /\ Accounted => RefusalHasNoEffect
  BY DEF TypeOK, Accounted, Account, Audited, Entered, RefusalHasNoEffect
<1> QED BY <1>1, Invariance, AccountInv, PTL
-----------------------------------------------------------------------------
FlashAccount == \A r \in Requests : flash[r] = "success" => target[r] \in Keys

LEMMA FlashStep ==
  ASSUME TypeOK, Controlled, Accounted, FlashAccount, FlashTellsTruth, [Next]_vars
  PROVE  FlashAccount' /\ FlashTellsTruth'
<1> USE DEF Goto, Answer, Quiet, Refuse, Advance, FormError, Finish, RefuseDelete
<1> SUFFICES ASSUME NEW s \in Requests, flash'[s] = "success"
             PROVE  /\ target'[s] \in Keys
                    /\ (Made(s) \in changes \/ (job[s].kind = "delete" /\ rows[target[s]] = Gone))'
  BY DEF FlashTellsTruth, FlashAccount
<1>1. changes \subseteq changes'
  BY DEF Next, Crash, vars, Step, Receive, Authorize, GetParent, ObjectMissing, ObjectFound,
         Preview, Insert, UpdateLoad, UpdateWrite, ReadBack, DeleteLoad, Remove, RecordAudit, Respond, Fail
<1>2. CASE flash[s] = "success"
  \* The request is done: its own account is closed.
  <2>1. pc[s] = "done"
    BY <1>2 DEF Accounted, Account
  <2>2. job'[s] = job[s] /\ target'[s] = target[s]
    BY <2>1 DEF Next, Crash, vars, Step, Receive, Authorize, GetParent, ObjectMissing, ObjectFound,
         Preview, Insert, UpdateLoad, UpdateWrite, ReadBack, DeleteLoad, Remove, RecordAudit, Respond, Fail, TypeOK
  <2>3. Made(s)' = Made(s)
    BY <2>2 DEF Made
  <2>0. target[s] \in Keys
    BY <1>2 DEF FlashAccount
  <2>4. CASE Made(s) \in changes
    BY <1>1, <2>0, <2>2, <2>3, <2>4
  <2>5. CASE job[s].kind = "delete" /\ rows[target[s]] = Gone
    BY <2>0, <2>2, <2>5, GoneStays
  <2> QED BY <1>2, <2>4, <2>5 DEF FlashTellsTruth
<1>3. CASE flash[s] # "success"
  <2>1. Respond(s) /\ flash' # flash
    BY <1>3 DEF Next, Crash, vars, Step, Receive, Authorize, GetParent, ObjectMissing, ObjectFound,
         Preview, Insert, UpdateLoad, UpdateWrite, ReadBack, DeleteLoad, Remove, RecordAudit, Respond, Fail, TypeOK
  <2>2. /\ ~IsInline(s) /\ job[s].kind # "rowdelete" /\ job[s] \in Jobs /\ target[s] \in Own(s)
        /\ IF Op(job[s].kind) = "delete" THEN rows[target[s]] = Gone ELSE Made(s) \in changes
    BY <2>1 DEF Respond, Controlled, Control, TypeOK
  <2>3. job[s].kind = "delete" \/ Op(job[s].kind) # "delete"
    BY <2>2, JobFacts DEF Op, IsInline, Kinds
  <2>4. UNCHANGED <<rows, job, target, changes>>
    BY <2>1 DEF Respond
  <2>5. Made(s)' = Made(s)
    BY <2>4 DEF Made
  <2>6. target'[s] \in Keys
    BY <2>2, <2>4 DEF Own, Keys
  <2> QED BY <2>2, <2>3, <2>4, <2>5, <2>6
<1> QED BY <1>2, <1>3

\* A message of success is never about a change that did not happen.
THEOREM FlashIsTrue == Spec => []FlashTellsTruth
<1>1. Init => FlashAccount /\ FlashTellsTruth
  BY DEF Init, FlashAccount, FlashTellsTruth
<1>2. TypeOK /\ Controlled /\ Accounted /\ FlashAccount /\ FlashTellsTruth /\ [Next]_vars
        => (FlashAccount /\ FlashTellsTruth)'
  BY FlashStep
<1> QED BY <1>1, <1>2, Invariance, AccountInv, PTL DEF Spec
-----------------------------------------------------------------------------
\* The life of the keys and the log start and move as AuditTrail allows.
LEMMA TrailInit == Init => Trail!Init
<1> SUFFICES ASSUME Init PROVE Trail!Init
  OBVIOUS
<1>1. \A k \in Keys : rows[k] # Gone
  BY WritesAssumption DEF Init, Keys
<1> QED BY <1>1 DEF Init, Trail!Init, Life

LEMMA TrailWrite ==
  ASSUME TypeOK, NEW k \in Keys, NEW v \in Rows, rows' = [rows EXCEPT ![k] = v], UNCHANGED audit,
         \/ rows[k] = Unused /\ v \notin {Unused, Gone}
         \/ Live(k) /\ v # Unused
         \/ rows[k] = Gone /\ v = Gone
  PROVE  [Trail!Next]_<<Life, audit>>
<1>1. \A x \in Keys : rows'[x] = IF x = k THEN v ELSE rows[x]
  BY DEF TypeOK
<1>2. Life' = [x \in Keys |-> IF x # k THEN Life[x] ELSE IF v = Gone THEN "gone" ELSE "live"]
  <2>1. v # Unused
    BY WritesAssumption
  <2>2. \A x \in Keys : Life[x] = IF rows[x] = Unused THEN "unused"
                                  ELSE IF rows[x] = Gone THEN "gone" ELSE "live"
    BY DEF Life
  <2>3. Life' = [x \in Keys |-> IF rows'[x] = Unused THEN "unused"
                                 ELSE IF rows'[x] = Gone THEN "gone" ELSE "live"]
    BY DEF Life
  <2> QED BY <1>1, <2>1, <2>2, <2>3
<1>3. Life = [x \in Keys |-> Life[x]]
  BY DEF Life
<1>4. CASE rows[k] = Unused
  <2>1. Life[k] = "unused" /\ v # Gone
    BY <1>4, WritesAssumption DEF Life, Live
  <2>2. Life' = [Life EXCEPT ![k] = "live"]
    BY <1>2, <1>3, <2>1
  <2> QED BY <2>1, <2>2 DEF Trail!Next, Trail!Born
<1>5. CASE Live(k) /\ v = Gone
  <2>1. Life[k] = "live"
    BY <1>5 DEF Life, Live
  <2>2. Life' = [Life EXCEPT ![k] = "gone"]
    BY <1>2, <1>3, <1>5
  <2> QED BY <2>1, <2>2 DEF Trail!Next, Trail!Removed
<1>6. CASE ~(rows[k] = Unused) /\ ~(Live(k) /\ v = Gone)
  <2>1. Life[k] = IF v = Gone THEN "gone" ELSE "live"
    BY <1>6, WritesAssumption DEF Life, Live
  <2>2. Life' = Life
    BY <1>2, <1>3, <2>1
  <2> QED BY <2>2
<1> QED BY <1>4, <1>5, <1>6

LEMMA TrailStep ==
  ASSUME TypeOK, Controlled, [Next]_vars
  PROVE  [Trail!Next]_<<Life, audit>>
<1> USE DEF Goto, Answer, Quiet, Refuse, Advance, FormError, Finish, RefuseDelete
<1>1. CASE UNCHANGED <<rows, audit>>
  BY <1>1 DEF Life
<1>2. ASSUME NEW r \in Requests, Insert(r), rows' # rows
      PROVE  [Trail!Next]_<<Life, audit>>
  <2>1. PICK k \in Fresh(r) : rows' = [rows EXCEPT ![k] = Content(r)]
    BY <1>2 DEF Insert
  <2>2. k \in Keys /\ rows[k] = Unused /\ UNCHANGED audit
    BY <1>2, <2>1 DEF Insert, Fresh, Keys
  <2>3. Content(r) \in Rows /\ Content(r) \notin {Unused, Gone}
    BY <1>2, Written DEF Insert, Controlled, Rows
  <2> QED BY <2>1, <2>2, <2>3, TrailWrite
<1>3. ASSUME NEW r \in Requests, UpdateWrite(r), rows' # rows
      PROVE  [Trail!Next]_<<Life, audit>>
  <2>1. /\ rows' = [rows EXCEPT ![target[r]] = Content(r)] /\ Live(target[r])
        /\ target[r] \in Keys /\ UNCHANGED audit
    BY <1>3 DEF UpdateWrite, Controlled, Control, Own, Keys
  <2>2. Content(r) \in Rows /\ Content(r) \notin {Unused, Gone}
    BY <1>3, Written DEF UpdateWrite, Controlled, Rows
  <2> QED BY <2>1, <2>2, TrailWrite
<1>4. ASSUME NEW r \in Requests, Remove(r), rows' # rows
      PROVE  [Trail!Next]_<<Life, audit>>
  <2>1. /\ rows' = [rows EXCEPT ![target[r]] = Gone] /\ UNCHANGED audit
        /\ target[r] \in Keys /\ rows[target[r]] # Unused
    BY <1>4 DEF Remove, Controlled, Control, Own, Keys
  <2> QED BY <2>1, TrailWrite, WritesAssumption DEF Live, Rows
<1>5. ASSUME NEW r \in Requests, RecordAudit(r), audit' # audit
      PROVE  Trail!Next
  <2>1. audit' = Append(audit, Made(r)) /\ UNCHANGED rows
    BY <1>5 DEF RecordAudit
  <2>2. /\ target[r] \in Own(r) /\ rows[target[r]] # Unused
        /\ Op(job[r].kind) = "delete" => rows[target[r]] = Gone
    BY <1>5 DEF RecordAudit, Controlled, Control
  <2>3. Made(r) \in Entry /\ Made(r).pk = target[r] /\ target[r] \in Keys
    BY <2>2, MadeEntry DEF Made, Own, Keys
  <2>4. Trail!Truthful(Made(r))
    BY <2>2, <2>3, WritesAssumption DEF Trail!Truthful, Life, Made
  <2>5. UNCHANGED Life
    BY <2>1 DEF Life
  <2> QED BY <2>1, <2>3, <2>4, <2>5 DEF Trail!Next, Trail!Recorded
<1>6. \/ UNCHANGED <<rows, audit>>
      \/ \E r \in Requests : \/ (Insert(r) \/ UpdateWrite(r) \/ Remove(r)) /\ rows' # rows
                             \/ RecordAudit(r) /\ audit' # audit
  BY DEF Next, Crash, vars, Step, Receive, Authorize, GetParent, ObjectMissing, ObjectFound,
         Preview, Insert, UpdateLoad, UpdateWrite, ReadBack, DeleteLoad, Remove, RecordAudit, Respond, Fail
<1> QED BY <1>1, <1>2, <1>3, <1>4, <1>5, <1>6

\* The concurrent handlers keep what AuditTrail promises: an entry of a
\* delete only of a record that is gone, of a write only of one that was.
THEOREM HandlersKeepTrail == Spec => ImplementsTrail
<1>1. TypeOK /\ Controlled /\ [Next]_vars => [Trail!Next]_<<Life, audit>>
  BY TrailStep
<1> QED BY <1>1, TrailInit, Invariance, PTL DEF Spec, ImplementsTrail, Trail!Spec
=============================================================================
