----------------------------- MODULE HitlProofs -----------------------------
(***************************************************************************)
(* Proofs about Hitl, for any rows, batch size and bounds: operators, the  *)
(* LLM job, workers and the sweep do not lose a row between them, whatever *)
(* their forms and fetched batches showed.                                 *)
(***************************************************************************)
EXTENDS Hitl, TLAPS

-----------------------------------------------------------------------------
(* What the transactions are built from.                                   *)

\* An update of a row leaves the columns well typed and other rows alone.
LEMMA PatchType ==
  ASSUME TypeOK, NEW r \in Records, NEW code \in {"absent", "null", "nlp", "llm", "operator"},
         NEW flag \in BOOLEAN,
         NEW act \in {"none", "accepted", "overridden",
                      "rejected_to_quarantine", "quarantine_assigned"},
         Patch(r, code, flag, act)
  PROVE  /\ soc' \in [Records -> {"absent", "null", "nlp", "llm", "operator"}]
         /\ review' \in [Records -> BOOLEAN]
         /\ action' \in [Records -> {"none", "accepted", "overridden",
                                     "rejected_to_quarantine", "quarantine_assigned"}]
         /\ r \in rows => soc'[r] = code /\ review'[r] = flag /\ action'[r] = act
         /\ \A s \in rows : s # r => soc'[s] = soc[s] /\ review'[s] = review[s]
                                     /\ action'[s] = action[s]
  <1>1. CASE r \in rows
    BY <1>1 DEF TypeOK, Patch
  <1>2. CASE r \notin rows
    BY <1>2 DEF TypeOK, Patch, table
  <1> QED BY <1>1, <1>2

\* The id of an insert is new; nothing else changes in the table.
LEMMA InsertType ==
  ASSUME HitlAssumption, TypeOK, NEW r \in Records, NEW kind \in {"low", "rejected"},
         Insert(r, kind)
  PROVE  /\ lastId' = lastId + 1 /\ lastId' \in 0..MaxEntries
         /\ quarantine \subseteq quarantine' /\ quarantine' \subseteq Entry
         /\ \E q \in quarantine' : q.rec = r /\ q.state = "open" /\ q.id = lastId'
         /\ \A q \in quarantine' : \/ q \in quarantine
                                   \/ /\ q.id = lastId' /\ q.rec = r
                                      /\ q.kind = kind /\ q.state = "open"
         /\ \A q \in quarantine' : q.id <= lastId'
         /\ \A p, q \in quarantine' : p.id = q.id => p = q
  <1> DEFINE new == [id |-> lastId + 1, rec |-> r, kind |-> kind, state |-> "open"]
  <1>1. quarantine' = quarantine \union {new} /\ lastId' = lastId + 1 /\ lastId < MaxEntries
    BY DEF Insert
  <1>2. new \in Entry /\ new.id = lastId + 1 /\ new.rec = r /\ new.kind = kind /\ new.state = "open"
    BY <1>1 DEF HitlAssumption, TypeOK, Entry
  <1>3. lastId' \in 0..MaxEntries /\ \A q \in quarantine : q.id \in Nat /\ q.id <= lastId
    BY <1>1 DEF HitlAssumption, TypeOK, Entry
  <1>4. quarantine \subseteq Entry
    BY DEF TypeOK
  <1> HIDE DEF new
  <1>5. \A q \in quarantine' : q \in quarantine \/ q = new
    BY <1>1
  <1>6. \A q \in quarantine' : q.id <= lastId'
    BY <1>1, <1>2, <1>3, <1>5 DEF TypeOK
  <1>7. \A p, q \in quarantine' : p.id = q.id => p = q
    BY <1>1, <1>2, <1>3, <1>5 DEF TypeOK
  <1> QED BY <1>1, <1>2, <1>3, <1>4, <1>5, <1>6, <1>7

\* Closing an entry changes its state and nothing else in the table.
LEMMA CloseType ==
  ASSUME HitlAssumption, TypeOK, NEW q \in quarantine, NEW how \in {"assigned", "dropped"},
         Close(q, how)
  PROVE  /\ quarantine' \subseteq Entry
         /\ \A p \in quarantine' :
              \/ p \in quarantine /\ p # q
              \/ p.id = q.id /\ p.rec = q.rec /\ p.kind = q.kind /\ p.state = how
         /\ \A p \in quarantine : p # q => p \in quarantine'
         /\ \E p \in quarantine' : p.id = q.id /\ p.rec = q.rec /\ p.state = how
         /\ \A p \in quarantine' : p.id <= lastId
         /\ \A o, p \in quarantine' : o.id = p.id => o = p
  <1> DEFINE new == [q EXCEPT !.state = how]
  <1>1. quarantine' = (quarantine \ {q}) \union {new}
    BY DEF Close
  <1>2. q \in Entry /\ quarantine \subseteq Entry
    BY DEF TypeOK
  <1>3. new \in Entry /\ new.id = q.id /\ new.rec = q.rec /\ new.kind = q.kind /\ new.state = how
    BY <1>2 DEF Entry
  <1> HIDE DEF new
  <1>4. \A p \in quarantine' : (p \in quarantine /\ p # q) \/ p = new
    BY <1>1
  <1>5. \A p \in quarantine : p # q => p \in quarantine' /\ p.id # q.id
    BY <1>1 DEF TypeOK
  <1>6. quarantine' \subseteq Entry
    BY <1>2, <1>3, <1>4
  <1>7. \A p \in quarantine' : p.id <= lastId
    BY <1>3, <1>4 DEF TypeOK
  <1>8. \A o, p \in quarantine' : o.id = p.id => o = p
    BY <1>3, <1>4, <1>5 DEF TypeOK
  <1> QED BY <1>1, <1>3, <1>4, <1>5, <1>6, <1>7, <1>8

-----------------------------------------------------------------------------
(* The invariant: TypeOK, and what the pieces of state say of each other.  *)

\* A fetched entry is still the entry of that id, if there is one.
PageSound ==
  /\ page # {} => llm = "running"
  /\ \A e \in page : e.kind = "low" /\ e.id <= cursor
  /\ \A d, e \in page : d.id = e.id => d = e
  /\ \A e \in page : \A q \in quarantine :
       q.id = e.id => q.rec = e.rec /\ q.kind = e.kind

\* Without a code: rejected, with an entry that nobody has assigned a code
\* through; or never written, and nobody has assigned one through any entry.
Codeless ==
  \A r \in rows :
    /\ soc[r] = "null" => \E q \in quarantine : q.rec = r /\ q.state # "assigned"
    /\ soc[r] = "absent" => \A q \in quarantine : q.rec = r => q.state # "assigned"

\* Only a row with the soc_code key is reviewed, or carries an operator's mark.
KeyThere ==
  \A r \in rows : review[r] \/ r \in reviewTabs \/ action[r] # "none" => soc[r] # "absent"

IInv == TypeOK /\ PageSound /\ Codeless /\ KeyThere /\ ReviewHasCode

\* The kinds of step, by what they may change.
LEMMA Steps ==
  ASSUME TypeOK, Next
  PROVE  \/ \E r \in Records : Sweep(r)
         \/ \E r \in Records : Redeliver(r)
         \/ \E r \in Records : WriteClassified(r)
         \/ \E r \in Records : WriteQuarantined(r)
         \/ ClearYear
         \/ \E r \in Records : OpenReview(r)
         \/ \E r \in Records : Accept(r)
         \/ \E r \in Records : Override(r)
         \/ \E r \in Records : Reject(r)
         \/ \E q \in quarantine : OpenEntry(q)
         \/ \E q \in quarantine : Assign(q)
         \/ \E q \in quarantine : Drop(q)
         \/ CloseTabs
         \/ StartLlm \/ FetchBatch \/ EndLlm
         \/ \E e \in page : PassOver(e)
         \/ \E e \in page : \E flagged \in BOOLEAN : WriteBack(e, flagged)
  BY DEF Next

LEMMA InitInv == HitlAssumption /\ Init => IInv
  BY DEF HitlAssumption, Init, IInv, TypeOK, PageSound, Codeless, KeyThere, ReviewHasCode,
         HasCode, Entry

\* Each step keeps the types.
LEMMA TypeStep ==
  ASSUME HitlAssumption, TypeOK, Next
  PROVE  TypeOK'
  <1>1. ASSUME NEW r \in Records, Sweep(r) \/ Redeliver(r)
        PROVE  TypeOK'
    <2>1. UNCHANGED <<rows, table, entries, tabs, llmJob>> /\ queued' \in [Records -> Nat]
          /\ enqueued' \in [Records -> Nat] /\ redelivered' \in Nat
      BY <1>1 DEF TypeOK, Sweep, Redeliver, Enqueue
    <2> QED BY <2>1 DEF TypeOK, table, entries, tabs, llmJob
  <1>2. ASSUME NEW r \in Records, WriteClassified(r)
        PROVE  TypeOK'
    <2>1. UNCHANGED <<rows, enqueued, redelivered, tabs, llmJob, entries>>
          /\ queued' \in [Records -> Nat]
      BY <1>2 DEF TypeOK, WriteClassified, Handled
    <2>2. Patch(r, "nlp", review[r], action[r]) /\ review[r] \in BOOLEAN
      BY <1>2 DEF TypeOK, WriteClassified
    <2>3. soc' \in [Records -> {"absent", "null", "nlp", "llm", "operator"}]
          /\ review' \in [Records -> BOOLEAN]
          /\ action' \in [Records -> {"none", "accepted", "overridden",
                                      "rejected_to_quarantine", "quarantine_assigned"}]
      BY <2>2, PatchType DEF TypeOK
    <2> QED BY <2>1, <2>3 DEF TypeOK, entries, tabs, llmJob
  <1>3. ASSUME NEW r \in Records, WriteQuarantined(r)
        PROVE  TypeOK'
    <2>1. UNCHANGED <<rows, enqueued, redelivered, tabs, llmJob, table>>
          /\ queued' \in [Records -> Nat] /\ Insert(r, "low")
      BY <1>3 DEF TypeOK, WriteQuarantined, Handled
    <2>2. /\ lastId' = lastId + 1 /\ lastId' \in 0..MaxEntries
          /\ quarantine' \subseteq Entry
          /\ \A q \in quarantine' : q.id <= lastId'
          /\ \A p, q \in quarantine' : p.id = q.id => p = q
      BY <2>1, InsertType
    <2> QED BY <2>1, <2>2 DEF TypeOK, table, tabs, llmJob, Entry
  <1>4. CASE ClearYear
    BY <1>4 DEF TypeOK, ClearYear, entries, jobs, tabs, llmJob
  <1>5. ASSUME NEW r \in Records, OpenReview(r)
        PROVE  TypeOK'
    BY <1>5 DEF TypeOK, OpenReview, table, entries, jobs, llmJob
  <1>6. ASSUME NEW r \in Records, Accept(r) \/ Override(r)
        PROVE  TypeOK'
    <2>1. UNCHANGED <<rows, jobs, tabs, llmJob, entries>>
      BY <1>6 DEF Accept, Override, Submitted
    <2>2. Patch(r, soc[r], FALSE, "accepted") \/ Patch(r, "operator", FALSE, "overridden")
      BY <1>6 DEF Accept, Override
    <2>3. soc' \in [Records -> {"absent", "null", "nlp", "llm", "operator"}]
          /\ review' \in [Records -> BOOLEAN]
          /\ action' \in [Records -> {"none", "accepted", "overridden",
                                      "rejected_to_quarantine", "quarantine_assigned"}]
      <3>1. soc[r] \in {"absent", "null", "nlp", "llm", "operator"}
        BY DEF TypeOK
      <3> QED BY <2>2, <3>1, PatchType
    <2> QED BY <2>1, <2>3 DEF TypeOK, entries, tabs, llmJob, jobs
  <1>7. ASSUME NEW r \in Records, Reject(r)
        PROVE  TypeOK'
    <2>1. UNCHANGED <<rows, jobs, tabs, llmJob>> /\ Insert(r, "rejected")
          /\ Patch(r, "null", FALSE, "rejected_to_quarantine")
      BY <1>7 DEF Reject, Submitted
    <2>2. /\ lastId' = lastId + 1 /\ lastId' \in 0..MaxEntries
          /\ quarantine' \subseteq Entry
          /\ \A q \in quarantine' : q.id <= lastId'
          /\ \A p, q \in quarantine' : p.id = q.id => p = q
      BY <2>1, InsertType
    <2>3. soc' \in [Records -> {"absent", "null", "nlp", "llm", "operator"}]
          /\ review' \in [Records -> BOOLEAN]
          /\ action' \in [Records -> {"none", "accepted", "overridden",
                                      "rejected_to_quarantine", "quarantine_assigned"}]
      BY <2>1, PatchType
    <2>4. UNCHANGED <<rows, queued, enqueued, redelivered, reviewTabs, entryTabs, llm, cursor,
                      page, firstNew, seen>>
      BY <2>1 DEF jobs, tabs, llmJob
    <2>5. \A q \in quarantine' \union page' : q.id <= lastId'
      BY <2>2, <2>4 DEF TypeOK, Entry
    <2> QED BY <2>2, <2>3, <2>4, <2>5 DEF TypeOK
  <1>8. ASSUME NEW q \in quarantine, OpenEntry(q)
        PROVE  TypeOK'
    <2>1. q.id \in 1..lastId
      BY DEF TypeOK, Entry
    <2>2. /\ entryTabs' = entryTabs \union {q.id}
          /\ UNCHANGED <<rows, table, entries, jobs, reviewTabs, llmJob>>
      BY <1>8 DEF OpenEntry
    <2>3. UNCHANGED <<rows, soc, review, action, quarantine, lastId, queued, enqueued,
                      redelivered, reviewTabs, llm, cursor, page, firstNew, seen>>
      BY <2>2 DEF table, entries, jobs, llmJob
    <2>4. entryTabs' \subseteq 1..lastId
      BY <2>1, <2>2 DEF TypeOK
    <2> QED BY <2>3, <2>4 DEF TypeOK
  <1>9. ASSUME NEW q \in quarantine, Assign(q) \/ Drop(q)
        PROVE  TypeOK'
    <2>1. UNCHANGED <<rows, jobs, tabs, llmJob, lastId>> /\ q.rec \in Records
      BY <1>9 DEF Assign, Drop, Submitted, TypeOK, Entry
    <2>2. Close(q, "assigned") \/ Close(q, "dropped")
      BY <1>9 DEF Assign, Drop
    <2>3. /\ quarantine' \subseteq Entry
          /\ \A p \in quarantine' : p.id <= lastId
          /\ \A o, p \in quarantine' : o.id = p.id => o = p
      BY <2>2, CloseType
    <2>4. Patch(q.rec, "operator", FALSE, "quarantine_assigned") \/ UNCHANGED table
      BY <1>9 DEF Assign, Drop
    <2>5. soc' \in [Records -> {"absent", "null", "nlp", "llm", "operator"}]
          /\ review' \in [Records -> BOOLEAN]
          /\ action' \in [Records -> {"none", "accepted", "overridden",
                                      "rejected_to_quarantine", "quarantine_assigned"}]
      <3>1. CASE Patch(q.rec, "operator", FALSE, "quarantine_assigned")
        BY <2>1, <3>1, PatchType
      <3>2. CASE UNCHANGED table
        BY <3>2 DEF TypeOK, table
      <3> QED BY <2>4, <3>1, <3>2
    <2>6. UNCHANGED <<rows, lastId, queued, enqueued, redelivered, reviewTabs, entryTabs, llm,
                      cursor, page, firstNew, seen>>
      BY <2>1 DEF jobs, tabs, llmJob
    <2>7. \A p \in quarantine' \union page' : p.id <= lastId'
      BY <2>3, <2>6 DEF TypeOK
    <2> QED BY <2>3, <2>5, <2>6, <2>7 DEF TypeOK
  <1>10. CASE CloseTabs
    BY <1>10 DEF TypeOK, CloseTabs, table, entries, jobs, llmJob
  <1>11. CASE StartLlm \/ EndLlm
    <2>1. UNCHANGED <<rows, soc, review, action, quarantine, lastId, queued, enqueued,
                      redelivered, reviewTabs, entryTabs>>
      BY <1>11 DEF StartLlm, EndLlm, table, entries, jobs, tabs
    <2>2. /\ llm' \in {"off", "running"} /\ cursor' \in 0..lastId /\ page' \subseteq page
          /\ firstNew' \in 0..(lastId + 1) /\ seen' \subseteq 1..lastId
      <3>1. lastId \in Nat
        BY DEF TypeOK
      <3>2. CASE StartLlm
        BY <3>1, <3>2 DEF TypeOK, StartLlm
      <3>3. CASE EndLlm
        BY <3>1, <3>3 DEF EndLlm
      <3> QED BY <1>11, <3>2, <3>3
    <2> QED BY <2>1, <2>2 DEF TypeOK
  <1>12. CASE FetchBatch
    <2>1. PICK batch \in SUBSET Eligible : \E last \in batch :
            page' = batch /\ cursor' = last.id
      BY <1>12 DEF FetchBatch
    <2>2. Eligible \subseteq quarantine
      BY DEF Eligible
    <2>3. page' \subseteq Entry /\ \A q \in page' : q.id <= lastId
      BY <2>1, <2>2 DEF TypeOK
    <2>4. cursor' \in 0..lastId
      BY <2>1, <2>2 DEF TypeOK, Entry
    <2>5. UNCHANGED <<rows, table, entries, jobs, tabs, llm, firstNew, seen>>
      BY <1>12 DEF FetchBatch
    <2> QED BY <2>3, <2>4, <2>5 DEF TypeOK, table, entries, jobs, tabs
  <1>13. ASSUME NEW e \in page, PassOver(e)
         PROVE  TypeOK'
    <2>1. e.id \in 1..lastId
      BY DEF TypeOK, Entry
    <2> QED BY <1>13, <2>1 DEF TypeOK, PassOver, ComeTo, table, entries, jobs, tabs
  <1>14. ASSUME NEW e \in page, NEW flagged \in BOOLEAN, WriteBack(e, flagged)
         PROVE  TypeOK'
    <2>1. e.id \in 1..lastId /\ e.rec \in Records
      BY DEF TypeOK, Entry
    <2>2. UNCHANGED <<rows, jobs, tabs, llm, cursor, firstNew, lastId>>
          /\ page' \subseteq page /\ seen' = seen \union {e.id} /\ quarantine' \subseteq quarantine
      BY <1>14 DEF WriteBack, ComeTo
    <2>3. Patch(e.rec, "llm", review[e.rec] \/ flagged, action[e.rec])
          /\ (review[e.rec] \/ flagged) \in BOOLEAN
      BY <1>14 DEF WriteBack
    <2>4. soc' \in [Records -> {"absent", "null", "nlp", "llm", "operator"}]
          /\ review' \in [Records -> BOOLEAN]
          /\ action' \in [Records -> {"none", "accepted", "overridden",
                                      "rejected_to_quarantine", "quarantine_assigned"}]
      <3>1. action[e.rec] \in {"none", "accepted", "overridden",
                               "rejected_to_quarantine", "quarantine_assigned"}
        BY <2>1 DEF TypeOK
      <3> QED BY <2>1, <2>3, <3>1, PatchType
    <2> QED BY <2>1, <2>2, <2>4 DEF TypeOK, jobs, tabs
  <1> QED BY <1>1, <1>2, <1>3, <1>4, <1>5, <1>6, <1>7, <1>8, <1>9, <1>10, <1>11, <1>12,
             <1>13, <1>14, Steps

\* Every column has its type and an id names one entry.
THEOREM TypeCorrect == Spec => []TypeOK
  <1>1. HitlAssumption /\ Init => TypeOK
    BY InitInv DEF IInv
  <1>2. HitlAssumption /\ TypeOK /\ [Next]_vars => TypeOK'
    <2>1. ASSUME TypeOK, UNCHANGED vars
          PROVE  TypeOK'
      BY <2>1 DEF TypeOK, vars, table, entries, jobs, tabs, llmJob
    <2> QED BY <2>1, TypeStep
  <1> QED BY <1>1, <1>2, HitlAssumption, PTL DEF Spec

-----------------------------------------------------------------------------
(* What operators, the LLM job and the rest leave true.                    *)

\* The state of the LLM job and of the entries it holds.
LEMMA PageStep ==
  ASSUME HitlAssumption, TypeOK, TypeOK', PageSound, Next
  PROVE  PageSound'
  <1>1. CASE UNCHANGED <<llmJob, quarantine>>
    BY <1>1 DEF PageSound, llmJob
  <1>2. ASSUME NEW r \in Records, NEW kind \in {"low", "rejected"}, Insert(r, kind),
               UNCHANGED llmJob
        PROVE  PageSound'
    <2>1. \A q \in quarantine' : q \in quarantine \/ q.id = lastId + 1
      BY <1>2, InsertType
    <2>2. \A e \in page : e.id \in Nat /\ e.id <= lastId
      BY DEF TypeOK, Entry
    <2>3. lastId \in Nat
      BY DEF TypeOK
    <2>4. UNCHANGED <<llm, page, cursor>>
      BY <1>2 DEF llmJob
    <2> QED BY <2>1, <2>2, <2>3, <2>4 DEF PageSound
  <1>3. ASSUME NEW q \in quarantine, NEW how \in {"assigned", "dropped"}, Close(q, how),
               UNCHANGED llmJob
        PROVE  PageSound'
    <2>1. \A p \in quarantine' :
            p \in quarantine \/ (p.id = q.id /\ p.rec = q.rec /\ p.kind = q.kind)
      BY <1>3, CloseType
    <2>2. UNCHANGED <<llm, page, cursor>>
      BY <1>3 DEF llmJob
    <2> QED BY <2>1, <2>2 DEF PageSound
  <1>4. CASE StartLlm \/ EndLlm
    BY <1>4 DEF PageSound, StartLlm, EndLlm, entries
  <1>5. CASE FetchBatch
    <2>1. PICK batch \in SUBSET Eligible : \E last \in batch :
            page' = batch /\ cursor' = last.id /\ \A q \in batch : q.id <= last.id
      BY <1>5 DEF FetchBatch
    <2>2. \A q \in page' : q \in quarantine /\ q.kind = "low"
      BY <2>1 DEF Eligible
    <2>3. quarantine' = quarantine /\ llm' = "running"
      BY <1>5 DEF FetchBatch, entries
    <2>4. \A q \in page' : q.id <= cursor'
      BY <2>1
    <2> QED BY <2>2, <2>3, <2>4 DEF PageSound, TypeOK
  <1>6. ASSUME NEW e \in page, ComeTo(e), quarantine' \subseteq quarantine
        PROVE  PageSound'
    BY <1>6 DEF PageSound, ComeTo
  <1>7. ASSUME NEW r \in Records, Sweep(r) \/ Redeliver(r) \/ WriteClassified(r) \/ OpenReview(r)
                                  \/ Accept(r) \/ Override(r)
        PROVE  UNCHANGED <<llmJob, quarantine>>
    BY <1>7 DEF Sweep, Redeliver, Enqueue, WriteClassified, Handled, OpenReview, Accept, Override,
                Submitted, entries
  <1>8. ASSUME NEW r \in Records, WriteQuarantined(r) \/ Reject(r)
        PROVE  UNCHANGED llmJob /\ (Insert(r, "low") \/ Insert(r, "rejected"))
    BY <1>8 DEF WriteQuarantined, Handled, Reject, Submitted
  <1>9. ClearYear \/ CloseTabs => UNCHANGED <<llmJob, quarantine>>
    BY DEF ClearYear, CloseTabs, entries
  <1>10. ASSUME NEW q \in quarantine, OpenEntry(q)
         PROVE  UNCHANGED <<llmJob, quarantine>>
    BY <1>10 DEF OpenEntry, entries
  <1>11. ASSUME NEW q \in quarantine, Assign(q) \/ Drop(q)
         PROVE  UNCHANGED llmJob /\ (Close(q, "assigned") \/ Close(q, "dropped"))
    BY <1>11 DEF Assign, Drop, Submitted
  <1>12. ASSUME NEW e \in page, PassOver(e) \/ \E flagged \in BOOLEAN : WriteBack(e, flagged)
         PROVE  ComeTo(e) /\ quarantine' \subseteq quarantine
    BY <1>12 DEF PassOver, WriteBack, entries
  <1>13. ASSUME NEW r \in Records, WriteQuarantined(r) \/ Reject(r)
         PROVE  PageSound'
    BY <1>8, <1>13, <1>2
  <1>14. ASSUME NEW q \in quarantine, Assign(q) \/ Drop(q)
         PROVE  PageSound'
    BY <1>11, <1>14, <1>3
  <1>15. ASSUME NEW e \in page, PassOver(e) \/ \E flagged \in BOOLEAN : WriteBack(e, flagged)
         PROVE  PageSound'
    BY <1>12, <1>15, <1>6
  <1> QED BY <1>1, <1>4, <1>5, <1>7, <1>9, <1>10, <1>13, <1>14, <1>15, Steps

\* No step leaves a row without a code and without an entry to find it by.
LEMMA RowsStep ==
  ASSUME HitlAssumption, TypeOK, PageSound, Codeless, KeyThere, ReviewHasCode, Next
  PROVE  Codeless' /\ KeyThere' /\ ReviewHasCode'
  <1> DEFINE Goal == Codeless' /\ KeyThere' /\ ReviewHasCode'
  <1>1. ASSUME UNCHANGED <<rows, table, entries, reviewTabs>>
        PROVE  Goal
    BY <1>1 DEF Codeless, KeyThere, ReviewHasCode, HasCode, table, entries
  <1>2. ASSUME NEW r \in Records, WriteClassified(r)
        PROVE  Goal
    <2>1. UNCHANGED <<rows, quarantine, reviewTabs>> /\ Patch(r, "nlp", review[r], action[r])
      BY <1>2 DEF WriteClassified, Handled, entries, tabs
    <2>2. review[r] \in BOOLEAN /\ action[r] \in {"none", "accepted", "overridden",
                                       "rejected_to_quarantine", "quarantine_assigned"}
      BY DEF TypeOK
    <2>3. /\ r \in rows => soc'[r] = "nlp" /\ review'[r] = review[r] /\ action'[r] = action[r]
          /\ \A s \in rows : s # r => soc'[s] = soc[s] /\ review'[s] = review[s]
                                      /\ action'[s] = action[s]
      BY <2>1, <2>2, PatchType
    <2> QED BY <2>1, <2>3 DEF Codeless, KeyThere, ReviewHasCode, HasCode
  <1>3. ASSUME NEW r \in Records, WriteQuarantined(r)
        PROVE  Goal
    <2>1. UNCHANGED <<rows, soc, review, action, reviewTabs>> /\ Insert(r, "low")
      BY <1>3 DEF WriteQuarantined, Handled, table, tabs
    <2>2. /\ quarantine \subseteq quarantine'
          /\ \A q \in quarantine' : q \in quarantine \/ q.state = "open"
      BY <2>1, InsertType
    <2> QED BY <2>1, <2>2 DEF Codeless, KeyThere, ReviewHasCode, HasCode
  <1>4. ASSUME ClearYear
        PROVE  Goal
    BY <1>4 DEF ClearYear, Codeless, KeyThere, ReviewHasCode
  <1>5. ASSUME NEW r \in Records, OpenReview(r)
        PROVE  Goal
    BY <1>5 DEF OpenReview, Codeless, KeyThere, ReviewHasCode, HasCode, table, entries
  <1>6. ASSUME NEW r \in Records, Accept(r)
        PROVE  Goal
    <2>1. UNCHANGED <<rows, quarantine, reviewTabs>> /\ Patch(r, soc[r], FALSE, "accepted")
          /\ r \in reviewTabs
      BY <1>6 DEF Accept, Submitted, entries, tabs
    <2>2. soc[r] \in {"absent", "null", "nlp", "llm", "operator"}
      BY DEF TypeOK
    <2>3. /\ r \in rows => soc'[r] = soc[r] /\ review'[r] = FALSE
          /\ \A s \in rows : s # r => soc'[s] = soc[s] /\ review'[s] = review[s]
                                      /\ action'[s] = action[s]
      BY <2>1, <2>2, PatchType
    <2> QED BY <2>1, <2>3 DEF Codeless, KeyThere, ReviewHasCode, HasCode
  <1>7. ASSUME NEW r \in Records, Override(r)
        PROVE  Goal
    <2>1. UNCHANGED <<rows, quarantine, reviewTabs>> /\ Patch(r, "operator", FALSE, "overridden")
      BY <1>7 DEF Override, Submitted, entries, tabs
    <2>2. /\ r \in rows => soc'[r] = "operator"
          /\ \A s \in rows : s # r => soc'[s] = soc[s] /\ review'[s] = review[s]
                                      /\ action'[s] = action[s]
      BY <2>1, PatchType
    <2> QED BY <2>1, <2>2 DEF Codeless, KeyThere, ReviewHasCode, HasCode
  <1>8. ASSUME NEW r \in Records, Reject(r)
        PROVE  Goal
    <2>1. UNCHANGED <<rows, reviewTabs>> /\ Insert(r, "rejected")
          /\ Patch(r, "null", FALSE, "rejected_to_quarantine")
      BY <1>8 DEF Reject, Submitted, tabs
    <2>2. /\ r \in rows => soc'[r] = "null" /\ review'[r] = FALSE
          /\ \A s \in rows : s # r => soc'[s] = soc[s] /\ review'[s] = review[s]
                                      /\ action'[s] = action[s]
      BY <2>1, PatchType
    <2>3. /\ quarantine \subseteq quarantine'
          /\ \E q \in quarantine' : q.rec = r /\ q.state = "open"
          /\ \A q \in quarantine' : q \in quarantine \/ q.state = "open"
      BY <2>1, InsertType
    <2> QED BY <2>1, <2>2, <2>3 DEF Codeless, KeyThere, ReviewHasCode, HasCode
  <1>9. ASSUME NEW q \in quarantine, Assign(q)
        PROVE  Goal
    <2>1. UNCHANGED <<rows, reviewTabs>> /\ Close(q, "assigned") /\ q.rec \in Records
          /\ Patch(q.rec, "operator", FALSE, "quarantine_assigned")
      BY <1>9 DEF Assign, Submitted, tabs, TypeOK, Entry
    <2>2. /\ q.rec \in rows => soc'[q.rec] = "operator"
          /\ \A s \in rows : s # q.rec => soc'[s] = soc[s] /\ review'[s] = review[s]
                                          /\ action'[s] = action[s]
      BY <2>1, PatchType
    <2>3. /\ \A p \in quarantine' : p \in quarantine \/ p.rec = q.rec
          /\ \A p \in quarantine : p # q => p \in quarantine'
      BY <2>1, CloseType
    <2> QED BY <2>1, <2>2, <2>3 DEF Codeless, KeyThere, ReviewHasCode, HasCode
  <1>10. ASSUME NEW q \in quarantine, Drop(q)
         PROVE  Goal
    <2>1. UNCHANGED <<rows, soc, review, action, reviewTabs>> /\ Close(q, "dropped")
      BY <1>10 DEF Drop, Submitted, tabs, table
    <2>2. /\ \A p \in quarantine' : p \in quarantine \/ p.state = "dropped"
          /\ \A p \in quarantine : p # q => p \in quarantine'
          /\ \E p \in quarantine' : p.rec = q.rec /\ p.state = "dropped"
      BY <2>1, CloseType
    <2> QED BY <2>1, <2>2 DEF Codeless, KeyThere, ReviewHasCode, HasCode
  <1>11. ASSUME CloseTabs
         PROVE  Goal
    BY <1>11 DEF CloseTabs, Codeless, KeyThere, ReviewHasCode, HasCode, table, entries
  <1>12. ASSUME NEW e \in page, NEW flagged \in BOOLEAN, WriteBack(e, flagged)
         PROVE  Goal
    <2> DEFINE flag == review[e.rec] \/ flagged
    <2>1. UNCHANGED <<rows, reviewTabs>> /\ e.rec \in Records
          /\ Patch(e.rec, "llm", flag, action[e.rec])
      BY <1>12 DEF WriteBack, ComeTo, tabs, TypeOK, Entry
    <2>2. quarantine' = {q \in quarantine : q.id # e.id}
      BY <1>12 DEF WriteBack
    <2>3. flag \in BOOLEAN
      OBVIOUS
    <2> HIDE DEF flag
    <2>4. action[e.rec] \in {"none", "accepted", "overridden",
                             "rejected_to_quarantine", "quarantine_assigned"}
      BY <2>1 DEF TypeOK
    <2>5. /\ e.rec \in rows => soc'[e.rec] = "llm"
          /\ \A s \in rows : s # e.rec => soc'[s] = soc[s] /\ review'[s] = review[s]
                                          /\ action'[s] = action[s]
      BY <2>1, <2>3, <2>4, PatchType
    <2>6. quarantine' \subseteq quarantine
          /\ \A q \in quarantine : q.rec # e.rec => q \in quarantine'
      BY <2>2 DEF PageSound
    <2> QED BY <2>1, <2>5, <2>6 DEF Codeless, KeyThere, ReviewHasCode, HasCode
  <1>13. ASSUME NEW r \in Records, Sweep(r) \/ Redeliver(r)
         PROVE  Goal
    BY <1>13, <1>1 DEF Sweep, Redeliver, Enqueue, tabs
  <1>14. ASSUME NEW q \in quarantine, OpenEntry(q)
         PROVE  Goal
    BY <1>14, <1>1 DEF OpenEntry
  <1>15. ASSUME StartLlm \/ FetchBatch \/ EndLlm
         PROVE  Goal
    BY <1>15, <1>1 DEF StartLlm, FetchBatch, EndLlm, tabs
  <1>16. ASSUME NEW e \in page, PassOver(e)
         PROVE  Goal
    BY <1>16, <1>1 DEF PassOver, ComeTo, tabs
  <1> QED BY <1>2, <1>3, <1>4, <1>5, <1>6, <1>7, <1>8, <1>9, <1>10, <1>11, <1>12, <1>13,
             <1>14, <1>15, <1>16, Steps

THEOREM InvariantHolds == Spec => []IInv
  <1>1. HitlAssumption /\ IInv /\ [Next]_vars => IInv'
    <2>1. ASSUME IInv, UNCHANGED vars
          PROVE  IInv'
      BY <2>1 DEF IInv, TypeOK, PageSound, Codeless, KeyThere, ReviewHasCode, HasCode,
                  vars, table, entries, jobs, tabs, llmJob
    <2>2. ASSUME HitlAssumption, IInv, Next
          PROVE  IInv'
      BY <2>2, TypeStep, PageStep, RowsStep DEF IInv
    <2> QED BY <2>1, <2>2
  <1> QED BY <1>1, InitInv, HitlAssumption, PTL DEF Spec

\* A row without a usable code is the sweep's, or on the operators' list, or
\* was dropped by one of them.
THEOREM NobodyIsForgotten == Spec => []NobodyForgotten
  <1>1. IInv => NobodyForgotten
    BY DEF IInv, TypeOK, Codeless, NobodyForgotten, HasCode, Covered, EntriesOf, Entry
  <1> QED BY <1>1, InvariantHolds, PTL

\* A row under review has a code.
THEOREM ReviewedHasCode == Spec => []ReviewHasCode
  <1>1. IInv => ReviewHasCode
    BY DEF IInv
  <1> QED BY <1>1, InvariantHolds, PTL

\* The sweep never enqueues a row an operator has decided about.
THEOREM DecidedStaysOut == Spec => DecidedIsNotSwept
  <1> DEFINE Quiet == \A r \in rows :
               Decided(r) /\ enqueued'[r] > enqueued[r] => redelivered' > redelivered
  <1>1. IInv /\ [Next]_vars => [Quiet]_vars
    <2> SUFFICES ASSUME IInv, Next
                 PROVE  Quiet
      OBVIOUS
    <2>1. TypeOK /\ \A r \in rows : enqueued[r] \in Nat
      BY DEF IInv, TypeOK
    <2>2. ASSUME NEW r \in Records, Sweep(r)
          PROVE  Quiet
      <3>1. ~Decided(r)
        BY <2>2 DEF IInv, KeyThere, Sweep, Covered, Decided, EntriesOf
      <3>2. \A s \in rows : s # r => enqueued'[s] = enqueued[s]
        BY <2>1, <2>2 DEF TypeOK, Sweep, Enqueue
      <3> QED BY <2>1, <3>1, <3>2
    <2>3. ASSUME NEW r \in Records, Redeliver(r)
          PROVE  Quiet
      BY <2>1, <2>3 DEF Redeliver, TypeOK
    <2>4. CASE UNCHANGED enqueued
      BY <2>1, <2>4
    <2>5. ASSUME NEW r \in Records, WriteClassified(r) \/ WriteQuarantined(r) \/ OpenReview(r)
                                     \/ Accept(r) \/ Override(r) \/ Reject(r)
          PROVE  UNCHANGED enqueued
      BY <2>5 DEF WriteClassified, WriteQuarantined, Handled, OpenReview, Accept, Override, Reject,
                  Submitted, jobs
    <2>6. ASSUME NEW q \in quarantine, OpenEntry(q) \/ Assign(q) \/ Drop(q)
          PROVE  UNCHANGED enqueued
      BY <2>6 DEF OpenEntry, Assign, Drop, Submitted, jobs
    <2>7. ClearYear \/ CloseTabs \/ StartLlm \/ FetchBatch \/ EndLlm => UNCHANGED enqueued
      BY DEF ClearYear, CloseTabs, StartLlm, FetchBatch, EndLlm, jobs
    <2>8. ASSUME NEW e \in page, PassOver(e) \/ \E flagged \in BOOLEAN : WriteBack(e, flagged)
          PROVE  UNCHANGED enqueued
      BY <2>8 DEF PassOver, WriteBack, ComeTo, jobs
    <2> HIDE DEF Quiet
    <2> QED BY <2>1, <2>2, <2>3, <2>4, <2>5, <2>6, <2>7, <2>8, Steps
  <1>2. Quiet <=> \A r \in rows :
               Decided(r) /\ enqueued'[r] > enqueued[r] => redelivered' > redelivered
    OBVIOUS
  <1> QED BY <1>1, InvariantHolds, PTL DEF Spec, DecidedIsNotSwept

-----------------------------------------------------------------------------
(* Decisions about entries, and runs of the LLM job.                       *)

\* A decided entry stays as it is until its id is deleted.
THEOREM DecisionsOfEntries == Spec => EntryDecidedOnce
  <1> DEFINE Kept == \A q \in quarantine : q.state # "open" =>
                       q \in quarantine' \/ \A p \in quarantine' : p.id # q.id
  <1>1. HitlAssumption /\ IInv /\ [Next]_vars => [Kept]_vars
    <2> SUFFICES ASSUME HitlAssumption, IInv, Next
                 PROVE  Kept
      OBVIOUS
    <2>1. TypeOK
      BY DEF IInv
    <2>2. CASE UNCHANGED quarantine
      BY <2>2
    <2>3. ASSUME NEW r \in Records, WriteQuarantined(r) \/ Reject(r)
          PROVE  Kept
      <3>1. Insert(r, "low") \/ Insert(r, "rejected")
        BY <2>3 DEF WriteQuarantined, Reject
      <3>2. quarantine \subseteq quarantine'
        BY <2>1, <3>1, InsertType
      <3> QED BY <3>2
    <2>4. ASSUME NEW q \in quarantine, Assign(q) \/ Drop(q)
          PROVE  Kept
      <3>1. q.state = "open" /\ (Close(q, "assigned") \/ Close(q, "dropped"))
        BY <2>4 DEF Assign, Drop, Undecided
      <3>2. \A p \in quarantine : p # q => p \in quarantine'
        BY <2>1, <3>1, CloseType
      <3> QED BY <3>1, <3>2
    <2>5. ASSUME NEW e \in page, NEW flagged \in BOOLEAN, WriteBack(e, flagged)
          PROVE  Kept
      BY <2>5 DEF WriteBack
    <2>6. ASSUME NEW r \in Records, Sweep(r) \/ Redeliver(r) \/ WriteClassified(r)
                                    \/ OpenReview(r) \/ Accept(r) \/ Override(r)
          PROVE  UNCHANGED quarantine
      BY <2>6 DEF Sweep, Redeliver, Enqueue, WriteClassified, OpenReview, Accept, Override, entries
    <2>7. ClearYear \/ CloseTabs \/ StartLlm \/ FetchBatch \/ EndLlm => UNCHANGED quarantine
      BY DEF ClearYear, CloseTabs, StartLlm, FetchBatch, EndLlm, entries
    <2>8. ASSUME NEW q \in quarantine, OpenEntry(q)
          PROVE  UNCHANGED quarantine
      BY <2>8 DEF OpenEntry, entries
    <2>9. ASSUME NEW e \in page, PassOver(e)
          PROVE  UNCHANGED quarantine
      BY <2>9 DEF PassOver, entries
    <2> HIDE DEF Kept
    <2> QED BY <2>1, <2>2, <2>3, <2>4, <2>5, <2>6, <2>7, <2>8, <2>9, Steps
  <1> QED BY <1>1, InvariantHolds, HitlAssumption, PTL DEF Spec, EntryDecidedOnce

\* What the LLM job has come to lies behind its cursor; a run starts afresh.
PassInv ==
  /\ PassIsComplete
  /\ \A i \in seen : i <= cursor
  /\ llm = "off" => page = {} /\ seen = {} /\ cursor = 0

LEMMA PassStep ==
  ASSUME HitlAssumption, IInv, PassInv, Next
  PROVE  PassInv'
  <1>1. TypeOK /\ PageSound /\ lastId \in Nat /\ cursor \in Nat /\ firstNew \in Nat
        /\ \A q \in quarantine \union page : q.id \in 1..lastId
    BY DEF IInv, TypeOK, Entry
  \* A step of anyone else: the entries keep their ids, or have a new one.
  <1>2. ASSUME UNCHANGED llmJob, rows' \subseteq rows,
               \A q \in quarantine' :
                 \/ \E o \in quarantine : o.id = q.id /\ o.rec = q.rec /\ o.kind = q.kind
                 \/ q.id = lastId + 1
        PROVE  PassInv'
    <2>1. UNCHANGED <<llm, cursor, page, firstNew, seen>>
      BY <1>2 DEF llmJob
    <2>2. ASSUME llm = "running", NEW q \in quarantine',
                 q.id < firstNew, q.kind = "low", q.rec \in rows'
          PROVE  q.id \in seen \/ q.id > cursor \/ \E e \in page : e.id = q.id
      <3>1. CASE q.id = lastId + 1
        BY <1>1, <3>1 DEF TypeOK
      <3>2. ASSUME NEW o \in quarantine, o.id = q.id, o.rec = q.rec, o.kind = q.kind
            PROVE  q.id \in seen \/ q.id > cursor \/ \E e \in page : e.id = q.id
        <4>1. o.id < firstNew /\ o.kind = "low" /\ o.rec \in rows
          BY <1>2, <2>2, <3>2
        <4>2. o.id \in seen \/ o \in Eligible \/ \E e \in page : e.id = o.id
          BY <2>2, <4>1 DEF PassInv, PassIsComplete
        <4> QED BY <3>2, <4>2 DEF Eligible
      <3> QED BY <1>2, <3>1, <3>2
    <2> QED BY <2>1, <2>2 DEF PassInv, PassIsComplete, Eligible
  <1>3. CASE StartLlm
    <2>1. page' = {} /\ seen' = {} /\ cursor' = 0 /\ llm' = "running" /\ rows' = rows
          /\ quarantine' = quarantine
      BY <1>3 DEF StartLlm, PassInv, entries
    <2> QED BY <1>1, <2>1 DEF PassInv, PassIsComplete, Eligible
  <1>4. CASE EndLlm
    BY <1>4 DEF EndLlm, PassInv, PassIsComplete
  <1>5. CASE FetchBatch
    <2>1. PICK batch \in SUBSET Eligible : \E last \in batch :
            /\ \A q \in batch : q.id <= last.id
            /\ \A q \in Eligible \ batch : q.id > last.id
            /\ page' = batch
            /\ cursor' = last.id
      BY <1>5 DEF FetchBatch
    <2>2. page = {} /\ llm = "running" /\ UNCHANGED <<rows, quarantine, llm, firstNew, seen>>
      BY <1>5 DEF FetchBatch, entries
    <2>3. \A q \in batch : q \in quarantine /\ q.id > cursor
      BY <2>1 DEF Eligible
    <2>4. cursor' > cursor /\ cursor' \in Nat
      BY <1>1, <2>1, <2>3
    <2>5. \A e \in page' : e.id \notin seen'
      BY <1>1, <2>1, <2>2, <2>3 DEF PassInv
    <2>6. \A i \in seen' : i <= cursor'
      BY <1>1, <2>2, <2>4 DEF PassInv, TypeOK
    <2>7. ASSUME NEW q \in quarantine', q.id < firstNew', q.kind = "low", q.rec \in rows'
          PROVE  q.id \in seen' \/ q \in Eligible' \/ \E e \in page' : e.id = q.id
      <3>1. q.id \in seen \/ q \in Eligible
        BY <2>2, <2>7 DEF PassInv, PassIsComplete
      <3>2. q \in Eligible \ batch => q \in Eligible'
        BY <2>1, <2>2, <2>7 DEF Eligible
      <3> QED BY <2>1, <2>2, <3>1, <3>2
    <2> QED BY <2>2, <2>5, <2>6, <2>7 DEF PassInv, PassIsComplete
  <1>6. ASSUME NEW e \in page, ComeTo(e), quarantine' \subseteq quarantine
        PROVE  PassInv'
    <2>1. /\ page' = page \ {e} /\ seen' = seen \union {e.id}
          /\ UNCHANGED <<rows, llm, cursor, firstNew>>
      BY <1>6 DEF ComeTo
    <2>2. \A d \in page' : d.id # e.id
      BY <1>1, <2>1 DEF PageSound
    <2>3. e.id <= cursor /\ llm = "running"
      BY <1>1 DEF PageSound
    <2>4. ASSUME NEW q \in quarantine', q.id < firstNew', q.kind = "low", q.rec \in rows'
          PROVE  q.id \in seen' \/ q \in Eligible' \/ \E d \in page' : d.id = q.id
      <3>1. q \in quarantine
        BY <1>6
      <3>2. q.id \in seen \/ q \in Eligible \/ \E d \in page : d.id = q.id
        BY <2>1, <2>3, <2>4, <3>1 DEF PassInv, PassIsComplete
      <3> QED BY <2>1, <3>2, <3>1, <2>4 DEF Eligible
    <2> QED BY <2>1, <2>2, <2>3, <2>4 DEF PassInv, PassIsComplete
  <1>7. ASSUME NEW r \in Records, WriteQuarantined(r) \/ Reject(r)
        PROVE  PassInv'
    <2>1. UNCHANGED <<llmJob, rows>> /\ (Insert(r, "low") \/ Insert(r, "rejected"))
      BY <1>7 DEF WriteQuarantined, Handled, Reject, Submitted
    <2>2. \A q \in quarantine' : q \in quarantine \/ q.id = lastId + 1
      BY <1>1, <2>1, InsertType
    <2>3. \A q \in quarantine' :
            \/ \E o \in quarantine : o.id = q.id /\ o.rec = q.rec /\ o.kind = q.kind
            \/ q.id = lastId + 1
      BY <1>1, <2>2
    <2> QED BY <2>1, <2>3, <1>2
  <1>8. ASSUME NEW q \in quarantine, Assign(q) \/ Drop(q)
        PROVE  PassInv'
    <2>1. UNCHANGED <<llmJob, rows>> /\ (Close(q, "assigned") \/ Close(q, "dropped"))
      BY <1>8 DEF Assign, Drop, Submitted
    <2>2. \A p \in quarantine' :
            p \in quarantine \/ (p.id = q.id /\ p.rec = q.rec /\ p.kind = q.kind)
      BY <1>1, <2>1, CloseType
    <2> QED BY <2>1, <2>2, <1>2
  <1>9. ASSUME UNCHANGED <<llmJob, quarantine>>, rows' \subseteq rows
        PROVE  PassInv'
    BY <1>2, <1>9
  <1>10. ASSUME NEW r \in Records, Sweep(r) \/ Redeliver(r) \/ WriteClassified(r)
                                   \/ OpenReview(r) \/ Accept(r) \/ Override(r)
         PROVE  UNCHANGED <<llmJob, quarantine, rows>>
    BY <1>10 DEF Sweep, Redeliver, Enqueue, WriteClassified, Handled, OpenReview, Accept, Override,
                 Submitted, entries
  <1>11. ClearYear \/ CloseTabs => UNCHANGED <<llmJob, quarantine>> /\ rows' \subseteq rows
    BY DEF ClearYear, CloseTabs, entries
  <1>12. ASSUME NEW q \in quarantine, OpenEntry(q)
         PROVE  UNCHANGED <<llmJob, quarantine, rows>>
    BY <1>12 DEF OpenEntry, entries
  <1>13. ASSUME NEW e \in page, PassOver(e) \/ \E flagged \in BOOLEAN : WriteBack(e, flagged)
         PROVE  PassInv'
    <2>1. ComeTo(e) /\ quarantine' \subseteq quarantine
      BY <1>13 DEF PassOver, WriteBack, entries
    <2> QED BY <2>1, <1>6
  <1> QED BY <1>1, <1>3, <1>4, <1>5, <1>7, <1>8, <1>9, <1>10, <1>11, <1>12, <1>13, Steps

\* A run of the LLM job misses no entry that was there at its start and comes
\* to none twice.
THEOREM PassesAreComplete == Spec => []PassIsComplete
  <1>1. Init => PassInv
    BY DEF Init, PassInv, PassIsComplete
  <1>2. HitlAssumption /\ IInv /\ PassInv /\ [Next]_vars => PassInv'
    <2>1. ASSUME PassInv, UNCHANGED vars
          PROVE  PassInv'
      BY <2>1 DEF PassInv, PassIsComplete, Eligible, vars, entries, llmJob
    <2> QED BY <2>1, PassStep
  <1>3. PassInv => PassIsComplete
    BY DEF PassInv
  <1> QED BY <1>1, <1>2, <1>3, InvariantHolds, HitlAssumption, PTL DEF Spec

-----------------------------------------------------------------------------
(* A row that was delivered once: one entry, and the review comes after it. *)

\* The entries the LLM job may still write back to r, in the table or fetched.
Low(r) == {q \in quarantine \union page : q.rec = r /\ q.kind = "low"}

Delivered(r) == enqueued[r] >= 1 /\ queued[r] <= enqueued[r]
\* No entry before the delivery is handled, and one after it at most.
OneEntry(r) == (queued[r] > 0 => Low(r) = {}) /\ \A p, q \in Low(r) : p.id = q.id
\* A review begins with the write that takes that entry away.
Reviewed(r) ==
  review[r] \/ r \in reviewTabs \/ action[r] = "overridden" => queued[r] = 0 /\ Low(r) = {}
Stands(r) == r \in rows /\ action[r] = "overridden" => soc[r] = "operator"

OverrideInv ==
  \A r \in Records : Delivered(r) /\ (enqueued[r] = 1 => OneEntry(r) /\ Reviewed(r) /\ Stands(r))

\* Deliveries are only added; one that is handled is taken off.
LEMMA DeliveredStep ==
  ASSUME TypeOK, OverrideInv, Next, NEW r \in Records
  PROVE  /\ Delivered(r)'
         /\ enqueued'[r] = 1 => enqueued[r] = 1
         /\ enqueued'[r] = 1 /\ queued'[r] > 0 => queued[r] > 0
         /\ queued[r] = 0 /\ enqueued'[r] = 1 => queued'[r] = 0
  <1>0. /\ queued \in [Records -> Nat] /\ enqueued \in [Records -> Nat]
        /\ enqueued[r] >= 1 /\ queued[r] <= enqueued[r]
    BY DEF TypeOK, OverrideInv, Delivered
  <1>1. ASSUME NEW s \in Records, Enqueue(s)
        PROVE  /\ enqueued'[r] >= 1 /\ queued'[r] <= enqueued'[r]
               /\ enqueued'[r] = 1 => enqueued[r] = 1 /\ queued'[r] = queued[r]
    <2>1. CASE r = s
      BY <1>0, <1>1, <2>1 DEF Enqueue
    <2>2. CASE r # s
      BY <1>0, <1>1, <2>2 DEF Enqueue
    <2> QED BY <2>1, <2>2
  <1>2. ASSUME NEW s \in Records, Handled(s)
        PROVE  /\ enqueued'[r] = enqueued[r] /\ queued'[r] \in Nat /\ queued'[r] <= queued[r]
    <2>1. CASE r = s
      BY <1>0, <1>2, <2>1 DEF Handled
    <2>2. CASE r # s
      BY <1>0, <1>2, <2>2 DEF Handled
    <2> QED BY <2>1, <2>2
  <1>3. \/ \E s \in Records : Enqueue(s)
        \/ \E s \in Records : Handled(s)
        \/ UNCHANGED <<queued, enqueued>>
    BY DEF Next, Sweep, Redeliver, WriteClassified, WriteQuarantined, ClearYear, OpenReview,
           Accept, Override, Reject, OpenEntry, Assign, Drop, CloseTabs, StartLlm, FetchBatch,
           EndLlm, PassOver, WriteBack, ComeTo, Submitted, jobs
  <1> QED BY <1>0, <1>1, <1>2, <1>3 DEF Delivered

\* The same entries or fewer, decided or not, are no more.
LEMMA FewerLow ==
  ASSUME NEW r \in Records, OneEntry(r), \A p \in Low(r)' : \E o \in Low(r) : o.id = p.id,
         queued'[r] > 0 => queued[r] > 0
  PROVE  OneEntry(r)' /\ (Low(r) = {} => Low(r)' = {})
  BY DEF OneEntry

\* What an update of s says of r.
LEMMA PatchRest ==
  ASSUME TypeOK, NEW s \in Records, NEW code, NEW flag, NEW act, Patch(s, code, flag, act),
         NEW r \in Records
  PROVE  \/ r = s /\ r \in rows /\ soc'[r] = code /\ review'[r] = flag /\ action'[r] = act
         \/ (r # s \/ r \notin rows) /\ soc'[r] = soc[r] /\ review'[r] = review[r]
            /\ action'[r] = action[r]
  <1>1. CASE s \in rows
    BY <1>1 DEF TypeOK, Patch
  <1>2. CASE s \notin rows
    BY <1>2 DEF Patch, table
  <1> QED BY <1>1, <1>2

\* An operator's update clears the flag.
LEMMA PatchClears ==
  ASSUME TypeOK, NEW s \in Records, NEW code, NEW act, Patch(s, code, FALSE, act), NEW r \in Records
  PROVE  \/ r = s /\ soc'[r] = code /\ review'[r] = FALSE /\ action'[r] = act
         \/ soc'[r] = soc[r] /\ review'[r] = review[r] /\ action'[r] = action[r]
  <1>1. CASE s \in rows
    BY <1>1 DEF TypeOK, Patch
  <1>2. CASE s \notin rows
    BY <1>2 DEF Patch, table
  <1> QED BY <1>1, <1>2

LEMMA OverrideStep ==
  ASSUME HitlAssumption, TypeOK, PageSound, OverrideInv, Next
  PROVE  OverrideInv'
  <1> SUFFICES ASSUME NEW r \in Records, enqueued'[r] = 1
               PROVE  OneEntry(r)' /\ Reviewed(r)' /\ Stands(r)'
    BY DeliveredStep DEF OverrideInv
  <1>0. /\ OneEntry(r) /\ Reviewed(r) /\ Stands(r) /\ queued[r] \in Nat
        /\ queued'[r] > 0 => queued[r] > 0
        /\ queued[r] = 0 => queued'[r] = 0
    BY DeliveredStep DEF OverrideInv, TypeOK
  \* What leaves the entries as they are, or takes some away, and starts no
  \* review and no override of r.
  <1>1. ASSUME \A p \in Low(r)' : \E o \in Low(r) : o.id = p.id,
               review'[r] \/ r \in reviewTabs' \/ action'[r] = "overridden" =>
                 review[r] \/ r \in reviewTabs \/ action[r] = "overridden" \/ (queued[r] = 0 /\ Low(r) = {}),
               r \in rows' /\ action'[r] = "overridden" => soc'[r] = "operator"
        PROVE  OneEntry(r)' /\ Reviewed(r)' /\ Stands(r)'
    <2>1. OneEntry(r)' /\ (Low(r) = {} => Low(r)' = {})
      BY <1>0, <1>1, FewerLow
    <2>2. review'[r] \/ r \in reviewTabs' \/ action'[r] = "overridden" => queued'[r] = 0 /\ Low(r)' = {}
      BY <1>0, <1>1, <2>1 DEF Reviewed
    <2> QED BY <1>1, <2>1, <2>2 DEF Reviewed, Stands
  <1>2. ASSUME Low(r)' \subseteq Low(r) PROVE \A p \in Low(r)' : \E o \in Low(r) : o.id = p.id
    BY <1>2
  <1>3. ASSUME UNCHANGED <<rows, table>>, reviewTabs' \subseteq reviewTabs, Low(r)' \subseteq Low(r)
        PROVE  OneEntry(r)' /\ Reviewed(r)' /\ Stands(r)'
    BY <1>0, <1>1, <1>2, <1>3 DEF table, Stands
  <1>4. UNCHANGED <<quarantine, page>> => Low(r)' \subseteq Low(r)
    BY DEF Low
  <1>5. ASSUME NEW s \in Records, NEW kind \in {"low", "rejected"}, Insert(s, kind),
               page' = page, s # r \/ kind = "rejected"
        PROVE  Low(r)' \subseteq Low(r)
    <2>1. \A q \in quarantine' : q \in quarantine \/ (q.rec = s /\ q.kind = kind)
      BY <1>5, InsertType
    <2> QED BY <1>5, <2>1 DEF Low
  <1>6. ASSUME NEW q \in quarantine, NEW how \in {"assigned", "dropped"}, Close(q, how), page' = page
        PROVE  \A p \in Low(r)' : \E o \in Low(r) : o.id = p.id
    <2>1. \A p \in quarantine' :
            p \in quarantine \/ (p.id = q.id /\ p.rec = q.rec /\ p.kind = q.kind)
      BY <1>6, CloseType
    <2> QED BY <1>6, <2>1 DEF Low
  <1>7. ASSUME NEW s \in Records, Sweep(s) \/ Redeliver(s)
        PROVE  OneEntry(r)' /\ Reviewed(r)' /\ Stands(r)'
    <2>1. UNCHANGED <<rows, table, quarantine, page, reviewTabs>>
      BY <1>7 DEF Sweep, Redeliver, Enqueue, entries, tabs, llmJob
    <2> QED BY <1>3, <1>4, <2>1
  <1>8. ASSUME NEW s \in Records, WriteClassified(s)
        PROVE  OneEntry(r)' /\ Reviewed(r)' /\ Stands(r)'
    <2>1. /\ UNCHANGED <<rows, quarantine, page, reviewTabs>> /\ queued[s] > 0
          /\ Patch(s, "nlp", review[s], action[s])
      BY <1>8 DEF WriteClassified, Handled, entries, tabs, llmJob
    <2>2. r = s => action[r] # "overridden"
      BY <1>0, <2>1 DEF Reviewed
    <2>3. review'[r] = review[r] /\ action'[r] = action[r] /\ (r # s => soc'[r] = soc[r])
      BY <2>1, PatchRest
    <2> QED BY <1>0, <1>1, <1>2, <1>4, <2>1, <2>2, <2>3 DEF Stands
  <1>9. ASSUME NEW s \in Records, WriteQuarantined(s)
        PROVE  OneEntry(r)' /\ Reviewed(r)' /\ Stands(r)'
    <2>1. /\ UNCHANGED <<rows, table, page, reviewTabs>> /\ Insert(s, "low") /\ queued[s] > 0
          /\ queued' = [queued EXCEPT ![s] = @ - 1] /\ UNCHANGED enqueued
      BY <1>9 DEF WriteQuarantined, Handled, tabs, llmJob
    <2>2. CASE r # s
      BY <1>3, <1>5, <2>1, <2>2
    <2>3. CASE r = s
      <3>1. queued'[r] = 0
        BY <1>0, <2>1, <2>3 DEF OverrideInv, Delivered, TypeOK
      <3>2. Low(r) = {}
        BY <1>0, <2>1, <2>3 DEF OneEntry
      <3>3. \A q \in quarantine' : q \in quarantine \/ q.id = lastId'
        BY <2>1, InsertType
      <3>4. \A q \in Low(r)' : q.id = lastId'
        BY <2>1, <3>2, <3>3 DEF Low
      <3>5. ~(review'[r] \/ r \in reviewTabs' \/ action'[r] = "overridden")
        <4>1. ~(review[r] \/ r \in reviewTabs \/ action[r] = "overridden")
          BY <1>0, <2>1, <2>3 DEF Reviewed
        <4> QED BY <2>1, <4>1 DEF table
      <3>6. OneEntry(r)'
        BY <3>1, <3>4 DEF OneEntry
      <3> QED BY <3>5, <3>6 DEF Reviewed, Stands
    <2> QED BY <2>2, <2>3
  <1>10. CASE ClearYear
    <2>1. /\ UNCHANGED <<quarantine, page, reviewTabs>> /\ rows' = {}
          /\ review'[r] = FALSE /\ action'[r] = "none"
      BY <1>10 DEF ClearYear, entries, tabs, llmJob
    <2> QED BY <1>1, <1>2, <1>4, <2>1
  <1>11. ASSUME NEW s \in Records, OpenReview(s)
         PROVE  OneEntry(r)' /\ Reviewed(r)' /\ Stands(r)'
    <2>1. /\ UNCHANGED <<rows, table, quarantine, page>> /\ review[s]
          /\ reviewTabs' = reviewTabs \union {s}
      BY <1>11 DEF OpenReview, entries, llmJob
    <2>2. /\ review' = review /\ action' = action /\ soc' = soc
          /\ (r \in reviewTabs' => r \in reviewTabs \/ review[r])
      BY <2>1 DEF table
    <2> QED BY <1>0, <1>1, <1>2, <1>4, <2>1, <2>2 DEF Stands
  <1>12. ASSUME NEW s \in Records, Accept(s) \/ Override(s)
         PROVE  OneEntry(r)' /\ Reviewed(r)' /\ Stands(r)'
    <2>1. /\ UNCHANGED <<rows, quarantine, page, reviewTabs>> /\ s \in reviewTabs
          /\ \/ Patch(s, soc[s], FALSE, "accepted")
             \/ Patch(s, "operator", FALSE, "overridden")
      BY <1>12 DEF Accept, Override, Submitted, entries, tabs, llmJob
    <2>2. \/ r = s /\ review'[r] = FALSE /\ (action'[r] = "overridden" => soc'[r] = "operator")
          \/ soc'[r] = soc[r] /\ review'[r] = review[r] /\ action'[r] = action[r]
      <3> DEFINE code == soc[s]
      <3>1. CASE Patch(s, code, FALSE, "accepted")
        <4>1. \/ r = s /\ review'[r] = FALSE /\ action'[r] = "accepted"
              \/ soc'[r] = soc[r] /\ review'[r] = review[r] /\ action'[r] = action[r]
          <5> HIDE DEF code
          <5> QED BY <3>1, PatchClears, ZenonT(30)
        <4> QED BY <4>1
      <3>2. CASE Patch(s, "operator", FALSE, "overridden")
        BY <3>2, PatchClears, ZenonT(30)
      <3> QED BY <2>1, <3>1, <3>2
    <2>3. Low(r)' \subseteq Low(r)
      BY <1>4, <2>1
    <2>4. r = s => queued[r] = 0 /\ Low(r) = {}
      BY <1>0, <2>1 DEF Reviewed
    <2> QED BY <1>0, <1>1, <1>2, <2>1, <2>2, <2>3, <2>4 DEF Stands
  <1>13. ASSUME NEW s \in Records, Reject(s)
         PROVE  OneEntry(r)' /\ Reviewed(r)' /\ Stands(r)'
    <2>1. /\ UNCHANGED <<rows, page, reviewTabs>> /\ Insert(s, "rejected")
          /\ Patch(s, "null", FALSE, "rejected_to_quarantine")
      BY <1>13 DEF Reject, Submitted, tabs, llmJob
    <2>2. \/ review'[r] = FALSE /\ action'[r] = "rejected_to_quarantine"
          \/ soc'[r] = soc[r] /\ review'[r] = review[r] /\ action'[r] = action[r]
      BY <2>1, PatchClears, ZenonT(30)
    <2> QED BY <1>0, <1>1, <1>2, <1>5, <2>1, <2>2 DEF Stands
  <1>14. ASSUME NEW q \in quarantine, Assign(q) \/ Drop(q)
         PROVE  OneEntry(r)' /\ Reviewed(r)' /\ Stands(r)'
    <2>1. /\ UNCHANGED <<rows, page, reviewTabs>> /\ (Close(q, "assigned") \/ Close(q, "dropped"))
          /\ (Patch(q.rec, "operator", FALSE, "quarantine_assigned") \/ UNCHANGED table)
      BY <1>14 DEF Assign, Drop, Submitted, tabs, llmJob
    <2>2. q.rec \in Records
      BY DEF TypeOK, Entry
    <2>3. \/ review'[r] = FALSE /\ action'[r] = "quarantine_assigned"
          \/ soc'[r] = soc[r] /\ review'[r] = review[r] /\ action'[r] = action[r]
      <3>1. CASE Patch(q.rec, "operator", FALSE, "quarantine_assigned")
        <4>1. ASSUME NEW s \in Records, Patch(s, "operator", FALSE, "quarantine_assigned")
              PROVE  \/ review'[r] = FALSE /\ action'[r] = "quarantine_assigned"
                     \/ soc'[r] = soc[r] /\ review'[r] = review[r] /\ action'[r] = action[r]
          BY <4>1, PatchClears, ZenonT(30)
        <4> QED BY <2>2, <3>1, <4>1
      <3>2. CASE UNCHANGED table
        BY <3>2 DEF table
      <3> QED BY <2>1, <3>1, <3>2
    <2>4. \A p \in Low(r)' : \E o \in Low(r) : o.id = p.id
      BY <1>6, <2>1
    <2> QED BY <1>0, <1>1, <2>1, <2>3, <2>4 DEF Stands
  <1>15. ASSUME \/ (\E q \in quarantine : OpenEntry(q)) \/ CloseTabs
                \/ StartLlm \/ EndLlm \/ FetchBatch \/ (\E e \in page : PassOver(e))
         PROVE  OneEntry(r)' /\ Reviewed(r)' /\ Stands(r)'
    <2>1. UNCHANGED <<rows, table, quarantine>> /\ reviewTabs' \subseteq reviewTabs
      BY <1>15 DEF OpenEntry, CloseTabs, StartLlm, EndLlm, FetchBatch, PassOver, ComeTo, entries, tabs
    <2>2. page' \subseteq page \union quarantine
      <3>1. CASE FetchBatch
        <4>1. PICK batch \in SUBSET Eligible : page' = batch
          BY <3>1 DEF FetchBatch
        <4> QED BY <4>1 DEF Eligible
      <3> QED BY <1>15, <3>1 DEF OpenEntry, CloseTabs, StartLlm, EndLlm, PassOver, ComeTo, llmJob
    <2>3. Low(r)' \subseteq Low(r)
      BY <2>1, <2>2 DEF Low
    <2> QED BY <1>3, <2>1, <2>3
  <1>16. ASSUME NEW e \in page, NEW flagged \in BOOLEAN, WriteBack(e, flagged)
         PROVE  OneEntry(r)' /\ Reviewed(r)' /\ Stands(r)'
    <2>1. /\ UNCHANGED <<rows, reviewTabs>> /\ page' = page \ {e}
          /\ quarantine' = {q \in quarantine : q.id # e.id}
          /\ Patch(e.rec, "llm", review[e.rec] \/ flagged, action[e.rec])
      BY <1>16 DEF WriteBack, ComeTo, tabs
    <2>2. e.rec \in Records /\ e.kind = "low"
      BY DEF TypeOK, Entry, PageSound
    <2>3. Low(r)' \subseteq Low(r)
      BY <2>1 DEF Low
    <2>4. CASE e.rec # r
      <3>1. soc'[r] = soc[r] /\ review'[r] = review[r] /\ action'[r] = action[r]
        BY <2>1, <2>2, <2>4, PatchRest
      <3> QED BY <1>0, <1>1, <1>2, <2>1, <2>3, <3>1 DEF Stands
    <2>5. CASE e.rec = r
      <3>1. e \in Low(r)
        BY <2>2, <2>5 DEF Low
      <3>2. queued[r] = 0 /\ action[r] # "overridden"
        BY <1>0, <3>1 DEF OneEntry, Reviewed
      <3>3. Low(r)' = {}
        <4> SUFFICES ASSUME NEW p \in Low(r)' PROVE FALSE
          OBVIOUS
        <4>1. p.id = e.id
          BY <1>0, <2>3, <3>1 DEF OneEntry
        <4>2. p \in page \ {e}
          BY <2>1, <4>1 DEF Low
        <4> QED BY <4>1, <4>2 DEF PageSound
      <3>4. action'[r] # "overridden"
        BY <2>1, <2>2, <2>5, <3>2, PatchRest
      <3>5. queued'[r] = 0
        BY <1>0, <3>2
      <3>6. OneEntry(r)'
        BY <3>3, <3>5 DEF OneEntry
      <3> QED BY <3>3, <3>4, <3>5, <3>6 DEF Reviewed, Stands
    <2> QED BY <2>4, <2>5
  <1> QED BY <1>7, <1>8, <1>9, <1>10, <1>11, <1>12, <1>13, <1>14, <1>15, <1>16, Steps

\* An operator's override of a review stands against workers, the LLM job and
\* the other operators' forms until an operator changes it, for every row that
\* was delivered to a worker once.
THEOREM OverridesStand == Spec => []OverrideStands
  <1>1. HitlAssumption /\ Init => OverrideInv
    BY DEF Init, OverrideInv, Delivered, OneEntry, Reviewed, Stands, Low
  <1>2. HitlAssumption /\ IInv /\ OverrideInv /\ [Next]_vars => OverrideInv'
    <2>1. ASSUME OverrideInv, UNCHANGED vars
          PROVE  OverrideInv'
      BY <2>1 DEF OverrideInv, Delivered, OneEntry, Reviewed, Stands, Low, vars, table, entries,
                  jobs, tabs, llmJob
    <2> QED BY <2>1, OverrideStep DEF IInv
  <1>3. IInv /\ OverrideInv => OverrideStands
    BY DEF IInv, TypeOK, OverrideInv, Stands, OverrideStands
  <1> QED BY <1>1, <1>2, <1>3, InvariantHolds, HitlAssumption, PTL DEF Spec
=============================================================================
