---------------------------- MODULE WritesProofs ----------------------------
(* Proofs about the parts of the application (Application.tla) that write or  *)
(* send: each does what was asked, once, whoever else is at it; and about a   *)
(* caller's transaction by itself.                                            *)
EXTENDS Application, FiniteSetTheorems, WellFoundedInduction, TLAPS

-----------------------------------------------------------------------------
(* Pivot rows *)

\* A row that no call was to detach is one that none of those under way will.
KeepsRetained(c) ==
    /\ \A l \in links : l.number \in retained => l.id \notin Unwanted(c.kind, DOMAIN c.wanted)
    /\ \A i \in DOMAIN c.wanted : c.wanted[i] # NoNote => i \in noted
    /\ c.kind # "sync" => c.todo \subseteq DOMAIN c.wanted

\* What a call that nothing interleaved with has not come to yet is as it read it, and what
\* it has done is as it wanted it.
DoneSoFar(c) ==
    LET wants == DOMAIN c.wanted
        has == Attached(c.existing)
    IN  /\ \A l \in Links : l.id \in c.todo => (l \in links <=> l \in c.existing)
        /\ \A i \in Ids \ c.todo :
              i \in Attached(links) <=> i \in (has \cup wants) \ (has \cap Unwanted(c.kind, wants))
        /\ \A l \in links : l.id \in wants \ c.todo /\ Single(c.existing, l.id) =>
              c.wanted[l.id] \in {NoNote, l.note}

LinkInv ==
    /\ \A n \in retained :
          n <= inserted /\ \E l \in links : l.number = n /\ (l.note # NoNote => l.id \in noted)
    /\ \A e \in Editors : Busy(e) => KeepsRetained(edit[e]) /\ (edit[e].alone => DoneSoFar(edit[e]))

PivotInv == PivotTypeOK /\ LinkInv

\* The pivot rows at the start.
LEMMA PivotBegins == PivotInit => PivotInv
<1> SUFFICES ASSUME PivotInit PROVE PivotInv
  OBVIOUS
<1> USE PivotAssumption
<1>0. PICK n \in 0..MaxOld : \E old \in [1..n -> Ids \X (Notes \cup {NoNote})] :
          /\ links = {[id |-> old[k][1], note |-> old[k][2], number |-> k] : k \in 1..n}
          /\ noted = {i \in Ids : \E k \in 1..n : old[k][1] = i /\ old[k][2] # NoNote}
          /\ inserted = n
  BY DEF PivotInit
<1>1. PICK old \in [1..n -> Ids \X (Notes \cup {NoNote})] :
          /\ links = {[id |-> old[k][1], note |-> old[k][2], number |-> k] : k \in 1..n}
          /\ noted = {i \in Ids : \E k \in 1..n : old[k][1] = i /\ old[k][2] # NoNote}
          /\ inserted = n
  BY <1>0
<1>2. \A k \in 1..n : k \in 1..MaxLinks /\ old[k][1] \in Ids /\ old[k][2] \in Notes \cup {NoNote}
  BY <1>1
<1>3. \A k \in 1..n : [id |-> old[k][1], note |-> old[k][2], number |-> k] \in Links
  BY <1>2 DEF Links
<1>4. links \subseteq Links /\ inserted \in 0..MaxLinks /\ noted \subseteq Ids
  BY <1>1, <1>3
<1>5. \A e \in Editors : ~Busy(e)
  BY DEF PivotInit, Busy, Outside
<1>6. edit \in [Editors -> Edits \cup Outside]
  BY DEF PivotInit, Outside
<1>7. \A m \in retained : m <= inserted /\ \E l \in links : l.number = m /\ (l.note # NoNote => l.id \in noted)
  <2>1. ASSUME NEW m \in retained PROVE m <= inserted /\ \E l \in links : l.number = m /\ (l.note # NoNote => l.id \in noted)
    <3>1. PICK k \in 1..n : m = k
      BY <1>1 DEF PivotInit
    <3>2. [id |-> old[k][1], note |-> old[k][2], number |-> k] \in links
      BY <1>1
    <3>3. old[k][2] # NoNote => old[k][1] \in noted
      BY <1>1, <1>2
    <3> QED BY <1>1, <3>1, <3>2, <3>3
  <2> QED BY <2>1
<1>8. retained \subseteq 1..MaxLinks
  BY <1>4 DEF PivotInit, Links
<1> QED BY <1>4, <1>5, <1>6, <1>7, <1>8 DEF PivotInv, PivotTypeOK, LinkInv

\* Calls that edit a relation, as their reads and writes interleave (relations.py).
LEMMA PivotNext == PivotInv /\ [PivotStep]_pivotVars => PivotInv'
<1> SUFFICES ASSUME PivotInv, [PivotStep]_pivotVars PROVE PivotInv'
  OBVIOUS
<1> USE PivotAssumption
<1>t. PivotTypeOK /\ LinkInv
  BY DEF PivotInv
<1>i. \A e \in Editors : Busy(e) => edit[e] \in Edits
  BY <1>t DEF PivotTypeOK, Busy
<1>1. ASSUME NEW e \in Editors, EditEnds(e) PROVE PivotInv'
  <2>1. edit' \in [Editors -> Edits \cup Outside] /\ ~Busy(e)'
        /\ \A d \in Editors \ {e} : edit'[d] = edit[d]
    BY <1>1, <1>t DEF EditEnds, PivotTypeOK, Outside, Busy
  <2>2. PivotTypeOK'
    BY <1>1, <1>t, <2>1 DEF EditEnds, PivotTypeOK
  <2>3. LinkInv'
    <3>1. ASSUME NEW d \in Editors, Busy(d)' PROVE KeepsRetained(edit[d])' /\ (edit'[d].alone => DoneSoFar(edit[d])')
      <4>1. d # e /\ edit'[d] = edit[d] /\ Busy(d)
        BY <2>1, <3>1 DEF Busy
      <4>2. KeepsRetained(edit[d]) /\ (edit[d].alone => DoneSoFar(edit[d]))
        BY <1>t, <4>1 DEF LinkInv
      <4> QED BY <1>1, <4>1, <4>2 DEF EditEnds, KeepsRetained, DoneSoFar, Attached
    <3> QED BY <1>1, <1>t, <3>1 DEF LinkInv, EditEnds
  <2> QED BY <2>2, <2>3 DEF PivotInv
<1>2. ASSUME NEW e \in Editors, NEW kind \in {"sync", "merge", "toggle"}, NEW wanted \in Wishes,
             StartEdit(e, kind, wanted)
      PROVE  PivotInv'
  <2> DEFINE ids == DOMAIN wanted
  <2>0. PICK new :
            new = [kind |-> kind, wanted |-> wanted, existing |-> links,
                   todo |-> IF kind = "sync" THEN ids \cup Attached(links) ELSE ids,
                   alone |-> \A d \in Editors : ~Busy(d)]
    OBVIOUS
  <2>1. /\ edit' = [edit EXCEPT ![e] = new]
        /\ noted' = noted \cup {i \in ids : wanted[i] # NoNote}
        /\ retained' = retained \ {l.number : l \in links \ Without(links, Unwanted(kind, ids))}
        /\ links' = links /\ inserted' = inserted
    BY <1>2, <2>0 DEF StartEdit
  <2>2. ids \subseteq Ids /\ Attached(links) \subseteq Ids
    BY <1>t DEF Wishes, Attached, PivotTypeOK, Links
  <2>3. new \in Edits
    BY <1>t, <2>0, <2>2 DEF Edits, PivotTypeOK
  <2>4. edit' \in [Editors -> Edits \cup Outside] /\ edit'[e] = new
        /\ \A d \in Editors \ {e} : edit'[d] = edit[d]
    BY <1>t, <2>1, <2>3 DEF PivotTypeOK
  <2>5. PivotTypeOK'
    BY <1>t, <2>1, <2>2, <2>4 DEF PivotTypeOK
  <2>6. /\ new.kind = kind /\ new.wanted = wanted /\ new.existing = links
        /\ new.todo = IF kind = "sync" THEN ids \cup Attached(links) ELSE ids
    BY <2>0
  <2>7. KeepsRetained(new)'
    BY <2>1, <2>6 DEF KeepsRetained, Without
  <2>8. DoneSoFar(new)'
    <3>1. \A l \in Links : l \in links' <=> l \in new.existing
      BY <2>1, <2>6
    <3>2. \A i \in Ids \ new.todo : i \in Attached(links) <=>
              i \in (Attached(links) \cup ids) \ (Attached(links) \cap Unwanted(kind, ids))
      BY <2>6 DEF Unwanted
    <3>3. ids \subseteq new.todo
      BY <2>6
    <3>4. Attached(links)' = Attached(links)
      BY <2>1 DEF Attached
    <3> QED BY <2>1, <2>6, <3>1, <3>2, <3>3, <3>4 DEF DoneSoFar
  <2>9. ASSUME NEW d \in Editors, Busy(d)' PROVE KeepsRetained(edit[d])' /\ (edit'[d].alone => DoneSoFar(edit[d])')
    <3>1. CASE d = e
      BY <2>4, <2>7, <2>8, <3>1 DEF KeepsRetained, DoneSoFar
    <3>2. CASE d # e
      <4>1. edit'[d] = edit[d] /\ Busy(d)
        BY <2>4, <2>9, <3>2 DEF Busy
      <4>2. KeepsRetained(edit[d]) /\ (edit[d].alone => DoneSoFar(edit[d]))
        BY <1>t, <4>1 DEF LinkInv
      <4>3. retained' \subseteq retained /\ noted \subseteq noted'
        BY <2>1
      <4> QED BY <2>1, <4>1, <4>2, <4>3 DEF KeepsRetained, DoneSoFar, Attached
    <3> QED BY <3>1, <3>2
  <2>10. \A n \in retained' :
            n <= inserted' /\ \E l \in links' : l.number = n /\ (l.note # NoNote => l.id \in noted')
    BY <1>t, <2>1 DEF LinkInv
  <2> QED BY <2>5, <2>9, <2>10 DEF PivotInv, LinkInv
<1>3. ASSUME NEW e \in Editors, NEW i \in Ids, EditNext(e, i) PROVE PivotInv'
  <2> DEFINE call == edit[e]
             wants == DOMAIN call.wanted
             has == Attached(call.existing)
             unwanted == Unwanted(call.kind, wants)
  <2>1. /\ Busy(e) /\ i \in call.todo
        /\ \/ i \in wants \ has /\ Attach(i, call.wanted[i])
           \/ i \in has /\ i \in unwanted /\ Detach(i)
           \/ i \in has \ unwanted /\ UpdateExisting(i, call.wanted[i], call.existing)
        /\ i \in wants \/ call.todo \cap wants = {}
        /\ edit' = [d \in Editors |->
                      IF d = e THEN [call EXCEPT !.todo = @ \ {i}]
                      ELSE IF Busy(d) THEN [edit[d] EXCEPT !.alone = FALSE] ELSE edit[d]]
        /\ retained' = retained /\ noted' = noted
    BY <1>3 DEF EditNext
  <2>2. call \in Edits
    BY <1>i, <2>1
  <2>3. call.wanted \in Wishes /\ wants \subseteq Ids /\ \A j \in wants : call.wanted[j] \in Notes \cup {NoNote}
    BY <2>2 DEF Edits, Wishes
  <2>4. call.existing \subseteq Links /\ call.todo \subseteq Ids /\ call.kind \in {"sync", "merge", "toggle"}
    BY <2>2 DEF Edits
  <2>5. KeepsRetained(call) /\ (call.alone => DoneSoFar(call))
    BY <1>t, <2>1 DEF LinkInv
  <2>6. i \in has \ unwanted => i \in wants
    BY <2>1, <2>4, <2>5 DEF KeepsRetained, Unwanted
  \* The rows of other ids stay, and of this id
  <2>7. /\ links' \subseteq Links /\ inserted' \in 0..MaxLinks /\ inserted <= inserted'
        /\ \A l \in Links : l.id # i => (l \in links' <=> l \in links)
        /\ \A k \in links' : k.number \in retained =>
              \E l \in links : l.number = k.number /\ l.id = k.id
        /\ \A l \in links : l.number \in retained =>
              \E k \in links' : /\ k.number = l.number /\ k.id = l.id
                                /\ k.note = l.note \/ k.id \in noted
    <3>1. CASE i \in wants \ has /\ Attach(i, call.wanted[i])
      <4> DEFINE new == [id |-> i, note |-> call.wanted[i], number |-> inserted + 1]
      <4>1. links' = links \cup {new} /\ inserted' = inserted + 1 /\ inserted < MaxLinks
        BY <3>1 DEF Attach
      <4>2. new \in Links /\ new.id = i
        BY <1>t, <2>3, <3>1, <4>1 DEF Links, PivotTypeOK
      <4>3. new.number \notin retained
        BY <1>t DEF LinkInv, PivotTypeOK
      <4> HIDE DEF new
      <4> QED BY <1>t, <4>1, <4>2, <4>3 DEF PivotTypeOK
    <3>2. CASE i \in has /\ i \in unwanted /\ Detach(i)
      <4>1. links' = {l \in links : l.id # i} /\ inserted' = inserted
        BY <3>2 DEF Detach, Without
      <4>2. \A l \in links : l.number \in retained => l.id # i
        BY <2>5, <3>2 DEF KeepsRetained
      <4> QED BY <1>t, <4>1, <4>2 DEF PivotTypeOK
    <3>3. CASE i \in has \ unwanted /\ UpdateExisting(i, call.wanted[i], call.existing)
      <4> DEFINE note == call.wanted[i]
                 now(k) == IF k.id = i THEN [k EXCEPT !.note = note] ELSE k
      <4>1. inserted' = inserted /\ (links' = links \/ (note # NoNote /\ links' = {now(k) : k \in links}))
        BY <3>3 DEF UpdateExisting
      <4>2. \A k \in Links : now(k) \in Links /\ now(k).id = k.id /\ now(k).number = k.number
                             /\ (now(k).note = k.note \/ (k.id = i /\ now(k).note = note))
                             /\ (k.id # i => now(k) = k)
        BY <2>3, <2>6, <3>3 DEF Links
      <4>3. note # NoNote => i \in noted
        BY <2>5, <2>6, <3>3 DEF KeepsRetained
      <4>4. links \subseteq Links
        BY <1>t DEF PivotTypeOK
      <4> HIDE DEF now, note
      <4>5. CASE links' = links
        BY <1>t, <4>1, <4>5 DEF PivotTypeOK
      <4>6. CASE note # NoNote /\ links' = {now(k) : k \in links}
        <5>1. \A k \in links : now(k) \in links' /\ now(k) \in Links
          BY <4>2, <4>4, <4>6
        <5>2. \A l \in links' : \E k \in links : l = now(k)
          BY <4>6
        <5>3. \A l \in Links : l.id # i => (l \in links' <=> l \in links)
          BY <4>2, <4>4, <5>1, <5>2
        <5>4. links' \subseteq Links
          BY <5>1, <5>2
        <5>5. \A k \in links' : k.number \in retained =>
                 \E l \in links : l.number = k.number /\ l.id = k.id
          BY <4>2, <4>4, <5>2
        <5>6. \A l \in links : l.number \in retained =>
                 \E k \in links' : /\ k.number = l.number /\ k.id = l.id
                                   /\ k.note = l.note \/ k.id \in noted
          BY <4>2, <4>3, <4>4, <4>6, <5>1
        <5> QED BY <1>t, <4>1, <5>3, <5>4, <5>5, <5>6 DEF PivotTypeOK
      <4> QED BY <4>1, <4>5, <4>6
    <3> QED BY <2>1, <3>1, <3>2, <3>3
  \* are as the call wants it.
  <2>8. call.alone =>
          /\ i \in Attached(links') <=> i \in (has \cup wants) \ (has \cap unwanted)
          /\ i \in wants /\ Single(call.existing, i) =>
                \A l \in links' : l.id = i => call.wanted[i] \in {NoNote, l.note}
    <3> SUFFICES ASSUME call.alone
                 PROVE  /\ i \in Attached(links') <=> i \in (has \cup wants) \ (has \cap unwanted)
                        /\ i \in wants /\ Single(call.existing, i) =>
                              \A l \in links' : l.id = i => call.wanted[i] \in {NoNote, l.note}
      OBVIOUS
    <3>1. links \subseteq Links /\ \A l \in Links : l.id = i => (l \in links <=> l \in call.existing)
      BY <1>t, <2>1, <2>5 DEF DoneSoFar, PivotTypeOK
    <3>2. CASE i \in wants \ has /\ Attach(i, call.wanted[i])
      <4> DEFINE new == [id |-> i, note |-> call.wanted[i], number |-> inserted + 1]
      <4>1. links' = links \cup {new} /\ new.id = i /\ new.note = call.wanted[i]
        BY <3>2 DEF Attach
      <4>2. \A l \in links : l.id # i
        BY <2>4, <3>1, <3>2 DEF Attached
      <4> HIDE DEF new
      <4> QED BY <3>2, <4>1, <4>2 DEF Attached
    <3>3. CASE i \in has /\ i \in unwanted /\ Detach(i)
      <4>1. links' = {l \in links : l.id # i}
        BY <3>3 DEF Detach, Without
      <4> QED BY <3>3, <4>1 DEF Attached
    <3>4. CASE i \in has \ unwanted /\ UpdateExisting(i, call.wanted[i], call.existing)
      <4> DEFINE note == call.wanted[i]
                 now(k) == IF k.id = i THEN [k EXCEPT !.note = note] ELSE k
      <4>1. PICK l \in call.existing : l.id = i /\ links' = IF note \in {NoNote, l.note} THEN links
                                                            ELSE {now(k) : k \in links}
        BY <3>4 DEF UpdateExisting
      <4>2. l \in links
        BY <2>4, <3>1, <4>1
      <4>3. \A k \in links : now(k).id = k.id /\ (k.id = i => now(k).note = note)
        BY <3>1 DEF Links
      <4> HIDE DEF now
      <4>4. CASE note \in {NoNote, l.note}
        <5>1. Single(call.existing, i) => \A k \in links : k.id = i => k = l
          BY <3>1, <4>1, <4>2 DEF Single
        <5>2. i \in Attached(links')
          BY <4>1, <4>2, <4>4 DEF Attached
        <5> QED BY <3>4, <4>1, <4>4, <5>1, <5>2
      <4>5. CASE note \notin {NoNote, l.note}
        <5>1. links' = {now(k) : k \in links}
          BY <4>1, <4>5
        <5>2. now(l) \in links' /\ now(l).id = i
          BY <4>1, <4>2, <4>3, <5>1
        <5>3. i \in Attached(links')
          BY <5>2 DEF Attached
        <5>4. \A k \in links' : k.id = i => k.note = note
          BY <4>3, <5>1
        <5> QED BY <3>4, <5>3, <5>4
      <4> QED BY <4>4, <4>5
    <3> QED BY <2>1, <3>2, <3>3, <3>4
  <2>20. PICK next : next = [call EXCEPT !.todo = call.todo \ {i}]
    OBVIOUS
  <2>9. /\ next \in Edits /\ next.kind = call.kind /\ next.wanted = call.wanted
        /\ next.existing = call.existing /\ next.todo = call.todo \ {i} /\ next.alone = call.alone
    BY <2>2, <2>20 DEF Edits
  <2>10. edit'[e] = next
    BY <2>1, <2>20
  <2>11. ASSUME NEW d \in Editors \ {e}
         PROVE  /\ edit'[d] \in Edits \cup Outside
                /\ Busy(d) => /\ Busy(d)' /\ edit'[d].kind = edit[d].kind /\ edit'[d].wanted = edit[d].wanted
                              /\ edit'[d].todo = edit[d].todo /\ ~edit'[d].alone
                /\ ~Busy(d) => edit'[d] = edit[d] /\ ~Busy(d)'
    <3>1. CASE Busy(d)
      <4>1. edit[d] \in Edits /\ edit'[d] = [edit[d] EXCEPT !.alone = FALSE]
        BY <1>i, <2>1, <3>1
      <4>2. edit'[d] \in Edits /\ edit'[d].kind = edit[d].kind /\ edit'[d].wanted = edit[d].wanted
            /\ edit'[d].todo = edit[d].todo /\ edit'[d].alone = FALSE
        BY <4>1 DEF Edits
      <4>3. Busy(d)'
        BY <4>2 DEF Busy, Outside, Edits
      <4> QED BY <3>1, <4>2, <4>3
    <3>2. CASE ~Busy(d)
      <4>1. edit'[d] = edit[d]
        BY <2>1, <3>2
      <4> QED BY <3>2, <4>1 DEF Busy
    <3> QED BY <3>1, <3>2
  <2>12. edit' \in [Editors -> Edits \cup Outside]
    <3>1. edit'[e] \in Edits \cup Outside
      BY <2>9, <2>10
    <3>2. \A d \in Editors : edit'[d] \in Edits \cup Outside
      BY <2>11, <3>1
    <3>3. edit' = [d \in Editors |-> edit'[d]]
      BY <2>1
    <3> QED BY <3>2, <3>3
  <2>13. PivotTypeOK'
    BY <1>t, <2>1, <2>7, <2>12 DEF PivotTypeOK
  <2>14. \A c : KeepsRetained(c) => KeepsRetained(c)'
    BY <2>1, <2>7 DEF KeepsRetained
  <2>15. KeepsRetained(next)'
    BY <2>1, <2>5, <2>7, <2>9 DEF KeepsRetained
  <2>16. next.alone => DoneSoFar(next)'
    <3> SUFFICES ASSUME call.alone PROVE DoneSoFar(next)'
      BY <2>9
    <3>1. links \subseteq Links /\ links' \subseteq Links
      BY <1>t, <2>7 DEF PivotTypeOK
    <3>2. DoneSoFar(call)
      BY <2>5
    <3>3. \A l \in Links : l.id \in next.todo => (l \in links' <=> l \in next.existing)
      BY <2>7, <2>9, <3>2 DEF DoneSoFar
    <3>4. \A j \in Ids \ {i} : j \in Attached(links') <=> j \in Attached(links)
      BY <2>7, <3>1 DEF Attached
    <3>5. \A j \in Ids \ next.todo :
             j \in Attached(links') <=> j \in (has \cup wants) \ (has \cap unwanted)
      BY <2>8, <2>9, <3>2, <3>4 DEF DoneSoFar
    <3>6. \A l \in links' : l.id \in wants \ next.todo /\ Single(call.existing, l.id) =>
              call.wanted[l.id] \in {NoNote, l.note}
      BY <2>7, <2>8, <2>9, <3>1, <3>2 DEF DoneSoFar
    <3> QED BY <2>9, <3>3, <3>5, <3>6 DEF DoneSoFar, Attached
  <2>17. ASSUME NEW d \in Editors, Busy(d)' PROVE KeepsRetained(edit[d])' /\ (edit'[d].alone => DoneSoFar(edit[d])')
    <3>1. CASE d = e
      BY <2>10, <2>15, <2>16, <3>1 DEF KeepsRetained, DoneSoFar
    <3>2. CASE d # e
      <4>1. KeepsRetained(edit[d])
        BY <1>t, <2>11, <2>17, <3>2 DEF LinkInv
      <4>2. KeepsRetained(edit[d])'
        BY <2>1, <2>7, <2>11, <2>17, <3>2, <4>1 DEF KeepsRetained
      <4> QED BY <2>11, <2>17, <3>2, <4>2
    <3> QED BY <3>1, <3>2
  <2>18. \A n \in retained' :
            n <= inserted' /\ \E l \in links' : l.number = n /\ (l.note # NoNote => l.id \in noted')
    <3>1. ASSUME NEW n \in retained
          PROVE  n <= inserted' /\ \E l \in links' : l.number = n /\ (l.note # NoNote => l.id \in noted)
      <4>1. PICK l \in links : l.number = n /\ (l.note # NoNote => l.id \in noted)
        BY <1>t DEF LinkInv
      <4>2. PICK k \in links' : k.number = n /\ k.id = l.id /\ (k.note = l.note \/ k.id \in noted)
        BY <2>7, <4>1
      <4>3. n <= inserted /\ n \in Nat /\ inserted \in Nat /\ inserted' \in Nat
        BY <1>t, <2>7 DEF LinkInv, PivotTypeOK
      <4> QED BY <2>7, <4>1, <4>2, <4>3
    <3> QED BY <2>1, <3>1
  <2> QED BY <2>13, <2>17, <2>18 DEF PivotInv, LinkInv
<1>4. CASE UNCHANGED pivotVars
  BY <1>t, <1>4 DEF pivotVars, PivotInv, PivotTypeOK, LinkInv, Busy, KeepsRetained, DoneSoFar, Attached
<1> QED BY <1>1, <1>2, <1>3, <1>4 DEF PivotStep

\* What the links promise follows.
LEMMA PivotSafe == PivotInv => LinksKept
<1> SUFFICES ASSUME PivotInv PROVE LinksKept
  OBVIOUS
<1>1. RetainedSurvive
  BY DEF PivotInv, LinkInv, RetainedSurvive
<1>2. ExactAlone
  <2> SUFFICES ASSUME NEW e \in Editors, Busy(e), edit[e].todo = {}, edit[e].alone
               PROVE  LET wants == DOMAIN edit[e].wanted
                          has == Attached(edit[e].existing)
                      IN  /\ Attached(links) = (has \cup wants) \ (has \cap Unwanted(edit[e].kind, wants))
                          /\ \A l \in links : l.id \in wants /\ Single(edit[e].existing, l.id) =>
                                 edit[e].wanted[l.id] \in {NoNote, l.note}
    BY DEF ExactAlone
  <2>1. DoneSoFar(edit[e]) /\ edit[e] \in Edits /\ links \subseteq Links
    BY DEF PivotInv, PivotTypeOK, LinkInv, Busy
  <2>2. DOMAIN edit[e].wanted \subseteq Ids /\ Attached(edit[e].existing) \subseteq Ids /\ Attached(links) \subseteq Ids
    BY <2>1 DEF Edits, Wishes, Attached, Links
  <2> QED BY <2>1, <2>2 DEF DoneSoFar
<1> QED BY <1>1, <1>2 DEF LinksKept

-----------------------------------------------------------------------------
(* A row and its instances *)

\* An instance differs from its originals in a title it was assigned, and in the counter only
\* once an increment failed.
StaleInv ==
    /\ attrs \in [Instances -> Rows] /\ orig \in [Instances -> Rows]
    /\ \A i \in Instances :
          /\ attrs[i].title # orig[i].title => i \in assigned
          /\ attrs[i].hits # orig[i].hits => broken

RowInv == RecordsTypeOK /\ StaleInv /\ NothingClobbered

\* The row and its instances at the start.
LEMMA RecordsBegin == RecordsInit => RowInv
<1> SUFFICES ASSUME RecordsInit PROVE RowInv
  OBVIOUS
<1>1. /\ row \in Rows /\ row = [title |-> titled, hits |-> 0, trashed |-> FALSE]
      /\ titled \in Titles /\ counted = 0 /\ broken = FALSE
  BY DEF RecordsInit, Rows
<1>2. attrs = [i \in Instances |-> row] /\ orig = attrs /\ exists = Instances /\ assigned = {}
  BY DEF RecordsInit
<1>3. \A i \in Instances : attrs[i] = row /\ orig[i] = row
  BY <1>2
<1>4. attrs \in [Instances -> Rows] /\ orig \in [Instances -> Rows]
  BY <1>1, <1>2
<1> QED BY <1>1, <1>2, <1>3, <1>4 DEF RowInv, RecordsTypeOK, StaleInv, NothingClobbered

\* Loads, saves, increments and soft deletes of the instances of one row (model.py).
LEMMA RecordsNext == RowInv /\ [RecordStep]_recordVars => RowInv'
<1> SUFFICES ASSUME RowInv, [RecordStep]_recordVars PROVE RowInv'
  OBVIOUS
<1> USE RecordsAssumption DEF RowInv, RecordsTypeOK, StaleInv, NothingClobbered, RowExists, Rows, Gone
<1>1. ASSUME NEW i \in Instances, Load(i) PROVE RowInv'
  BY <1>1 DEF Load
<1>2. ASSUME NEW i \in Instances, Save(i) PROVE RowInv'
  <2> DEFINE goesIn == [c \in Columns |-> IF c \in Dirty(i) THEN attrs[i][c] ELSE row[c]]
  <2>1. /\ row' = IF RowExists THEN goesIn ELSE row
        /\ orig' = [orig EXCEPT ![i] = attrs[i]] /\ assigned' = assigned \ {i}
        /\ titled' = IF i \in assigned /\ "title" \in Dirty(i) /\ RowExists
                     THEN attrs[i].title ELSE titled
        /\ UNCHANGED <<exists, attrs, counted, broken>>
    BY <1>2 DEF Save, Update
  <2>2. RowExists => /\ goesIn = [title |-> goesIn["title"], hits |-> goesIn["hits"], trashed |-> goesIn["trashed"]]
                     /\ goesIn["title"] = IF attrs[i].title # orig[i].title THEN attrs[i].title ELSE row.title
                     /\ goesIn["hits"] = IF attrs[i].hits # orig[i].hits THEN attrs[i].hits ELSE row.hits
                     /\ goesIn["trashed"] \in BOOLEAN
    BY DEF Columns, Dirty
  <2>3. "title" \in Dirty(i) <=> attrs[i].title # orig[i].title
    BY DEF Columns, Dirty
  <2> HIDE DEF goesIn
  <2> QED BY <2>1, <2>2, <2>3
<1>3. ASSUME NEW i \in Instances, Insert(i) PROVE RowInv'
  BY <1>3 DEF Insert
<1>4. ASSUME NEW i \in Instances, ForceDelete(i) PROVE RowInv'
  BY <1>4 DEF ForceDelete
<1>5. ASSUME NEW i \in Instances, Increment(i) PROVE RowInv'
  <2> DEFINE counting == [row EXCEPT !.hits = @ + 1]
             raised == [attrs[i] EXCEPT !.hits = @ + 1]
  <2>1. /\ attrs' = [attrs EXCEPT ![i] = raised] /\ orig' = [orig EXCEPT ![i] = attrs'[i]]
        /\ row' = IF RowExists THEN counting ELSE row
        /\ counted' = IF RowExists /\ ~broken THEN counted + 1 ELSE counted
        /\ UNCHANGED <<exists, assigned, titled, broken>>
    BY <1>5 DEF Increment, Update
  <2>2. raised \in Rows /\ raised.title = attrs[i].title
    OBVIOUS
  <2>3. RowExists => /\ counting \in Rows /\ counting.title = row.title
                     /\ counting.hits = row.hits + 1
    OBVIOUS
  <2> HIDE DEF counting, raised
  <2>4. attrs'[i] = raised /\ orig'[i] = raised
    BY <2>1
  <2>5. \A j \in Instances : j # i => attrs'[j] = attrs[j] /\ orig'[j] = orig[j]
    BY <2>1
  <2>6. attrs' \in [Instances -> Rows] /\ orig' \in [Instances -> Rows]
    BY <2>1, <2>2, <2>4
  <2>7. StaleInv'
    BY <2>1, <2>4, <2>5, <2>6
  <2>8. RecordsTypeOK'
    BY <2>1, <2>3, <2>6
  <2>9. NothingClobbered'
    <3>1. CASE RowExists
      BY <2>1, <2>3, <3>1
    <3>2. CASE ~RowExists
      BY <2>1, <3>2
    <3> QED BY <3>1, <3>2
  <2> QED BY <2>7, <2>8, <2>9
<1>6. ASSUME NEW i \in Instances, IncrementFails(i) PROVE RowInv'
  BY <1>6 DEF IncrementFails
<1>7. ASSUME NEW i \in Instances, NEW v \in Titles, Assign(i, v) PROVE RowInv'
  BY <1>7 DEF Assign
<1>8. ASSUME NEW i \in Instances, NEW trashes \in BOOLEAN, NEW fails \in BOOLEAN, SetTrashed(i, trashes, fails)
      PROVE RowInv'
  BY <1>8 DEF SetTrashed, Update
<1>9. CASE UNCHANGED recordVars
  BY <1>9 DEF recordVars
<1> QED BY <1>1, <1>2, <1>3, <1>4, <1>5, <1>6, <1>7, <1>8, <1>9 DEF RecordStep

-----------------------------------------------------------------------------
(* A search index *)

\* The document that says what the row says.
Mirror ==
    IF article = NoArticle \/ ~article.wanted \/ (article.trashed /\ ~softDelete) THEN NoDoc
    ELSE [text |-> article.text,
          flag |-> IF ~softDelete THEN "none" ELSE IF article.trashed THEN "trashed" ELSE "live"]

\* What the hook of a writer is about to write.
AboutToWrite(w) ==
    CASE hook[w] = "put" -> [text |-> copy[w].text, flag |-> IF softDelete THEN "live" ELSE "none"]
      [] hook[w] = "mark" -> [text |-> copy[w].text, flag |-> "trashed"]
      [] hook[w] = "remove" -> NoDoc

MirrorInv ==
    mirrored =>
        /\ \A v, w \in Writers : hook[v] # "none" /\ hook[w] # "none" => v = w
        /\ ~Hooked => doc = Mirror
        /\ \A w \in Writers : hook[w] # "none" => AboutToWrite(w) = Mirror

\* A hook writes a document from an instance that there is.
HooksHold == \A w \in Writers : hook[w] \in {"put", "mark"} => copy[w] \in Articles

IndexInv == IndexTypeOK /\ HooksHold /\ MirrorInv

\* No document at the start.
LEMMA IndexBegins == IndexInit => IndexInv
BY IndexAssumption DEF IndexInit, IndexInv, IndexTypeOK, HooksHold, MirrorInv, Hooked, Mirror

\* Saves and the hooks that write the index after them (search/).
LEMMA IndexNext == IndexInv /\ [IndexStep]_indexVars => IndexInv'
<1> SUFFICES ASSUME IndexInv, [IndexStep]_indexVars PROVE IndexInv'
  OBVIOUS
<1> USE IndexAssumption DEF IndexInv, IndexTypeOK, HooksHold
<1> DEFINE Keeps == UNCHANGED <<doc, softDelete>>
\* A hook that is the only one, and is about to write what the row says.
<1>0. ASSUME NEW w \in Writers, mirrored' => Alone /\ AboutToWrite(w)' = Mirror', hook' = [hook EXCEPT ![w] = hook'[w]],
             hook'[w] # "none"
      PROVE  MirrorInv'
  BY <1>0 DEF MirrorInv, Alone, Hooked
<1>1. ASSUME NEW w \in Writers, LoadCopy(w) PROVE IndexInv'
  <2>1. IndexTypeOK' /\ HooksHold'
    BY <1>1 DEF LoadCopy, Visible, Articles
  <2>2. hook' = hook /\ mirrored' = mirrored /\ doc' = doc /\ Mirror' = Mirror
        /\ \A v \in Writers : hook[v] # "none" => AboutToWrite(v)' = AboutToWrite(v)
    BY <1>1 DEF LoadCopy, Mirror, AboutToWrite
  <2>3. MirrorInv'
    BY <2>2 DEF MirrorInv, Hooked
  <2> QED BY <2>1, <2>3
<1>2. ASSUME NEW w \in Writers, TrashCopy(w) PROVE IndexInv'
  <2>1. IndexTypeOK' /\ HooksHold'
    BY <1>2 DEF TrashCopy, Articles, UpdateTo
  <2>2. mirrored' => AboutToWrite(w)' = Mirror'
    BY <1>2 DEF TrashCopy, Articles, UpdateTo, AboutToWrite, Mirror
  <2> QED BY <1>0, <1>2, <2>1, <2>2 DEF TrashCopy
<1>3. ASSUME NEW w \in Writers, RestoreCopy(w) PROVE IndexInv'
  <2>1. IndexTypeOK' /\ HooksHold'
    BY <1>3 DEF RestoreCopy, Articles, UpdateTo
  <2>2. mirrored' => AboutToWrite(w)' = Mirror'
    BY <1>3 DEF RestoreCopy, Articles, UpdateTo, AboutToWrite, Mirror
  <2> QED BY <1>0, <1>3, <2>1, <2>2 DEF RestoreCopy
<1>4. ASSUME NEW w \in Writers, RemoveCopy(w) PROVE IndexInv'
  <2>1. IndexTypeOK' /\ HooksHold'
    BY <1>4 DEF RemoveCopy, Alone
  <2>2. mirrored' => AboutToWrite(w)' = Mirror'
    BY <1>4 DEF RemoveCopy, AboutToWrite, Mirror
  <2> QED BY <1>0, <1>4, <2>1, <2>2 DEF RemoveCopy
<1>5. ASSUME NEW w \in Writers, Reindex(w) PROVE IndexInv'
  <2>1. IndexTypeOK' /\ HooksHold'
    BY <1>5 DEF Reindex, Visible
  <2>2. mirrored' => AboutToWrite(w)' = Mirror'
    BY <1>5 DEF Reindex, Alone, Visible, Articles, AboutToWrite, Mirror
  <2> QED BY <1>0, <1>5, <2>1, <2>2 DEF Reindex
<1>6. ASSUME NEW w \in Writers, WriteDoc(w) PROVE IndexInv'
  <2>1. doc' = AboutToWrite(w)
    BY <1>6 DEF WriteDoc, AboutToWrite
  <2>2. copy[w] \in Articles \/ hook[w] = "remove" => IndexTypeOK' /\ HooksHold'
    BY <1>6 DEF WriteDoc, Articles, Documents
  <2>3. MirrorInv'
    BY <1>6, <2>1 DEF WriteDoc, MirrorInv, Mirror, Hooked
  <2>4. copy[w] \in Articles \/ hook[w] = "remove"
    BY <1>6 DEF WriteDoc
  <2> QED BY <2>2, <2>3, <2>4
<1>7. ASSUME NEW w \in Writers, SkipDoc(w) PROVE IndexInv'
  BY <1>7 DEF SkipDoc, MirrorInv
<1>8. CASE FlushIndex
  BY <1>8 DEF FlushIndex, MirrorInv
<1>9. ASSUME NEW w \in Writers, NEW keeps \in BOOLEAN, EndTransaction(w, keeps) PROVE IndexInv'
  BY <1>9 DEF EndTransaction, MirrorInv, Mirror, Hooked, AboutToWrite
<1>10. ASSUME NEW w \in Writers, NEW t \in Texts, NEW wanted \in BOOLEAN, NEW inTransaction \in BOOLEAN,
              SaveCopy(w, t, wanted, inTransaction)
       PROVE  IndexInv'
  <2> DEFINE new == copy[w] = NoArticle
             now == [text |-> t, wanted |-> wanted, trashed |-> ~new /\ copy[w].trashed]
  <2>1. now \in Articles
    BY DEF Articles
  <2>2. /\ copy' = [copy EXCEPT ![w] = now] /\ left' = [left EXCEPT ![w] = now.trashed]
        /\ hook' = [hook EXCEPT ![w] = Sync(now)]
        /\ mirrored' => Alone /\ copy[w] = article /\ ~now.trashed
        /\ UNCHANGED <<softDelete, doc>>
    BY <1>10 DEF SaveCopy
  <2>3. Sync(now) \in {"put", "remove"}
    BY DEF Sync
  <2>4. IndexTypeOK' /\ HooksHold'
    <3> DEFINE goesIn == [text |-> IF t # copy[w].text THEN t ELSE article.text,
                         wanted |-> IF wanted # copy[w].wanted THEN wanted ELSE article.wanted,
                         trashed |-> IF copy[w].trashed # left[w] THEN copy[w].trashed
                                     ELSE article.trashed]
    <3>1. article # NoArticle /\ copy[w] # NoArticle => goesIn \in Articles
      BY DEF Articles
    <3>2. article' \in Articles \cup {NoArticle}
      BY <1>10, <2>1, <3>1 DEF SaveCopy, UpdateTo
    <3>3. /\ holder' \in SUBSET Writers /\ before' \in Articles \cup {NoArticle}
          /\ mirrored' \in BOOLEAN
      BY <1>10 DEF SaveCopy
    <3>4. /\ left' \in [Writers -> BOOLEAN]
          /\ hook' \in [Writers -> {"none", "put", "mark", "remove"}]
          /\ copy' \in [Writers -> Articles \cup {NoArticle}]
      BY <2>1, <2>2, <2>3 DEF Articles
    <3>5. HooksHold'
      BY <2>1, <2>2
    <3> QED BY <2>2, <3>2, <3>3, <3>4, <3>5
  <2>5. copy[w] = article /\ ~now.trashed => article' = now
    BY <1>10 DEF SaveCopy, UpdateTo, Articles
  <2>6. mirrored' => AboutToWrite(w)' = Mirror'
    BY <2>1, <2>2, <2>3, <2>5 DEF AboutToWrite, Mirror, Articles, Sync
  <2> QED BY <1>0, <2>2, <2>3, <2>4, <2>6
<1>11. CASE UNCHANGED indexVars
  BY <1>11 DEF indexVars, MirrorInv, Hooked, Mirror, AboutToWrite
<1> QED BY <1>1, <1>2, <1>3, <1>4, <1>5, <1>6, <1>7, <1>8, <1>9, <1>10, <1>11 DEF IndexStep

\* While the index mirrors the row, a search finds it as it is.
LEMMA IndexSafe == IndexInv => SearchFinds
BY IndexAssumption DEF IndexInv, IndexTypeOK, MirrorInv, SearchFinds, Alone, Mirror, Hits, Hydrated, InScope, Filtered,
   Scopes, Articles, Documents

-----------------------------------------------------------------------------
(* A pool of requests *)

Worthies(r) == {i \in DOMAIN answers[r] : answers[r][i] \in policy}

\* What the loop of a request has behind it, by where it is.
AtTurn(r) ==
    LET n == Len(answers[r])
        last == answers[r][n]
        worthyTo(k) == \A i \in 1..k : answers[r][i] \in policy
    IN  CASE fetch[r] = "queued" -> n = 0 /\ hooked[r] = 0
          [] fetch[r] = "sending" -> attempts[r] = n + 1 /\ n < Allowed /\ worthyTo(n) /\ hooked[r] = n
          [] fetch[r] = "decide" ->
                 /\ attempts[r] = n /\ n \in 1..Allowed /\ worthyTo(n - 1) /\ hooked[r] = n - 1
                 /\ last \in Exceptions => lastError[r] = last
                 /\ last \in Responses => lastError[r] = "none" /\ lastResponse[r] = last
          [] fetch[r] = "sleeping" -> attempts[r] = n /\ n \in 1..(Allowed - 1) /\ worthyTo(n) /\ hooked[r] = n
          [] fetch[r] = "done" -> EndedRight(r) /\ hooked[r] = IF last \in policy THEN n ELSE n - 1
          [] fetch[r] = "cancelled" -> worthyTo(n - 1)

TurnsInv ==
    /\ times \in Nat /\ cap \in Nat /\ policy \subseteq Outcomes
    /\ answers \in [Fetches -> Seq(Outcomes)]
    /\ fetch \in [Fetches -> {"queued", "sending", "decide", "sleeping", "done", "cancelled"}]
    /\ attempts \in [Fetches -> Nat] /\ hooked \in [Fetches -> Nat]
    /\ lastError \in [Fetches -> Exceptions \cup {"none"}]
    /\ lastResponse \in [Fetches -> Responses \cup {"none"}]
    /\ slot \in [Fetches -> Results]
    /\ \A r \in Fetches : AtTurn(r)

ClientInv == TurnsInv /\ Cardinality(AtOnce) <= cap

\* No request of the pool is sent at the start.
LEMMA ClientBegins == ClientInit => ClientInv
<1> SUFFICES ASSUME ClientInit PROVE ClientInv
  OBVIOUS
<1>1. AtOnce = {}
  BY DEF ClientInit, AtOnce
<1>2. Cardinality(AtOnce) <= cap
  BY <1>1, FS_EmptySet, HttpClientAssumption DEF ClientInit
<1>3. TurnsInv
  BY HttpClientAssumption DEF ClientInit, TurnsInv, AtTurn, Outcomes, Results
<1> QED BY <1>2, <1>3 DEF ClientInv

\* A request's turn is its own: what the others do leaves it.
LEMMA OthersTurn ==
  ASSUME NEW r \in Fetches, AtTurn(r), UNCHANGED how,
         UNCHANGED <<fetch[r], attempts[r], lastError[r], lastResponse[r], slot[r], answers[r], hooked[r]>>
  PROVE  AtTurn(r)'
BY DEF AtTurn, how, EndedRight, Allowed

\* Before the last answer of a request, each was one that it retries.
LEMMA WorthyBeforeLast ==
  ASSUME TurnsInv, NEW r \in Fetches
  PROVE  /\ Len(answers[r]) \in Nat /\ DOMAIN answers[r] = 1..Len(answers[r])
         /\ \A i \in 1..(Len(answers[r]) - 1) : answers[r][i] \in policy
<1> DEFINE n == Len(answers[r])
           worthy == \A i \in 1..(n - 1) : answers[r][i] \in policy
<1>1. n \in Nat /\ DOMAIN answers[r] = 1..n /\ AtTurn(r)
  BY DEF TurnsInv
<1>2. CASE fetch[r] = "queued"
  <2>1. n = 0
    BY <1>1, <1>2 DEF AtTurn
  <2> QED BY <1>1, <2>1
<1>3. CASE fetch[r] \in {"sending", "sleeping"}
  <2>1. \A i \in 1..n : answers[r][i] \in policy
    BY <1>1, <1>3 DEF AtTurn
  <2> QED BY <1>1, <2>1
<1>4. CASE fetch[r] \in {"decide", "cancelled"}
  BY <1>1, <1>4 DEF AtTurn
<1>5. CASE fetch[r] = "done"
  BY <1>1, <1>5 DEF AtTurn, EndedRight
<1> QED BY <1>2, <1>3, <1>4, <1>5 DEF TurnsInv

\* The loops of the requests of a pool, side by side (client/).
LEMMA TurnsNext == TurnsInv /\ [ClientStep]_clientVars => TurnsInv'
<1> SUFFICES ASSUME TurnsInv, [ClientStep]_clientVars PROVE TurnsInv'
  OBVIOUS
<1> USE DEF TurnsInv
<1> DEFINE TurnsAlone(r) ==
       \A s \in Fetches \ {r} :
          UNCHANGED <<fetch[s], attempts[s], lastError[s], lastResponse[s], slot[s], answers[s], hooked[s]>>
<1>0. ASSUME NEW r \in Fetches, TurnsAlone(r), UNCHANGED how, AtTurn(r)' PROVE \A s \in Fetches : AtTurn(s)'
  BY <1>0, OthersTurn
<1>1. ASSUME NEW r \in Fetches, EnterPool(r) PROVE TurnsInv'
  <2>1. AtTurn(r)'
    <3>1. Len(answers[r]) = 0 /\ hooked[r] = 0 /\ Allowed \in Nat \ {0}
      <4>1. fetch[r] = "queued" /\ AtTurn(r)
        BY <1>1 DEF EnterPool
      <4>2. Len(answers[r]) = 0 /\ hooked[r] = 0
        BY <4>1 DEF AtTurn
      <4> QED BY <4>2 DEF Allowed
    <3>2. /\ attempts'[r] = 1 /\ fetch'[r] = "sending" /\ answers' = answers /\ hooked' = hooked
          /\ Allowed' = Allowed
      BY <1>1 DEF EnterPool, how, Allowed
    <3> QED BY <3>1, <3>2 DEF AtTurn
  <2>2. TurnsAlone(r) /\ UNCHANGED how
    BY <1>1 DEF EnterPool
  <2> QED BY <1>0, <1>1, <2>1, <2>2 DEF EnterPool, how
<1>2. ASSUME NEW r \in Fetches, NEW o \in Outcomes, SendOnce(r, o) PROVE TurnsInv'
  <2> DEFINE n == Len(answers[r])
  <2>1. /\ Len(answers'[r]) = n + 1 /\ answers'[r][n + 1] = o /\ n \in Nat
        /\ \A i \in 1..n : answers'[r][i] = answers[r][i]
        /\ answers' \in [Fetches -> Seq(Outcomes)]
    BY <1>2 DEF SendOnce
  <2>2. /\ o \in Exceptions => lastError'[r] = o
        /\ o \in Responses => lastError'[r] = "none" /\ lastResponse'[r] = o
    BY <1>2 DEF SendOnce, KeepOutcome, Exceptions, Responses
  <2>3. fetch[r] = "sending" /\ fetch'[r] = "decide" /\ UNCHANGED <<attempts, hooked, how, slot>>
    BY <1>2 DEF SendOnce
  <2>4. AtTurn(r)'
    <3>1. attempts[r] = n + 1 /\ n < Allowed /\ (\A i \in 1..n : answers[r][i] \in policy) /\ hooked[r] = n
      BY <2>3 DEF AtTurn
    <3>2. Allowed' = Allowed /\ Allowed \in Nat
      BY <2>3 DEF how, Allowed
    <3>3. /\ attempts'[r] = Len(answers'[r]) /\ Len(answers'[r]) \in 1..Allowed'
          /\ \A i \in 1..(Len(answers'[r]) - 1) : answers'[r][i] \in policy'
          /\ hooked'[r] = Len(answers'[r]) - 1
      BY <2>1, <2>3, <3>1, <3>2 DEF how
    <3> QED BY <2>1, <2>2, <2>3, <3>3 DEF AtTurn
  <2>5. TurnsAlone(r)
    BY <1>2 DEF SendOnce, KeepOutcome
  <2>6. /\ lastError' \in [Fetches -> Exceptions \cup {"none"}]
        /\ lastResponse' \in [Fetches -> Responses \cup {"none"}]
    BY <1>2 DEF SendOnce, KeepOutcome
  <2> QED BY <1>0, <1>2, <2>1, <2>3, <2>4, <2>5, <2>6 DEF SendOnce, how
<1>3. ASSUME NEW r \in Fetches, fetch[r] = "decide", Decide(r) \/ HookRaises(r) PROVE TurnsInv'
  <2> DEFINE n == Len(answers[r])
             last == answers[r][n]
  <2>1. /\ attempts[r] = n /\ n \in 1..Allowed /\ (\A i \in 1..(n - 1) : answers[r][i] \in policy)
        /\ hooked[r] = n - 1
        /\ last \in Exceptions => lastError[r] = last
        /\ last \in Responses => lastError[r] = "none" /\ lastResponse[r] = last
    BY <1>3 DEF AtTurn
  <2>2. last \in Outcomes /\ n \in Nat /\ Allowed \in Nat
    BY <2>1 DEF Allowed
  <2>3. Worthy(r) <=> last \in policy
    BY <2>1, <2>2 DEF Worthy, Outcomes, Exceptions
  <2>4. /\ hooked' = IF last \in policy THEN [hooked EXCEPT ![r] = @ + 1] ELSE hooked
        /\ UNCHANGED <<how, attempts, lastError, lastResponse, answers>>
    BY <1>3, <2>3 DEF Decide, HookRaises
  <2>5. hooked' \in [Fetches -> Nat] /\ hooked'[r] = IF last \in policy THEN n ELSE n - 1
    BY <2>1, <2>2, <2>4
  <2>6. CASE fetch'[r] = "sleeping"
    <3>1. n < Allowed /\ last \in policy /\ fetch' = [fetch EXCEPT ![r] = "sleeping"] /\ slot' = slot
      BY <1>3, <2>1, <2>2, <2>3, <2>6 DEF Decide, HookRaises
    <3>2. \A i \in 1..n : answers[r][i] \in policy
      BY <2>1, <2>2, <3>1
    <3>3. Allowed' = Allowed
      BY <2>4 DEF how, Allowed
    <3>4. attempts'[r] = n /\ answers'[r] = answers[r] /\ policy' = policy /\ fetch'[r] = "sleeping"
          /\ n \in 1..(Allowed' - 1)
      BY <2>1, <2>2, <2>4, <2>6, <3>1, <3>3 DEF how
    <3>5. AtTurn(r)'
      BY <2>5, <3>1, <3>2, <3>4 DEF AtTurn
    <3>6. TurnsAlone(r)
      BY <2>4, <3>1
    <3> QED BY <1>0, <2>4, <2>5, <3>1, <3>5, <3>6 DEF how
  <2>7. CASE fetch'[r] # "sleeping"
    <3>1. /\ fetch' = [fetch EXCEPT ![r] = "done"]
          /\ \/ slot' = [slot EXCEPT ![r] = "hook"] /\ last \in policy
             \/ slot' = [slot EXCEPT ![r] = Leaves(r)] /\ (n = Allowed \/ last \notin policy)
      BY <1>3, <2>1, <2>3, <2>7 DEF Decide, HookRaises
    <3>2. Leaves(r) = IF last \in Exceptions THEN last
                      ELSE IF times > 0 /\ throw /\ last \in policy THEN "RequestFailed" ELSE last
      BY <2>1, <2>2, <2>3 DEF Leaves, Outcomes, Exceptions
    <3>3. Leaves(r) # "hook" /\ Leaves(r) \in Results /\ "hook" \in Results
      BY <2>2, <3>2 DEF Results, Outcomes, Exceptions, Responses
    <3>4. slot' \in [Fetches -> Results] /\ slot'[r] \in {"hook", Leaves(r)}
          /\ (slot'[r] = "hook" => last \in policy)
          /\ (slot'[r] # "hook" => slot'[r] = Leaves(r) /\ (n = Allowed \/ last \notin policy))
      BY <3>1, <3>3
    <3>5. EndedRight(r)'
      <4>1. Allowed' = Allowed /\ policy' = policy /\ times' = times /\ throw' = throw /\ answers'[r] = answers[r]
        BY <2>4 DEF how, Allowed
      <4>2. last \in Responses => last \notin Exceptions
        BY DEF Responses, Exceptions
      <4> HIDE DEF n, last
      <4>3. /\ n \in 1..Allowed /\ \A i \in 1..(n - 1) : answers[r][i] \in policy
            /\ slot'[r] = "hook" => last \in policy
            /\ slot'[r] # "hook" =>
                  /\ n < Allowed => last \notin policy
                  /\ last \in Exceptions => slot'[r] = last
                  /\ last \in Responses =>
                         slot'[r] = IF last \in policy /\ times > 0 /\ throw THEN "RequestFailed" ELSE last
        BY <2>1, <2>2, <3>2, <3>4, <4>2
      <4> QED BY <4>1, <4>3 DEF EndedRight, n, last
    <3>6. AtTurn(r)'
      <4>1. fetch'[r] = "done" /\ answers'[r] = answers[r] /\ policy' = policy
        BY <2>4, <3>1 DEF how
      <4> QED BY <2>5, <3>5, <4>1 DEF AtTurn
    <3>7. TurnsAlone(r)
      BY <2>4, <3>1
    <3> QED BY <1>0, <2>4, <2>5, <3>1, <3>4, <3>6, <3>7 DEF how
  <2> QED BY <2>6, <2>7
<1>4. ASSUME NEW r \in Fetches, Again(r) PROVE TurnsInv'
  <2>1. AtTurn(r)'
    <3> DEFINE n == Len(answers[r])
    <3>1. /\ attempts[r] = n /\ n \in 1..(Allowed - 1) /\ hooked[r] = n /\ Allowed \in Nat
          /\ \A i \in 1..n : answers[r][i] \in policy
      BY <1>4 DEF Again, AtTurn, Allowed
    <3>2. /\ attempts'[r] = attempts[r] + 1 /\ fetch'[r] = "sending" /\ answers' = answers
          /\ hooked' = hooked /\ policy' = policy /\ Allowed' = Allowed
      BY <1>4 DEF Again, how, Allowed
    <3> QED BY <3>1, <3>2 DEF AtTurn
  <2>2. TurnsAlone(r) /\ UNCHANGED how
    BY <1>4 DEF Again
  <2> QED BY <1>0, <1>4, <2>1, <2>2 DEF Again, how
<1>5. CASE CancelPool
  <2>1. ASSUME NEW r \in Fetches PROVE AtTurn(r)'
    <3>1. CASE fetch[r] = "done"
      BY <1>5, <3>1, OthersTurn DEF CancelPool
    <3>2. CASE fetch[r] # "done"
      <4>1. \A i \in 1..(Len(answers[r]) - 1) : answers[r][i] \in policy
        BY WorthyBeforeLast
      <4>2. fetch'[r] = "cancelled" /\ answers' = answers /\ policy' = policy
        BY <1>5, <3>2 DEF CancelPool, how
      <4> QED BY <4>1, <4>2 DEF AtTurn
    <3> QED BY <3>1, <3>2
  <2> QED BY <1>5, <2>1 DEF CancelPool, how
<1>6. CASE UNCHANGED clientVars
  BY <1>6, OthersTurn DEF clientVars, callVars, how
<1> QED BY <1>1, <1>2, <1>3, <1>4, <1>5, <1>6 DEF ClientStep, Decide, HookRaises

\* And no more of them at once than the pool admits.
LEMMA ClientNext == ClientInv /\ [ClientStep]_clientVars => ClientInv'
<1> SUFFICES ASSUME ClientInv, [ClientStep]_clientVars PROVE ClientInv'
  OBVIOUS
<1>1. TurnsInv'
  BY TurnsNext DEF ClientInv
<1>2. IsFiniteSet(AtOnce) /\ IsFiniteSet(AtOnce') /\ cap' = cap /\ cap \in Nat
      /\ Cardinality(AtOnce) \in Nat
  <2>1. AtOnce \subseteq Fetches /\ AtOnce' \subseteq Fetches
    BY DEF AtOnce
  <2>2. cap' = cap
    BY DEF ClientStep, clientVars, how, EnterPool, SendOnce, Decide, HookRaises, Again, CancelPool
  <2> QED BY <2>1, <2>2, FS_Subset, FS_CardinalityType, HttpClientAssumption DEF ClientInv, TurnsInv
<1>3. ASSUME NEW r \in Fetches, EnterPool(r) PROVE Cardinality(AtOnce') <= cap
  <2>1. AtOnce' = AtOnce \cup {r} /\ r \notin AtOnce /\ Cardinality(AtOnce) < cap
    BY <1>3 DEF EnterPool, AtOnce, ClientInv, TurnsInv
  <2> QED BY <1>2, <2>1, FS_AddElement
<1>4. ASSUME ~\E r \in Fetches : EnterPool(r) PROVE Cardinality(AtOnce') <= cap
  <2>1. AtOnce' \subseteq AtOnce
    BY <1>4 DEF ClientInv, TurnsInv, ClientStep, clientVars, callVars, SendOnce, Decide, HookRaises, Again,
       CancelPool, AtOnce
  <2> QED BY <1>2, <2>1, FS_Subset, FS_CardinalityType DEF ClientInv
<1> QED BY <1>1, <1>2, <1>3, <1>4 DEF ClientInv

\* What the pool promises follows.
LEMMA ClientSafe == ClientInv => PoolRight
<1> SUFFICES ASSUME ClientInv, NEW r \in Fetches
             PROVE  /\ fetch[r] = "done" => EndedRight(r)
                    /\ fetch[r] \in {"queued", "sending", "sleeping", "done"} =>
                          hooked[r] = Cardinality(Worthies(r))
                    /\ Cardinality({i \in DOMAIN answers[r] : answers[r][i] \in AtServer}) > 1 =>
                          policy \cap AtServer # {}
  BY DEF ClientInv, PoolRight, Worthies
<1> DEFINE n == Len(answers[r])
           there == {i \in DOMAIN answers[r] : answers[r][i] \in AtServer}
<1>1. n \in Nat /\ DOMAIN answers[r] = 1..n /\ AtTurn(r)
  BY DEF ClientInv, TurnsInv
<1>2. \A i \in 1..(n - 1) : answers[r][i] \in policy
  BY WorthyBeforeLast DEF ClientInv
<1>3. fetch[r] = "done" => EndedRight(r)
  BY <1>1 DEF AtTurn
<1>4. ASSUME fetch[r] \in {"queued", "sending", "sleeping", "done"} PROVE hooked[r] = Cardinality(Worthies(r))
  <2>1. CASE fetch[r] = "done" /\ answers[r][n] \notin policy
    <3>1. n > 0 /\ hooked[r] = n - 1
      BY <1>1, <2>1 DEF AtTurn, EndedRight
    <3>2. Worthies(r) = 1..(n - 1)
      BY <1>1, <1>2, <2>1, <3>1 DEF Worthies
    <3> QED BY <1>1, <3>1, <3>2, FS_Interval
  <2>2. CASE ~(fetch[r] = "done" /\ answers[r][n] \notin policy)
    <3>1. hooked[r] = n /\ \A i \in 1..n : answers[r][i] \in policy
      <4>1. CASE fetch[r] = "done"
        <5>1. answers[r][n] \in policy /\ hooked[r] = n
          BY <1>1, <2>2, <4>1 DEF AtTurn
        <5> QED BY <1>1, <1>2, <5>1
      <4>2. CASE fetch[r] = "queued"
        BY <1>1, <4>2 DEF AtTurn
      <4>3. CASE fetch[r] \in {"sending", "sleeping"}
        BY <1>1, <4>3 DEF AtTurn
      <4> QED BY <1>4, <4>1, <4>2, <4>3
    <3>2. Worthies(r) = 1..n
      BY <1>1, <3>1 DEF Worthies
    <3> QED BY <1>1, <3>1, <3>2, FS_Interval
  <2> QED BY <2>1, <2>2
<1>5. ASSUME Cardinality(there) > 1 PROVE policy \cap AtServer # {}
  <2>1. PICK i \in there : i # n
    <3>1. SUFFICES ASSUME there \subseteq {n} PROVE FALSE
      OBVIOUS
    <3>2. IsFiniteSet({n}) /\ Cardinality({n}) = 1
      BY FS_Singleton
    <3>3. Cardinality(there) <= 1
      BY <3>1, <3>2, FS_Subset
    <3>4. Cardinality(there) \in Nat
      BY <3>1, <3>2, FS_Subset, FS_CardinalityType
    <3> QED BY <1>5, <3>3, <3>4
  <2> QED BY <1>1, <1>2, <2>1
<1> QED BY <1>3, <1>4, <1>5

-----------------------------------------------------------------------------
(* A notification *)

Carries(r) == IF r = Inline THEN Channels ELSE {r}
Sending(r) == run[r].at \in {"ask", "send", "answer"}
Accepted(r) == run[r].at = "answer" /\ response[r] = "sent"

\* A running job has brought out, or was refused, what it carries, but for the channels it has
\* left, each once; the first of them is out when its driver has answered.
Halfway(r) ==
    LET ahead == run[r].todo
    IN  /\ run[r].at = "none" => broughtOut[r] = {}
        /\ Sending(r) =>
              /\ \A i, j \in 1..Len(ahead) : ahead[i] = ahead[j] => i = j
              /\ run[r].at # "ask" => ahead # <<>>
              /\ \A i \in 1..Len(ahead) :
                    ahead[i] \in Carries(r) /\ (ahead[i] \in broughtOut[r] <=> i = 1 /\ Accepted(r))
              /\ \A c \in Carries(r) :
                    c \in broughtOut[r] \cup refused \/ \E i \in 1..Len(ahead) : ahead[i] = c
        /\ run[r].at = "done" => Carries(r) \subseteq broughtOut[r] \cup refused
        /\ broughtOut[r] \subseteq Carries(r)

\* The jobs that are still to be pushed, each once, and not under way.
Unpushed ==
    /\ \A i \in 1..Len(toQueue) : run[toQueue[i]].at = "none"
    /\ \A i \in 1..Len(deferred) : run[deferred[i]].at = "none"
    /\ \A i, j \in 1..Len(toQueue) : toQueue[i] = toQueue[j] => i = j
    /\ \A i, j \in 1..Len(deferred) : deferred[i] = deferred[j] => i = j
    /\ \A i \in 1..Len(deferred), j \in 1..Len(toQueue) : deferred[i] # toQueue[j]

\* What a channel's runs brought out and no error came too tooLate for.
OutBy(r, c) ==
    IF c \in broughtOut[r] /\ (r = Inline \/ Sending(r) \/ run[r].at = "done") THEN 1 ELSE 0

RunRecords == [at : {"none", "ready", "ask", "send", "answer", "done", "failed"},
               todo : Seq(Channels), tries : Nat]
DeliveryShapes ==
    /\ toQueue \in Seq(Channels) /\ deferred \in Seq(Channels)
    /\ run \in [Runs -> RunRecords] /\ mailers = [r \in Runs |-> mailers[r]]
    /\ response \in [Runs -> {"none", "sent", "error"}]
    /\ delivered \in [Channels -> Nat] /\ sentLate \in [Channels -> Nat]
    /\ broughtOut \in [Runs -> SUBSET Channels] /\ refused \subseteq Channels

DeliveryInv ==
    /\ DeliveryShapes
    /\ \A r \in Runs : Halfway(r)
    /\ Unpushed
    /\ run[Inline].at # "none" =>
          /\ toQueue = <<>> /\ deferred = <<>> /\ sending \in {"inline", "done"}
          /\ \A c \in Channels : run[c].at = "none"
    /\ sending \in {"inside", "rolled back"} =>
          /\ \A r \in Runs : run[r].at = "none"
          /\ \A c \in Channels : delivered[c] = 0
    /\ sending = "rolled back" => toQueue = <<>>
    /\ \A c \in Channels : delivered[c] = sentLate[c] + OutBy(c, c) + OutBy(Inline, c)

\* What a notification promises follows.
LEMMA DeliverySafe == DeliveryInv => DeliveredOnce
<1> SUFFICES ASSUME DeliveryInv, NEW c \in Channels
             PROVE  /\ delivered[c] <= 1 + sentLate[c]
                    /\ sending \in {"inside", "rolled back"} => delivered[c] = 0
                    /\ run[c].at = "done" \/ run[Inline].at = "done" => delivered[c] > 0 \/ c \in refused
  BY DEF DeliveredOnce
<1> USE DEF DeliveryInv, DeliveryShapes, RunRecords
<1>1. c \in Runs /\ Inline \in Runs /\ c # Inline
  BY DeliveryAssumption DEF Runs
<1>2. delivered[c] = sentLate[c] + OutBy(c, c) + OutBy(Inline, c) /\ delivered[c] \in Nat /\ sentLate[c] \in Nat
  OBVIOUS
<1>3. OutBy(c, c) \in {0, 1} /\ OutBy(Inline, c) \in {0, 1}
  BY DEF OutBy
<1>4. OutBy(c, c) = 0 \/ OutBy(Inline, c) = 0
  <2>1. \A r \in Runs : run[r].at = "none" => broughtOut[r] = {}
    BY DEF Halfway
  <2>2. \A r \in Runs : run[r].at = "none" => OutBy(r, c) = 0
    <3> SUFFICES ASSUME NEW r \in Runs, run[r].at = "none" PROVE OutBy(r, c) = 0
      OBVIOUS
    <3>1. c \notin broughtOut[r]
      BY <2>1
    <3> QED BY <3>1 DEF OutBy
  <2>3. run[c].at = "none" \/ run[Inline].at = "none"
    OBVIOUS
  <2> QED BY <1>1, <2>2, <2>3
<1>5. run[c].at = "done" => c \in refused \/ OutBy(c, c) = 1
  BY <1>1 DEF Halfway, OutBy, Carries
<1>6. run[Inline].at = "done" => c \in refused \/ OutBy(Inline, c) = 1
  BY <1>1 DEF Halfway, OutBy, Carries
<1>7. sending \in {"inside", "rolled back"} => delivered[c] = 0
  OBVIOUS
<1> HIDE DEF DeliveryInv
<1>8. OutBy(c, c) + OutBy(Inline, c) \in {0, 1}
  BY <1>3, <1>4
<1>9. OutBy(c, c) = 1 \/ OutBy(Inline, c) = 1 => OutBy(c, c) + OutBy(Inline, c) = 1
  BY <1>3, <1>4
<1>10. delivered[c] = sentLate[c] + (OutBy(c, c) + OutBy(Inline, c))
  BY <1>2, <1>3
<1>11. delivered[c] <= 1 + sentLate[c]
  BY <1>2, <1>8, <1>10
<1>12. OutBy(c, c) = 1 \/ OutBy(Inline, c) = 1 => delivered[c] > 0
  BY <1>2, <1>9, <1>10
<1> QED BY <1>5, <1>6, <1>7, <1>11, <1>12

\* Nothing is delivered at the start.
LEMMA DeliveryBegins == DeliveryInit => DeliveryInv
<1> SUFFICES ASSUME DeliveryInit PROVE DeliveryInv
  OBVIOUS
<1> USE DEF DeliveryInit
<1>1. Via \in Seq(Channels) /\ (\A i, j \in 1..Len(Via) : Via[i] = Via[j] => i = j)
      /\ Inline \notin Channels /\ Inline \in Runs /\ Channels \subseteq Runs
  BY DeliveryAssumption DEF IsInjective, Runs
<1>2. \A c \in Channels : \E i \in 1..Len(Via) : Via[i] = c
  <2>1. DOMAIN Via = 1..Len(Via)
    BY <1>1
  <2> QED BY <2>1 DEF Channels, Range
<1>3. /\ run = [r \in Runs |-> IF r = Inline /\ sending = "inline"
                             THEN [at |-> "ask", todo |-> Via, tries |-> 0] ELSE AtRest]
      /\ AtRest = [at |-> "none", todo |-> <<>>, tries |-> 0]
  BY DEF AtRest
<1>4. DeliveryShapes
  BY <1>1, <1>3 DEF DeliveryShapes, RunRecords
<1>5. Unpushed
  BY <1>1, <1>3 DEF Unpushed
<1>6. \A r \in Runs : Halfway(r)
  BY <1>1, <1>2, <1>3 DEF Halfway, Sending, Accepted, Carries
<1>7. \A c \in Channels : delivered[c] = sentLate[c] + OutBy(c, c) + OutBy(Inline, c)
  BY <1>1 DEF OutBy
<1>8. run[Inline].at # "none" =>
          /\ toQueue = <<>> /\ deferred = <<>> /\ sending \in {"inline", "done"}
          /\ \A c \in Channels : run[c].at = "none"
  BY <1>1, <1>3
<1>9. sending \in {"inside", "rolled back"} =>
          /\ \A r \in Runs : run[r].at = "none"
          /\ \A c \in Channels : delivered[c] = 0
  <2>1. sending \in {"inside", "rolled back"} => sending # "inline"
    OBVIOUS
  <2>2. sending # "inline" => \A r \in Runs : run[r].at = "none"
    BY <1>3
  <2> QED BY <2>1, <2>2
<1> QED BY <1>4, <1>5, <1>6, <1>7, <1>8, <1>9 DEF DeliveryInv

\* A run that stands still is as far as it was.
LEMMA OthersHalfway ==
  ASSUME NEW r \in Runs, Halfway(r), UNCHANGED <<run[r], response[r], broughtOut[r]>>,
         refused \subseteq refused'
  PROVE  Halfway(r)'
BY DEF Halfway, Sending, Accepted

\* One run moves: enough that it is as far as its state says, and its books balance.
LEMMA OneRunMoves ==
  ASSUME DeliveryInv, DeliveryShapes', NEW r \in Runs, run[r].at # "none", run'[r].at # "none",
         \A s \in Runs \ {r} : UNCHANGED <<run[s], response[s], broughtOut[s]>>,
         UNCHANGED <<toQueue, deferred>>, refused \subseteq refused',
         sending' = sending \/ (r = Inline /\ sending' = "done"),
         Halfway(r)',
         \A c \in Channels : delivered'[c] = sentLate'[c] + OutBy(c, c)' + OutBy(Inline, c)'
  PROVE  DeliveryInv'
<1>1. \A s \in Runs : Halfway(s)'
  BY OthersHalfway DEF DeliveryInv
<1>2. Inline \in Runs /\ Inline \notin Channels /\ Channels \subseteq Runs
  BY DeliveryAssumption DEF Runs
<1>3. toQueue \in Seq(Channels) /\ deferred \in Seq(Channels)
  BY DEF DeliveryInv, DeliveryShapes
<1>4. Unpushed'
  <2>0. Unpushed
    BY DEF DeliveryInv
  <2>1. /\ \A i \in 1..Len(toQueue) : toQueue[i] \in Channels /\ run[toQueue[i]].at = "none"
        /\ \A i \in 1..Len(deferred) : deferred[i] \in Channels /\ run[deferred[i]].at = "none"
    BY <1>3, <2>0 DEF Unpushed
  <2>2. \A c \in Channels : run[c].at = "none" => run'[c] = run[c]
    BY <1>2
  <2>3. /\ \A i \in 1..Len(toQueue) : run'[toQueue[i]].at = "none"
        /\ \A i \in 1..Len(deferred) : run'[deferred[i]].at = "none"
    BY <2>1, <2>2
  <2> QED BY <2>0, <2>3 DEF Unpushed
<1>5. run'[Inline].at # "none" =>
          /\ toQueue' = <<>> /\ deferred' = <<>> /\ sending' \in {"inline", "done"}
          /\ \A c \in Channels : run'[c].at = "none"
  <2>1. CASE r = Inline
    BY <1>2, <2>1 DEF DeliveryInv
  <2>2. CASE r # Inline
    <3>1. r \in Channels
      BY <2>2 DEF Runs
    <3>2. run[Inline].at = "none"
      BY <3>1 DEF DeliveryInv
    <3> QED BY <1>2, <2>2, <3>2
  <2> QED BY <2>1, <2>2
<1>6. sending \notin {"inside", "rolled back"} /\ sending' \notin {"inside", "rolled back"}
  BY DEF DeliveryInv
<1> QED BY <1>1, <1>4, <1>5, <1>6 DEF DeliveryInv

\* What is left of the queue and of the deferred pushes; a push makes the first of one ready.
LEMMA PushesMove ==
  ASSUME DeliveryInv, DeliveryShapes',
         UNCHANGED <<mailers, response, notices>>,
         NEW c \in Channels, run' \in {run, Pushed(c)},
         run' # run => run[c].at = "none" /\ run[Inline].at = "none" /\ sending \notin {"inside", "rolled back"},
         Unpushed',
         run[Inline].at # "none" => toQueue' = <<>> /\ deferred' = <<>> /\ sending' = sending,
         sending' \in {"inside", "rolled back"} => sending = "inside",
         sending' = "rolled back" => toQueue' = <<>>
  PROVE  DeliveryInv'
<1>1. c \in Runs /\ c # Inline /\ Inline \in Runs /\ Channels \subseteq Runs
  BY DeliveryAssumption DEF Runs
<1>2. \A r \in Runs : \/ run'[r] = run[r]
                      \/ r = c /\ run[r].at = "none" /\ run'[r].at = "ready"
  <2>1. run \in [Runs -> RunRecords]
    BY DEF DeliveryInv, DeliveryShapes
  <2>2. CASE run' = Pushed(c) /\ run[c].at = "none"
    BY <1>1, <2>1, <2>2 DEF Pushed, RunRecords
  <2> QED BY <2>2
<1>3. /\ \A r \in Runs : Halfway(r)'
      /\ \A r \in Runs, d \in Channels : OutBy(r, d)' = OutBy(r, d)
  <2> SUFFICES ASSUME NEW r \in Runs PROVE Halfway(r)' /\ \A d \in Channels : OutBy(r, d)' = OutBy(r, d)
    OBVIOUS
  <2>1. Halfway(r) /\ UNCHANGED <<response, broughtOut, refused>>
    BY DEF DeliveryInv, notices
  <2>2. CASE run'[r] = run[r]
    BY <2>1, <2>2, OthersHalfway DEF OutBy, Sending
  <2>3. CASE r = c /\ run[r].at = "none" /\ run'[r].at = "ready"
    BY <2>1, <2>3 DEF Halfway, OutBy, Sending
  <2> QED BY <1>2, <2>2, <2>3
<1>4. \A d \in Channels : delivered'[d] = sentLate'[d] + OutBy(d, d)' + OutBy(Inline, d)'
  <2> SUFFICES ASSUME NEW d \in Channels
               PROVE  delivered'[d] = sentLate'[d] + OutBy(d, d)' + OutBy(Inline, d)'
    OBVIOUS
  <2>1. delivered[d] = sentLate[d] + OutBy(d, d) + OutBy(Inline, d)
    BY DEF DeliveryInv
  <2>2. delivered' = delivered /\ sentLate' = sentLate
    BY DEF notices
  <2>3. OutBy(d, d)' = OutBy(d, d) /\ OutBy(Inline, d)' = OutBy(Inline, d)
    BY <1>1, <1>3
  <2> QED BY <2>1, <2>2, <2>3
<1>5. run'[Inline] = run[Inline] /\ (run[Inline].at # "none" => run' = run)
  BY <1>1, <1>2
<1>6. run'[Inline].at # "none" =>
          /\ toQueue' = <<>> /\ deferred' = <<>> /\ sending' \in {"inline", "done"}
          /\ \A d \in Channels : run'[d].at = "none"
  BY <1>5 DEF DeliveryInv
<1>7. sending' \in {"inside", "rolled back"} =>
          /\ \A r \in Runs : run'[r].at = "none"
          /\ \A d \in Channels : delivered'[d] = 0
  BY DEF DeliveryInv, notices
<1> QED BY <1>3, <1>4, <1>6, <1>7 DEF DeliveryInv

\* notify, the transaction it was called in, and the pushes that wait for it.
LEMMA DeliveryQueues ==
  ASSUME DeliveryInv, QueueChannel \/ PushFails \/ \E b \in BOOLEAN : EndBlock(b) \/ ReplayPush(b)
  PROVE  DeliveryInv'
<1>1. /\ toQueue \in Seq(Channels) /\ deferred \in Seq(Channels) /\ run \in [Runs -> RunRecords]
      /\ Unpushed /\ DeliveryShapes
  BY DEF DeliveryInv, DeliveryShapes
<1>2. Inline \in Runs /\ Inline \notin Channels /\ Channels \subseteq Runs
  BY DeliveryAssumption DEF Runs
<1>3. \A c \in Channels : /\ Pushed(c) \in [Runs -> RunRecords]
                          /\ \A d \in Channels \ {c} : Pushed(c)[d] = run[d]
  BY <1>1, <1>2 DEF Pushed, RunRecords
<1>4. run[Inline].at # "none" => toQueue = <<>> /\ deferred = <<>> /\ sending \in {"inline", "done"}
  BY DEF DeliveryInv
<1>5. sending = "rolled back" => toQueue = <<>>
  BY DEF DeliveryInv
<1>0. <<>> \in Seq(Channels) /\ Len(<<>>) = 0
  OBVIOUS
<1>6. CASE QueueChannel
  <2> DEFINE first == Head(toQueue)
  <2>1. /\ toQueue # <<>> /\ first = toQueue[1] /\ first \in Channels /\ toQueue' = Tail(toQueue)
        /\ Len(toQueue') = Len(toQueue) - 1 /\ Len(toQueue) \in Nat /\ Len(toQueue) > 0
        /\ \A i \in 1..Len(toQueue') : toQueue'[i] = toQueue[i + 1]
        /\ toQueue' \in Seq(Channels)
    BY <1>1, <1>6 DEF QueueChannel
  <2>2. UNCHANGED <<mailers, response, notices>>
    BY <1>6 DEF QueueChannel
  <2>3. run[first].at = "none" /\ \A i \in 1..Len(toQueue') : toQueue'[i] # first
    BY <1>1, <2>1 DEF Unpushed
  <2>4. CASE sending = "inside"
    <3>1. deferred' = Append(deferred, first) /\ run' = run
      BY <1>6, <2>4 DEF QueueChannel
    <3>2. /\ Len(deferred') = Len(deferred) + 1 /\ deferred'[Len(deferred) + 1] = first
          /\ \A i \in 1..Len(deferred) : deferred'[i] = deferred[i]
          /\ deferred' \in Seq(Channels) /\ Len(deferred) \in Nat
      BY <1>1, <2>1, <3>1
    <3>3. \A i \in 1..Len(deferred) : deferred[i] # first
      BY <1>1, <2>1 DEF Unpushed
    <3> HIDE DEF first
    <3>4. Unpushed'
      <4>1. \A i \in 1..Len(toQueue') : run'[toQueue'[i]].at = "none"
        BY <1>1, <2>1, <3>1 DEF Unpushed
      <4>2. \A i \in 1..Len(deferred') : run'[deferred'[i]].at = "none"
        BY <1>1, <2>3, <3>1, <3>2 DEF Unpushed
      <4>3. \A i, j \in 1..Len(toQueue') : toQueue'[i] = toQueue'[j] => i = j
        BY <1>1, <2>1 DEF Unpushed
      <4>4. \A i, j \in 1..Len(deferred') : deferred'[i] = deferred'[j] => i = j
        BY <1>1, <3>2, <3>3 DEF Unpushed
      <4>5. \A i \in 1..Len(deferred'), j \in 1..Len(toQueue') : deferred'[i] # toQueue'[j]
        BY <1>1, <2>1, <2>3, <3>2 DEF Unpushed
      <4> QED BY <4>1, <4>2, <4>3, <4>4, <4>5 DEF Unpushed
    <3>5. DeliveryShapes'
      BY <1>1, <2>1, <2>2, <3>1, <3>2 DEF DeliveryShapes, notices
    <3>6. sending' = sending
      BY <1>6, <2>4 DEF QueueChannel
    <3> QED BY <1>4, <1>5, <2>1, <2>2, <2>4, <3>1, <3>4, <3>5, <3>6, PushesMove
  <2>5. CASE sending # "inside"
    <3>1. run' = Pushed(first) /\ deferred' = deferred /\ sending' \in {sending, "done"}
      BY <1>6, <2>5 DEF QueueChannel
    <3> HIDE DEF first
    <3>2. \A d \in Channels \ {first} : run'[d] = run[d]
      BY <1>3, <2>1, <3>1
    <3>3. \A i \in 1..Len(deferred) : deferred[i] # first /\ deferred[i] \in Channels
      BY <1>1, <2>1 DEF Unpushed
    <3>4. Unpushed'
      <4>1. \A i \in 1..Len(toQueue') : run'[toQueue'[i]].at = "none"
        BY <1>1, <2>1, <2>3, <3>2 DEF Unpushed
      <4>2. \A i \in 1..Len(deferred') : run'[deferred'[i]].at = "none"
        BY <1>1, <3>1, <3>2, <3>3 DEF Unpushed
      <4>3. \A i, j \in 1..Len(toQueue') : toQueue'[i] = toQueue'[j] => i = j
        BY <1>1, <2>1 DEF Unpushed
      <4>4. \A i, j \in 1..Len(deferred') : deferred'[i] = deferred'[j] => i = j
        BY <1>1, <3>1 DEF Unpushed
      <4>5. \A i \in 1..Len(deferred'), j \in 1..Len(toQueue') : deferred'[i] # toQueue'[j]
        BY <1>1, <2>1, <3>1 DEF Unpushed
      <4> QED BY <4>1, <4>2, <4>3, <4>4, <4>5 DEF Unpushed
    <3>5. DeliveryShapes'
      BY <1>1, <1>3, <2>1, <2>2, <3>1 DEF DeliveryShapes, notices
    <3> QED BY <1>4, <1>5, <2>1, <2>2, <2>3, <2>5, <3>1, <3>4, <3>5, PushesMove
  <2> QED BY <2>4, <2>5
<1>7. CASE PushFails
  <2>1. /\ toQueue' = <<>> /\ deferred' = deferred /\ run' = run /\ sending = "outside" /\ sending' = "raised"
        /\ UNCHANGED <<mailers, response, notices>> /\ toQueue # <<>>
    BY <1>7 DEF PushFails
  <2>2. Unpushed'
    BY <1>0, <1>1, <2>1 DEF Unpushed
  <2>3. DeliveryShapes'
    BY <1>0, <1>1, <2>1 DEF DeliveryShapes, notices
  <2>4. PICK c \in Channels : TRUE
    BY <1>1, <2>1
  <2> QED BY <1>4, <2>1, <2>2, <2>3, <2>4, PushesMove
<1>8. ASSUME NEW b \in BOOLEAN, EndBlock(b) PROVE DeliveryInv'
  <2>1. /\ toQueue' = <<>> /\ (deferred' = deferred \/ deferred' = <<>>) /\ run' = run /\ sending = "inside"
        /\ sending' \in {"replay", "rolled back"} /\ UNCHANGED <<mailers, response, notices>>
    BY <1>8 DEF EndBlock
  <2>2. Unpushed'
    <3>0. toQueue' = <<>> /\ run' = run
      BY <2>1
    <3>1. CASE deferred' = deferred
      BY <1>0, <1>1, <3>0, <3>1 DEF Unpushed
    <3>2. CASE deferred' = <<>>
      BY <1>0, <1>1, <3>0, <3>2 DEF Unpushed
    <3> QED BY <2>1, <3>1, <3>2
  <2>3. DeliveryShapes'
    BY <1>0, <1>1, <2>1 DEF DeliveryShapes, notices
  <2>4. run[Inline].at = "none"
    BY <1>4, <2>1
  <2>5. CASE Channels = {}
    <3>1. /\ \A r \in Runs : run'[r] = run[r] /\ Halfway(r)
      BY <2>1 DEF DeliveryInv
    <3>2. \A r \in Runs : Halfway(r)'
      BY <2>1, <3>1, OthersHalfway DEF notices
    <3> QED BY <2>1, <2>2, <2>3, <2>4, <2>5, <3>2 DEF DeliveryInv, notices
  <2>6. CASE Channels # {}
    <3>1. PICK c \in Channels : TRUE
      BY <2>6
    <3> QED BY <2>1, <2>2, <2>3, <2>4, <3>1, PushesMove
  <2> QED BY <2>5, <2>6
<1>9. ASSUME NEW b \in BOOLEAN, ReplayPush(b) PROVE DeliveryInv'
  <2> DEFINE first == Head(deferred)
  <2>1. /\ deferred # <<>> /\ first = deferred[1] /\ first \in Channels /\ deferred' = Tail(deferred)
        /\ Len(deferred') = Len(deferred) - 1 /\ Len(deferred) \in Nat /\ Len(deferred) > 0
        /\ \A i \in 1..Len(deferred') : deferred'[i] = deferred[i + 1]
        /\ deferred' \in Seq(Channels)
    BY <1>1, <1>9 DEF ReplayPush
  <2>2. /\ sending = "replay" /\ sending' \in {"replay", "done"} /\ toQueue' = toQueue
        /\ run' \in {run, Pushed(first)} /\ UNCHANGED <<mailers, response, notices>>
    BY <1>9 DEF ReplayPush
  <2>3. run[first].at = "none" /\ (\A i \in 1..Len(deferred') : deferred'[i] # first /\ deferred'[i] \in Channels)
        /\ \A i \in 1..Len(toQueue) : toQueue[i] # first /\ toQueue[i] \in Channels
    BY <1>1, <2>1 DEF Unpushed
  <2> HIDE DEF first
  <2>4. \A d \in Channels \ {first} : run'[d] = run[d]
    BY <1>3, <2>1, <2>2
  <2>5. Unpushed'
    <3>1. \A i \in 1..Len(toQueue') : run'[toQueue'[i]].at = "none"
      BY <1>1, <2>2, <2>3, <2>4 DEF Unpushed
    <3>2. \A i \in 1..Len(deferred') : run'[deferred'[i]].at = "none"
      BY <1>1, <2>1, <2>3, <2>4 DEF Unpushed
    <3>3. \A i, j \in 1..Len(toQueue') : toQueue'[i] = toQueue'[j] => i = j
      BY <1>1, <2>2 DEF Unpushed
    <3>4. \A i, j \in 1..Len(deferred') : deferred'[i] = deferred'[j] => i = j
      BY <1>1, <2>1 DEF Unpushed
    <3>5. \A i \in 1..Len(deferred'), j \in 1..Len(toQueue') : deferred'[i] # toQueue'[j]
      BY <1>1, <2>1, <2>2 DEF Unpushed
    <3> QED BY <3>1, <3>2, <3>3, <3>4, <3>5 DEF Unpushed
  <2>6. DeliveryShapes'
    BY <1>1, <1>3, <2>1, <2>2 DEF DeliveryShapes, notices
  <2>7. run[Inline].at = "none"
    BY <1>4, <2>1
  <2> QED BY <2>1, <2>2, <2>3, <2>5, <2>6, <2>7, PushesMove
<1> QED BY <1>6, <1>7, <1>8, <1>9

\* The books stay balanced where one run's message for a channel enters or leaves them.
LEMMA BooksBalance ==
  ASSUME DeliveryInv, DeliveryShapes', NEW r \in Runs, NEW c \in Channels, NEW more \in Int,
         NEW tooLate \in Int,
         \A s \in Runs \ {r} : UNCHANGED <<run[s], broughtOut[s]>>,
         delivered'[c] = delivered[c] + more, sentLate'[c] = sentLate[c] + tooLate,
         IF r \in {c, Inline} THEN OutBy(r, c)' = OutBy(r, c) + more - tooLate ELSE more = tooLate
  PROVE  delivered'[c] = sentLate'[c] + OutBy(c, c)' + OutBy(Inline, c)'
<1>1. delivered[c] = sentLate[c] + OutBy(c, c) + OutBy(Inline, c)
  BY DEF DeliveryInv
<1>2. c \in Runs /\ Inline \in Runs /\ c # Inline
  BY DeliveryAssumption DEF Runs
<1>3. \A s \in Runs \ {r} : OutBy(s, c)' = OutBy(s, c)
  BY DEF OutBy, Sending
<1>4. \A s \in Runs : OutBy(s, c) \in {0, 1} /\ OutBy(s, c)' \in {0, 1}
  BY DEF OutBy
<1>5. delivered[c] \in Nat /\ sentLate[c] \in Nat /\ delivered'[c] \in Nat /\ sentLate'[c] \in Nat
  BY DEF DeliveryInv, DeliveryShapes
<1>6. CASE r = c
  <2>1. OutBy(Inline, c)' = OutBy(Inline, c) /\ OutBy(c, c)' = OutBy(c, c) + more - tooLate
    BY <1>2, <1>3, <1>6
  <2> QED BY <1>1, <1>2, <1>4, <1>5, <2>1
<1>7. CASE r = Inline
  <2>1. OutBy(c, c)' = OutBy(c, c) /\ OutBy(Inline, c)' = OutBy(Inline, c) + more - tooLate
    BY <1>2, <1>3, <1>7
  <2> QED BY <1>1, <1>2, <1>4, <1>5, <2>1
<1>8. CASE r \notin {c, Inline}
  <2>1. OutBy(c, c)' = OutBy(c, c) /\ OutBy(Inline, c)' = OutBy(Inline, c) /\ more = tooLate
    BY <1>2, <1>3, <1>8
  <2> QED BY <1>1, <1>2, <1>4, <1>5, <2>1
<1> QED BY <1>6, <1>7, <1>8

\* A run moves on and nothing goes out.
LEMMA RunMovesOn ==
  ASSUME DeliveryInv, DeliveryShapes', NEW r \in Runs, Sending(r),
         Sending(r)' \/ run'[r].at = "done",
         run' = [run EXCEPT ![r] = run'[r]],
         UNCHANGED <<toQueue, deferred, response, delivered, sentLate, broughtOut>>,
         refused \subseteq refused',
         sending' = sending \/ (r = Inline /\ sending' = "done"),
         Halfway(r)'
  PROVE  DeliveryInv'
<1>1. \A s \in Runs \ {r} : UNCHANGED <<run[s], response[s], broughtOut[s]>>
  BY DEF DeliveryInv, DeliveryShapes
<1>2. ASSUME NEW c \in Channels PROVE delivered'[c] = sentLate'[c] + OutBy(c, c)' + OutBy(Inline, c)'
  <2>1. OutBy(r, c)' = OutBy(r, c) /\ OutBy(r, c) \in {0, 1}
    BY DEF OutBy
  <2>2. delivered[c] \in Nat /\ sentLate[c] \in Nat
    BY DEF DeliveryInv, DeliveryShapes
  <2> QED BY <1>1, <2>1, <2>2, BooksBalance
<1>3. run[r].at # "none" /\ run'[r].at # "none"
  BY DEF Sending
<1> QED BY <1>1, <1>2, <1>3, OneRunMoves

\* A worker takes the job of a channel.
LEMMA DeliveryTaken ==
  ASSUME DeliveryInv, NEW c \in Channels, TakeNotification(c)
  PROVE  DeliveryInv'
<1>1. c \in Runs /\ c # Inline /\ run \in [Runs -> RunRecords] /\ DeliveryShapes
  BY DeliveryAssumption DEF Runs, DeliveryInv, DeliveryShapes
<1>2. /\ run[c].at = "ready"
      /\ run' = [run EXCEPT ![c] = [at |-> "ask", todo |-> <<c>>, tries |-> run[c].tries + 1]]
      /\ broughtOut' = [broughtOut EXCEPT ![c] = {}]
      /\ UNCHANGED <<sending, toQueue, deferred, mailers, response, delivered, sentLate, refused>>
  BY <1>1 DEF TakeNotification, Slice
<1>3. run'[c] = [at |-> "ask", todo |-> <<c>>, tries |-> run[c].tries + 1] /\ broughtOut'[c] = {}
  BY <1>1, <1>2 DEF DeliveryShapes
<1>4. run'[c] \in RunRecords
  BY <1>1, <1>3 DEF RunRecords
<1>5. DeliveryShapes'
  <2>1. run' \in [Runs -> RunRecords]
    BY <1>1, <1>2, <1>4
  <2>2. broughtOut' \in [Runs -> SUBSET Channels]
    BY <1>1, <1>2 DEF DeliveryShapes
  <2> QED BY <1>1, <1>2, <2>1, <2>2 DEF DeliveryShapes
<1>6. Halfway(c)'
  <2>1. /\ run'[c].at = "ask" /\ Len(run'[c].todo) = 1 /\ run'[c].todo[1] = c
    BY <1>3
  <2>2. Carries(c) = {c}
    BY <1>1 DEF Carries
  <2> QED BY <1>3, <2>1, <2>2 DEF Halfway, Accepted, Carries
<1>7. \A s \in Runs \ {c} : UNCHANGED <<run[s], response[s], broughtOut[s]>>
  BY <1>2
<1>8. ASSUME NEW d \in Channels PROVE delivered'[d] = sentLate'[d] + OutBy(d, d)' + OutBy(Inline, d)'
  <2>1. OutBy(c, d) = 0 /\ OutBy(c, d)' = 0
    BY <1>1, <1>2, <1>3 DEF OutBy, Sending
  <2>2. delivered[d] \in Nat /\ sentLate[d] \in Nat
    BY <1>1 DEF DeliveryShapes
  <2> QED BY <1>1, <1>2, <1>5, <1>7, <2>1, <2>2, BooksBalance
<1>9. run[c].at # "none" /\ run'[c].at # "none"
  BY <1>2, <1>3
<1> QED BY <1>1, <1>2, <1>5, <1>6, <1>7, <1>8, <1>9, OneRunMoves

\* A run fails, to be tried again or for good.
LEMMA DeliveryFails ==
  ASSUME DeliveryInv, NEW r \in Runs, Sending(r), Fails(r)
  PROVE  DeliveryInv'
<1>1. run \in [Runs -> RunRecords] /\ DeliveryShapes /\ Halfway(r)
  BY DEF DeliveryInv, DeliveryShapes
<1>2. PICK at \in {"ready", "failed"} :
         /\ run'[r] = [at |-> at, todo |-> <<>>, tries |-> run[r].tries] /\ (r = Inline => at = "failed")
         /\ \A s \in Runs \ {r} : run'[s] = run[s]
         /\ run' \in [Runs -> RunRecords]
  <2> DEFINE at == IF r # Inline /\ run[r].tries < MaxTries THEN "ready" ELSE "failed"
  <2>1. run' = [run EXCEPT ![r] = [at |-> at, todo |-> <<>>, tries |-> run[r].tries]]
    BY <1>1 DEF Fails
  <2>2. at \in {"ready", "failed"} /\ (r = Inline => at = "failed")
    OBVIOUS
  <2> HIDE DEF at
  <2>3. [at |-> at, todo |-> <<>>, tries |-> run[r].tries] \in RunRecords
    BY <1>1, <2>2 DEF RunRecords
  <2> QED BY <1>1, <2>1, <2>2, <2>3
<1>3. /\ \A c \in Channels : sentLate'[c] = sentLate[c] + IF r = c /\ c \in broughtOut[r] THEN 1 ELSE 0
      /\ sentLate' \in [Channels -> Nat]
      /\ UNCHANGED <<sending, toQueue, deferred, mailers, response, delivered, refused, broughtOut>>
  BY <1>1 DEF Fails, DeliveryShapes
<1>4. DeliveryShapes'
  BY <1>1, <1>2, <1>3 DEF DeliveryShapes
<1>5. Halfway(r)'
  BY <1>1, <1>2, <1>3 DEF Halfway, Sending, Carries
<1>6. ASSUME NEW c \in Channels PROVE delivered'[c] = sentLate'[c] + OutBy(c, c)' + OutBy(Inline, c)'
  <2> DEFINE tooLate == IF r = c /\ c \in broughtOut[r] THEN 1 ELSE 0
  <2>1. tooLate \in Int /\ sentLate'[c] = sentLate[c] + tooLate /\ delivered'[c] = delivered[c] + 0
    BY <1>1, <1>3 DEF DeliveryShapes
  <2>2. IF r \in {c, Inline} THEN OutBy(r, c)' = OutBy(r, c) + 0 - tooLate ELSE 0 = tooLate
    <3>1. CASE r = Inline
      <4>1. tooLate = 0
        BY <3>1, DeliveryAssumption
      <4>2. OutBy(r, c)' = OutBy(r, c) /\ OutBy(r, c) \in {0, 1}
        BY <1>3, <3>1 DEF OutBy
      <4> QED BY <4>1, <4>2
    <3>2. CASE r # Inline /\ r = c
      <4>1. OutBy(r, c)' = 0
        BY <1>2, <3>2 DEF OutBy, Sending
      <4>2. OutBy(r, c) = tooLate
        BY <3>2 DEF OutBy
      <4> QED BY <2>1, <4>1, <4>2
    <3>3. CASE r # Inline /\ r # c
      BY <3>3
    <3> QED BY <3>1, <3>2, <3>3
  <2>3. \A s \in Runs \ {r} : UNCHANGED <<run[s], broughtOut[s]>>
    BY <1>2, <1>3
  <2> HIDE DEF tooLate
  <2> QED BY <1>4, <2>1, <2>2, <2>3, BooksBalance
<1>7. run[r].at # "none" /\ run'[r].at # "none"
  BY <1>2 DEF Sending
<1> QED BY <1>2, <1>3, <1>4, <1>5, <1>6, <1>7, OneRunMoves

\* A run asks whether a channel is wanted.
LEMMA DeliveryAsks ==
  ASSUME DeliveryInv, NEW r \in Runs, NEW veto \in BOOLEAN, Ask(r, veto)
  PROVE  DeliveryInv'
<1> DEFINE ahead == run[r].todo
           c == Head(ahead)
<1>1. run \in [Runs -> RunRecords] /\ DeliveryShapes /\ Halfway(r)
  BY DEF DeliveryInv, DeliveryShapes
<1>2. /\ run[r].at = "ask" /\ ahead # <<>> /\ ahead \in Seq(Channels) /\ Len(ahead) \in Nat /\ Len(ahead) > 0
      /\ c = ahead[1] /\ c \in Channels /\ Tail(ahead) \in Seq(Channels) /\ Len(Tail(ahead)) = Len(ahead) - 1
      /\ \A i \in 1..Len(Tail(ahead)) : Tail(ahead)[i] = ahead[i + 1]
      /\ UNCHANGED <<sending, toQueue, deferred, response, delivered, sentLate, broughtOut>>
  BY <1>1 DEF Ask, RunRecords
<1>3. Sending(r)
  BY <1>2 DEF Sending
<1>4. /\ \A i, j \in 1..Len(ahead) : ahead[i] = ahead[j] => i = j
      /\ \A i \in 1..Len(ahead) : ahead[i] \in Carries(r) /\ ahead[i] \notin broughtOut[r]
      /\ \A d \in Carries(r) : d \in broughtOut[r] \cup refused \/ \E i \in 1..Len(ahead) : ahead[i] = d
      /\ broughtOut[r] \subseteq Carries(r)
  BY <1>1, <1>2, <1>3 DEF Halfway, Accepted
<1>5. CASE veto
  <2>1. run' = [run EXCEPT ![r].todo = Tail(ahead)] /\ refused' = refused \cup {c} /\ mailers' = mailers
    BY <1>5 DEF Ask
  <2>2. run'[r].at = "ask" /\ run'[r].todo = Tail(ahead) /\ run'[r] \in RunRecords
    BY <1>1, <1>2, <2>1 DEF RunRecords
  <2>3. run' = [run EXCEPT ![r] = run'[r]] /\ run' \in [Runs -> RunRecords]
    BY <1>1, <2>1, <2>2
  <2>4. DeliveryShapes'
    BY <1>1, <1>2, <2>1, <2>3 DEF DeliveryShapes
  <2> HIDE DEF ahead, c
  <2>5. Halfway(r)'
    <3> DEFINE rest == Tail(ahead)
    <3>1. \A i, j \in 1..Len(rest) : rest[i] = rest[j] => i = j
      BY <1>2, <1>4
    <3>2. \A i \in 1..Len(rest) : rest[i] \in Carries(r) /\ rest[i] \notin broughtOut[r]
      BY <1>2, <1>4
    <3>3. ASSUME NEW d \in Carries(r)
          PROVE  d \in broughtOut[r] \cup refused' \/ \E i \in 1..Len(rest) : rest[i] = d
      <4>1. CASE d \in broughtOut[r] \cup refused
        BY <2>1, <4>1
      <4>2. CASE \E i \in 1..Len(ahead) : ahead[i] = d
        <5>1. PICK i \in 1..Len(ahead) : ahead[i] = d
          BY <4>2
        <5>2. CASE i = 1
          BY <1>2, <2>1, <5>1, <5>2
        <5>3. CASE i # 1
          <6>1. i - 1 \in 1..Len(rest) /\ rest[i - 1] = d
            BY <1>2, <5>1, <5>3
          <6> QED BY <6>1
        <5> QED BY <5>2, <5>3
      <4> QED BY <1>4, <4>1, <4>2
    <3> HIDE DEF rest
    <3>4. run'[r].todo = rest
      BY <2>2 DEF rest
    <3> QED BY <1>2, <1>4, <2>2, <3>1, <3>2, <3>3, <3>4 DEF Halfway, Sending, Accepted, Carries
  <2>6. Sending(r)' /\ refused \subseteq refused'
    BY <2>1, <2>2 DEF Sending
  <2> QED BY <1>2, <1>3, <2>3, <2>4, <2>5, <2>6, RunMovesOn
<1>6. CASE ~veto
  <2>1. /\ run' = [run EXCEPT ![r].at = "send"] /\ refused' = refused
        /\ mailers' = [mailers EXCEPT ![r] = MailersOf[c]]
    BY <1>6 DEF Ask
  <2>2. run'[r].at = "send" /\ run'[r].todo = ahead /\ run'[r] \in RunRecords
    BY <1>1, <1>2, <2>1 DEF RunRecords
  <2>3. run' = [run EXCEPT ![r] = run'[r]] /\ run' \in [Runs -> RunRecords]
    BY <1>1, <2>1, <2>2
  <2>4. DeliveryShapes'
    BY <1>1, <1>2, <2>1, <2>3 DEF DeliveryShapes
  <2>5. Halfway(r)'
    BY <1>2, <1>4, <2>1, <2>2 DEF Halfway, Sending, Accepted, Carries
  <2>6. Sending(r)' /\ refused \subseteq refused'
    BY <2>1, <2>2 DEF Sending
  <2> QED BY <1>2, <1>3, <2>3, <2>4, <2>5, <2>6, RunMovesOn
<1> QED BY <1>5, <1>6

\* A transport answers, or its answer is lost.
LEMMA DeliveryTransports ==
  ASSUME DeliveryInv, NEW r \in Runs, NEW goesOut \in BOOLEAN, NEW raises \in BOOLEAN,
         Transport(r, goesOut, raises)
  PROVE  DeliveryInv'
<1> DEFINE ahead == run[r].todo
           c == Head(ahead)
           out == goesOut /\ ~raises
<1>1. run \in [Runs -> RunRecords] /\ DeliveryShapes /\ Halfway(r)
  BY DEF DeliveryInv, DeliveryShapes
<1>2. run[r].at = "send" /\ ahead # <<>> /\ ahead \in Seq(Channels)
  <2>1. run[r].at = "send"
    BY DEF Transport, Try
  <2> QED BY <1>1, <2>1 DEF Halfway, Sending, RunRecords
<1>3. c = ahead[1] /\ c \in Channels /\ Len(ahead) \in Nat /\ Len(ahead) > 0
  BY <1>2
<1>4. /\ \A i, j \in 1..Len(ahead) : ahead[i] = ahead[j] => i = j
      /\ \A i \in 1..Len(ahead) : ahead[i] \in Carries(r) /\ ahead[i] \notin broughtOut[r]
      /\ \A d \in Carries(r) : d \in broughtOut[r] \cup refused \/ \E i \in 1..Len(ahead) : ahead[i] = d
      /\ broughtOut[r] \subseteq Carries(r)
  BY <1>1, <1>2 DEF Halfway, Accepted, Sending
<1>5. c \in Carries(r) /\ c \notin broughtOut[r]
  BY <1>3, <1>4
<1> HIDE DEF c, ahead
<1>6. /\ delivered' = [delivered EXCEPT ![c] = @ + IF goesOut THEN 1 ELSE 0]
      /\ sentLate' = [sentLate EXCEPT ![c] = @ + IF goesOut /\ raises THEN 1 ELSE 0]
      /\ broughtOut' = IF out THEN [broughtOut EXCEPT ![r] = @ \cup {c}] ELSE broughtOut
      /\ response' = [response EXCEPT ![r] = IF raises THEN "error" ELSE "sent"]
      /\ UNCHANGED <<sending, toQueue, deferred, refused>>
      /\ goesOut \/ raises
  BY DEF Transport, Try, c, ahead
<1>7. /\ mailers' = [mailers EXCEPT ![r] = IF response'[r] = "error" THEN Tail(@) ELSE <<>>]
      /\ run' = [run EXCEPT ![r].at = IF mailers'[r] = <<>> THEN "answer" ELSE "send"]
  BY DEF Transport, WalkOn
<1>8. response'[r] = IF raises THEN "error" ELSE "sent"
  BY <1>1, <1>6 DEF DeliveryShapes
<1>9. mailers' = [s \in Runs |-> mailers'[s]] /\ (~raises => mailers'[r] = <<>>)
  BY <1>1, <1>7, <1>8 DEF DeliveryShapes
<1>10. /\ run'[r].at \in {"answer", "send"} /\ run'[r].todo = ahead /\ run'[r] \in RunRecords
       /\ ~raises => run'[r].at = "answer"
  BY <1>1, <1>7, <1>9 DEF RunRecords, ahead
<1>11. /\ run' \in [Runs -> RunRecords]
       /\ \A s \in Runs \ {r} : run'[s] = run[s]
  BY <1>1, <1>7, <1>10
<1>12. broughtOut'[r] = IF out THEN broughtOut[r] \cup {c} ELSE broughtOut[r]
  BY <1>1, <1>6 DEF DeliveryShapes
<1>13. /\ \A s \in Runs \ {r} : UNCHANGED <<run[s], response[s], broughtOut[s]>>
  BY <1>1, <1>6, <1>11 DEF DeliveryShapes
<1>14. DeliveryShapes'
  <2>1. broughtOut' \in [Runs -> SUBSET Channels]
    BY <1>1, <1>3, <1>6 DEF DeliveryShapes
  <2>2. delivered' \in [Channels -> Nat] /\ sentLate' \in [Channels -> Nat]
    BY <1>1, <1>3, <1>6 DEF DeliveryShapes
  <2>3. response' \in [Runs -> {"none", "sent", "error"}]
    BY <1>1, <1>6 DEF DeliveryShapes
  <2> QED BY <1>1, <1>6, <1>9, <1>11, <2>1, <2>2, <2>3 DEF DeliveryShapes
<1>15. Sending(r) /\ Sending(r)' /\ (Accepted(r)' <=> out)
  BY <1>2, <1>6, <1>8, <1>10 DEF Sending, Accepted
<1>16. Halfway(r)'
  <2>1. \A i \in 1..Len(ahead) : ahead[i] = c => i = 1
    BY <1>3, <1>4
  <2>2. \A i \in 1..Len(ahead) : ahead[i] \in broughtOut'[r] <=> i = 1 /\ Accepted(r)'
    BY <1>3, <1>4, <1>5, <1>12, <1>15, <2>1
  <2>3. broughtOut'[r] \subseteq Carries(r) /\ broughtOut[r] \subseteq broughtOut'[r]
    BY <1>4, <1>5, <1>12
  <2>4. \A d \in Carries(r) : d \in broughtOut'[r] \cup refused' \/ \E i \in 1..Len(ahead) : ahead[i] = d
    BY <1>4, <1>6, <2>3
  <2> QED BY <1>2, <1>4, <1>10, <1>15, <2>2, <2>3, <2>4 DEF Halfway, Carries, ahead
<1>17. ASSUME NEW d \in Channels PROVE delivered'[d] = sentLate'[d] + OutBy(d, d)' + OutBy(Inline, d)'
  <2> DEFINE more == IF d = c /\ goesOut THEN 1 ELSE 0
             tooLate == IF d = c /\ goesOut /\ raises THEN 1 ELSE 0
  <2>1. /\ more \in Int /\ tooLate \in Int
        /\ delivered'[d] = delivered[d] + more /\ sentLate'[d] = sentLate[d] + tooLate
    BY <1>1, <1>3, <1>6 DEF DeliveryShapes
  <2>2. OutBy(r, d) = (IF d \in broughtOut[r] THEN 1 ELSE 0)
        /\ OutBy(r, d)' = (IF d \in broughtOut'[r] THEN 1 ELSE 0)
    BY <1>15 DEF OutBy
  <2>3. IF r \in {d, Inline} THEN OutBy(r, d)' = OutBy(r, d) + more - tooLate ELSE more = tooLate
    <3>1. CASE d = c
      <4>1. r \in {d, Inline}
        BY <1>5, <3>1 DEF Carries
      <4> QED BY <1>5, <1>12, <2>2, <3>1, <4>1
    <3>2. CASE d # c
      <4>1. OutBy(r, d)' = OutBy(r, d) /\ OutBy(r, d) \in {0, 1}
        BY <1>12, <2>2, <3>2
      <4> QED BY <3>2, <4>1
    <3> QED BY <3>1, <3>2
  <2>4. \A s \in Runs \ {r} : UNCHANGED <<run[s], broughtOut[s]>>
    BY <1>13
  <2> HIDE DEF more, tooLate
  <2> QED BY <1>14, <2>1, <2>3, <2>4, BooksBalance
<1>18. run[r].at # "none" /\ run'[r].at # "none"
  BY <1>2, <1>10
<1> QED BY <1>6, <1>13, <1>14, <1>16, <1>17, <1>18, OneRunMoves

\* A driver has answered, or there is no channel left.
LEMMA DeliveryEnds ==
  ASSUME DeliveryInv, NEW r \in Runs, DriverAnswers(r) \/ Returns(r)
  PROVE  DeliveryInv'
<1> DEFINE ahead == run[r].todo
<1>1. run \in [Runs -> RunRecords] /\ DeliveryShapes /\ Halfway(r)
  BY DEF DeliveryInv, DeliveryShapes
<1>2. /\ UNCHANGED <<toQueue, deferred, mailers, response, notices>>
      /\ sending' = sending \/ (r = Inline /\ sending' = "done")
      /\ Sending(r) /\ ahead \in Seq(Channels)
  BY <1>1 DEF DriverAnswers, Returns, Sending, RunRecords
<1>3. /\ \A i, j \in 1..Len(ahead) : ahead[i] = ahead[j] => i = j
      /\ run[r].at # "ask" => ahead # <<>>
      /\ \A i \in 1..Len(ahead) :
            ahead[i] \in Carries(r) /\ (ahead[i] \in broughtOut[r] <=> i = 1 /\ Accepted(r))
      /\ \A d \in Carries(r) : d \in broughtOut[r] \cup refused \/ \E i \in 1..Len(ahead) : ahead[i] = d
      /\ broughtOut[r] \subseteq Carries(r)
  BY <1>1, <1>2 DEF Halfway
<1>4. CASE DriverAnswers(r)
  <2> DEFINE rest == Tail(ahead)
  <2>1. Accepted(r) /\ run' = [run EXCEPT ![r] = [at |-> "ask", todo |-> rest, tries |-> run[r].tries]]
    BY <1>1, <1>4 DEF DriverAnswers, Accepted
  <2>2. /\ ahead # <<>> /\ Len(ahead) \in Nat /\ Len(ahead) > 0 /\ rest \in Seq(Channels)
        /\ Len(rest) = Len(ahead) - 1 /\ \A i \in 1..Len(rest) : rest[i] = ahead[i + 1]
    BY <1>2, <1>3, <2>1 DEF Accepted
  <2>3. /\ run'[r] = [at |-> "ask", todo |-> rest, tries |-> run[r].tries] /\ run'[r] \in RunRecords
        /\ run' \in [Runs -> RunRecords] /\ run' = [run EXCEPT ![r] = run'[r]]
    BY <1>1, <2>1, <2>2 DEF RunRecords
  <2>4. ahead[1] \in broughtOut[r]
    BY <1>3, <2>1, <2>2
  <2> HIDE DEF ahead
  <2>5. \A i, j \in 1..Len(rest) : rest[i] = rest[j] => i = j
    BY <1>3, <2>2
  <2>6. \A i \in 1..Len(rest) : rest[i] \in Carries(r) /\ rest[i] \notin broughtOut[r]
    BY <1>3, <2>2
  <2>7. ASSUME NEW d \in Carries(r)
        PROVE  d \in broughtOut[r] \cup refused \/ \E i \in 1..Len(rest) : rest[i] = d
    <3>1. CASE d \in broughtOut[r] \cup refused
      BY <3>1
    <3>2. CASE d \notin broughtOut[r] \cup refused
      <4>1. PICK i \in 1..Len(ahead) : ahead[i] = d
        BY <1>3, <3>2
      <4>2. i # 1
        BY <2>4, <3>2, <4>1
      <4>3. i - 1 \in 1..Len(rest) /\ rest[i - 1] = d
        BY <2>2, <4>1, <4>2
      <4> QED BY <4>3
    <3> QED BY <3>1, <3>2
  <2> HIDE DEF rest
  <2>8. Halfway(r)'
    BY <1>2, <1>3, <2>3, <2>5, <2>6, <2>7 DEF Halfway, Sending, Accepted, Carries, notices
  <2>9. DeliveryShapes'
    BY <1>1, <1>2, <2>3 DEF DeliveryShapes, notices
  <2>10. Sending(r)' /\ refused \subseteq refused'
    BY <1>2, <2>3 DEF Sending, notices
  <2> QED BY <1>2, <2>3, <2>8, <2>9, <2>10, RunMovesOn DEF notices
<1>5. CASE Returns(r)
  <2>1. run[r].at = "ask" /\ ahead = <<>> /\ run' = [run EXCEPT ![r].at = "done"]
    BY <1>5 DEF Returns
  <2>2. /\ run'[r].at = "done" /\ run'[r] \in RunRecords
        /\ run' \in [Runs -> RunRecords] /\ run' = [run EXCEPT ![r] = run'[r]]
    BY <1>1, <2>1 DEF RunRecords
  <2>3. Carries(r) \subseteq broughtOut[r] \cup refused
    BY <1>3, <2>1
  <2>4. Halfway(r)'
    BY <1>2, <1>3, <2>2, <2>3 DEF Halfway, Sending, Carries, notices
  <2>5. DeliveryShapes'
    BY <1>1, <1>2, <2>2 DEF DeliveryShapes, notices
  <2> QED BY <1>2, <2>2, <2>4, <2>5, RunMovesOn DEF notices
<1> QED BY <1>4, <1>5

\* Each step of a notification (notifications/).
LEMMA DeliveryNext == DeliveryInv /\ [DeliveryStep]_deliveryVars => DeliveryInv'
<1> SUFFICES ASSUME DeliveryInv, [DeliveryStep]_deliveryVars PROVE DeliveryInv'
  OBVIOUS
<1>1. Channels \subseteq Runs
  BY DEF Runs
<1>2. ASSUME NEW r \in Runs, SendRaises(r) PROVE DeliveryInv'
  BY <1>2, DeliveryFails DEF SendRaises, Sending
<1>3. ASSUME NEW c \in Channels, WorkerDies(c) PROVE DeliveryInv'
  <2>1. c \in Runs /\ Sending(c) /\ Fails(c)
    BY <1>1, <1>3 DEF WorkerDies, Sending
  <2> QED BY <2>1, DeliveryFails
<1>4. CASE UNCHANGED deliveryVars
  <2>1. UNCHANGED <<sending, toQueue, deferred, run, mailers, response, delivered, sentLate, refused, broughtOut>>
    BY <1>4 DEF deliveryVars, notices
  <2>2. \A r \in Runs : Halfway(r)'
    BY <2>1, OthersHalfway DEF DeliveryInv
  <2>3. DeliveryShapes'
    BY <2>1 DEF DeliveryInv, DeliveryShapes
  <2>0. Unpushed'
    <3>1. Unpushed
      BY DEF DeliveryInv
    <3>2. toQueue' = toQueue /\ deferred' = deferred /\ run' = run
      BY <2>1
    <3> QED BY <3>1, <3>2 DEF Unpushed
  <2>4. \A r \in Runs, c \in Channels : OutBy(r, c)' = OutBy(r, c)
    BY <2>1 DEF OutBy, Sending
  <2>5. Inline \in Runs
    BY DEF Runs
  <2>6. \A c \in Channels : delivered'[c] = sentLate'[c] + OutBy(c, c)' + OutBy(Inline, c)'
    BY <1>1, <2>1, <2>4, <2>5 DEF DeliveryInv
  <2> QED BY <2>0, <2>1, <2>2, <2>3, <2>6 DEF DeliveryInv
<1> QED BY <1>2, <1>3, <1>4, DeliveryQueues, DeliveryTaken, DeliveryAsks, DeliveryTransports, DeliveryEnds
        DEF DeliveryStep

-----------------------------------------------------------------------------
(* Migrations *)

\* A finite set of numbers has a least and a greatest.
LEMMA Greatest ==
  ASSUME NEW S, IsFiniteSet(S), S \subseteq Int, S # {}
  PROVE  Max(S) \in S /\ \A y \in S : y <= Max(S)
<1> DEFINE from(x) == {y \in S : x <= y}
           tops == {from(x) : x \in S}
<1>1. IsWellFoundedOn(StrictSubsetOrdering(S), FiniteSubsetsOf(S))
  BY FS_StrictSubsetOrderingWellFounded
<1>2. tops \subseteq FiniteSubsetsOf(S) /\ tops # {}
  <2>1. \A x \in S : from(x) \subseteq S
    OBVIOUS
  <2>2. \A x \in S : IsFiniteSet(from(x))
    BY <2>1, FS_Subset
  <2>3. tops # {}
    OBVIOUS
  <2> QED BY <2>1, <2>2, <2>3 DEF FiniteSubsetsOf
<1>3. PICK t \in tops : \A u \in tops : ~(<<u, t>> \in StrictSubsetOrdering(S))
  BY <1>1, <1>2, WFMin
<1>4. PICK x \in S : t = from(x)
  OBVIOUS
<1>5. ASSUME NEW y \in S PROVE y <= x
  <2> SUFFICES ASSUME x < y PROVE FALSE
    OBVIOUS
  <2>0. x \in Int /\ y \in Int /\ S \subseteq Int
    OBVIOUS
  <2>1. from(y) \in tops /\ from(y) \subseteq from(x) /\ x \in from(x) /\ x \notin from(y)
    <3>1. from(y) \in tops
      OBVIOUS
    <3>2. \A z \in from(y) : z \in from(x)
      BY <2>0
    <3>3. x \in from(x) /\ x \notin from(y)
      BY <2>0
    <3> QED BY <3>1, <3>2, <3>3
  <2>2. <<from(y), t>> \in StrictSubsetOrdering(S)
    BY <1>2, <1>4, <2>1 DEF StrictSubsetOrdering, FiniteSubsetsOf
  <2> QED BY <1>3, <2>1, <2>2
<1> QED BY <1>5 DEF Max

LEMMA Least ==
  ASSUME NEW S, IsFiniteSet(S), S \subseteq Int, S # {}
  PROVE  Min(S) \in S /\ \A y \in S : Min(S) <= y
<1> DEFINE to(x) == {y \in S : y <= x}
           lows == {to(x) : x \in S}
<1>1. IsWellFoundedOn(StrictSubsetOrdering(S), FiniteSubsetsOf(S))
  BY FS_StrictSubsetOrderingWellFounded
<1>2. lows \subseteq FiniteSubsetsOf(S) /\ lows # {}
  <2>1. \A x \in S : to(x) \subseteq S
    OBVIOUS
  <2>2. \A x \in S : IsFiniteSet(to(x))
    BY <2>1, FS_Subset
  <2>3. lows # {}
    OBVIOUS
  <2> QED BY <2>1, <2>2, <2>3 DEF FiniteSubsetsOf
<1>3. PICK t \in lows : \A u \in lows : ~(<<u, t>> \in StrictSubsetOrdering(S))
  BY <1>1, <1>2, WFMin
<1>4. PICK x \in S : t = to(x)
  OBVIOUS
<1>5. ASSUME NEW y \in S PROVE x <= y
  <2> SUFFICES ASSUME y < x PROVE FALSE
    OBVIOUS
  <2>0. x \in Int /\ y \in Int /\ S \subseteq Int
    OBVIOUS
  <2>1. to(y) \in lows /\ to(y) \subseteq to(x) /\ x \in to(x) /\ x \notin to(y)
    <3>1. to(y) \in lows
      OBVIOUS
    <3>2. \A z \in to(y) : z \in to(x)
      BY <2>0
    <3>3. x \in to(x) /\ x \notin to(y)
      BY <2>0
    <3> QED BY <3>1, <3>2, <3>3
  <2>2. <<to(y), t>> \in StrictSubsetOrdering(S)
    BY <1>2, <1>4, <2>1 DEF StrictSubsetOrdering, FiniteSubsetsOf
  <2> QED BY <1>3, <2>1, <2>2
<1> QED BY <1>5 DEF Min

----------------------------------------------------------------------------
DeployRecords ==
    [at : {"idle", "wipe", "run", "up", "down"}, todo : SUBSET Migrations,
     batch : 0..MaxBatch, done : SUBSET Migrations, then : {"idle", "run"}]

\* What a command has done and not committed is its own, and no command in a transaction
\* applies what is applied.
DeploysApart ==
    /\ \A d \in Deploys : ~InTransaction(d) => deploy[d].done = {}
    /\ \A d \in Deploys : \A e \in Others(d) : deploy[d].done \cap deploy[e].done = {}
    /\ \A d \in Deploys : deploy[d].at = "up" =>
          deploy[d].batch # 0 /\ \A m \in deploy[d].done : logged[m] = 0
    /\ \A m \in Migrations : effect[m] <= 1 /\ (logged[m] = 0 => effect[m] <= 0)

InLastBatch == {m \in Applied : logged[m] = LastBatch}

\* Without a rollback that overlaps: the log tells what is in effect, in batches none of which
\* needs a later one; a rollback is alone, takes the last batch, the later migrations first;
\* and what a run is about to apply needs only what it will have applied or found.
Calm ==
    /\ \A m \in Migrations : effect[m] = IF logged[m] # 0 THEN 1 ELSE 0
    /\ \A m \in Migrations : logged[m] # 0 =>
          \A n \in Needs[m] : logged[n] # 0 /\ logged[n] <= logged[m]
    /\ \A d \in Deploys : deploy[d].at = "down" =>
          /\ \A e \in Others(d) : ~InTransaction(e)
          /\ deploy[d].todo \cup deploy[d].done = InLastBatch
          /\ \A m \in deploy[d].done, n \in deploy[d].todo : n < m
    /\ \A d \in Deploys : deploy[d].at = "up" =>
          \A m \in deploy[d].todo \cup deploy[d].done : \A n \in Needs[m] :
              \/ n \in deploy[d].todo \cup deploy[d].done
              \/ logged[n] # 0 /\ logged[n] <= deploy[d].batch

MigrationShapes ==
    /\ files \subseteq Migrations /\ Closed(files)
    /\ logged \in [Migrations -> 0..MaxBatch] /\ effect \in [Migrations -> Int]
    /\ deploy \in [Deploys -> DeployRecords] /\ overlapped \in BOOLEAN

MigrationsInv == MigrationShapes /\ DeploysApart /\ (~overlapped => Calm)

\* The last batch is one that was logged, and none is after it.
LEMMA LastBatchTops ==
  ASSUME logged \in [Migrations -> 0..MaxBatch]
  PROVE  LastBatch \in 0..MaxBatch /\ \A m \in Migrations : logged[m] <= LastBatch
<1> DEFINE batches == {logged[m] : m \in Migrations} \cup {0}
<1>1. batches \subseteq Nat /\ (\A b \in batches : b <= MaxBatch) /\ batches # {} /\ MaxBatch \in Nat
  BY MigrationsAssumption
<1>2. IsFiniteSet(batches)
  BY <1>1, FS_BoundedSetOfNaturals
<1>3. Max(batches) \in batches /\ \A b \in batches : b <= Max(batches)
  <2>1. batches \subseteq Int
    BY <1>1
  <2> HIDE DEF batches
  <2> QED BY <1>1, <1>2, <2>1, Greatest
<1> QED BY <1>1, <1>3 DEF LastBatch

\* What the schema promises follows.
LEMMA MigrationsSafe == MigrationsInv => SchemaRight
<1> SUFFICES ASSUME MigrationsInv PROVE SchemaRight
  OBVIOUS
<1>1. \A m \in Migrations : effect[m] <= 1
  BY DEF MigrationsInv, DeploysApart
<1>2. ASSUME ~overlapped PROVE Closed(Applied)
  BY <1>2, MigrationsAssumption DEF MigrationsInv, Calm, Closed, Applied
<1>3. ASSUME ~overlapped, NEW d \in Deploys, InTransaction(d), deploy[d].todo # {}
      PROVE  \/ CanApply(d, NextMigration(d))
             \/ deploy[d].at = "up" /\ deploy[d].todo \cap Applied # {}
  <2> DEFINE ahead == deploy[d].todo
  <2>1. /\ ahead \subseteq Migrations /\ Migrations \subseteq Int /\ IsFiniteSet(Migrations)
        /\ IsFiniteSet(ahead)
    BY MigrationsAssumption, FS_Subset DEF MigrationsInv, MigrationShapes, DeployRecords
  <2>2. CASE deploy[d].at = "up"
    <3> DEFINE m == Min(ahead)
    <3>1. m \in ahead /\ \A y \in ahead : m <= y
      BY <1>3, <2>1, Least
    <3> HIDE DEF m
    <3>2. SUFFICES ASSUME logged[m] = 0 PROVE CanUp(d, m)
      BY <2>1, <2>2, <3>1 DEF CanApply, NextMigration, Applied, m
    <3>3. FirstTime(m)
      BY <1>3, <2>1, <3>1, <3>2 DEF FirstTime, MigrationsInv, Calm
    <3>4. ASSUME NEW n \in Needs[m] PROVE effect[n] = 1 \/ n \in deploy[d].done
      <4>0. m \in Migrations /\ \A y \in ahead : m <= y
        BY <2>1, <3>1
      <4>1. n \in Migrations /\ n < m /\ n \notin ahead
        <5>1. n \in Migrations /\ n < m
          BY <4>0, MigrationsAssumption
        <5>2. n \in Int /\ m \in Int
          BY <2>1, <4>0, <5>1
        <5> HIDE DEF ahead
        <5> QED BY <4>0, <5>1, <5>2
      <4>2. n \in deploy[d].done \/ logged[n] # 0
        BY <1>3, <2>2, <3>1, <4>1 DEF MigrationsInv, Calm
      <4> QED BY <1>3, <4>1, <4>2 DEF MigrationsInv, Calm
    <3> QED BY <3>3, <3>4 DEF CanUp
  <2>3. CASE deploy[d].at = "down"
    <3> DEFINE m == Max(ahead)
    <3>1. m \in ahead /\ \A y \in ahead : y <= m
      BY <1>3, <2>1, Greatest
    <3> HIDE DEF m
    <3>2. SUFFICES CanDown(d, m)
      BY <2>3 DEF CanApply, NextMigration, m
    <3>3. ahead \cup deploy[d].done = InLastBatch
      BY <1>3, <2>3 DEF MigrationsInv, Calm
    <3>4. logged[m] # 0 /\ logged[m] = LastBatch /\ effect[m] = 1
      <4>1. m \in Migrations /\ m \in InLastBatch
        BY <2>1, <3>1, <3>3
      <4>2. logged[m] # 0 /\ logged[m] = LastBatch
        BY <4>1 DEF InLastBatch, Applied
      <4> QED BY <1>3, <4>1, <4>2 DEF MigrationsInv, Calm
    <3>5. ASSUME NEW n \in Migrations, m \in Needs[n] PROVE effect[n] = 0 \/ n \in deploy[d].done
      <4>1. m < n /\ n \in Int /\ m \in Int
        BY <2>1, <3>1, <3>5, MigrationsAssumption
      <4>2. CASE logged[n] = 0
        BY <1>3, <4>2 DEF MigrationsInv, Calm
      <4>3. CASE logged[n] # 0
        <5>1. LastBatch <= logged[n]
          BY <1>3, <3>4, <3>5, <4>3 DEF MigrationsInv, Calm
        <5>2. LastBatch \in Nat /\ logged[n] \in Nat /\ logged[n] <= LastBatch
          BY LastBatchTops, MigrationsAssumption DEF MigrationsInv, MigrationShapes
        <5>3. logged[n] = LastBatch
          BY <5>1, <5>2
        <5>4. n \in InLastBatch /\ n \notin ahead
          BY <3>1, <4>1, <4>3, <5>3 DEF InLastBatch, Applied
        <5> QED BY <3>3, <5>4
      <4> QED BY <4>2, <4>3
    <3> QED BY <3>4, <3>5 DEF CanDown, Undone
  <2> QED BY <1>3, <2>2, <2>3 DEF InTransaction
<1> QED BY <1>1, <1>2, <1>3 DEF SchemaRight, MigrationsInv, Calm

\* No table at the start.
LEMMA MigrationsBegin == MigrationsInit => MigrationsInv
<1> SUFFICES ASSUME MigrationsInit PROVE MigrationsInv
  OBVIOUS
<1>1. \A d \in Deploys : deploy[d] = [at |-> "idle", todo |-> {}, batch |-> 0, done |-> {}, then |-> "idle"]
  BY DEF MigrationsInit, Resting, Begun
<1>2. MigrationShapes
  <2>1. 0 \in 0..MaxBatch /\ {} \in SUBSET Migrations
    BY MigrationsAssumption
  <2>2. Resting \in DeployRecords
    BY <2>1 DEF Resting, Begun, DeployRecords
  <2>3. Closed(files)
    BY DEF MigrationsInit, Closed
  <2>4. /\ logged \in [Migrations -> 0..MaxBatch] /\ effect \in [Migrations -> Int]
        /\ deploy \in [Deploys -> DeployRecords]
    BY <2>1, <2>2 DEF MigrationsInit
  <2>5. files \subseteq Migrations /\ overlapped \in BOOLEAN
    BY DEF MigrationsInit
  <2> QED BY <2>3, <2>4, <2>5 DEF MigrationShapes
<1>3. DeploysApart
  BY <1>1 DEF MigrationsInit, DeploysApart, Others
<1>4. Calm
  BY <1>1 DEF MigrationsInit, Calm
<1> QED BY <1>2, <1>3, <1>4 DEF MigrationsInv

\* A command that is not in a transaction disturbs none that is.
LEMMA RestingMoves ==
  ASSUME MigrationsInv, MigrationShapes', UNCHANGED <<logged, effect, overlapped>>, NEW d \in Deploys,
         \A e \in Others(d) : deploy'[e] = deploy[e], ~InTransaction(d)', deploy'[d].done = {}
  PROVE  MigrationsInv'
<1>1. \A e \in Deploys : e = d \/ e \in Others(d)
  BY DEF Others
<1>2. deploy'[d].at \notin {"up", "down"}
  BY DEF InTransaction
<1>3. DeploysApart'
  BY <1>1, <1>2 DEF MigrationsInv, DeploysApart, Others, InTransaction
<1>4. ASSUME ~overlapped' PROVE Calm'
  <2>1. Calm
    BY <1>4 DEF MigrationsInv
  <2>2. InLastBatch' = InLastBatch
    BY DEF InLastBatch, Applied, LastBatch
  <2>3. ASSUME NEW e \in Deploys, deploy'[e].at = "down"
        PROVE  /\ \A f \in Others(e) : ~InTransaction(f)'
               /\ deploy'[e].todo \cup deploy'[e].done = InLastBatch'
               /\ \A m \in deploy'[e].done, n \in deploy'[e].todo : n < m
    <3>1. deploy'[e] = deploy[e]
      BY <1>1, <1>2, <2>3
    <3>2. ASSUME NEW f \in Others(e) PROVE ~InTransaction(f)'
      BY <1>1, <1>2, <2>1, <2>3, <3>1 DEF Calm, Others, InTransaction
    <3> QED BY <2>1, <2>2, <2>3, <3>1, <3>2 DEF Calm
  <2>4. ASSUME NEW e \in Deploys, deploy'[e].at = "up" PROVE deploy'[e] = deploy[e]
    BY <1>1, <1>2, <2>4
  <2> QED BY <2>1, <2>3, <2>4 DEF Calm
<1> QED BY <1>3, <1>4 DEF MigrationsInv

\* A command that applies what is pending.
LEMMA RunBegins ==
  ASSUME MigrationsInv, NEW d \in Deploys, BeginRun(d)
  PROVE  MigrationsInv'
<1>1. /\ MigrationShapes /\ deploy[d].at = "run" /\ LastBatch < MaxBatch
      /\ UNCHANGED <<files, logged, effect>> /\ MaxBatch \in Nat
      /\ deploy' = [deploy EXCEPT ![d] = [at |-> "up", todo |-> files \ Applied, batch |-> LastBatch + 1,
                                          done |-> {}, then |-> "idle"]]
  BY MigrationsAssumption DEF MigrationsInv, BeginRun, Begun
<1>2. LastBatch \in 0..MaxBatch /\ \A m \in Migrations : logged[m] <= LastBatch
  BY <1>1, LastBatchTops DEF MigrationShapes
<1>3. /\ deploy'[d] = [at |-> "up", todo |-> files \ Applied, batch |-> LastBatch + 1, done |-> {}, then |-> "idle"]
      /\ \A e \in Others(d) : deploy'[e] = deploy[e]
  BY <1>1 DEF MigrationShapes, Others
<1>4. MigrationShapes'
  <2>1. deploy'[d] \in DeployRecords
    BY <1>1, <1>2, <1>3 DEF DeployRecords, MigrationShapes
  <2> QED BY <1>1, <2>1 DEF MigrationShapes, BeginRun, Closed
<1>5. DeploysApart'
  <2>1. deploy[d].done = {}
    BY <1>1 DEF MigrationsInv, DeploysApart, InTransaction
  <2>2. ASSUME NEW e \in Deploys
        PROVE  deploy'[e].done = deploy[e].done /\ (InTransaction(e) => InTransaction(e)')
    <3>1. CASE e = d
      BY <1>1, <1>3, <2>1, <3>1 DEF InTransaction
    <3>2. CASE e # d
      BY <1>3, <3>2 DEF Others, InTransaction
    <3> QED BY <3>1, <3>2
  <2>3. \A e \in Deploys : deploy'[e].at = "up" =>
           deploy'[e].batch # 0 /\ \A m \in deploy'[e].done : logged[m] = 0
    BY <1>2, <1>3 DEF MigrationsInv, DeploysApart, Others
  <2> QED BY <1>1, <2>2, <2>3 DEF MigrationsInv, DeploysApart, Others
<1>6. ASSUME ~overlapped' PROVE Calm'
  <2>1. ~overlapped /\ Calm /\ \A e \in Others(d) : deploy[e].at # "down"
    BY <1>6 DEF BeginRun, Overlaps, MigrationsInv
  <2>2. \A e \in Deploys : deploy'[e].at # "down"
    BY <1>3, <2>1 DEF Others
  <2>3. ASSUME NEW e \in Deploys, deploy'[e].at = "up", NEW m \in deploy'[e].todo \cup deploy'[e].done,
               NEW n \in Needs[m]
        PROVE  \/ n \in deploy'[e].todo \cup deploy'[e].done
               \/ logged[n] # 0 /\ logged[n] <= deploy'[e].batch
    <3>1. CASE e # d
      BY <1>3, <2>1, <2>3, <3>1 DEF Calm, Others
    <3>2. CASE e = d
      <4>1. m \in files /\ n \in files /\ n \in Migrations
        BY <1>1, <1>3, <2>3, <3>2 DEF MigrationShapes, Closed
      <4>2. logged[n] \in 0..MaxBatch /\ logged[n] <= LastBatch + 1
        BY <1>1, <1>2, <4>1 DEF MigrationShapes
      <4> QED BY <1>3, <3>2, <4>1, <4>2 DEF Applied
    <3> QED BY <3>1, <3>2
  <2> QED BY <1>1, <2>1, <2>2, <2>3 DEF Calm
<1> QED BY <1>4, <1>5, <1>6 DEF MigrationsInv

\* A command that rolls the last batch back.
LEMMA RollbackBegins ==
  ASSUME MigrationsInv, NEW d \in Deploys, NEW next \in {"idle", "run"}, BeginRollback(d, next)
  PROVE  MigrationsInv'
<1>1. /\ MigrationShapes /\ deploy[d].at = "idle"
      /\ UNCHANGED <<files, logged, effect>>
      /\ deploy' = [deploy EXCEPT ![d] = [at |-> "down", todo |-> InLastBatch \cap files, batch |-> 0,
                                          done |-> {}, then |-> next]]
      /\ overlapped' = (overlapped \/ Overlaps(d, {"up", "down"}) \/ ~(InLastBatch \subseteq files))
  BY DEF MigrationsInv, BeginRollback, Begun, InLastBatch
<1>2. /\ deploy'[d] = [at |-> "down", todo |-> InLastBatch \cap files, batch |-> 0, done |-> {}, then |-> next]
      /\ \A e \in Others(d) : deploy'[e] = deploy[e]
  BY <1>1 DEF MigrationShapes, Others
<1>3. MigrationShapes'
  <2>1. deploy'[d] \in DeployRecords
    BY <1>2, MigrationsAssumption DEF DeployRecords, InLastBatch, Applied
  <2> QED BY <1>1, <2>1 DEF MigrationShapes, Closed
<1>4. DeploysApart'
  <2>1. deploy[d].done = {}
    BY <1>1 DEF MigrationsInv, DeploysApart, InTransaction
  <2>2. \A e \in Deploys : deploy'[e].done = deploy[e].done /\ (InTransaction(e) => InTransaction(e)')
    BY <1>1, <1>2, <2>1 DEF Others, InTransaction
  <2>3. \A e \in Deploys : deploy'[e].at = "up" =>
           deploy'[e].batch # 0 /\ \A m \in deploy'[e].done : logged[m] = 0
    BY <1>2 DEF MigrationsInv, DeploysApart, Others
  <2> QED BY <1>1, <2>2, <2>3 DEF MigrationsInv, DeploysApart, Others
<1>5. ASSUME ~overlapped' PROVE Calm'
  <2>1. /\ ~overlapped /\ Calm /\ InLastBatch \subseteq files
        /\ \A e \in Others(d) : deploy[e].at \notin {"up", "down"}
    BY <1>1, <1>5 DEF Overlaps, MigrationsInv
  <2>2. InLastBatch' = InLastBatch
    BY <1>1 DEF InLastBatch, Applied, LastBatch
  <2>3. \A e \in Deploys : deploy'[e].at # "up" /\ (deploy'[e].at = "down" => e = d)
    BY <1>2, <2>1 DEF Others
  <2>4. \A e \in Others(d) : ~InTransaction(e)'
    BY <1>2, <2>1 DEF InTransaction
  <2>5. deploy'[d].todo \cup deploy'[d].done = InLastBatch' /\ deploy'[d].done = {}
    BY <1>2, <2>1, <2>2
  <2> QED BY <1>1, <2>1, <2>3, <2>4, <2>5 DEF Calm
<1> QED BY <1>3, <1>4, <1>5 DEF MigrationsInv

\* One migration of a command, up or down.
LEMMA MigrationRuns ==
  ASSUME MigrationsInv, NEW d \in Deploys, MigrateNext(d)
  PROVE  MigrationsInv'
<1> DEFINE ahead == deploy[d].todo
<1>1. /\ ahead \subseteq Migrations /\ Migrations \subseteq Int /\ IsFiniteSet(ahead) /\ ahead # {}
      /\ MigrationShapes /\ InTransaction(d)
  BY MigrationsAssumption, FS_Subset DEF MigrationsInv, MigrationShapes, DeployRecords, MigrateNext
<1>2. PICK m \in ahead : /\ Migrate(d, m)
                         /\ deploy[d].at = "down" => \A n \in ahead : n <= m
  BY <1>1, Greatest, Least DEF MigrateNext, NextMigration
<1>3. /\ deploy' = [deploy EXCEPT ![d] = [deploy[d] EXCEPT !.todo = deploy[d].todo \ {m},
                                                    !.done = deploy[d].done \cup {m}]]
      /\ UNCHANGED <<files, logged, effect, overlapped>>
      /\ \A e \in Others(d) : m \notin deploy[e].done
      /\ deploy[d].at = "up" => logged[m] = 0
  <2>1. Migrate(d, m)
    BY <1>2
  <2>2. deploy[d].at = "up" => logged[m] = 0
    BY <2>1 DEF Migrate, CanApply, CanUp, FirstTime
  <2> HIDE DEF ahead
  <2>3. \A e \in Others(d) : m \notin deploy[e].done
    BY <2>1 DEF Migrate, WaitsFor
  <2> QED BY <2>1, <2>2, <2>3 DEF Migrate
<1>4. /\ deploy'[d].at = deploy[d].at /\ deploy'[d].batch = deploy[d].batch /\ deploy'[d].todo = ahead \ {m}
      /\ deploy'[d].done = deploy[d].done \cup {m} /\ deploy' \in [Deploys -> DeployRecords]
      /\ \A e \in Others(d) : deploy'[e] = deploy[e]
  BY <1>1, <1>2, <1>3 DEF MigrationShapes, DeployRecords, Others
<1> HIDE DEF ahead
<1>5. \A e \in Deploys : (e = d \/ e \in Others(d)) /\ (InTransaction(e)' <=> InTransaction(e))
  BY <1>4 DEF Others, InTransaction
<1>6. MigrationShapes'
  BY <1>1, <1>3, <1>4 DEF MigrationShapes, Closed
<1>7. DeploysApart'
  <2>1. ASSUME NEW e \in Deploys, NEW f \in Others(e) PROVE deploy'[e].done \cap deploy'[f].done = {}
    <3>1. deploy[e].done \cap deploy[f].done = {} /\ f \in Deploys /\ (d \in {e, f} \/ e \in Others(d))
      BY <2>1, <1>5 DEF MigrationsInv, DeploysApart, Others
    <3>2. CASE e = d
      <4>1. f \in Others(d)
        BY <2>1, <3>2
      <4>2. m \notin deploy[f].done /\ deploy'[f] = deploy[f] /\ deploy'[d].done = deploy[d].done \cup {m}
        BY <1>3, <1>4, <4>1
      <4> QED BY <3>1, <3>2, <4>2
    <3>3. CASE f = d
      <4>1. e \in Others(d)
        BY <2>1, <3>3 DEF Others
      <4> QED BY <1>3, <1>4, <3>1, <3>3, <4>1
    <3>4. CASE e # d /\ f # d
      BY <1>4, <1>5, <3>1, <3>4
    <3> QED BY <3>2, <3>3, <3>4
  <2>2. \A e \in Deploys : ~InTransaction(e)' => deploy'[e].done = {}
    BY <1>1, <1>4, <1>5 DEF MigrationsInv, DeploysApart
  <2>3. \A e \in Deploys : deploy'[e].at = "up" =>
           deploy'[e].batch # 0 /\ \A n \in deploy'[e].done : logged'[n] = 0
    BY <1>3, <1>4, <1>5 DEF MigrationsInv, DeploysApart
  <2>4. \A n \in Migrations : effect'[n] <= 1 /\ (logged'[n] = 0 => effect'[n] <= 0)
    BY <1>3 DEF MigrationsInv, DeploysApart
  <2> QED BY <2>1, <2>2, <2>3, <2>4 DEF DeploysApart, Others
<1>8. ASSUME ~overlapped' PROVE Calm'
  <2>1. Calm /\ InLastBatch' = InLastBatch
    BY <1>3, <1>8 DEF MigrationsInv, InLastBatch, Applied, LastBatch
  <2>2. deploy'[d].todo \cup deploy'[d].done = ahead \cup deploy[d].done
    BY <1>2, <1>4
  <2>3. ASSUME NEW e \in Deploys, deploy'[e].at = "down"
        PROVE  /\ \A f \in Others(e) : ~InTransaction(f)'
               /\ deploy'[e].todo \cup deploy'[e].done = InLastBatch'
               /\ \A x \in deploy'[e].done, y \in deploy'[e].todo : y < x
    <3>1. deploy[e].at = "down"
      BY <1>4, <1>5, <2>3
    <3>2. \A f \in Others(e) : ~InTransaction(f)'
      BY <1>5, <2>1, <3>1 DEF Calm, Others
    <3>3. deploy'[e].todo \cup deploy'[e].done = InLastBatch'
      BY <1>4, <1>5, <2>1, <2>2, <3>1 DEF Calm, ahead
    <3>4. ASSUME NEW x \in deploy'[e].done, NEW y \in deploy'[e].todo PROVE y < x
      <4>1. CASE e = d
        <5>1. y \in ahead /\ y # m /\ m \in Int /\ y \in Int /\ y <= m
          <6>1. y \in ahead \ {m} /\ m \in ahead /\ ahead \subseteq Int
            BY <1>1, <1>2, <1>4, <3>4, <4>1
          <6> QED BY <1>2, <3>1, <4>1, <6>1
        <5>2. CASE x = m
          BY <5>1, <5>2
        <5>3. CASE x # m
          BY <1>4, <2>1, <3>1, <3>4, <4>1, <5>1, <5>3 DEF Calm, ahead
        <5> QED BY <5>2, <5>3
      <4>2. CASE e # d
        BY <1>4, <1>5, <2>1, <3>1, <3>4, <4>2 DEF Calm
      <4> QED BY <4>1, <4>2
    <3> QED BY <3>2, <3>3, <3>4
  <2>4. ASSUME NEW e \in Deploys, deploy'[e].at = "up", NEW x \in deploy'[e].todo \cup deploy'[e].done,
               NEW n \in Needs[x]
        PROVE  \/ n \in deploy'[e].todo \cup deploy'[e].done
               \/ logged[n] # 0 /\ logged[n] <= deploy'[e].batch
    <3>1. /\ deploy[e].at = "up" /\ deploy'[e].batch = deploy[e].batch
          /\ deploy'[e].todo \cup deploy'[e].done = deploy[e].todo \cup deploy[e].done
      BY <1>4, <1>5, <2>2, <2>4 DEF ahead
    <3>2. x \in deploy[e].todo \cup deploy[e].done
      BY <2>4, <3>1
    <3> QED BY <2>1, <3>1, <3>2 DEF Calm
  <2> QED BY <1>3, <2>1, <2>3, <2>4 DEF Calm
<1> QED BY <1>6, <1>7, <1>8 DEF MigrationsInv

\* The tables are dropped before a fresh start.
LEMMA TablesDropped ==
  ASSUME MigrationsInv, NEW d \in Deploys, DropAll(d)
  PROVE  MigrationsInv'
<1>1. /\ MigrationShapes /\ 0 \in 0..MaxBatch
      /\ \A e \in Deploys : ~InTransaction(e) /\ deploy[e].done = {}
      /\ deploy[d].then \in {"idle", "run"}
      /\ deploy' = [deploy EXCEPT ![d] = [at |-> deploy[d].then, todo |-> {}, batch |-> 0, done |-> {},
                                          then |-> "idle"]]
      /\ logged' = [m \in Migrations |-> 0] /\ effect' = [m \in Migrations |-> 0]
      /\ UNCHANGED <<files, overlapped>>
  <2>1. \A e \in Deploys : ~InTransaction(e)
    BY DEF DropAll, Others, InTransaction
  <2> QED BY <2>1, MigrationsAssumption
          DEF MigrationsInv, MigrationShapes, DeployRecords, DeploysApart, DropAll, Begun
<1>2. deploy' \in [Deploys -> DeployRecords]
  <2>1. [at |-> deploy[d].then, todo |-> {}, batch |-> 0, done |-> {}, then |-> "idle"] \in DeployRecords
    BY <1>1 DEF DeployRecords
  <2> QED BY <1>1, <2>1 DEF MigrationShapes
<1>3. \A e \in Deploys : deploy'[e].at \notin {"up", "down"} /\ deploy'[e].done = {}
  BY <1>1 DEF MigrationShapes, InTransaction
<1>4. MigrationShapes'
  BY <1>1, <1>2 DEF MigrationShapes, Closed
<1>5. \A m \in Migrations : logged'[m] = 0 /\ effect'[m] = 0
  BY <1>1
<1>6. DeploysApart'
  BY <1>3, <1>5 DEF DeploysApart, Others, InTransaction
<1>7. Calm'
  BY <1>3, <1>5 DEF Calm
<1> QED BY <1>4, <1>6, <1>7 DEF MigrationsInv

\* A command commits.
LEMMA CommandCommits ==
  ASSUME MigrationsInv, NEW d \in Deploys, CommitCommand(d)
  PROVE  MigrationsInv'
<1> DEFINE done == deploy[d].done
           up == deploy[d].at = "up"
<1>1. /\ MigrationShapes /\ 0 \in 0..MaxBatch /\ InTransaction(d) /\ deploy[d].todo = {}
      /\ deploy[d].batch \in 0..MaxBatch /\ done \subseteq Migrations /\ deploy[d].then \in {"idle", "run"}
      /\ deploy' = [deploy EXCEPT ![d] = [at |-> deploy[d].then, todo |-> {}, batch |-> 0, done |-> {},
                                          then |-> "idle"]]
      /\ UNCHANGED <<files, overlapped>>
  BY MigrationsAssumption DEF MigrationsInv, MigrationShapes, DeployRecords, CommitCommand, Begun
<1>2. \A m \in Migrations :
         /\ m \notin done => logged'[m] = logged[m] /\ effect'[m] = effect[m]
         /\ m \in done /\ up => logged'[m] = deploy[d].batch /\ effect'[m] = effect[m] + 1
         /\ m \in done /\ ~up => logged'[m] = 0 /\ effect'[m] = effect[m] - 1
  BY DEF CommitCommand
<1>3. MigrationShapes'
  <2>1. [at |-> deploy[d].then, todo |-> {}, batch |-> 0, done |-> {}, then |-> "idle"] \in DeployRecords
    BY <1>1 DEF DeployRecords
  <2>2. deploy' \in [Deploys -> DeployRecords]
    BY <1>1, <2>1 DEF MigrationShapes
  <2>3. logged' \in [Migrations -> 0..MaxBatch]
    BY <1>1 DEF MigrationShapes, CommitCommand
  <2>4. effect' \in [Migrations -> Int]
    BY <1>1 DEF MigrationShapes, CommitCommand
  <2> QED BY <1>1, <2>2, <2>3, <2>4 DEF MigrationShapes, Closed
<1>4. /\ deploy'[d].at \notin {"up", "down"} /\ deploy'[d].done = {}
      /\ \A e \in Deploys : e = d \/ (e \in Others(d) /\ deploy'[e] = deploy[e])
  BY <1>1 DEF MigrationShapes, Others
<1>5. up => deploy[d].batch # 0 /\ \A m \in done : logged[m] = 0
  BY DEF MigrationsInv, DeploysApart
<1>6. \A e \in Deploys : e # d => done \cap deploy[e].done = {}
  BY DEF MigrationsInv, DeploysApart, Others
<1>7. up \/ deploy[d].at = "down"
  BY <1>1 DEF InTransaction
<1>8. \A m \in Migrations : logged[m] \in 0..MaxBatch /\ effect[m] \in Int
  BY <1>1 DEF MigrationShapes
<1> HIDE DEF done, up
<1>9. DeploysApart'
  <2>1. \A e \in Deploys : ~InTransaction(e)' => deploy'[e].done = {}
    BY <1>4 DEF MigrationsInv, DeploysApart, InTransaction
  <2>2. \A e \in Deploys : \A f \in Others(e) : deploy'[e].done \cap deploy'[f].done = {}
    BY <1>4 DEF MigrationsInv, DeploysApart, Others
  <2>3. ASSUME NEW e \in Deploys, deploy'[e].at = "up"
        PROVE  deploy'[e].batch # 0 /\ \A m \in deploy'[e].done : logged'[m] = 0
    <3>1. e # d /\ deploy'[e] = deploy[e] /\ deploy[e].done \subseteq Migrations
      BY <1>1, <1>4, <2>3 DEF MigrationShapes, DeployRecords
    <3>2. deploy[e].batch # 0 /\ \A m \in deploy[e].done : logged[m] = 0 /\ m \notin done
      BY <1>6, <2>3, <3>1 DEF MigrationsInv, DeploysApart
    <3> QED BY <1>2, <3>1, <3>2
  <2>4. ASSUME NEW m \in Migrations PROVE effect'[m] <= 1 /\ (logged'[m] = 0 => effect'[m] <= 0)
    <3>1. effect[m] <= 1 /\ (logged[m] = 0 => effect[m] <= 0) /\ effect[m] \in Int
      BY <1>8 DEF MigrationsInv, DeploysApart
    <3>2. CASE m \notin done
      BY <1>2, <3>1, <3>2
    <3>3. CASE m \in done /\ up
      <4>1. effect'[m] = effect[m] + 1 /\ effect[m] <= 0 /\ logged'[m] # 0
        BY <1>2, <1>5, <3>1, <3>3
      <4> QED BY <3>1, <4>1
    <3>4. CASE m \in done /\ ~up
      <4>1. effect'[m] = effect[m] - 1
        BY <1>2, <3>4
      <4> QED BY <3>1, <4>1
    <3> QED BY <3>2, <3>3, <3>4
  <2> QED BY <2>1, <2>2, <2>3, <2>4 DEF DeploysApart, Others
<1>10. ASSUME ~overlapped' PROVE Calm'
  <2>1. Calm
    BY <1>1, <1>10 DEF MigrationsInv
  <2>2. \A m \in Migrations : Needs[m] \subseteq Migrations
    BY MigrationsAssumption
  <2>3. CASE up
    <3>1. \A m \in Migrations : logged[m] # 0 => m \notin done
      BY <1>5, <2>3
    <3>2. ASSUME NEW m \in Migrations PROVE effect'[m] = IF logged'[m] # 0 THEN 1 ELSE 0
      <4>1. effect[m] = IF logged[m] # 0 THEN 1 ELSE 0
        BY <2>1 DEF Calm
      <4>2. CASE m \in done
        BY <1>2, <1>5, <2>3, <4>1, <4>2
      <4>3. CASE m \notin done
        BY <1>2, <4>1, <4>3
      <4> QED BY <4>2, <4>3
    <3>3. ASSUME NEW m \in Migrations, logged'[m] # 0, NEW n \in Needs[m]
          PROVE  logged'[n] # 0 /\ logged'[n] <= logged'[m]
      <4>1. n \in Migrations
        BY <2>2, <3>3
      <4>2. CASE m \in done
        <5>1. n \in done \/ (logged[n] # 0 /\ logged[n] <= deploy[d].batch)
          BY <1>1, <2>1, <2>3, <3>3, <4>2 DEF Calm, up, done
        <5>2. CASE n \in done
          <6>1. logged'[n] = deploy[d].batch /\ logged'[m] = deploy[d].batch /\ deploy[d].batch \in Int
            BY <1>1, <1>2, <2>3, <4>1, <4>2, <5>2
          <6> QED BY <1>5, <2>3, <6>1
        <5>3. CASE n \notin done
          BY <1>2, <2>3, <4>1, <4>2, <5>1, <5>3
        <5> QED BY <5>2, <5>3
      <4>3. CASE m \notin done
        <5>1. logged[m] # 0 /\ logged'[m] = logged[m]
          BY <1>2, <3>3, <4>3
        <5>2. logged[n] # 0 /\ logged[n] <= logged[m]
          BY <2>1, <3>3, <5>1 DEF Calm
        <5> QED BY <1>2, <3>1, <4>1, <5>1, <5>2
      <4> QED BY <4>2, <4>3
    <3>4. \A e \in Deploys : deploy'[e].at # "down"
      <4>1. ASSUME NEW e \in Deploys, e # d, deploy[e].at = "down" PROVE FALSE
        BY <1>1, <2>1, <4>1 DEF Calm, Others
      <4> QED BY <1>4, <4>1
    <3>5. ASSUME NEW e \in Deploys, deploy'[e].at = "up", NEW m \in deploy'[e].todo \cup deploy'[e].done,
                 NEW n \in Needs[m]
          PROVE  \/ n \in deploy'[e].todo \cup deploy'[e].done
                 \/ logged'[n] # 0 /\ logged'[n] <= deploy'[e].batch
      <4>1. deploy'[e] = deploy[e] /\ m \in Migrations /\ n \in Migrations
        BY <1>1, <1>4, <2>2, <3>5 DEF MigrationShapes, DeployRecords
      <4>2. \/ n \in deploy[e].todo \cup deploy[e].done
            \/ logged[n] # 0 /\ logged[n] <= deploy[e].batch
        BY <2>1, <3>5, <4>1 DEF Calm
      <4> QED BY <1>2, <3>1, <4>1, <4>2
    <3> QED BY <3>2, <3>3, <3>4, <3>5 DEF Calm
  <2>4. CASE ~up
    <3>1. /\ deploy[d].at = "down" /\ done = InLastBatch
          /\ \A e \in Others(d) : ~InTransaction(e)
      BY <1>1, <1>7, <2>1, <2>4 DEF Calm, done
    <3>2. \A e \in Deploys : deploy'[e].at \notin {"up", "down"}
      BY <1>4, <3>1 DEF InTransaction
    <3>3. LastBatch \in Int /\ \A m \in Migrations : logged[m] \in Int /\ logged[m] <= LastBatch
      BY <1>1, <1>8, LastBatchTops, MigrationsAssumption DEF MigrationShapes
    <3>4. \A m \in Migrations : m \in done <=> logged[m] # 0 /\ logged[m] = LastBatch
      BY <3>1 DEF InLastBatch, Applied
    <3>5. ASSUME NEW m \in Migrations PROVE effect'[m] = IF logged'[m] # 0 THEN 1 ELSE 0
      <4>1. effect[m] = IF logged[m] # 0 THEN 1 ELSE 0
        BY <2>1 DEF Calm
      <4> QED BY <1>2, <2>4, <3>4, <4>1
    <3>6. ASSUME NEW m \in Migrations, logged'[m] # 0, NEW n \in Needs[m]
          PROVE  logged'[n] # 0 /\ logged'[n] <= logged'[m]
      <4>1. m \notin done /\ logged'[m] = logged[m] /\ n \in Migrations
        BY <1>2, <2>2, <2>4, <3>6
      <4>2. logged[n] # 0 /\ logged[n] <= logged[m]
        BY <2>1, <3>6, <4>1 DEF Calm
      <4>3. logged[m] # LastBatch
        BY <3>4, <3>6, <4>1
      <4>4. logged[n] # LastBatch
        BY <3>3, <4>1, <4>2, <4>3
      <4> QED BY <1>2, <3>4, <4>1, <4>2, <4>4
    <3> QED BY <3>2, <3>5, <3>6 DEF Calm
  <2> QED BY <2>3, <2>4
<1> QED BY <1>3, <1>9, <1>10 DEF MigrationsInv

\* The commands of two deploys, as they interleave (migrations/).
LEMMA MigrationsNext == MigrationsInv /\ [MigrationStep]_migrationVars => MigrationsInv'
<1> SUFFICES ASSUME MigrationsInv, [MigrationStep]_migrationVars PROVE MigrationsInv'
  OBVIOUS
<1>1. MigrationShapes
  BY DEF MigrationsInv
<1>2. ASSUME NEW s \in SUBSET Migrations, Checkout(s) PROVE MigrationsInv'
  <2>1. UNCHANGED <<logged, effect, deploy, overlapped>> /\ files' \subseteq Migrations /\ Closed(files)'
    BY <1>2 DEF Checkout, Closed
  <2> QED BY <2>1 DEF MigrationsInv, MigrationShapes, DeploysApart, Calm, InTransaction, Others, InLastBatch,
             Applied, LastBatch
<1>3. ASSUME NEW d \in Deploys, NEW at \in {"run", "wipe"}, NEW next \in {"idle", "run"},
             StartCommand(d, at, next)
      PROVE  MigrationsInv'
  <2>1. /\ deploy' = [deploy EXCEPT ![d] = [at |-> at, todo |-> {}, batch |-> 0, done |-> {}, then |-> next]]
        /\ UNCHANGED <<files, logged, effect, overlapped>>
    BY <1>3 DEF StartCommand, Begun
  <2>2. [at |-> at, todo |-> {}, batch |-> 0, done |-> {}, then |-> next] \in DeployRecords
    BY MigrationsAssumption DEF DeployRecords
  <2>3. MigrationShapes'
    BY <1>1, <2>1, <2>2 DEF MigrationShapes, Closed
  <2>4. \A e \in Others(d) : deploy'[e] = deploy[e]
    BY <1>1, <2>1 DEF MigrationShapes, Others
  <2>5. ~InTransaction(d)' /\ deploy'[d].done = {}
    BY <1>1, <2>1 DEF MigrationShapes, InTransaction
  <2> QED BY <2>1, <2>3, <2>4, <2>5, RestingMoves
<1>4. ASSUME NEW d \in Deploys, AbortCommand(d) PROVE MigrationsInv'
  <2>1. /\ deploy' = [deploy EXCEPT ![d] = [at |-> "idle", todo |-> {}, batch |-> 0, done |-> {}, then |-> "idle"]]
        /\ UNCHANGED <<files, logged, effect, overlapped>>
    BY <1>4 DEF AbortCommand, Resting, Begun
  <2>2. [at |-> "idle", todo |-> {}, batch |-> 0, done |-> {}, then |-> "idle"] \in DeployRecords
    BY MigrationsAssumption DEF DeployRecords
  <2>3. MigrationShapes'
    BY <1>1, <2>1, <2>2 DEF MigrationShapes, Closed
  <2>4. \A e \in Others(d) : deploy'[e] = deploy[e]
    BY <1>1, <2>1 DEF MigrationShapes, Others
  <2>5. ~InTransaction(d)' /\ deploy'[d].done = {}
    BY <1>1, <2>1 DEF MigrationShapes, InTransaction
  <2> QED BY <2>1, <2>3, <2>4, <2>5, RestingMoves
<1>5. CASE UNCHANGED migrationVars
  <2>1. UNCHANGED <<files, logged, effect, deploy, overlapped>>
    BY <1>5 DEF migrationVars
  <2> QED BY <2>1 DEF MigrationsInv, MigrationShapes, DeploysApart, Calm, InTransaction, Others, InLastBatch,
             Applied, LastBatch, Closed
<1> QED BY <1>2, <1>3, <1>4, <1>5, TablesDropped, RunBegins, RollbackBegins, MigrationRuns, CommandCommits
        DEF MigrationStep

-----------------------------------------------------------------------------
(* The application *)

\* A step of the application is a step of one part; the others stand still.
LEMMA WritersStep ==
  [Next]_vars =>
    /\ [PivotStep]_pivotVars /\ [RecordStep]_recordVars /\ [IndexStep]_indexVars
    /\ [ClientStep]_clientVars /\ [DeliveryStep]_deliveryVars /\ [MigrationStep]_migrationVars
<1>1. CASE Queries
  <2>1. CASE Transacts
    BY <1>1, <2>1 DEF Queries, Transacts
  <2>2. CASE Stores
    BY <1>1, <2>2 DEF Queries, Stores
  <2>3. CASE Relates
    BY <1>1, <2>3 DEF Queries, Relates
  <2>4. CASE Reads
    BY <1>1, <2>4 DEF Queries, Reads
  <2>5. CASE Asks
    BY <1>1, <2>5 DEF Queries, Asks
  <2>6. CASE Walks
    BY <1>1, <2>6 DEF Queries, Walks
  <2>7. CASE Turns
    BY <1>1, <2>7 DEF Queries, Turns
  <2>8. CASE Indexes
    BY <1>1, <2>8 DEF Queries, Indexes
  <2>9. CASE Migrates
    BY <1>1, <2>9 DEF Queries, Migrates
  <2> QED
    BY <1>1, <2>1, <2>2, <2>3, <2>4, <2>5, <2>6, <2>7, <2>8, <2>9 DEF Queries, DatabaseStep
<1>2. CASE Dispatches
  BY <1>2 DEF Dispatches, dbVars
<1>3. CASE Notifies
  BY <1>3 DEF Notifies, dbVars
<1>4. CASE Relays
  BY <1>4 DEF Relays, dbVars
<1>5. CASE Consumes
  BY <1>5 DEF Consumes, dbVars
<1>6. CASE Serves \/ LogsIn \/ Flags \/ Lives
  BY <1>6 DEF Serves, LogsIn, Flags, Lives, dbVars
<1>7. CASE Injects \/ Attaches \/ Handles \/ Validates
  BY <1>7 DEF Injects, Attaches, Handles, Validates, dbVars
<1>8. CASE Admits \/ Works
  BY <1>8 DEF Admits, Works, dbVars
<1>9. CASE UNCHANGED vars
  BY <1>9 DEF vars, dbVars
<1> QED
  BY <1>1, <1>2, <1>3, <1>4, <1>5, <1>6, <1>7, <1>8, <1>9 DEF Next

WritesInv == PivotInv /\ RowInv /\ IndexInv /\ ClientInv /\ DeliveryInv /\ MigrationsInv

\* Whatever steps the parts take, each of these keeps its invariant: nobody else writes the
\* tables, the index or the queue it relies on.
THEOREM WritersKeepTheirs == Spec => []WritesInv
<1>1. Init => WritesInv
  BY PivotBegins, RecordsBegin, IndexBegins, ClientBegins, DeliveryBegins, MigrationsBegin
  DEF Init, DatabaseInit, WritesInv
<1>2. WritesInv /\ [Next]_vars => WritesInv'
  BY WritersStep, PivotNext, RecordsNext, IndexNext, ClientNext, DeliveryNext, MigrationsNext
  DEF WritesInv
<1> QED BY <1>1, <1>2, PTL DEF Spec

\* What is written or sent is what was asked for, once, whoever else writes: a column of a
\* row and its document in the index (database/model.py, search/), the tables (migrations/),
\* the links of a relation (database/relations.py), a notification (notifications/), the
\* requests of a pool (client/).
THEOREM AskedIsDone == Spec => []DoneAsAsked
<1>1. WritesInv => DoneAsAsked
  <2> SUFFICES ASSUME WritesInv PROVE DoneAsAsked
    OBVIOUS
  <2>1. NothingClobbered
    BY DEF WritesInv, RowInv
  <2>2. SearchFinds /\ SchemaRight /\ LinksKept
    BY IndexSafe, MigrationsSafe, PivotSafe DEF WritesInv
  <2>3. DeliveredOnce /\ PoolRight
    BY DeliverySafe, ClientSafe DEF WritesInv
  <2> QED BY <2>1, <2>2, <2>3 DEF DoneAsAsked
<1> QED BY <1>1, WritersKeepTheirs, PTL

-----------------------------------------------------------------------------
(* One caller of ConnectionResolver.transact (Transactions.tla): when a block *)
(* commits twice, that no committed work is forgotten by the replay, and that *)
(* the buffer implements AfterCommit.                                         *)
USE DEF data, history

\* Where a caller is that has a block open.
InBlock == {"body", "unwind", "commit"}

\* Inside the block there is an outermost frame, and nothing else when it ends.
FramesOK ==
    /\ pc \in InBlock => Len(frames) >= 1
    /\ pc = "commit" => Len(frames) = 1

LEMMA TxTypeInit == TxInit => TxTypeOK /\ FramesOK
  BY TransactionsAssumption DEF TxInit, TxTypeOK, FramesOK, Labels, Over, Errors, InBlock

\* The innermost frame is added to, dropped, or folded into the one before it.
LEMMA FramesKept ==
  ASSUME NEW S, NEW fs \in Seq(SUBSET S), Len(fs) >= 1
  PROVE  /\ \A w \in S : LET g == [fs EXCEPT ![Len(fs)] = @ \cup {w}]
                         IN g \in Seq(SUBSET S) /\ Len(g) = Len(fs)
         /\ Len(fs) > 1 =>
              /\ Front(fs) \in Seq(SUBSET S) /\ Len(Front(fs)) = Len(fs) - 1
              /\ LET g == [Front(fs) EXCEPT ![Len(fs) - 1] = @ \cup Last(fs)]
                 IN g \in Seq(SUBSET S) /\ Len(g) = Len(fs) - 1
         /\ Append(fs, {}) \in Seq(SUBSET S) /\ Len(Append(fs, {})) = Len(fs) + 1
<1>1. ASSUME NEW w \in S
      PROVE  LET g == [fs EXCEPT ![Len(fs)] = @ \cup {w}]
             IN g \in Seq(SUBSET S) /\ Len(g) = Len(fs)
  OBVIOUS
<1>2. ASSUME Len(fs) > 1
      PROVE  /\ Front(fs) \in Seq(SUBSET S) /\ Len(Front(fs)) = Len(fs) - 1
             /\ LET g == [Front(fs) EXCEPT ![Len(fs) - 1] = @ \cup Last(fs)]
                IN g \in Seq(SUBSET S) /\ Len(g) = Len(fs) - 1
  <2>1. Front(fs) \in Seq(SUBSET S) /\ Len(Front(fs)) = Len(fs) - 1
    BY <1>2 DEF Front
  <2>2. Last(fs) \in SUBSET S
    BY <1>2 DEF Last
  <2> QED BY <1>2, <2>1, <2>2
<1>3. Append(fs, {}) \in Seq(SUBSET S) /\ Len(Append(fs, {})) = Len(fs) + 1
  OBVIOUS
<1> QED BY <1>1, <1>2, <1>3

LEMMA TxTypeNext == TxTypeOK /\ FramesOK /\ [TxStep]_txVars => (TxTypeOK /\ FramesOK)'
<1> SUFFICES ASSUME TxTypeOK, FramesOK, [TxStep]_txVars PROVE (TxTypeOK /\ FramesOK)'
  OBVIOUS
<1> USE DEF TxTypeOK, FramesOK, Labels, InBlock, Over, Errors
<1>a. Attempts \in Nat \ {0}
  BY TransactionsAssumption
<1>b. pc \in InBlock => Len(frames) >= 1 /\ frames \in Seq(SUBSET Work)
  OBVIOUS
<1>1. CASE Begin
  <2>1. CASE pc' = "body" /\ frames' = << {} >> /\ UNCHANGED error
    <3>1. frames' \in Seq(SUBSET Work) /\ Len(frames') = 1
      BY <2>1
    <3> QED BY <1>1, <2>1, <3>1 DEF Begin
  <2>2. CASE pc' = "settle" /\ error' \in Errors /\ UNCHANGED frames
    BY <1>1, <2>2 DEF Begin
  <2> QED BY <1>1, <2>1, <2>2 DEF Begin
<1>2. CASE Leave
  BY <1>2 DEF Leave
<1>3. CASE Commit
  BY <1>3 DEF Commit
<1>4. CASE Rollback
  BY <1>4 DEF Rollback
<1>5. CASE ReplayEnds
  BY <1>5 DEF ReplayEnds
<1>6. CASE Settle
  BY <1>6, <1>a DEF Settle
<1>7. ASSUME NEW caught \in BOOLEAN, RollbackSavepoint(caught) PROVE (TxTypeOK /\ FramesOK)'
  <2>1. frames' \in Seq(SUBSET Work) /\ Len(frames') = Len(frames) - 1
    BY <1>7, <1>b, FramesKept DEF RollbackSavepoint
  <2> QED BY <1>7, <2>1 DEF RollbackSavepoint
<1>8. ASSUME NEW outcome \in Errors \cup {"none"}, Replay(outcome) PROVE (TxTypeOK /\ FramesOK)'
  <2>1. Head(buffer) \in Work /\ Tail(buffer) \in Seq(Work)
    BY <1>8 DEF Replay
  <2>2. log' \in Seq(Work \X (1..Attempts))
    BY <1>8, <2>1 DEF Replay
  <2> QED BY <1>8, <2>1, <2>2 DEF Replay
<1>9. CASE pc = "body" /\ ReleaseSavepoint
  <2>1. frames' \in Seq(SUBSET Work) /\ Len(frames') = Len(frames) - 1
    BY <1>9, <1>b, FramesKept DEF ReleaseSavepoint
  <2> QED BY <1>9, <2>1 DEF ReleaseSavepoint
<1>10. ASSUME NEW w \in Work, Write(w) PROVE (TxTypeOK /\ FramesOK)'
  <2>1. frames' \in Seq(SUBSET Work) /\ Len(frames') = Len(frames)
    BY <1>10, <1>b, FramesKept DEF Write, WriteRow
  <2> QED BY <1>10, <2>1 DEF Write
<1>11. ASSUME NEW w \in Work, Defer(w) PROVE (TxTypeOK /\ FramesOK)'
  BY <1>11 DEF Defer, Append2Buffer
<1>12. ASSUME NEW e \in Errors, Raise(e) \/ CommitFails(e) PROVE (TxTypeOK /\ FramesOK)'
  <2>1. <<>> \in Seq(SUBSET Work) /\ <<>> \in Seq(Work)
    OBVIOUS
  <2>2. CASE Raise(e)
    BY <2>2 DEF Raise
  <2>3. CASE CommitFails(e)
    BY <2>1, <2>3 DEF CommitFails
  <2> QED BY <1>12, <2>2, <2>3
<1>13. CASE OpenSavepoint
  <2>1. frames' \in Seq(SUBSET Work) /\ Len(frames') = Len(frames) + 1
    BY <1>13, <1>b, FramesKept DEF OpenSavepoint
  <2> QED BY <1>13, <2>1 DEF OpenSavepoint
<1>14. CASE ReplayCancelled
  <2>1. Head(buffer) \in Work
    BY <1>14 DEF ReplayCancelled
  <2>2. log' \in Seq(Work \X (1..Attempts))
    BY <1>14, <2>1 DEF ReplayCancelled
  <2> QED BY <1>14, <2>2 DEF ReplayCancelled
<1>15. CASE Crash
  BY <1>15 DEF Crash
<1>16. ASSUME NEW h \in Helpers, Start(h) PROVE (TxTypeOK /\ FramesOK)'
  BY <1>16 DEF Start
<1>17. ASSUME NEW h \in Helpers, NEW w \in Work, HelperWrite(h, w) PROVE (TxTypeOK /\ FramesOK)'
  <2>1. frames' \in Seq(SUBSET Work) /\ Len(frames') = Len(frames)
    BY <1>17, <1>b, FramesKept DEF HelperWrite, WriteRow
  <2> QED BY <1>17, <2>1 DEF HelperWrite
<1>18. ASSUME NEW h \in Helpers, NEW w \in Work, HelperDefer(h, w) \/ HelperDeferLate(h, w)
       PROVE (TxTypeOK /\ FramesOK)'
  <2>1. CASE HelperDefer(h, w)
    BY <2>1 DEF HelperDefer, Append2Buffer
  <2>2. CASE HelperDeferLate(h, w)
    BY <2>2 DEF HelperDeferLate
  <2> QED BY <1>18, <2>1, <2>2
<1>19. CASE UNCHANGED txVars
  BY <1>19 DEF txVars
<1> QED
  BY <1>1, <1>2, <1>3, <1>4, <1>5, <1>6, <1>7, <1>8, <1>9, <1>10, <1>11, <1>12, <1>13,
     <1>14, <1>15, <1>16, <1>17, <1>18, <1>19
  DEF TxStep, TxRun, TxBody

\* Whatever the caller, its helpers and the database do, the state keeps its shape.
THEOREM TxTypeCorrect == TxSpec => []TxTypeOK
<1>1. TxSpec => [](TxTypeOK /\ FramesOK)
  BY TxTypeInit, TxTypeNext, PTL DEF TxSpec
<1> QED BY <1>1, PTL

-----------------------------------------------------------------------------
(* Committing twice *)

\* What the attempt's number says of the commits: those before the present one are
\* of earlier attempts, and an attempt that committed is retried only for its replay.
AttemptsInv ==
    /\ \A a \in commits : a <= attempt
    /\ pc \in InBlock \cup {"begin"} => attempt \notin commits
    /\ pc \in {"begin", "body", "commit"} => error = "none"
    /\ pc \in {"replay", "settle"} /\ attempt \in commits /\ error = "transient" => attempt \in late
    /\ CommitsAgainOnlyAfterLateError

LEMMA AttemptsNext == TxTypeOK /\ AttemptsInv /\ [TxStep]_txVars => AttemptsInv'
<1> SUFFICES ASSUME TxTypeOK, AttemptsInv, [TxStep]_txVars PROVE AttemptsInv'
  OBVIOUS
<1> USE DEF AttemptsInv, CommitsAgainOnlyAfterLateError, InBlock, Errors
<1>t. /\ attempt \in Nat /\ commits \subseteq Nat /\ Attempts \in Nat
      /\ error \in {"transient", "permanent", "none"}
  BY TransactionsAssumption DEF TxTypeOK
<1>1. CASE Begin
  BY <1>1, <1>t DEF Begin
<1>2. CASE Leave
  BY <1>2, <1>t DEF Leave
<1>3. CASE Commit
  BY <1>3, <1>t DEF Commit
<1>4. CASE Rollback
  BY <1>4, <1>t DEF Rollback
<1>5. CASE ReplayEnds
  <2>1. pc' \in {"done", "settle"}
    BY <1>5 DEF ReplayEnds
  <2> QED BY <1>5, <2>1, <1>t DEF ReplayEnds
<1>6. CASE Settle
  <2>1. CASE error = "transient" /\ attempt < Attempts
    BY <1>6, <2>1, <1>t DEF Settle
  <2>2. CASE ~(error = "transient" /\ attempt < Attempts)
    BY <1>6, <2>2, <1>t DEF Settle
  <2> QED BY <2>1, <2>2
<1>7. ASSUME NEW caught \in BOOLEAN, RollbackSavepoint(caught) PROVE AttemptsInv'
  <2>1. CASE caught
    BY <1>7, <2>1, <1>t DEF RollbackSavepoint
  <2>2. CASE ~caught
    BY <1>7, <2>2, <1>t DEF RollbackSavepoint
  <2> QED BY <2>1, <2>2
<1>8. ASSUME NEW outcome \in Errors \cup {"none"}, Replay(outcome) PROVE AttemptsInv'
  <2>1. late \subseteq late' /\ (outcome = "transient" => attempt \in late')
    BY <1>8 DEF Replay
  <2>2. error' = error \/ error' = outcome
    BY <1>8 DEF Replay
  <2> QED BY <1>8, <2>1, <2>2, <1>t DEF Replay
<1>9. CASE pc = "body" /\ ReleaseSavepoint
  BY <1>9, <1>t DEF ReleaseSavepoint
<1>10. ASSUME NEW w \in Work, Write(w) \/ Defer(w) PROVE AttemptsInv'
  BY <1>10, <1>t DEF Write, Defer
<1>11. ASSUME NEW e \in Errors, Raise(e) \/ CommitFails(e) PROVE AttemptsInv'
  BY <1>11, <1>t DEF Raise, CommitFails
<1>12. CASE OpenSavepoint \/ ReplayCancelled \/ Crash
  BY <1>12, <1>t DEF OpenSavepoint, ReplayCancelled, Crash
<1>13. ASSUME NEW h \in Helpers, Start(h) PROVE AttemptsInv'
  BY <1>13, <1>t DEF Start
<1>14. ASSUME NEW h \in Helpers, NEW w \in Work,
              HelperWrite(h, w) \/ HelperDefer(h, w) \/ HelperDeferLate(h, w)
       PROVE AttemptsInv'
  BY <1>14, <1>t DEF HelperWrite, HelperDefer, HelperDeferLate
<1>15. CASE UNCHANGED txVars
  BY <1>15 DEF txVars
<1> QED
  BY <1>1, <1>2, <1>3, <1>4, <1>5, <1>6, <1>7, <1>8, <1>9, <1>10, <1>11, <1>12, <1>13,
     <1>14, <1>15
  DEF TxStep, TxRun, TxBody

\* transact runs a block again after its COMMIT succeeded only for what came up in
\* the replay: a block whose replayed work raises nothing transient commits once.
THEOREM CommitsOnce == TxSpec => []CommitsAgainOnlyAfterLateError
<1>1. TxInit => AttemptsInv
  BY DEF TxInit, AttemptsInv, InBlock, CommitsAgainOnlyAfterLateError
<1>2. TxSpec => [](TxTypeOK /\ FramesOK /\ AttemptsInv)
  BY <1>1, TxTypeInit, TxTypeNext, AttemptsNext, PTL DEF TxSpec
<1>3. AttemptsInv => CommitsAgainOnlyAfterLateError
  BY DEF AttemptsInv
<1> QED BY <1>2, <1>3, PTL

-----------------------------------------------------------------------------
(* The buffer implements AfterCommit *)

\* Outside a block and its replay nothing is deferred.
BufferInv == pc \in {"begin", "settle"} \cup Over => buffer = <<>>

LEMMA BufferNext == BufferInv /\ [TxStep]_txVars => BufferInv'
<1> SUFFICES ASSUME BufferInv, [TxStep]_txVars PROVE BufferInv'
  OBVIOUS
<1> USE DEF BufferInv, Over
<1>1. CASE Begin \/ Leave \/ Commit \/ Rollback
  BY <1>1 DEF Begin, Leave, Commit, Rollback
<1>2. CASE ReplayEnds \/ Settle
  BY <1>2 DEF ReplayEnds, Settle
<1>3. ASSUME NEW caught \in BOOLEAN, RollbackSavepoint(caught) PROVE BufferInv'
  BY <1>3 DEF RollbackSavepoint
<1>4. ASSUME NEW outcome \in Errors \cup {"none"}, Replay(outcome) PROVE BufferInv'
  BY <1>4 DEF Replay
<1>5. CASE pc = "body" /\ ReleaseSavepoint
  BY <1>5 DEF ReleaseSavepoint
<1>6. ASSUME NEW w \in Work, Write(w) \/ Defer(w) PROVE BufferInv'
  BY <1>6 DEF Write, Defer
<1>7. ASSUME NEW e \in Errors, Raise(e) \/ CommitFails(e) PROVE BufferInv'
  BY <1>7 DEF Raise, CommitFails
<1>8. CASE OpenSavepoint \/ ReplayCancelled \/ Crash
  BY <1>8 DEF OpenSavepoint, ReplayCancelled, Crash
<1>9. ASSUME NEW h \in Helpers, Start(h) PROVE BufferInv'
  BY <1>9 DEF Start
<1>10. ASSUME NEW h \in Helpers, NEW w \in Work,
              HelperWrite(h, w) \/ HelperDefer(h, w) \/ HelperDeferLate(h, w)
       PROVE BufferInv'
  BY <1>10 DEF HelperWrite, HelperDefer, HelperDeferLate, Collecting
<1>11. CASE UNCHANGED txVars
  BY <1>11 DEF txVars
<1> QED
  BY <1>1, <1>2, <1>3, <1>4, <1>5, <1>6, <1>7, <1>8, <1>9, <1>10, <1>11
  DEF TxStep, TxRun, TxBody

\* The refinement mapping, by name.
Phase ==
    CASE pc \in {"body", "unwind", "commit"} -> "open"
      [] pc = "replay" -> "flushing"
      [] pc \in {"cancelled", "dead"} -> "stopped"
      [] OTHER -> "idle"
Delivered == [i \in DOMAIN log |-> log[i][1]]
OutboxVars == <<Phase, buffer, Delivered>>

\* What one more entry of the log delivers.
LEMMA BufferDelivers ==
  ASSUME TxTypeOK, NEW w \in Work, log' = Append(log, <<w, attempt>>)
  PROVE  Delivered' = Append(Delivered, w)
<1>1. log \in Seq(Work \X (1..Attempts)) /\ <<w, attempt>> \in Work \X (1..Attempts)
  BY DEF TxTypeOK
<1>2. Delivered \in Seq(Work) /\ Len(Delivered) = Len(log)
  <2>1. \A i \in 1..Len(log) : log[i][1] \in Work
    BY <1>1
  <2>2. Delivered = [i \in 1..Len(log) |-> log[i][1]]
    BY <1>1 DEF Delivered
  <2> QED BY <1>1, <2>1, <2>2
<1>3. Delivered' \in Seq(Work) /\ Len(Delivered') = Len(log) + 1
  BY <1>1 DEF Delivered
<1>4. \A i \in 1..Len(log) + 1 : Delivered'[i] = Append(Delivered, w)[i]
  BY <1>1, <1>2 DEF Delivered
<1> QED BY <1>2, <1>3, <1>4

LEMMA OutboxStep ==
  TxTypeOK /\ BufferInv /\ [TxStep]_txVars => [Outbox!Next]_(Outbox!vars)
<1> SUFFICES ASSUME TxTypeOK, BufferInv, [TxStep]_txVars
             PROVE  Outbox!Next \/ UNCHANGED OutboxVars
  BY DEF Outbox!vars, OutboxVars, Phase, Delivered
<1> DEFINE Rests == pc \notin {"body", "unwind", "commit", "replay", "cancelled", "dead"}
<1>p. /\ pc \in {"body", "unwind", "commit"} => Phase = "open"
      /\ pc = "replay" => Phase = "flushing"
      /\ pc \in {"cancelled", "dead"} => Phase = "stopped"
      /\ Rests => Phase = "idle"
  BY DEF Phase
<1>q. /\ pc' \in {"body", "unwind", "commit"} => Phase' = "open"
      /\ pc' = "replay" => Phase' = "flushing"
      /\ pc' \in {"cancelled", "dead"} => Phase' = "stopped"
      /\ Rests' => Phase' = "idle"
  BY DEF Phase
<1>s. UNCHANGED log => UNCHANGED Delivered
  BY DEF Delivered
<1>n. /\ Outbox!Open <=> Phase = "idle" /\ Phase' = "open" /\ UNCHANGED <<buffer, Delivered>>
      /\ \A w \in Work : Outbox!Defer(w) <=>
            /\ Phase \in {"open", "flushing"} /\ buffer' = Append(buffer, w)
            /\ UNCHANGED <<Phase, Delivered>>
      /\ Outbox!Drop <=> Phase = "open" /\ Phase' = "idle" /\ buffer' = <<>> /\ UNCHANGED Delivered
      /\ Outbox!Commit <=> Phase = "open" /\ Phase' = "flushing" /\ UNCHANGED <<buffer, Delivered>>
      /\ Outbox!Deliver <=>
            /\ Phase = "flushing" /\ buffer # <<>>
            /\ Delivered' = Append(Delivered, Head(buffer)) /\ buffer' = Tail(buffer)
            /\ UNCHANGED Phase
      /\ Outbox!Close <=>
            Phase = "flushing" /\ buffer = <<>> /\ Phase' = "idle" /\ UNCHANGED <<buffer, Delivered>>
      /\ Outbox!Stop <=>
            /\ Phase' = "stopped" /\ buffer' = <<>>
            /\ \/ UNCHANGED Delivered
               \/ /\ Phase = "flushing" /\ buffer # <<>>
                  /\ Delivered' = Append(Delivered, Head(buffer))
  BY DEF Outbox!Open, Outbox!Defer, Outbox!Drop, Outbox!Commit, Outbox!Deliver, Outbox!Close,
         Outbox!Stop, Phase, Delivered
<1>h. ASSUME buffer # <<>>, log' = Append(log, <<Head(buffer), attempt>>)
      PROVE  Delivered' = Append(Delivered, Head(buffer))
  <2>1. Head(buffer) \in Work
    BY <1>h DEF TxTypeOK
  <2> QED BY <1>h, <2>1, BufferDelivers
<1> USE DEF OutboxVars, Outbox!Next
<1>1. CASE Begin
  <2>1. buffer = <<>>
    BY <1>1 DEF Begin, BufferInv
  <2> QED BY <1>1, <2>1, <1>p, <1>q, <1>s, <1>n DEF Begin
<1>2. CASE Leave
  BY <1>2, <1>p, <1>q, <1>s DEF Leave
<1>3. CASE Commit
  BY <1>3, <1>p, <1>q, <1>s, <1>n DEF Commit
<1>4. CASE Rollback
  BY <1>4, <1>p, <1>q, <1>s, <1>n DEF Rollback
<1>5. CASE ReplayEnds
  BY <1>5, <1>p, <1>q, <1>s, <1>n DEF ReplayEnds
<1>6. CASE Settle
  BY <1>6, <1>p, <1>q, <1>s DEF Settle
<1>7. ASSUME NEW caught \in BOOLEAN, RollbackSavepoint(caught) PROVE UNCHANGED OutboxVars
  BY <1>7, <1>p, <1>q, <1>s DEF RollbackSavepoint
<1>8. ASSUME NEW outcome \in Errors \cup {"none"}, Replay(outcome) PROVE Outbox!Next
  <2>1. pc = "replay" /\ pc' = pc /\ buffer # <<>> /\ buffer' = Tail(buffer)
    BY <1>8 DEF Replay
  <2>2. Delivered' = Append(Delivered, Head(buffer))
    BY <1>8, <1>h DEF Replay
  <2>3. Phase = "flushing" /\ Phase' = "flushing"
    BY <2>1, <1>p, <1>q
  <2>4. Outbox!Deliver
    BY <2>1, <2>2, <2>3, <1>n
  <2> QED BY <2>4
<1>9. CASE pc = "body" /\ ReleaseSavepoint
  BY <1>9, <1>p, <1>q, <1>s DEF ReleaseSavepoint
<1>10. ASSUME NEW w \in Work, Write(w) PROVE UNCHANGED OutboxVars
  BY <1>10, <1>p, <1>q, <1>s DEF Write
<1>11. ASSUME NEW w \in Work, Defer(w) PROVE Outbox!Next
  BY <1>11, <1>p, <1>q, <1>s, <1>n DEF Defer, Append2Buffer
<1>12. ASSUME NEW e \in Errors, Raise(e) PROVE UNCHANGED OutboxVars
  BY <1>12, <1>p, <1>q, <1>s DEF Raise
<1>13. ASSUME NEW e \in Errors, CommitFails(e) PROVE Outbox!Next
  BY <1>13, <1>p, <1>q, <1>s, <1>n DEF CommitFails
<1>14. CASE OpenSavepoint
  BY <1>14, <1>p, <1>q, <1>s DEF OpenSavepoint
<1>15. CASE ReplayCancelled
  BY <1>15, <1>p, <1>q, <1>h, <1>n DEF ReplayCancelled
<1>16. CASE Crash
  BY <1>16, <1>p, <1>q, <1>s, <1>n DEF Crash
<1>17. ASSUME NEW h \in Helpers, NEW w \in Work, HelperDefer(h, w) PROVE Outbox!Next
  BY <1>17, <1>p, <1>q, <1>s, <1>n DEF HelperDefer, Append2Buffer, Collecting
<1>18. ASSUME NEW h \in Helpers, Start(h) PROVE UNCHANGED OutboxVars
  BY <1>18, <1>p, <1>q, <1>s DEF Start
<1>19. ASSUME NEW h \in Helpers, NEW w \in Work, HelperWrite(h, w) \/ HelperDeferLate(h, w)
       PROVE UNCHANGED OutboxVars
  BY <1>19, <1>p, <1>q, <1>s DEF HelperWrite, HelperDeferLate
<1>20. CASE UNCHANGED txVars
  BY <1>20, <1>p, <1>q, <1>s DEF txVars
<1> QED
  BY <1>1, <1>2, <1>3, <1>4, <1>5, <1>6, <1>7, <1>8, <1>9, <1>10, <1>11, <1>12, <1>13,
     <1>14, <1>15, <1>16, <1>17, <1>18, <1>19, <1>20
  DEF TxStep, TxRun, TxBody

\* Work handed to after_commit runs only after the COMMIT of the block it was deferred
\* in, in order and once; a rollback drops it, whatever savepoints, retries and helpers do.
THEOREM KeepsAfterCommit == TxSpec => ImplementsAfterCommit
<1>1. TxInit => Outbox!Init
  BY DEF TxInit, Outbox!Init
<1>2. TxInit => BufferInv
  BY DEF TxInit, BufferInv, Over
<1>3. TxSpec => [](TxTypeOK /\ FramesOK /\ BufferInv)
  BY <1>2, TxTypeInit, TxTypeNext, BufferNext, PTL DEF TxSpec
<1> QED BY <1>1, <1>3, OutboxStep, PTL DEF TxSpec, ImplementsAfterCommit, Outbox!Spec

-----------------------------------------------------------------------------
(* The replay forgets nothing *)

\* What was deferred in a block that committed is owed only while its replay goes on.
OwedOnlyWhileReplaying == pc = "replay" \/ Abandoned \/ Owed = {}

\* Where each piece deferred in time still is: in the buffer until its attempt commits,
\* then in the buffer or among what was run.
AskedInv ==
    \A wa \in Range(asked) :
        /\ wa[2] <= attempt
        /\ pc = "begin" => wa[2] < attempt
        /\ pc \in InBlock /\ wa[2] = attempt => wa[1] \in Range(buffer)
        /\ wa[2] \in commits /\ ~Abandoned =>
              \/ wa \in Range(log)
              \/ pc = "replay" /\ wa[2] = attempt /\ wa[1] \in Range(buffer)

LEMMA RangeFacts ==
  ASSUME NEW S, NEW s \in Seq(S)
  PROVE  /\ Range(s) \subseteq S /\ Range(<<>>) = {}
         /\ \A x \in S : Range(Append(s, x)) = Range(s) \cup {x}
         /\ s # <<>> => Range(s) = {Head(s)} \cup Range(Tail(s))
<1>1. Range(s) \subseteq S /\ Range(<<>>) = {}
  BY DEF Range
<1>2. ASSUME NEW x \in S PROVE Range(Append(s, x)) = Range(s) \cup {x}
  <2>1. \A i \in 1..Len(s) : Append(s, x)[i] = s[i]
    OBVIOUS
  <2>2. DOMAIN Append(s, x) = 1 .. Len(s) + 1 /\ Append(s, x)[Len(s) + 1] = x
    OBVIOUS
  <2>3. DOMAIN Append(s, x) = 1..Len(s) \cup {Len(s) + 1} /\ DOMAIN s = 1..Len(s)
    BY <2>2
  <2> QED BY <2>1, <2>2, <2>3, Zenon DEF Range
<1>3. ASSUME s # <<>> PROVE Range(s) = {Head(s)} \cup Range(Tail(s))
  <2>0. DOMAIN s = 1..Len(s) /\ Len(s) \in Nat /\ Len(s) >= 1
    BY <1>3
  <2>1. DOMAIN s = {1} \cup 2..Len(s) /\ Head(s) = s[1]
    BY <1>3, <2>0
  <2>2. DOMAIN Tail(s) = 1 .. Len(s) - 1 /\ \A i \in 1 .. Len(s) - 1 : Tail(s)[i] = s[i + 1]
    BY <1>3
  <2>3. \A i \in 2..Len(s) : i - 1 \in DOMAIN Tail(s) /\ Tail(s)[i - 1] = s[i]
    BY <1>3, <2>2
  <2>4. \A i \in DOMAIN Tail(s) : i + 1 \in DOMAIN s /\ s[i + 1] = Tail(s)[i]
    BY <1>3, <2>2
  <2>5. \A i \in DOMAIN s : i = 1 \/ i \in 2..Len(s)
    BY <2>1
  <2>6. 1 \in DOMAIN s
    BY <2>1
  <2>7. ASSUME NEW v \in Range(s) PROVE v = Head(s) \/ v \in Range(Tail(s))
    BY <2>1, <2>3, <2>5 DEF Range
  <2>8. ASSUME NEW v \in Range(Tail(s)) PROVE v \in Range(s)
    BY <2>4 DEF Range
  <2>9. Head(s) \in Range(s)
    BY <2>1, <2>6 DEF Range
  <2> QED BY <2>7, <2>8, <2>9
<1> QED BY <1>1, <1>2, <1>3

LEMMA AskedNext ==
  TxTypeOK /\ AttemptsInv /\ BufferInv /\ AskedInv /\ [TxStep]_txVars => AskedInv'
<1> SUFFICES ASSUME TxTypeOK, AttemptsInv, BufferInv, AskedInv, [TxStep]_txVars PROVE AskedInv'
  OBVIOUS
<1> USE DEF AskedInv, InBlock, Abandoned
<1>t. /\ attempt \in Nat /\ commits \subseteq Nat /\ buffer \in Seq(Work)
      /\ log \in Seq(Work \X (1..Attempts)) /\ asked \in Seq(Work \X (1..Attempts))
      /\ attempt \in 1..Attempts
      /\ \A wa \in Range(asked) : wa \in Work \X (1..Attempts) /\ wa[2] \in Nat
  <2>1. Attempts \in Nat /\ Range(asked) \subseteq Work \X (1..Attempts)
    BY TransactionsAssumption, RangeFacts DEF TxTypeOK
  <2> QED BY <2>1 DEF TxTypeOK
<1>r. /\ \A wa \in Work \X (1..Attempts) :
            /\ Range(Append(log, wa)) = Range(log) \cup {wa}
            /\ Range(Append(asked, wa)) = Range(asked) \cup {wa}
      /\ \A w \in Work : Range(Append(buffer, w)) = Range(buffer) \cup {w}
      /\ buffer # <<>> => Range(buffer) = {Head(buffer)} \cup Range(Tail(buffer))
  <2> DEFINE Pairs == Work \X (1..Attempts)
  <2>1. log \in Seq(Pairs) /\ asked \in Seq(Pairs) /\ buffer \in Seq(Work)
    BY <1>t
  <2> HIDE DEF Pairs
  <2>2. \A wa \in Pairs : /\ Range(Append(log, wa)) = Range(log) \cup {wa}
                          /\ Range(Append(asked, wa)) = Range(asked) \cup {wa}
    BY <2>1, RangeFacts
  <2>3. /\ \A w \in Work : Range(Append(buffer, w)) = Range(buffer) \cup {w}
        /\ buffer # <<>> => Range(buffer) = {Head(buffer)} \cup Range(Tail(buffer))
    BY <2>1, RangeFacts
  <2> USE DEF Pairs
  <2> QED BY <2>2, <2>3
<1>1. CASE Begin
  BY <1>1, <1>t DEF Begin
<1>2. CASE Leave
  BY <1>2, <1>t DEF Leave
<1>3. CASE Commit
  BY <1>3, <1>t DEF Commit
<1>4. CASE Rollback
  BY <1>4, <1>t DEF Rollback, AttemptsInv
<1>5. CASE ReplayEnds
  <2>1. pc' \in {"done", "settle"} /\ Range(buffer) = {}
    BY <1>5, <1>t, RangeFacts DEF ReplayEnds
  <2> QED BY <1>5, <2>1, <1>t DEF ReplayEnds
<1>6. CASE Settle
  <2>1. CASE error = "transient" /\ attempt < Attempts
    BY <1>6, <2>1, <1>t DEF Settle
  <2>2. CASE ~(error = "transient" /\ attempt < Attempts)
    BY <1>6, <2>2, <1>t DEF Settle
  <2> QED BY <2>1, <2>2
<1>7. ASSUME NEW caught \in BOOLEAN, RollbackSavepoint(caught) PROVE AskedInv'
  <2>1. pc' \in {"body", "unwind"}
    BY <1>7 DEF RollbackSavepoint
  <2> QED BY <1>7, <2>1, <1>t DEF RollbackSavepoint
<1>8. ASSUME NEW outcome \in Errors \cup {"none"}, Replay(outcome) PROVE AskedInv'
  <2>1. Head(buffer) \in Work /\ <<Head(buffer), attempt>> \in Work \X (1..Attempts)
    BY <1>8, <1>t DEF Replay
  <2>2. /\ Range(log') = Range(log) \cup {<<Head(buffer), attempt>>}
        /\ Range(buffer) = {Head(buffer)} \cup Range(buffer')
    BY <1>8, <2>1, <1>r DEF Replay
  <2>3. ASSUME NEW wa \in Range(asked), wa[2] = attempt, wa[1] = Head(buffer)
        PROVE  wa \in Range(log')
    <3>1. wa = <<wa[1], wa[2]>>
      BY <1>t
    <3> QED BY <2>2, <2>3, <3>1
  <2> QED BY <1>8, <2>2, <2>3, <1>t DEF Replay
<1>9. CASE pc = "body" /\ ReleaseSavepoint
  BY <1>9, <1>t DEF ReleaseSavepoint
<1>10. ASSUME NEW w \in Work, Write(w) PROVE AskedInv'
  BY <1>10, <1>t DEF Write
<1>11. ASSUME NEW w \in Work, Append2Buffer(w), pc \in InBlock \cup {"replay"},
              UNCHANGED <<pc, attempt, log, commits>>
       PROVE AskedInv'
  <2>1. /\ Range(asked') = Range(asked) \cup {<<w, attempt>>}
        /\ Range(buffer') = Range(buffer) \cup {w}
    <3>1. <<w, attempt>> \in Work \X (1..Attempts)
      BY <1>t
    <3> QED BY <1>11, <3>1, <1>r DEF Append2Buffer
  <2>2. ASSUME NEW wa \in Range(asked'), wa \in Range(asked)
        PROVE  /\ wa[2] <= attempt'
               /\ pc' = "begin" => wa[2] < attempt'
               /\ pc' \in InBlock /\ wa[2] = attempt' => wa[1] \in Range(buffer')
               /\ wa[2] \in commits' /\ ~Abandoned' =>
                     \/ wa \in Range(log')
                     \/ pc' = "replay" /\ wa[2] = attempt' /\ wa[1] \in Range(buffer')
    BY <1>11, <2>1, <2>2
  <2>3. ASSUME NEW wa \in Range(asked'), wa = <<w, attempt>>
        PROVE  /\ wa[2] <= attempt'
               /\ pc' = "begin" => wa[2] < attempt'
               /\ pc' \in InBlock /\ wa[2] = attempt' => wa[1] \in Range(buffer')
               /\ wa[2] \in commits' /\ ~Abandoned' =>
                     \/ wa \in Range(log')
                     \/ pc' = "replay" /\ wa[2] = attempt' /\ wa[1] \in Range(buffer')
    BY <1>11, <1>t, <2>1, <2>3 DEF AttemptsInv
  <2> QED BY <2>1, <2>2, <2>3
<1>12. ASSUME NEW w \in Work, Defer(w) PROVE AskedInv'
  BY <1>12, <1>11 DEF Defer
<1>13. ASSUME NEW e \in Errors, Raise(e) \/ CommitFails(e) PROVE AskedInv'
  BY <1>13, <1>t DEF Raise, CommitFails, AttemptsInv
<1>14. CASE OpenSavepoint
  BY <1>14, <1>t DEF OpenSavepoint
<1>15. CASE ReplayCancelled \/ Crash
  BY <1>15, <1>t DEF ReplayCancelled, Crash
<1>16. ASSUME NEW h \in Helpers, Start(h) PROVE AskedInv'
  BY <1>16, <1>t DEF Start
<1>17. ASSUME NEW h \in Helpers, NEW w \in Work, HelperDefer(h, w) PROVE AskedInv'
  BY <1>17, <1>11 DEF HelperDefer, Collecting
<1>18. ASSUME NEW h \in Helpers, NEW w \in Work, HelperWrite(h, w) \/ HelperDeferLate(h, w)
       PROVE AskedInv'
  BY <1>18, <1>t DEF HelperWrite, HelperDeferLate
<1>19. CASE UNCHANGED txVars
  BY <1>19 DEF txVars
<1> QED
  BY <1>1, <1>2, <1>3, <1>4, <1>5, <1>6, <1>7, <1>8, <1>9, <1>10, <1>12, <1>13,
     <1>14, <1>15, <1>16, <1>17, <1>18, <1>19
  DEF TxStep, TxRun, TxBody

\* Unless the caller dies or is cancelled, nothing deferred in a block that committed is
\* left when its replay has ended, whatever the pieces before it raised and however often
\* the block was retried.
THEOREM NothingForgotten == TxSpec => []OwedOnlyWhileReplaying
<1>1. TxInit => AttemptsInv /\ BufferInv /\ AskedInv
  BY DEF TxInit, AttemptsInv, BufferInv, AskedInv, InBlock, Over, Range,
         CommitsAgainOnlyAfterLateError
<1>2. TxSpec => [](TxTypeOK /\ FramesOK /\ AttemptsInv /\ BufferInv /\ AskedInv)
  BY <1>1, TxTypeInit, TxTypeNext, AttemptsNext, BufferNext, AskedNext, PTL DEF TxSpec
<1>3. AskedInv => OwedOnlyWhileReplaying
  BY DEF AskedInv, OwedOnlyWhileReplaying, Owed
<1> QED BY <1>2, <1>3, PTL
=============================================================================
