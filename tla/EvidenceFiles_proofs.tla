------------------------ MODULE EvidenceFiles_proofs ------------------------
(* Proofs about EvidenceFiles, for any number of files and of requests. *)
EXTENDS EvidenceFiles, TLAPS

\* The type invariant.
LEMMA StepType == TypeOK /\ OwnFiles /\ [Next]_vars => TypeOK'
<1> USE NoFileAssumption DEF TypeOK, Content, Attached, Kinds, Point, Idle, At
<1> SUFFICES ASSUME TypeOK, OwnFiles, [Next]_vars
             PROVE  TypeOK'
  OBVIOUS
<1>1. ASSUME NEW r \in Requests, NEW f \in Files, NEW kind \in Kinds, Receive(r, kind, f)
      PROVE  TypeOK'
  BY <1>1 DEF Receive, Work, New, Named, Held
<1>2. ASSUME NEW r \in Requests, NEW f \in Files, NEW kind \in Attached, Delete(r, kind, f)
      PROVE  TypeOK'
  BY <1>2 DEF Delete, Work
<1>3. ASSUME NEW r \in Requests, Refuse(r)
      PROVE  TypeOK'
  BY <1>3 DEF Refuse, Finish, Unlink
<1>4. ASSUME NEW r \in Requests, Check(r)
      PROVE  TypeOK'
  <2>1. request' \in [Requests -> [kind : Kinds, at : Point,
                                   file : Files \cup {NoFile}, old : Files \cup {NoFile}]]
    BY <1>4 DEF Check, Goto, Work
  <2> QED BY <1>4, <2>1 DEF Check
<1>5. ASSUME NEW r \in Requests, Scanned(r)
      PROVE  TypeOK'
  BY <1>5 DEF Scanned, Goto
<1>6. ASSUME NEW r \in Requests, Encrypt(r)
      PROVE  TypeOK'
  <2>1. request' \in [Requests -> [kind : Kinds, at : Point,
                                   file : Files \cup {NoFile}, old : Files \cup {NoFile}]]
    BY <1>6 DEF Encrypt, Goto
  <2>2. disk' \in [Files -> Content]
    BY <1>6 DEF Encrypt
  <2> QED BY <1>6, <2>1, <2>2 DEF Encrypt
<1>7. ASSUME NEW r \in Requests, Discard(r)
      PROVE  TypeOK'
  BY <1>7 DEF Discard, Finish, Unlink
<1>8. ASSUME NEW r \in Requests, Persist(r)
      PROVE  TypeOK'
  BY <1>8 DEF Persist, AfterPersist, Goto, Finish, Unlink
<1>9. ASSUME NEW r \in Requests, Insert(r)
      PROVE  TypeOK'
  <2>1. request[r].kind \in Attached /\ request[r].file \in Files
    BY <1>9 DEF Insert, OwnFiles
  <2>2. rows' \in [Attached -> SUBSET Files]
    BY <1>9, <2>1 DEF Insert
  <2> QED BY <1>9, <2>2 DEF Insert, Finish
<1>10. ASSUME NEW r \in Requests, RemoveOld(r)
      PROVE  TypeOK'
  BY <1>10 DEF RemoveOld, Goto, RemoveFile, Unlink
<1>11. ASSUME NEW r \in Requests, Update(r)
      PROVE  TypeOK'
  BY <1>11 DEF Update, Work
<1>12. ASSUME NEW r \in Requests, Remove(r)
      PROVE  TypeOK'
  BY <1>12 DEF Remove, Finish, RemoveFile, Unlink
<1>13. ASSUME NEW r \in Requests, Abandon(r)
      PROVE  TypeOK'
  BY <1>13 DEF Abandon, Finish
<1>14. CASE Restart
  BY <1>14 DEF Restart
<1>15. CASE UNCHANGED vars
  BY <1>15 DEF vars
<1> QED BY <1>1, <1>2, <1>3, <1>4, <1>5, <1>6, <1>7, <1>8, <1>9, <1>10, <1>11, <1>12, <1>13, <1>14, <1>15 DEF Next, Step

\* A file is not passed on: an upload or a removal keeps its own.
LEMMA StepOwnFiles == TypeOK /\ OwnFiles /\ OneRow /\ [Next]_vars => OwnFiles'
<1> USE NoFileAssumption DEF TypeOK, Content, Attached, Kinds, Point, Idle, At, OwnFiles, OneRow
<1> SUFFICES ASSUME TypeOK, OwnFiles, OneRow, [Next]_vars
             PROVE  OwnFiles'
  OBVIOUS
<1>1. ASSUME NEW r \in Requests, NEW f \in Files, NEW kind \in Kinds, Receive(r, kind, f)
      PROVE  OwnFiles'
  BY <1>1 DEF Receive, Work, New, Named, Held
<1>2. ASSUME NEW r \in Requests, NEW f \in Files, NEW kind \in Attached, Delete(r, kind, f)
      PROVE  OwnFiles'
  BY <1>2 DEF Delete, Work
<1>3. ASSUME NEW r \in Requests, Refuse(r)
      PROVE  OwnFiles'
  BY <1>3 DEF Refuse, Finish, Unlink
<1>4. ASSUME NEW r \in Requests, Check(r)
      PROVE  OwnFiles'
  BY <1>4 DEF Check, Goto, Work
<1>5. ASSUME NEW r \in Requests, Scanned(r)
      PROVE  OwnFiles'
  BY <1>5 DEF Scanned, Goto
<1>6. ASSUME NEW r \in Requests, Encrypt(r)
      PROVE  OwnFiles'
  BY <1>6 DEF Encrypt, Goto
<1>7. ASSUME NEW r \in Requests, Discard(r)
      PROVE  OwnFiles'
  BY <1>7 DEF Discard, Finish, Unlink
<1>8. ASSUME NEW r \in Requests, Persist(r)
      PROVE  OwnFiles'
  BY <1>8 DEF Persist, AfterPersist, Goto, Finish, Unlink
<1>9. ASSUME NEW r \in Requests, Insert(r)
      PROVE  OwnFiles'
  BY <1>9 DEF Insert, Finish
<1>10. ASSUME NEW r \in Requests, RemoveOld(r)
      PROVE  OwnFiles'
  BY <1>10 DEF RemoveOld, Goto, RemoveFile, Unlink
<1>11. ASSUME NEW r \in Requests, Update(r)
      PROVE  OwnFiles'
  BY <1>11 DEF Update, Work
<1>12. ASSUME NEW r \in Requests, Remove(r)
      PROVE  OwnFiles'
  BY <1>12 DEF Remove, Finish, RemoveFile, Unlink
<1>13. ASSUME NEW r \in Requests, Abandon(r)
      PROVE  OwnFiles'
  BY <1>13 DEF Abandon, Finish
<1>14. CASE Restart
  BY <1>14 DEF Restart
<1>15. CASE UNCHANGED vars
  BY <1>15 DEF vars
<1> QED BY <1>1, <1>2, <1>3, <1>4, <1>5, <1>6, <1>7, <1>8, <1>9, <1>10, <1>11, <1>12, <1>13, <1>14, <1>15 DEF Next, Step

\* A row is written for a file that no row names.
LEMMA StepOneRow == TypeOK /\ OwnFiles /\ OneRow /\ [Next]_vars => OneRow'
<1> USE NoFileAssumption DEF TypeOK, Content, Attached, Kinds, Point, Idle, At, OwnFiles, OneRow
<1> SUFFICES ASSUME TypeOK, OwnFiles, OneRow, [Next]_vars
             PROVE  OneRow'
  OBVIOUS
<1>1. ASSUME NEW r \in Requests, NEW f \in Files, NEW kind \in Kinds, Receive(r, kind, f)
      PROVE  OneRow'
  BY <1>1 DEF Receive, Work, New, Named, Held
<1>2. ASSUME NEW r \in Requests, NEW f \in Files, NEW kind \in Attached, Delete(r, kind, f)
      PROVE  OneRow'
  BY <1>2 DEF Delete, Work
<1>3. ASSUME NEW r \in Requests, Refuse(r)
      PROVE  OneRow'
  BY <1>3 DEF Refuse, Finish, Unlink
<1>4. ASSUME NEW r \in Requests, Check(r)
      PROVE  OneRow'
  BY <1>4 DEF Check, Goto, Work
<1>5. ASSUME NEW r \in Requests, Scanned(r)
      PROVE  OneRow'
  BY <1>5 DEF Scanned, Goto
<1>6. ASSUME NEW r \in Requests, Encrypt(r)
      PROVE  OneRow'
  BY <1>6 DEF Encrypt, Goto
<1>7. ASSUME NEW r \in Requests, Discard(r)
      PROVE  OneRow'
  BY <1>7 DEF Discard, Finish, Unlink
<1>8. ASSUME NEW r \in Requests, Persist(r)
      PROVE  OneRow'
  BY <1>8 DEF Persist, AfterPersist, Goto, Finish, Unlink
<1>9. ASSUME NEW r \in Requests, Insert(r)
      PROVE  OneRow'
  BY <1>9 DEF Insert, Finish
<1>10. ASSUME NEW r \in Requests, RemoveOld(r)
      PROVE  OneRow'
  BY <1>10 DEF RemoveOld, Goto, RemoveFile, Unlink
<1>11. ASSUME NEW r \in Requests, Update(r)
      PROVE  OneRow'
  BY <1>11 DEF Update, Work
<1>12. ASSUME NEW r \in Requests, Remove(r)
      PROVE  OneRow'
  BY <1>12 DEF Remove, Finish, RemoveFile, Unlink
<1>13. ASSUME NEW r \in Requests, Abandon(r)
      PROVE  OneRow'
  BY <1>13 DEF Abandon, Finish
<1>14. CASE Restart
  BY <1>14 DEF Restart
<1>15. CASE UNCHANGED vars
  BY <1>15 DEF vars
<1> QED BY <1>1, <1>2, <1>3, <1>4, <1>5, <1>6, <1>7, <1>8, <1>9, <1>10, <1>11, <1>12, <1>13, <1>14, <1>15 DEF Next, Step

\* Only blob storage writes to the container.
LEMMA StepNoBlobYet == TypeOK /\ NoBlobYet /\ [Next]_vars => NoBlobYet'
<1> USE NoFileAssumption DEF TypeOK, Content, Attached, Kinds, Point, Idle, At, NoBlobYet
<1> SUFFICES ASSUME TypeOK, NoBlobYet, [Next]_vars
             PROVE  NoBlobYet'
  OBVIOUS
<1>1. ASSUME NEW r \in Requests, NEW f \in Files, NEW kind \in Kinds, Receive(r, kind, f)
      PROVE  NoBlobYet'
  BY <1>1 DEF Receive, Work, New, Named, Held
<1>2. ASSUME NEW r \in Requests, NEW f \in Files, NEW kind \in Attached, Delete(r, kind, f)
      PROVE  NoBlobYet'
  BY <1>2 DEF Delete, Work
<1>3. ASSUME NEW r \in Requests, Refuse(r)
      PROVE  NoBlobYet'
  BY <1>3 DEF Refuse, Finish, Unlink
<1>4. ASSUME NEW r \in Requests, Check(r)
      PROVE  NoBlobYet'
  BY <1>4 DEF Check, Goto, Work
<1>5. ASSUME NEW r \in Requests, Scanned(r)
      PROVE  NoBlobYet'
  BY <1>5 DEF Scanned, Goto
<1>6. ASSUME NEW r \in Requests, Encrypt(r)
      PROVE  NoBlobYet'
  BY <1>6 DEF Encrypt, Goto
<1>7. ASSUME NEW r \in Requests, Discard(r)
      PROVE  NoBlobYet'
  BY <1>7 DEF Discard, Finish, Unlink
<1>8. ASSUME NEW r \in Requests, Persist(r)
      PROVE  NoBlobYet'
  BY <1>8 DEF Persist, AfterPersist, Goto, Finish, Unlink
<1>9. ASSUME NEW r \in Requests, Insert(r)
      PROVE  NoBlobYet'
  BY <1>9 DEF Insert, Finish
<1>10. ASSUME NEW r \in Requests, RemoveOld(r)
      PROVE  NoBlobYet'
  BY <1>10 DEF RemoveOld, Goto, RemoveFile, Unlink
<1>11. ASSUME NEW r \in Requests, Update(r)
      PROVE  NoBlobYet'
  BY <1>11 DEF Update, Work
<1>12. ASSUME NEW r \in Requests, Remove(r)
      PROVE  NoBlobYet'
  BY <1>12 DEF Remove, Finish, RemoveFile, Unlink
<1>13. ASSUME NEW r \in Requests, Abandon(r)
      PROVE  NoBlobYet'
  BY <1>13 DEF Abandon, Finish
<1>14. CASE Restart
  <2>1. ~blob' => ~blob
    BY <1>14 DEF Restart
  <2> QED BY <1>14, <2>1 DEF Restart
<1>15. CASE UNCHANGED vars
  BY <1>15 DEF vars
<1> QED BY <1>1, <1>2, <1>3, <1>4, <1>5, <1>6, <1>7, <1>8, <1>9, <1>10, <1>11, <1>12, <1>13, <1>14, <1>15 DEF Next, Step

\* No other request touches the file of an upload.
LEMMA StepUploaded ==
    FilesInv /\ TypeOK' /\ [Next]_vars => (\A q \in Requests : Uploaded(q))'
<1> USE NoFileAssumption DEF TypeOK, Content, Attached, Kinds, Point, Idle, At, OwnFiles, Uploaded, Served, NoBlobYet
<1> SUFFICES ASSUME FilesInv, TypeOK', [Next]_vars
             PROVE  (\A q \in Requests : Uploaded(q))'
  OBVIOUS
<1>0. TypeOK /\ OwnFiles /\ NoBlobYet /\ (\A q \in Requests : Uploaded(q))
  BY DEF FilesInv
<1>1. ASSUME NEW r \in Requests, NEW f \in Files, NEW kind \in Kinds, Receive(r, kind, f)
      PROVE  (\A q \in Requests : Uploaded(q))'
  BY <1>0, <1>1 DEF Receive, Work, New, Named, Held
<1>2. ASSUME NEW r \in Requests, NEW f \in Files, NEW kind \in Attached, Delete(r, kind, f)
      PROVE  (\A q \in Requests : Uploaded(q))'
  BY <1>0, <1>2 DEF Delete, Work
<1>3. ASSUME NEW r \in Requests, Refuse(r)
      PROVE  (\A q \in Requests : Uploaded(q))'
  BY <1>0, <1>3 DEF Refuse, Finish, Unlink
<1>4. ASSUME NEW r \in Requests, Check(r)
      PROVE  (\A q \in Requests : Uploaded(q))'
  BY <1>0, <1>4 DEF Check, Goto, Work
<1>5. ASSUME NEW r \in Requests, Scanned(r)
      PROVE  (\A q \in Requests : Uploaded(q))'
  BY <1>0, <1>5 DEF Scanned, Goto
<1>6. ASSUME NEW r \in Requests, Encrypt(r)
      PROVE  (\A q \in Requests : Uploaded(q))'
  BY <1>0, <1>6 DEF Encrypt, Goto
<1>7. ASSUME NEW r \in Requests, Discard(r)
      PROVE  (\A q \in Requests : Uploaded(q))'
  BY <1>0, <1>7 DEF Discard, Finish, Unlink
<1>8. ASSUME NEW r \in Requests, Persist(r)
      PROVE  (\A q \in Requests : Uploaded(q))'
  BY <1>0, <1>8 DEF Persist, AfterPersist, Goto, Finish, Unlink
<1>9. ASSUME NEW r \in Requests, Insert(r)
      PROVE  (\A q \in Requests : Uploaded(q))'
  BY <1>0, <1>9 DEF Insert, Finish
<1>10. ASSUME NEW r \in Requests, RemoveOld(r)
      PROVE  (\A q \in Requests : Uploaded(q))'
  BY <1>0, <1>10 DEF RemoveOld, Goto, RemoveFile, Unlink
<1>11. ASSUME NEW r \in Requests, Update(r)
      PROVE  (\A q \in Requests : Uploaded(q))'
  BY <1>0, <1>11 DEF Update, Work
<1>12. ASSUME NEW r \in Requests, Remove(r)
      PROVE  (\A q \in Requests : Uploaded(q))'
  BY <1>0, <1>12 DEF Remove, Finish, RemoveFile, Unlink
<1>13. ASSUME NEW r \in Requests, Abandon(r)
      PROVE  (\A q \in Requests : Uploaded(q))'
  BY <1>0, <1>13 DEF Abandon, Finish
<1>14. CASE Restart
  BY <1>0, <1>14 DEF Restart
<1>15. CASE UNCHANGED vars
  BY <1>0, <1>15 DEF vars
<1> QED BY <1>1, <1>2, <1>3, <1>4, <1>5, <1>6, <1>7, <1>8, <1>9, <1>10, <1>11, <1>12, <1>13, <1>14, <1>15 DEF Next, Step

\* A row is written for a stored file, and a file is removed only once no row
\* names it.
LEMMA StepStored ==
    FilesInv /\ TypeOK' /\ [Next]_vars => AttachmentsAreStored'
<1> USE NoFileAssumption DEF TypeOK, Content, Attached, Kinds, Point, Idle, At, OwnFiles, Uploaded, Served, AttachmentsAreStored, Downloaded, Decrypted, NoBlobYet
<1> SUFFICES ASSUME FilesInv, TypeOK', [Next]_vars
             PROVE  AttachmentsAreStored'
  OBVIOUS
<1>0. TypeOK /\ OwnFiles /\ (\A q \in Requests : Uploaded(q)) /\ AttachmentsAreStored /\ NoBlobYet
  BY DEF FilesInv
<1>1. ASSUME NEW r \in Requests, NEW f \in Files, NEW kind \in Kinds, Receive(r, kind, f)
      PROVE  AttachmentsAreStored'
  BY <1>0, <1>1 DEF Receive, Work, New, Named, Held
<1>2. ASSUME NEW r \in Requests, NEW f \in Files, NEW kind \in Attached, Delete(r, kind, f)
      PROVE  AttachmentsAreStored'
  BY <1>0, <1>2 DEF Delete, Work
<1>3. ASSUME NEW r \in Requests, Refuse(r)
      PROVE  AttachmentsAreStored'
  BY <1>0, <1>3 DEF Refuse, Finish, Unlink
<1>4. ASSUME NEW r \in Requests, Check(r)
      PROVE  AttachmentsAreStored'
  BY <1>0, <1>4 DEF Check, Goto, Work
<1>5. ASSUME NEW r \in Requests, Scanned(r)
      PROVE  AttachmentsAreStored'
  BY <1>0, <1>5 DEF Scanned, Goto
<1>6. ASSUME NEW r \in Requests, Encrypt(r)
      PROVE  AttachmentsAreStored'
  BY <1>0, <1>6 DEF Encrypt, Goto
<1>7. ASSUME NEW r \in Requests, Discard(r)
      PROVE  AttachmentsAreStored'
  BY <1>0, <1>7 DEF Discard, Finish, Unlink
<1>8. ASSUME NEW r \in Requests, Persist(r)
      PROVE  AttachmentsAreStored'
  BY <1>0, <1>8 DEF Persist, AfterPersist, Goto, Finish, Unlink
<1>9. ASSUME NEW r \in Requests, Insert(r)
      PROVE  AttachmentsAreStored'
  BY <1>0, <1>9 DEF Insert, Finish
<1>10. ASSUME NEW r \in Requests, RemoveOld(r)
      PROVE  AttachmentsAreStored'
  BY <1>0, <1>10 DEF RemoveOld, Goto, RemoveFile, Unlink
<1>11. ASSUME NEW r \in Requests, Update(r)
      PROVE  AttachmentsAreStored'
  BY <1>0, <1>11 DEF Update, Work
<1>12. ASSUME NEW r \in Requests, Remove(r)
      PROVE  AttachmentsAreStored'
  BY <1>0, <1>12 DEF Remove, Finish, RemoveFile, Unlink
<1>13. ASSUME NEW r \in Requests, Abandon(r)
      PROVE  AttachmentsAreStored'
  BY <1>0, <1>13 DEF Abandon, Finish
<1>14. CASE Restart
  <2>1. ASSUME NEW f \in Files
        PROVE  Served(f)' = Served(f)
    <3>1. blob => blob'
      BY <1>14 DEF Restart
    <3>2. ~blob => container[f] = "absent"
      BY <1>0
    <3> QED BY <1>14, <3>1, <3>2 DEF Restart, Served
  <2>2. rows' = rows /\ disk' = disk /\ container' = container
    BY <1>14 DEF Restart
  <2>3. \A f \in rows["response"] : container[f] = "absent" => disk[f] # "absent"
    BY <1>0
  <2>4. \A f \in rows["response"] : key' /\ container[f] = "absent" => Downloaded(f)' = "plain"
    BY <2>2, <2>3
  <2> HIDE DEF Served, Downloaded
  <2> QED BY <1>0, <2>1, <2>2, <2>4
<1>15. CASE UNCHANGED vars
  BY <1>0, <1>15 DEF vars
<1> QED BY <1>1, <1>2, <1>3, <1>4, <1>5, <1>6, <1>7, <1>8, <1>9, <1>10, <1>11, <1>12, <1>13, <1>14, <1>15 DEF Next, Step

\* Only a replacement removes the file of the checklist.
LEMMA StepChecklist ==
    FilesInv /\ TypeOK' /\ [Next]_vars => ChecklistIsServed'
<1> USE NoFileAssumption DEF TypeOK, Content, Attached, Kinds, Point, Idle, At, OwnFiles, Uploaded, Served, ChecklistIsServed, Replacing, NoBlobYet
<1> SUFFICES ASSUME FilesInv, TypeOK', [Next]_vars
             PROVE  ChecklistIsServed'
  OBVIOUS
<1>0. TypeOK /\ OwnFiles /\ NoBlobYet /\ (\A q \in Requests : Uploaded(q)) /\ ChecklistIsServed
  BY DEF FilesInv
<1>1. ASSUME NEW r \in Requests, NEW f \in Files, NEW kind \in Kinds, Receive(r, kind, f)
      PROVE  ChecklistIsServed'
  BY <1>0, <1>1 DEF Receive, Work, New, Named, Held
<1>2. ASSUME NEW r \in Requests, NEW f \in Files, NEW kind \in Attached, Delete(r, kind, f)
      PROVE  ChecklistIsServed'
  BY <1>0, <1>2 DEF Delete, Work
<1>3. ASSUME NEW r \in Requests, Refuse(r)
      PROVE  ChecklistIsServed'
  BY <1>0, <1>3 DEF Refuse, Finish, Unlink
<1>4. ASSUME NEW r \in Requests, Check(r)
      PROVE  ChecklistIsServed'
  BY <1>0, <1>4 DEF Check, Goto, Work
<1>5. ASSUME NEW r \in Requests, Scanned(r)
      PROVE  ChecklistIsServed'
  BY <1>0, <1>5 DEF Scanned, Goto
<1>6. ASSUME NEW r \in Requests, Encrypt(r)
      PROVE  ChecklistIsServed'
  BY <1>0, <1>6 DEF Encrypt, Goto
<1>7. ASSUME NEW r \in Requests, Discard(r)
      PROVE  ChecklistIsServed'
  BY <1>0, <1>7 DEF Discard, Finish, Unlink
<1>8. ASSUME NEW r \in Requests, Persist(r)
      PROVE  ChecklistIsServed'
  BY <1>0, <1>8 DEF Persist, AfterPersist, Goto, Finish, Unlink
<1>9. ASSUME NEW r \in Requests, Insert(r)
      PROVE  ChecklistIsServed'
  BY <1>0, <1>9 DEF Insert, Finish
<1>10. ASSUME NEW r \in Requests, RemoveOld(r)
      PROVE  ChecklistIsServed'
  BY <1>0, <1>10 DEF RemoveOld, Goto, RemoveFile, Unlink
<1>11. ASSUME NEW r \in Requests, Update(r)
      PROVE  ChecklistIsServed'
  BY <1>0, <1>11 DEF Update, Work
<1>12. ASSUME NEW r \in Requests, Remove(r)
      PROVE  ChecklistIsServed'
  BY <1>0, <1>12 DEF Remove, Finish, RemoveFile, Unlink
<1>13. ASSUME NEW r \in Requests, Abandon(r)
      PROVE  ChecklistIsServed'
  <2>1. cut \/ Replacing(r) => cut'
    BY <1>13 DEF Abandon
  <2>2. \A q \in Requests : Replacing(q) => q = r \/ Replacing(q)'
    BY <1>13 DEF Abandon, Finish
  <2>3. checklist' = checklist /\ \A f \in Files : Served(f)' = Served(f)
    BY <1>13 DEF Abandon
  <2> HIDE DEF Served, Replacing
  <2> QED BY <1>0, <2>1, <2>2, <2>3
<1>14. CASE Restart
  <2>1. ASSUME NEW f \in Files
        PROVE  Served(f)' = Served(f)
    <3>1. blob => blob'
      BY <1>14 DEF Restart
    <3>2. ~blob => container[f] = "absent"
      BY <1>0
    <3> QED BY <1>14, <3>1, <3>2 DEF Restart, Served
  <2>2. checklist' = checklist
    BY <1>14 DEF Restart
  <2>3. cut \/ (\E r \in Requests : Replacing(r)) => cut'
    BY <1>14 DEF Restart
  <2> HIDE DEF Served, Replacing
  <2> QED BY <1>0, <2>1, <2>2, <2>3
<1>15. CASE UNCHANGED vars
  BY <1>0, <1>15 DEF vars
<1> QED BY <1>1, <1>2, <1>3, <1>4, <1>5, <1>6, <1>7, <1>8, <1>9, <1>10, <1>11, <1>12, <1>13, <1>14, <1>15 DEF Next, Step

-----------------------------------------------------------------------------

\* Requests have files of their own, rows name files that are stored.
THEOREM FilesInvariant == Spec => []FilesInv
<1>1. Init => FilesInv
  <2> SUFFICES ASSUME Init PROVE FilesInv
    OBVIOUS
  <2> USE DEF Init
  <2>1. TypeOK
    BY DEF TypeOK, Content, Attached, Kinds, Point, Idle
  <2>2. \A r \in Requests : request[r] = Idle
    OBVIOUS
  <2>3. OwnFiles
    BY <2>2, NoFileAssumption DEF OwnFiles, At, Idle, Attached
  <2>4. \A r \in Requests : Uploaded(r)
    BY <2>2 DEF Uploaded, At, Idle
  <2>5. OneRow /\ NoBlobYet /\ AttachmentsAreStored /\ ChecklistIsServed
    BY NoFileAssumption DEF OneRow, NoBlobYet, Attached, AttachmentsAreStored, ChecklistIsServed
  <2> QED BY <2>1, <2>3, <2>4, <2>5 DEF FilesInv
<1>2. FilesInv /\ [Next]_vars => FilesInv'
  <2> SUFFICES ASSUME FilesInv, [Next]_vars
               PROVE  FilesInv'
    OBVIOUS
  <2>1. TypeOK' /\ OwnFiles' /\ OneRow' /\ NoBlobYet'
    BY StepType, StepOwnFiles, StepOneRow, StepNoBlobYet DEF FilesInv
  <2>2. (\A q \in Requests : Uploaded(q))' /\ AttachmentsAreStored' /\ ChecklistIsServed'
    BY <2>1, StepUploaded, StepStored, StepChecklist
  <2> QED BY <2>1, <2>2 DEF FilesInv
<1> QED BY <1>1, <1>2, PTL DEF Spec

\* The file of every attachment row is kept in a store, whatever is uploaded,
\* deleted, refused or interrupted, and across the switch to blob storage.  That
\* of a validation is served as it was uploaded, and so is, with a key, that of a
\* response that is still on the disk; one that is only in the container is kept,
\* but its download (decryptFileTo) does not look there.
THEOREM RowsHaveFiles == Spec => []AttachmentsAreStored
<1>1. FilesInv => AttachmentsAreStored
  BY DEF FilesInv
<1> QED BY <1>1, FilesInvariant, PTL

\* Outside a replacement the checklist can be downloaded.
THEOREM ChecklistStays == Spec => []ChecklistIsServed
<1>1. FilesInv => ChecklistIsServed
  BY DEF FilesInv
<1> QED BY <1>1, FilesInvariant, PTL

\* With a key, no response attachment is written for a plain file.
THEOREM ResponsesAreEncrypted == Spec => AttachedEncrypted
<1>1. FilesInv /\ [Next]_vars =>
         [\A f \in Files :
            key /\ f \in rows'["response"] \ rows["response"] =>
                disk[f] # "plain" /\ container[f] # "plain"]_vars
  <2> SUFFICES ASSUME FilesInv, [Next]_vars, NEW f \in Files, key,
                      f \in rows'["response"], f \notin rows["response"]
               PROVE  disk[f] # "plain" /\ container[f] # "plain"
    OBVIOUS
  <2>1. PICK r \in Requests : Insert(r)
    BY DEF Next, Step, Receive, Delete, Refuse, Check, Scanned, Encrypt, Discard, Persist,
           RemoveOld, Update, Remove, Abandon, Restart, vars, FilesInv, TypeOK, Attached
  <2>2. request[r].kind = "response" /\ request[r].file = f
    BY <2>1 DEF Insert, FilesInv, TypeOK, Attached
  <2> QED BY <2>1, <2>2 DEF Insert, At, FilesInv, Uploaded
<1> QED BY <1>1, FilesInvariant, PTL DEF Spec, AttachedEncrypted
=============================================================================
