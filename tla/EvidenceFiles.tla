--------------------------- MODULE EvidenceFiles ---------------------------
(***************************************************************************)
(* Uploaded files and the rows that name them: the attachments of a        *)
(* response (routes/attachments.ts), those of a validation                 *)
(* (routes/validations.ts), the checklist of a cycle (routes/cycles.ts),   *)
(* over lib/fileStore.ts, fileEncryption.ts and clamScan.ts.               *)
(*                                                                         *)
(* multer writes an upload to UPLOAD_DIR before the handler runs; the      *)
(* handler then checks, scans, encrypts, moves the file to the store and   *)
(* writes the row, each an await at which other requests run, the request  *)
(* may fail or the process stop.  A process is restarted with the blob     *)
(* store or a key switched on, never off.                                  *)
(*                                                                         *)
(* multer names a file by the time and its own name; two uploads of one    *)
(* name in the same millisecond are left out, so an upload is a new file.  *)
(* Whether a refusal applies (role, ownership, duplicate name, a cycle     *)
(* that is no draft) is left open.                                         *)
(***************************************************************************)
CONSTANTS
    Files,     \* names a stored file can have
    Requests,  \* slots of uploads and deletions in flight at the same time
    NoFile

ASSUME NoFileAssumption == NoFile \notin Files

VARIABLES
    disk,       \* what UPLOAD_DIR has under each name
    container,  \* what the blob container has
    rows,       \* files named by response_attachments and validation_attachments
    checklist,  \* questionnaire_cycles.checklist_file
    blob,       \* STORAGE_BACKEND is blob
    key,        \* an encryption key is configured
    request,    \* what each request in flight does next
    cut         \* was a replacement of the checklist cut short after the old
                \* file was removed?

vars == <<disk, container, rows, checklist, blob, key, request, cut>>

Content == {"absent", "plain", "encrypted"}
Attached == {"response", "validation"}
Kinds == Attached \cup {"checklist"}
Point == {"idle", "check", "scan", "encrypt", "persist", "insert",
          "remove_old", "update", "remove"}

Idle == [kind |-> "checklist", at |-> "idle", file |-> NoFile, old |-> NoFile]

TypeOK ==
    /\ disk \in [Files -> Content]
    /\ container \in [Files -> Content]
    /\ rows \in [Attached -> SUBSET Files]
    /\ checklist \in Files \cup {NoFile}
    /\ blob \in BOOLEAN
    /\ key \in BOOLEAN
    /\ request \in [Requests -> [kind : Kinds, at : Point,
                                 file : Files \cup {NoFile}, old : Files \cup {NoFile}]]
    /\ cut \in BOOLEAN

Init ==
    /\ disk = [f \in Files |-> "absent"]
    /\ container = [f \in Files |-> "absent"]
    /\ rows = [k \in Attached |-> {}]
    /\ checklist = NoFile
    /\ blob \in BOOLEAN
    /\ key \in BOOLEAN
    /\ request = [r \in Requests |-> Idle]
    /\ cut = FALSE

-----------------------------------------------------------------------------
(* Helpers *)

At(r, point) == request[r].at = point
Goto(r, point) == request' = [request EXCEPT ![r].at = point]
Work(r, kind, point, file, old) ==
    request' = [request EXCEPT ![r] = [kind |-> kind, at |-> point,
                                       file |-> file, old |-> old]]
Finish(r) == request' = [request EXCEPT ![r] = Idle]

Named(f) == f = checklist \/ \E k \in Attached : f \in rows[k]
Held(f) == \E r \in Requests : request[r].file = f \/ request[r].old = f
New(f) == disk[f] = "absent" /\ container[f] = "absent" /\ ~Named(f) /\ ~Held(f)

\* fs.unlink without a look at its result.
Unlink(f) == disk' \in {disk, [disk EXCEPT ![f] = "absent"]}

\* removeFile: a failure is logged and forgotten.
RemoveFile(f) ==
    /\ Unlink(f)
    /\ \/ container' = container
       \/ blob /\ container' = [container EXCEPT ![f] = "absent"]

\* Mutant: no fallback to the disk.
ServedM(f) == IF blob THEN container[f] ELSE disk[f]

\* What sendDownload answers with, "absent" when it fails.
Served(f) == IF blob /\ container[f] # "absent" THEN container[f] ELSE disk[f]

\* decryptFileTo: it throws without a key, and passes a file on that was never
\* encrypted.
Decrypted(content) == IF key /\ content # "absent" THEN "plain" ELSE "absent"

\* The download of a response's file is read from UPLOAD_DIR, wherever it is.
Downloaded(f) == Decrypted(disk[f])

-----------------------------------------------------------------------------
(* Uploads *)

Receive(r, kind, f) ==
    /\ At(r, "idle")
    /\ New(f)
    /\ disk' = [disk EXCEPT ![f] = "plain"]
    /\ Work(r, kind, "check", f, NoFile)
    /\ UNCHANGED <<container, rows, checklist, blob, key, cut>>

\* Not the owner, or a file of that name is attached already.
Refuse(r) ==
    /\ At(r, "check")
    /\ request[r].kind \in Attached
    /\ Unlink(request[r].file)
    /\ Finish(r)
    /\ UNCHANGED <<container, rows, checklist, blob, key, cut>>

Check(r) ==
    /\ At(r, "check")
    /\ \/ request[r].kind = "response" /\ Goto(r, "scan")
       \/ request[r].kind = "validation" /\ Goto(r, "persist")
       \/ /\ request[r].kind = "checklist"
          /\ Work(r, "checklist", "remove_old", request[r].file, checklist)
    /\ UNCHANGED <<disk, container, rows, checklist, blob, key, cut>>

\* The file is clean, or the scanner is not available.
Scanned(r) ==
    /\ At(r, "scan")
    /\ Goto(r, "encrypt")
    /\ UNCHANGED <<disk, container, rows, checklist, blob, key, cut>>

\* Mutant: the encrypted copy is not renamed over the file.
EncryptM(r) ==
    /\ At(r, "encrypt")
    /\ Goto(r, "persist")
    /\ UNCHANGED <<disk, container, rows, checklist, blob, key, cut>>

\* In place and by a rename, so nobody sees half a file.
Encrypt(r) ==
    /\ At(r, "encrypt")
    /\ disk' = IF key THEN [disk EXCEPT ![request[r].file] = "encrypted"] ELSE disk
    /\ Goto(r, "persist")
    /\ UNCHANGED <<container, rows, checklist, blob, key, cut>>

\* Malware was found, or the encryption failed.
Discard(r) ==
    /\ At(r, "scan") \/ (At(r, "encrypt") /\ key)
    /\ Unlink(request[r].file)
    /\ Finish(r)
    /\ UNCHANGED <<container, rows, checklist, blob, key, cut>>

AfterPersist(r) == IF request[r].kind = "checklist" THEN Finish(r) ELSE Goto(r, "insert")

\* Mutant: the upload to the container is not awaited, and fails.
PersistM(r) ==
    /\ At(r, "persist")
    /\ IF blob THEN Unlink(request[r].file) ELSE disk' = disk
    /\ AfterPersist(r)
    /\ UNCHANGED <<container, rows, checklist, blob, key, cut>>

Persist(r) ==
    /\ At(r, "persist")
    /\ IF blob
       THEN /\ disk[request[r].file] # "absent"
            /\ container' = [container EXCEPT ![request[r].file] = disk[request[r].file]]
            /\ Unlink(request[r].file)
       ELSE UNCHANGED <<disk, container>>
    /\ AfterPersist(r)
    /\ UNCHANGED <<rows, checklist, blob, key, cut>>

Insert(r) ==
    /\ At(r, "insert")
    /\ rows' = [rows EXCEPT ![request[r].kind] = @ \cup {request[r].file}]
    /\ Finish(r)
    /\ UNCHANGED <<disk, container, checklist, blob, key, cut>>

\* The checklist is replaced in another order: the old file is removed, then
\* the row is changed, then the new file is moved to the store.
RemoveOld(r) ==
    /\ At(r, "remove_old")
    /\ IF request[r].old = NoFile
       THEN UNCHANGED <<disk, container>>
       ELSE RemoveFile(request[r].old)
    /\ Goto(r, "update")
    /\ UNCHANGED <<rows, checklist, blob, key, cut>>

Update(r) ==
    /\ At(r, "update")
    /\ checklist' = request[r].file
    /\ cut' = FALSE
    /\ Work(r, "checklist", "persist", request[r].file, NoFile)
    /\ UNCHANGED <<disk, container, rows, blob, key>>

-----------------------------------------------------------------------------
(* Deletions, failures and restarts *)

Delete(r, kind, f) ==
    /\ At(r, "idle")
    /\ f \in rows[kind]
    /\ rows' = [rows EXCEPT ![kind] = @ \ {f}]
    /\ Work(r, kind, "remove", f, NoFile)
    /\ UNCHANGED <<disk, container, checklist, blob, key, cut>>

Remove(r) ==
    /\ At(r, "remove")
    /\ RemoveFile(request[r].file)
    /\ Finish(r)
    /\ UNCHANGED <<rows, checklist, blob, key, cut>>

\* The old checklist is removed and the row still names it.
Replacing(r) == At(r, "update") /\ request[r].old = checklist

\* The handler ends without looking after its file: a refusal that does not
\* unlink (role, no draft), or an error it passes to next().
Abandon(r) ==
    /\ ~At(r, "idle")
    /\ Finish(r)
    /\ cut' = (cut \/ Replacing(r))
    /\ UNCHANGED <<disk, container, rows, checklist, blob, key>>

\* The process stops and is started again.
Restart ==
    /\ request' = [r \in Requests |-> Idle]
    /\ cut' = (cut \/ \E r \in Requests : Replacing(r))
    /\ blob' \in {blob, TRUE}
    /\ key' \in {key, TRUE}
    /\ UNCHANGED <<disk, container, rows, checklist>>

Step(r) ==
    \/ \E f \in Files : \/ \E kind \in Kinds : Receive(r, kind, f)
                        \/ \E kind \in Attached : Delete(r, kind, f)
    \/ Refuse(r) \/ Check(r) \/ Scanned(r) \/ Encrypt(r) \/ Discard(r)
    \/ Persist(r) \/ Insert(r) \/ RemoveOld(r) \/ Update(r)
    \/ Remove(r) \/ Abandon(r)

Next == Restart \/ \E r \in Requests : Step(r)

Spec == Init /\ [][Next]_vars

-----------------------------------------------------------------------------
(* Properties *)

\* Whatever uploads, deletions, failures and restarts there are, the file of
\* every attachment row is kept in a store, also across the switch to blob storage
\* ("files uploaded before the switch ... keep downloading", fileStore.ts):
\* sendDownload finds it, and serves that of a validation as it was uploaded.
\* With a key a response is downloaded by decryptFileTo, from the disk
\* (attachments.ts:258): as it was uploaded ("legacy plaintext"), provided that
\* it has not been moved to the container; of one that has, only that it is kept
\* is claimed.
AttachmentsAreStored ==
    /\ \A f \in rows["response"] :
         /\ Served(f) # "absent"
         /\ key /\ container[f] = "absent" => Downloaded(f) = "plain"
    /\ \A f \in rows["validation"] : Served(f) = "plain"

\* The checklist of a cycle can be downloaded at any time, except while it is
\* being replaced (cycles.ts:708 removes the old file before the row names the
\* new one) and after a replacement that was cut short there.
ChecklistIsServed ==
    \/ checklist = NoFile
    \/ Served(checklist) = "plain"
    \/ cut
    \/ \E r \in Requests : Replacing(r)

\* A response file that is attached while a key is configured is in no store as
\* plain text (attachments.ts:159).
AttachedEncrypted ==
    [][\A f \in Files :
          key /\ f \in rows'["response"] \ rows["response"] =>
              disk[f] # "plain" /\ container[f] # "plain"]_vars

-----------------------------------------------------------------------------
(* Inductive invariant of the proofs *)

\* A request has a file of its own, which no row and no other request names,
\* unless it is the checklist it is moving to the store; a removal has a file
\* no row names.
OwnFiles ==
    \A r \in Requests :
        /\ ~At(r, "idle") => request[r].file # NoFile
        /\ At(r, "insert") => request[r].kind \in Attached
        /\ At(r, "scan") \/ At(r, "encrypt") => request[r].kind = "response"
        /\ At(r, "remove_old") \/ At(r, "update") => request[r].kind = "checklist"
        /\ request[r].old # NoFile => At(r, "remove_old") \/ At(r, "update")
        /\ \A k \in Attached : request[r].file \notin rows[k] /\ request[r].old \notin rows[k]
        /\ ~At(r, "idle") /\ request[r].file = checklist =>
               At(r, "persist") /\ request[r].kind = "checklist"
        /\ \A q \in Requests :
             /\ q # r /\ ~At(r, "idle") => request[q].file # request[r].file
             /\ ~At(r, "idle") /\ request[q].old = request[r].file =>
                    At(r, "persist") /\ request[r].kind = "checklist"

\* What an upload may rely on: its file is on the disk until it is moved, and is
\* stored when the row is written; only response files are encrypted, and they
\* are before they are moved, if there is a key.  The checklist that is being
\* moved is named by its row already: another replacement may have removed it.
Uploaded(r) ==
    LET f == request[r].file
        response == request[r].kind = "response"
    IN  /\ request[r].at \in {"check", "scan", "encrypt", "remove_old", "update"} =>
               disk[f] # "absent"
        /\ At(r, "persist") /\ request[r].kind \in Attached => disk[f] # "absent"
        /\ At(r, "insert") => Served(f) # "absent"
        /\ request[r].at \notin {"idle", "remove"} /\ ~response =>
               disk[f] # "encrypted" /\ container[f] # "encrypted"
        /\ request[r].at \notin {"idle", "remove"} /\ response /\ key => container[f] # "plain"
        /\ request[r].at \in {"persist", "insert"} /\ response /\ key => disk[f] # "plain"

\* A file is named by one row only.
OneRow ==
    /\ \A k \in Attached : checklist \notin rows[k]
    /\ rows["response"] \cap rows["validation"] = {}

\* The container is empty before the switch to blob storage.
NoBlobYet == ~blob => \A f \in Files : container[f] = "absent"

FilesInv ==
    /\ TypeOK
    /\ OwnFiles
    /\ OneRow
    /\ NoBlobYet
    /\ \A r \in Requests : Uploaded(r)
    /\ AttachmentsAreStored
    /\ ChecklistIsServed
=============================================================================
