------------------------------- MODULE Media -------------------------------
(* Files attached to a model (media/library.py): a row of the media table and *)
(* the files it names on a disk. Uploads and deletions run as tasks that may  *)
(* be cancelled; the disk and the database may fail at every call.            *)
EXTENDS Naturals, FiniteSets
CONSTANTS
    Uploads,    \* tasks that add a media; each names its row by the id it gets
    Deletions,  \* tasks that delete one media or clear the collection
    Conversions,   \* the conversions the model registers
    Original    \* the file itself

Parts == Conversions \cup {Original}
ASSUME MediaAssumption == Original \notin Conversions /\ IsFiniteSet(Conversions)

VARIABLES
    media,      \* the rows: [Uploads -> "none", "row" or "gone"]
    names,      \* [Uploads -> generated_conversions of its row]
    disk,       \* the files: <<upload, part>>
    upload,     \* [Uploads -> where to_media_collection is]
    todo,       \* [Uploads -> parts it has not put]
    written,    \* [Uploads -> parts it put, or has to clean up]
    deletion,   \* [Deletions -> where it is, its rows, the files of the first it has left]
    touched,    \* history: uploads whose files a deletion has begun on
    disrupted     \* history: uploads whose row or files something other than the disk's own
                \* refusal disrupted

mediaVars == <<media, names, disk, upload, todo, written, deletion, touched, disrupted>>

NoDeletion == [at |-> "idle", rows |-> {}, of |-> {}, files |-> {}]

MediaTypeOK ==
    /\ media \in [Uploads -> {"none", "row", "gone"}]
    /\ names \in [Uploads -> SUBSET Conversions] /\ disk \subseteq Uploads \X Parts
    /\ upload \in [Uploads -> {"idle", "storing", "saving", "cleaning", "done", "failed",
                             "cancelled"}]
    /\ todo \in [Uploads -> SUBSET Parts] /\ written \in [Uploads -> SUBSET Parts]
    /\ deletion \in [Deletions -> [at : {"idle", "next", "files", "done"}, rows : SUBSET Uploads,
                                   of : SUBSET Uploads, files : SUBSET Parts]]
    /\ touched \subseteq Uploads /\ disrupted \subseteq Uploads

MediaInit ==
    /\ media = [u \in Uploads |-> "none"] /\ names = [u \in Uploads |-> {}] /\ disk = {}
    /\ upload = [u \in Uploads |-> "idle"]
    /\ todo = [u \in Uploads |-> {}] /\ written = [u \in Uploads |-> {}]
    /\ deletion = [d \in Deletions |-> NoDeletion] /\ touched = {} /\ disrupted = {}

----------------------------------------------------------------------------
\* to_media_collection: the disk is resolved, then the row is made, a reservation. A file
\* that is no image has no conversions.
Reserve(u, image) ==
    /\ upload[u] = "idle"
    /\ media' = [media EXCEPT ![u] = "row"]
    /\ upload' = [upload EXCEPT ![u] = "storing"]
    /\ todo' = [todo EXCEPT ![u] = IF image THEN Parts ELSE {Original}]
    /\ UNCHANGED <<names, disk, written, deletion, disrupted, touched>>

\* The original first, then each conversion; the row is saved with their names.
NextPart(u) == IF Original \in todo[u] THEN {Original} ELSE todo[u]

Put(u, p) ==
    /\ upload[u] = "storing" /\ p \in NextPart(u)
    /\ disk' = disk \cup {<<u, p>>}
    /\ written' = [written EXCEPT ![u] = @ \cup {p}]
    /\ todo' = [todo EXCEPT ![u] = @ \ {p}]
    /\ upload' = [upload EXCEPT ![u] = IF todo[u] # {p} THEN "storing"
                                       ELSE IF p = Original THEN "done" ELSE "saving"]
    /\ UNCHANGED <<media, names, deletion, disrupted, touched>>

\* save is an UPDATE: of a row that is gone it changes nothing.
SaveNames(u) ==
    /\ upload[u] = "saving"
    /\ names' = IF media[u] = "row" THEN [names EXCEPT ![u] = written[u] \ {Original}] ELSE names
    /\ upload' = [upload EXCEPT ![u] = "done"]
    /\ UNCHANGED <<media, disk, todo, written, deletion, disrupted, touched>>

\* The disk, the image library or the database raises; a put may have left its file.
UploadFails(u, leaves) ==
    /\ upload[u] \in {"storing", "saving"}
    /\ leaves \in SUBSET (IF upload[u] = "storing" THEN NextPart(u) ELSE {})
    /\ disk' = disk \cup ({u} \X leaves)
    /\ disrupted' = IF leaves = {} THEN disrupted ELSE disrupted \cup {u}
    /\ upload' = [upload EXCEPT ![u] = "cleaning"]
    /\ UNCHANGED <<media, names, todo, written, deletion, touched>>

\* Mutant: the row goes with the first file that was written.
CleanRowOnly(u, refuses) ==
    /\ upload[u] = "cleaning"
    /\ media' = [media EXCEPT ![u] = "gone"]
    /\ upload' = [upload EXCEPT ![u] = "failed"]
    /\ UNCHANGED <<names, disk, todo, written, deletion, disrupted, touched>>

\* The cleanup: a file, or the row when there is none left; what is refused is passed over.
Clean(u, refuses) ==
    /\ upload[u] = "cleaning"
    /\ IF written[u] # {}
       THEN \E p \in written[u] :
               /\ written' = [written EXCEPT ![u] = @ \ {p}]
               /\ disk' = IF refuses THEN disk ELSE disk \ {<<u, p>>}
               /\ UNCHANGED <<media, upload, touched>>
       ELSE /\ media' = IF refuses THEN media ELSE [media EXCEPT ![u] = "gone"]
            /\ upload' = [upload EXCEPT ![u] = "failed"]
            /\ UNCHANGED <<disk, written, touched>>
    /\ disrupted' = IF refuses THEN disrupted \cup {u} ELSE disrupted
    /\ UNCHANGED <<names, todo, deletion>>

\* A cancellation is no Exception: nothing is cleaned up.
UploadCancelled(u) ==
    /\ upload[u] \in {"storing", "saving", "cleaning"}
    /\ upload' = [upload EXCEPT ![u] = "cancelled"]
    /\ disrupted' = disrupted \cup {u}
    /\ UNCHANGED <<media, names, disk, todo, written, deletion, touched>>

----------------------------------------------------------------------------
MediaRows == {u \in Uploads : media[u] = "row"}

\* delete_media of a row, or clear_media_collection of those it reads. What an upload that
\* runs still writes is not seen.
BeginDeletion(d, rows) ==
    /\ deletion[d].at = "idle"
    /\ rows # {} /\ rows \subseteq MediaRows
    /\ deletion' = [deletion EXCEPT ![d] = [NoDeletion EXCEPT !.at = "next", !.rows = rows]]
    /\ disrupted' = disrupted \cup {u \in rows : upload[u] \in {"storing", "saving", "cleaning"}}
    /\ UNCHANGED <<media, names, disk, upload, todo, written, touched>>

\* stored_paths, as the row was when it was read.
NextRow(d, u) ==
    /\ deletion[d].at = "next" /\ u \in deletion[d].rows
    /\ deletion' = [deletion EXCEPT ![d] = [deletion[d] EXCEPT
                        !.at = "files", !.of = {u}, !.rows = deletion[d].rows \ {u}, !.files = names[u] \cup {Original}]]
    /\ touched' = touched \cup {u}
    /\ UNCHANGED <<media, names, disk, upload, todo, written, disrupted>>

DeleteFile(d, u, p) ==
    /\ deletion[d].at = "files" /\ u \in deletion[d].of /\ p \in deletion[d].files
    /\ disk' = disk \ {<<u, p>>}
    /\ deletion' = [deletion EXCEPT ![d].files = @ \ {p}]
    /\ UNCHANGED <<media, names, upload, todo, written, disrupted, touched>>

DeleteMediaRow(d, u) ==
    /\ deletion[d].at = "files" /\ u \in deletion[d].of /\ deletion[d].files = {}
    /\ media' = [media EXCEPT ![u] = "gone"]
    /\ deletion' = [deletion EXCEPT ![d].at = IF deletion[d].rows = {} THEN "done" ELSE "next"]
    /\ UNCHANGED <<names, disk, upload, todo, written, disrupted, touched>>

\* It raises or is cancelled: the row stays, some of its files do not. It can be asked again.
DeletionFails(d) ==
    /\ deletion[d].at \in {"next", "files"}
    /\ deletion' = [deletion EXCEPT ![d] = NoDeletion]
    /\ UNCHANGED <<media, names, disk, upload, todo, written, disrupted, touched>>

MediaStep ==
    \/ \E u \in Uploads :
          \/ SaveNames(u) \/ UploadCancelled(u)
          \/ \E b \in BOOLEAN : Reserve(u, b) \/ Clean(u, b)
          \/ \E p \in Parts : Put(u, p)
          \/ \E leaves \in SUBSET Parts : UploadFails(u, leaves)
    \/ \E d \in Deletions :
          \/ DeletionFails(d) \/ \E rows \in SUBSET MediaRows : BeginDeletion(d, rows)
          \/ \E u \in Uploads :
                \/ NextRow(d, u) \/ DeleteMediaRow(d, u)
                \/ \E p \in Parts : DeleteFile(d, u, p)

----------------------------------------------------------------------------
(* Properties *)

FilesOf(u) == {p \in Parts : <<u, p>> \in disk}
Stored(u) == names[u] \cup {Original}

\* media/library.py: "a disk error never leaves an orphan row (with no file) or an orphan
\* file (with no row)". Of an upload that is over, and that was not cancelled, deleted as it
\* ran, left a file by the put that failed or refused its cleanup: it failed and its row is
\* gone, or its row names the files there are; a deletion that stopped leaves no file the
\* row does not name, so it can be asked again; and no file outlives the row.
NoOrphans ==
    \A u \in Uploads \ disrupted :
        /\ upload[u] = "failed" => media[u] = "gone"
        /\ upload[u] = "done" /\ media[u] = "row" => FilesOf(u) \subseteq Stored(u)
        /\ upload[u] = "done" /\ u \notin touched => FilesOf(u) = Stored(u)
        /\ media[u] = "gone" => FilesOf(u) = {}
=============================================================================
