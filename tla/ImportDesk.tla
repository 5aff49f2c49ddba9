----------------------------- MODULE ImportDesk ------------------------------
(***************************************************************************)
(* The two import modals, of the asset page and of the software page, and  *)
(* the routes behind them.  A file is read and checked by the page, shown, *)
(* sent, checked again by the server and stored row by row in one          *)
(* transaction.  The list behind the modal is in AssetDesk and             *)
(* ContractDesk.                                                           *)
(***************************************************************************)
EXTENDS Desk

CONSTANTS
  Files,       \* files a user may pick
  Sort(_),     \* file -> "good", "empty", "blank", "bad", "alien", "long" or "odd"
  FileRows,    \* rows of a file
  ImportSlots  \* bound: requests in work at the same time

Dialogs == {"assets", "software"}

ASSUME ImportAssumption ==
  /\ FileRows \in Nat \ {0} /\ Nil \notin Files \cup {"stored", "refused"}
  /\ \A f \in Files : Sort(f) \in {"good", "empty", "blank", "bad", "alien", "long", "odd"}

VARIABLES
  dialog,   \* a page's modal: open, rows shown, errors, result, importing
  reading,  \* files a page is reading
  upload,   \* the request in work in a slot
  stored,   \* history: times the rows of a file were committed
  picked,   \* history: times a file's rows came up in the modal
  unheard   \* history: times the answer about a file did not reach the page

importVars == <<dialog, reading, upload, stored, picked, unheard>>

Fresh == [open |-> FALSE, rows |-> Nil, errors |-> FALSE, result |-> Nil, importing |-> FALSE]
NoUpload == [at |-> "idle", kind |-> Nil, file |-> Nil, row |-> 0, waited |-> FALSE]
Never == [k \in Dialogs |-> [f \in Files |-> 0]]

ImportInit ==
  /\ dialog = [k \in Dialogs |-> Fresh]
  /\ reading = [k \in Dialogs |-> {}]
  /\ upload = [s \in ImportSlots |-> NoUpload]
  /\ stored = Never /\ picked = Never /\ unheard = Never

Dialog(k, new) == dialog' = [dialog EXCEPT ![k] = new]
Count(h, k, f) == [h EXCEPT ![k][f] = @ + 1]

-----------------------------------------------------------------------------
(* The modal.                                                              *)

OpenImport(k) ==
  /\ Act
  /\ ~dialog[k].open
  /\ Dialog(k, [dialog[k] EXCEPT !.open = TRUE])
  /\ UNCHANGED <<reading, upload, stored, picked, unheard>>

\* closeImportModal forgets the rows and the result and not that it is importing.
CloseImport(k) ==
  /\ Act
  /\ dialog[k].open
  /\ Dialog(k, [Fresh EXCEPT !.importing = dialog[k].importing])
  /\ UNCHANGED <<reading, upload, stored, picked, unheard>>

ChooseFile(k, f) ==
  /\ Act
  /\ dialog[k].open /\ dialog[k].rows = Nil /\ dialog[k].result = Nil
  /\ reading' = [reading EXCEPT ![k] = @ \cup {f}]
  /\ UNCHANGED <<dialog, upload, stored, picked, unheard>>

\* What a page makes of a file.  The asset page reports a file without data, skips
\* rows without name and address, and leaves the result of an earlier import;
\* neither page looks at the types, the values or the number of rows.
AssetFile(f) ==
  LET d == dialog["assets"] IN
  CASE Sort(f) = "empty" -> [d EXCEPT !.errors = TRUE]
    [] Sort(f) = "blank" -> [d EXCEPT !.rows = Nil, !.errors = FALSE]
    [] OTHER -> [d EXCEPT !.rows = f, !.errors = Sort(f) = "bad"]

\* The software page ignores a file without data and forgets the result.
SoftwareFile(f) ==
  LET d == dialog["software"] IN
  IF Sort(f) = "empty" THEN d
  ELSE [d EXCEPT !.rows = f, !.errors = Sort(f) \in {"bad", "blank"}, !.result = Nil]

\* The file has been read, by now perhaps into a modal that is closed.
FileRead(k, f) ==
  LET new == IF k = "assets" THEN AssetFile(f) ELSE SoftwareFile(f) IN
  /\ f \in reading[k]
  /\ reading' = [reading EXCEPT ![k] = @ \ {f}]
  /\ Dialog(k, new)
  /\ picked' = IF new.rows = f THEN Count(picked, k, f) ELSE picked
  /\ UNCHANGED <<upload, stored, unheard, deskVars>>

\* The preview, and the button that goes back to the choice of a file.
Previewed(k) == dialog[k].open /\ dialog[k].rows # Nil /\ dialog[k].result = Nil

ChooseAgain(k) ==
  /\ Act
  /\ Previewed(k)
  /\ Dialog(k, [dialog[k] EXCEPT !.rows = Nil, !.errors = FALSE])
  /\ UNCHANGED <<reading, upload, stored, picked, unheard>>

\* Faulty variant, for testing the properties: the button stays enabled.
MayImportAgain(k) == Previewed(k) /\ ~dialog[k].errors

MayImport(k) == Previewed(k) /\ ~dialog[k].errors /\ ~dialog[k].importing

ExecuteImport(k, s) ==
  /\ Act
  /\ MayImport(k)
  /\ upload[s] = NoUpload
  /\ upload' = [upload EXCEPT ![s] = [at |-> "asked", kind |-> k, file |-> dialog[k].rows,
                                      row |-> 0, waited |-> TRUE]]
  /\ Dialog(k, [dialog[k] EXCEPT !.importing = TRUE])
  /\ UNCHANGED <<reading, stored, picked, unheard>>

\* The answer, over whatever the modal shows by now; an answer without a list of
\* errors breaks the rendering, and the page starts afresh.
ImportAnswer(s) ==
  LET u == upload[s] IN
  /\ u.at \in {"stored", "refused", "broken"}
  /\ upload' = [upload EXCEPT ![s] = NoUpload]
  /\ IF ~u.waited THEN UNCHANGED dialog
     ELSE Dialog(u.kind, IF u.at = "broken" THEN Fresh
                         ELSE [dialog[u.kind] EXCEPT !.importing = FALSE, !.result = u.at])
  /\ UNCHANGED <<reading, stored, picked, unheard, deskVars>>

\* The connection breaks: the page can import again, the server does not notice.
LoseAnswer(s) ==
  LET u == upload[s] IN
  /\ Act
  /\ u.waited
  /\ upload' = [upload EXCEPT ![s].waited = FALSE]
  /\ Dialog(u.kind, [dialog[u.kind] EXCEPT !.importing = FALSE])
  /\ unheard' = Count(unheard, u.kind, u.file)
  /\ UNCHANGED <<reading, stored, picked>>

-----------------------------------------------------------------------------
(* The routes.                                                             *)

\* The types of assets are checked here only; too many rows are answered without
\* a list of errors.
AssetsPass(f)   == IF Sort(f) = "long" THEN "broken"
                   ELSE IF Sort(f) \in {"bad", "alien"} THEN "refused" ELSE "insert"
SoftwarePass(f) == IF Sort(f) = "long" THEN "broken"
                   ELSE IF Sort(f) \in {"bad", "blank"} THEN "refused" ELSE "insert"

CheckImport(s) ==
  LET u == upload[s] IN
  /\ u.at = "asked"
  /\ upload' = [upload EXCEPT ![s].at =
                  IF u.kind = "assets" THEN AssetsPass(u.file) ELSE SoftwarePass(u.file)]
  /\ UNCHANGED <<dialog, reading, stored, picked, unheard, deskVars>>

\* One INSERT of the transaction; the database refuses the last row of an odd file.
InsertImportRow(s) ==
  LET u == upload[s] IN
  /\ u.at = "insert" /\ u.row < FileRows
  /\ upload' = [upload EXCEPT ![s] =
       IF Sort(u.file) = "odd" /\ u.row + 1 = FileRows
         THEN [u EXCEPT !.at = "refused"] ELSE [u EXCEPT !.row = @ + 1]]
  /\ UNCHANGED <<dialog, reading, stored, picked, unheard, deskVars>>

CommitImport(s) ==
  LET u == upload[s] IN
  /\ u.at = "insert" /\ u.row = FileRows
  /\ upload' = [upload EXCEPT ![s].at = "stored"]
  /\ stored' = Count(stored, u.kind, u.file)
  /\ UNCHANGED <<dialog, reading, picked, unheard, deskVars>>

\* The transaction fails; nothing of it stays.
ImportFails(s) ==
  /\ Act
  /\ upload[s].at = "insert"
  /\ upload' = [upload EXCEPT ![s].at = "refused"]
  /\ UNCHANGED <<dialog, reading, stored, picked, unheard>>

-----------------------------------------------------------------------------
ImportNext ==
  \/ \E k \in Dialogs :
       \/ OpenImport(k) \/ CloseImport(k) \/ ChooseAgain(k)
       \/ \E f \in Files : ChooseFile(k, f) \/ FileRead(k, f)
       \/ \E s \in ImportSlots : ExecuteImport(k, s)
  \/ \E s \in ImportSlots :
       \/ ImportAnswer(s) \/ LoseAnswer(s) \/ CheckImport(s)
       \/ InsertImportRow(s) \/ CommitImport(s) \/ ImportFails(s)

ImportSpec == DeskInit /\ ImportInit /\ [][ImportNext]_<<importVars, deskVars>>

ImportTypeOK ==
  /\ dialog \in [Dialogs -> [open : BOOLEAN, rows : Files \cup {Nil}, errors : BOOLEAN,
                             result : {Nil, "stored", "refused"}, importing : BOOLEAN]]
  /\ reading \in [Dialogs -> SUBSET Files]
  /\ upload \in [ImportSlots ->
       [at : {"idle", "asked", "insert", "stored", "refused", "broken"},
        kind : Dialogs \cup {Nil}, file : Files \cup {Nil},
        row : 0..FileRows, waited : BOOLEAN]]
  /\ {stored, picked, unheard} \subseteq [Dialogs -> [Files -> Nat]]

\* A file that came up in the modal is stored at most once for it, plus once for
\* each answer that got lost (page.tsx:300 keeps no mark of what it has sent, only
\* the flag that disables the button; the routes do not recognise a repetition).
ImportedOnce ==
  \A k \in Dialogs, f \in Files : stored[k][f] <= picked[k][f] + unheard[k][f]
=============================================================================
