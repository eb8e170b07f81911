--------------------------- MODULE ProductImport ---------------------------
(***************************************************************************)
(* CreateProductView: products are added one by one with the form, or by    *)
(* importing a CSV or XLSX file in batches. The database commands           *)
(* create_product and create_products_batch are external; each is run when  *)
(* it answers, since nothing else of the view reads the catalogue.          *)
(* A product is its SKU (name and SKU are unique together; a row without a  *)
(* model is given one by the command). A row without a name is Unnamed.     *)
(* CsvParser has the parsing of the file's text.                            *)
(***************************************************************************)
EXTENDS Integers, Sequences, FiniteSets

CONSTANTS Skus, Unnamed,
          ImportFiles,   \* the data rows of the files a user may choose
          BatchSize,     \* BATCH_SIZE (50 in the code)
          MaxImports, MaxAdds, MaxVisits   \* bounds

ASSUME ImportAssumption ==
    /\ Unnamed \notin Skus /\ BatchSize \in Nat \ {0}
    /\ ImportFiles \subseteq Seq(Skus \cup {Unnamed})
    /\ MaxImports \in Nat /\ MaxAdds \in Nat /\ MaxVisits \in Nat \ {0}

VARIABLES
    catalogue,      \* the SKUs of the database
    imports,        \* every handleFileImport call
    importRunning,  \* importProgress.running, kept by App across views
    importReport,   \* importResult, skippedRowDetails and importError
    sessionRows,    \* the products listed as created in this session
    addForm,        \* the model typed in the form; Unnamed when it is empty
    addCalls,       \* createProduct calls under way: [sku, visit, no]
    addNotices,     \* the error and success messages on the screen
    visit,          \* how often the view was opened
    adds,
    unsynced,       \* created products no sync was requested for yet
    removedRows, strandedRows, overlapped   \* history, see the properties

importVars == <<catalogue, imports, importRunning, importReport, sessionRows, addForm, addCalls,
                addNotices, visit, adds, unsynced, removedRows, strandedRows, overlapped>>

NoReport == [kind |-> "none", file |-> <<>>, created |-> {}, skipped |-> {}]
BadFile == [NoReport EXCEPT !.kind = "error"]
-----------------------------------------------------------------------------
(* pickRowValue, importBatch and create_products_batch: of the rows lo..hi,  *)
(* those that become products: named, with a SKU that neither the database   *)
(* nor an earlier row of the batch has.                                      *)
pickRowValue(f, k) == f[k]
\* mutant: rows without a name are sent as well
importBatchUnnamed(f, lo, hi) ==
    {k \in lo..hi : /\ pickRowValue(f, k) \notin catalogue
                    /\ \A j \in lo..(k - 1) : pickRowValue(f, j) # pickRowValue(f, k)}
importBatch(f, lo, hi) ==
    {k \in lo..hi : /\ pickRowValue(f, k) \notin catalogue \cup {Unnamed}
                    /\ \A j \in lo..(k - 1) : pickRowValue(f, j) # pickRowValue(f, k)}

(* The drop zone, its button and the file input do nothing while an import   *)
(* is running.                                                               *)
\* mutant: the drop handler does not look at the running import
ImportOfferedAlways == TRUE
ImportOffered == ~importRunning
handleFileImport(f) ==
    /\ ImportOffered /\ Len(imports) < MaxImports
    /\ imports' = Append(imports, [step |-> "reading", file |-> f, start |-> 0,
                                   made |-> {}, skipped |-> {}, visit |-> visit])
    /\ overlapped' = (overlapped \/ \E i \in DOMAIN imports : imports[i].step = "reading")
    /\ importReport' = NoReport /\ addNotices' = {}
    /\ UNCHANGED <<catalogue, importRunning, sessionRows, addForm, addCalls, visit, adds, unsynced,
                   removedRows, strandedRows>>

(* The finally block, whatever ended the import; and the messages it left,   *)
(* unless the view that ran it is gone.                                      *)
EndImport(i, rep) ==
    /\ imports' = [imports EXCEPT ![i].step = "ended"]
    /\ importRunning' = FALSE
    /\ importReport' = IF imports[i].visit = visit THEN rep ELSE importReport
(* An empty file, one of another type or without the expected headers.       *)
FileIsRefused(i) ==
    /\ imports[i].step = "reading" /\ EndImport(i, BadFile)
    /\ UNCHANGED <<catalogue, sessionRows, addForm, addCalls, addNotices, visit, adds, unsynced,
                   removedRows, strandedRows, overlapped>>
FileIsRead(i) ==
    /\ imports[i].step = "reading" /\ imports[i].file # <<>>
    /\ imports' = [imports EXCEPT ![i].step = "sending"]
    /\ importRunning' = TRUE
    /\ UNCHANGED <<catalogue, importReport, sessionRows, addForm, addCalls, addNotices, visit, adds,
                   unsynced, removedRows, strandedRows, overlapped>>

(* A batch answers with one result per row; row 1 of the file is its header. *)
BatchEnd(im) == IF im.start + BatchSize < Len(im.file) THEN im.start + BatchSize ELSE Len(im.file)
\* mutant: the row numbers restart with every batch
SkippedInBatch(im, made) == {k - im.start + 1 : k \in ((im.start + 1)..BatchEnd(im)) \ made}
SkippedRows(im, made) == {k + 1 : k \in ((im.start + 1)..BatchEnd(im)) \ made}
BatchAnswers(i) ==
    LET im == imports[i]
        made == importBatch(im.file, im.start + 1, BatchEnd(im)) IN
    /\ im.step = "sending" /\ im.start < Len(im.file)
    /\ catalogue' = catalogue \cup {im.file[k] : k \in made}
    /\ unsynced' = unsynced \cup {im.file[k] : k \in made}
    /\ imports' = [imports EXCEPT ![i].start = @ + BatchSize, ![i].made = @ \cup made,
                                  ![i].skipped = @ \cup SkippedRows(im, made)]
    /\ importRunning' = TRUE
    /\ UNCHANGED <<importReport, sessionRows, addForm, addCalls, addNotices, visit, adds, removedRows,
                   strandedRows, overlapped>>
(* The command throws: what earlier batches created is neither listed nor    *)
(* announced.                                                                *)
BatchFails(i) ==
    /\ imports[i].step = "sending" /\ imports[i].start < Len(imports[i].file)
    /\ EndImport(i, BadFile)
    /\ strandedRows' = strandedRows \cup {imports[i].file[k] : k \in imports[i].made}
    /\ UNCHANGED <<catalogue, sessionRows, addForm, addCalls, addNotices, visit, adds, unsynced,
                   removedRows, overlapped>>

Made(im) == {im.file[k] : k \in im.made}
Report(im) == [kind |-> "result", file |-> im.file, created |-> Made(im), skipped |-> im.skipped]
\* mutant: an import with skipped rows does not sync what it created
AnnounceWhole(im) == unsynced' = IF im.skipped = {} THEN {} ELSE unsynced
Announce(im) == unsynced' = IF im.made # {} THEN {} ELSE unsynced
\* mutant: the list is replaced by the rows of the import
ListOnly(im) == sessionRows' = IF im.visit = visit THEN Made(im) ELSE sessionRows
ListRows(im) == sessionRows' = IF im.visit = visit THEN sessionRows \cup Made(im) ELSE sessionRows
ImportEnds(i) ==
    /\ imports[i].step = "sending" /\ imports[i].start >= Len(imports[i].file)
    /\ EndImport(i, Report(imports[i]))
    /\ ListRows(imports[i]) /\ Announce(imports[i])
    /\ addNotices' = IF imports[i].visit # visit THEN addNotices
                     ELSE IF imports[i].made # {} /\ imports[i].skipped = {}
                          THEN addNotices \cup {"success"} ELSE addNotices \ {"success"}
    /\ UNCHANGED <<catalogue, addForm, addCalls, visit, adds, removedRows, strandedRows, overlapped>>
-----------------------------------------------------------------------------
(* The form. Nothing keeps a second Add from being sent while one is under   *)
(* way; its answer empties the form, whatever was typed since.               *)
TypeForm(s) ==
    /\ addForm # s /\ addForm' = s
    /\ UNCHANGED <<catalogue, imports, importRunning, importReport, sessionRows, addCalls, addNotices,
                   visit, adds, unsynced, removedRows, strandedRows, overlapped>>
handleSimpleAdd ==
    /\ IF addForm = Unnamed THEN addNotices' = {"error"} /\ UNCHANGED <<addCalls, adds>>
       ELSE /\ adds < MaxAdds /\ adds' = adds + 1 /\ addNotices' = {}
            /\ addCalls' = addCalls \cup {[sku |-> addForm, visit |-> visit, no |-> adds]}
    /\ UNCHANGED <<catalogue, imports, importRunning, importReport, sessionRows, addForm, visit,
                   unsynced, removedRows, strandedRows, overlapped>>
createProduct(c) ==
    /\ c \in addCalls /\ addCalls' = addCalls \ {c}
    /\ \/ /\ c.sku \notin catalogue
          /\ catalogue' = catalogue \cup {c.sku} /\ unsynced' = {}
          /\ IF c.visit = visit
             THEN /\ sessionRows' = sessionRows \cup {c.sku} /\ addForm' = Unnamed
                  /\ addNotices' = addNotices \cup {"success"}
             ELSE UNCHANGED <<sessionRows, addForm, addNotices>>
       \/ /\ addNotices' = IF c.visit = visit THEN addNotices \cup {"error"} ELSE addNotices
          /\ UNCHANGED <<catalogue, unsynced, sessionRows, addForm>>
    /\ UNCHANGED <<imports, importRunning, importReport, visit, adds, removedRows, strandedRows,
                   overlapped>>
removeSessionRow(s) ==
    /\ s \in sessionRows /\ sessionRows' = sessionRows \ {s}
    /\ removedRows' = removedRows \cup {s}
    /\ UNCHANGED <<catalogue, imports, importRunning, importReport, addForm, addCalls, addNotices, visit,
                   adds, unsynced, strandedRows, overlapped>>
(* The user goes to another view and comes back: a new instance of the view, *)
(* with the progress App kept.                                               *)
LeaveAndReturn ==
    /\ visit < MaxVisits /\ visit' = visit + 1
    /\ sessionRows' = {} /\ addForm' = Unnamed /\ addNotices' = {} /\ importReport' = NoReport
    /\ removedRows' = {}
    /\ UNCHANGED <<catalogue, imports, importRunning, addCalls, adds, unsynced, strandedRows,
                   overlapped>>
-----------------------------------------------------------------------------
ImportInit ==
    /\ catalogue = {} /\ imports = <<>> /\ importRunning = FALSE /\ importReport = NoReport
    /\ sessionRows = {} /\ addForm = Unnamed /\ addCalls = {} /\ addNotices = {}
    /\ visit = 1 /\ adds = 0 /\ unsynced = {}
    /\ removedRows = {} /\ strandedRows = {} /\ overlapped = FALSE

ImportNext ==
    \/ \E f \in ImportFiles : handleFileImport(f)
    \/ \E i \in DOMAIN imports :
          FileIsRefused(i) \/ FileIsRead(i) \/ BatchAnswers(i) \/ BatchFails(i) \/ ImportEnds(i)
    \/ \E s \in Skus \cup {Unnamed} : TypeForm(s)
    \/ handleSimpleAdd
    \/ \E c \in addCalls : createProduct(c)
    \/ \E s \in sessionRows : removeSessionRow(s)
    \/ LeaveAndReturn
-----------------------------------------------------------------------------
\* What the variables hold.
ImportTypeOK ==
    /\ catalogue \subseteq Skus /\ sessionRows \subseteq Skus /\ unsynced \subseteq Skus
    /\ removedRows \subseteq Skus /\ strandedRows \subseteq Skus
    /\ \A i \in DOMAIN imports :
          /\ imports[i].step \in {"reading", "sending", "ended"} /\ imports[i].file \in ImportFiles
          /\ imports[i].made \subseteq DOMAIN imports[i].file /\ imports[i].visit \in 1..visit
    /\ addForm \in Skus \cup {Unnamed} /\ addNotices \subseteq {"error", "success"}
    /\ \A c \in addCalls : c.sku \in Skus /\ c.visit \in 1..visit
    /\ importRunning \in BOOLEAN /\ overlapped \in BOOLEAN
    /\ visit \in 1..MaxVisits /\ adds \in 0..MaxAdds /\ Len(imports) <= MaxImports
    /\ importReport.kind \in {"none", "error", "result"}

\* The report of an import (handleFileImport) names exactly the rows of the
\* file that made no product, by their line in the file, across batches.
ReportIsExact ==
    \A i \in DOMAIN imports :
        imports[i].step = "ended" /\ importReport = Report(imports[i]) =>
            importReport.skipped = {k + 1 : k \in DOMAIN imports[i].file \ imports[i].made}

\* An import under way is shown as running, and so keeps a second one out,
\* unless the second was started while the first still read its file (the
\* flag is only raised at handleFileImport's line 472).
RunningIsShown ==
    ~overlapped => \A i \in DOMAIN imports : imports[i].step = "sending" => importRunning

\* Once no import is under way, a sync was requested after every creation
\* (_triggerAutoSync, handleFileImport), except for what an import created
\* before one of its batches failed.
CreatedIsAnnounced ==
    (\A i \in DOMAIN imports : imports[i].step # "sending") => unsynced \subseteq strandedRows

\* What an import that ran through created is listed in the view that started
\* it, unless the user took it off the list: the rows of imports and of the
\* form add up.
CreatedIsListed ==
    \A i \in DOMAIN imports :
        imports[i].step = "ended" /\ imports[i].visit = visit =>
            Made(imports[i]) \subseteq sessionRows \cup removedRows \cup strandedRows
=============================================================================
