----------------------------- MODULE CsvParser -----------------------------
(***************************************************************************)
(* parseCsv of CreateProductView, one character per step: the state of the  *)
(* loop is the state of the module. The text is that of a table written in  *)
(* the usual way: every field in quotes or, where it needs none, plain;     *)
(* quotes doubled; lines ended by LF or CR LF.                              *)
(***************************************************************************)
EXTENDS Integers, Sequences
CsvSeqs == INSTANCE SequencesExt

CONSTANTS CsvChars,              \* the characters of a field
          MaxField, MaxLines     \* bounds: characters of a field, lines of a table

ASSUME CsvAssumption == MaxField \in Nat /\ MaxLines \in Nat

VARIABLES csvTable,   \* what the text says: a sequence of lines of fields
          csvText,
          csvPos,     \* i
          csvRow,     \* current
          csvField,   \* field
          csvRows,    \* rows
          inQuotes, csvEnded

csvVars == <<csvTable, csvText, csvPos, csvRow, csvField, csvRows, inQuotes, csvEnded>>

Quote == "quote"
Comma == "comma"
LF == "lf"
CR == "cr"
White == {"space", LF, CR}
trim(f) ==
    LET ink == {i \in DOMAIN f : f[i] \notin White} IN
    SubSeq(f, CHOOSE i \in ink \cup {1} : \A j \in ink : i <= j /\ (ink # {} => i \in ink),
              CHOOSE i \in ink \cup {0} : \A j \in ink : j <= i)
-----------------------------------------------------------------------------
(* How a table is written.                                                   *)
Doubled(f) == CsvSeqs!FlattenSeq([i \in DOMAIN f |-> IF f[i] = Quote THEN <<Quote, Quote>> ELSE <<f[i]>>])
Written(f, quoted) == IF quoted THEN <<Quote>> \o Doubled(f) \o <<Quote>> ELSE f
Plain(f) == \A i \in DOMAIN f : f[i] \notin {Quote, Comma, LF, CR}
Line(l, quoted) == CsvSeqs!FlattenSeq([i \in DOMAIN l |->
    (IF i = 1 THEN <<>> ELSE <<Comma>>) \o Written(l[i], quoted \/ ~Plain(l[i]))])
TextOf(t, quoted, eol, final) == CsvSeqs!FlattenSeq([i \in DOMAIN t |->
    Line(t[i], quoted) \o (IF i < Len(t) \/ final THEN eol ELSE <<>>)])

CsvFields == UNION {[1..n -> CsvChars] : n \in 0..MaxField}
CsvTables == {<<l>> : l \in [1..2 -> CsvFields]} \cup [1..MaxLines -> [1..1 -> CsvFields]]
-----------------------------------------------------------------------------
Ch == csvText[csvPos]
NextIs(c) == csvPos < Len(csvText) /\ csvText[csvPos + 1] = c
(* A line ends: it is kept unless it is blank.                               *)
EndLine ==
    LET row == Append(csvRow, trim(csvField)) IN
    /\ csvRows' = IF \E i \in DOMAIN row : row[i] # <<>> THEN Append(csvRows, row) ELSE csvRows
    /\ csvRow' = <<>> /\ csvField' = <<>>
Add(c, n) == csvField' = Append(csvField, c) /\ csvPos' = csvPos + n /\ UNCHANGED <<csvRow, csvRows, inQuotes>>
\* mutant: a doubled quote ends the quoted text and starts it again
DoubledQuoteLost == FALSE
DoubledQuote == Ch = Quote /\ NextIs(Quote)
ReadQuoted ==
    /\ inQuotes
    /\ \/ DoubledQuote /\ Add(Quote, 2)
       \/ /\ Ch = Quote /\ ~DoubledQuote
          /\ inQuotes' = FALSE /\ csvPos' = csvPos + 1 /\ UNCHANGED <<csvRow, csvField, csvRows>>
       \/ Ch # Quote /\ Add(Ch, 1)
ReadPlain ==
    /\ ~inQuotes
    /\ \/ Ch = Quote /\ inQuotes' = TRUE /\ csvPos' = csvPos + 1 /\ UNCHANGED <<csvRow, csvField, csvRows>>
       \/ /\ Ch = Comma /\ csvRow' = Append(csvRow, trim(csvField)) /\ csvField' = <<>>
          /\ csvPos' = csvPos + 1 /\ UNCHANGED <<csvRows, inQuotes>>
       \/ /\ Ch \in {LF, CR} /\ EndLine
          /\ csvPos' = csvPos + (IF Ch = CR /\ NextIs(LF) THEN 2 ELSE 1) /\ UNCHANGED inQuotes
       \/ Ch \notin {Quote, Comma, LF, CR} /\ Add(Ch, 1)
parseCsv ==
    /\ csvPos <= Len(csvText) /\ (ReadQuoted \/ ReadPlain)
    /\ UNCHANGED <<csvTable, csvText, csvEnded>>
(* The last line, when the text does not end with a line end.                *)
CsvEnds ==
    /\ csvPos > Len(csvText) /\ ~csvEnded /\ csvEnded' = TRUE
    /\ EndLine /\ UNCHANGED <<csvTable, csvText, csvPos, inQuotes>>
-----------------------------------------------------------------------------
(* The table has been written, and nothing of it read.                       *)
CsvOpened ==
    /\ \E quoted, final \in BOOLEAN, eol \in {<<LF>>, <<CR, LF>>} : csvText = TextOf(csvTable, quoted, eol, final)
    /\ csvPos = 1 /\ csvRow = <<>> /\ csvField = <<>> /\ csvRows = <<>>
    /\ inQuotes = FALSE /\ csvEnded = FALSE
CsvInit == csvTable \in CsvTables /\ CsvOpened

CsvNext == parseCsv \/ CsvEnds
-----------------------------------------------------------------------------
\* What the variables hold.
CsvTypeOK ==
    /\ csvPos \in 1..(Len(csvText) + 1) /\ inQuotes \in BOOLEAN /\ csvEnded \in BOOLEAN
    /\ Len(csvRows) <= Len(csvTable) + 1

(* A line as it is read, and the lines that are not blank.                   *)
Trimmed(l) == [j \in DOMAIN l |-> trim(l[j])]
KeptLines == {i \in DOMAIN csvTable : \E j \in DOMAIN csvTable[i] : trim(csvTable[i][j]) # <<>>}

\* The table that was written is read back: every line that is not blank, in
\* order, with every field, quotes, commas and line ends inside fields
\* included; only the white space around a field is lost (parseCsv).
CsvRoundTrip ==
    csvEnded => \E p \in [1..Len(csvRows) -> KeptLines] :
        /\ \A a, b \in 1..Len(csvRows) : a < b => p[a] < p[b]
        /\ \A i \in KeptLines : \E a \in 1..Len(csvRows) : p[a] = i
        /\ \A a \in 1..Len(csvRows) : csvRows[a] = Trimmed(csvTable[p[a]])
=============================================================================
