---------------------------- MODULE InputWorkspace ----------------------------
(***************************************************************************)
(* The input workspace, where a user enters activities and reviews the       *)
(* spend rows read from images, and the score of what it would submit:       *)
(* frontend/src/features/input.                                            *)
(*                                                                         *)
(* An image is uploaded through one of two file inputs and leaves a chip, its *)
(* artifact.  A click on a chip starts a review; several may be in flight,   *)
(* and the rows of each are attached when it ends.                          *)
(***************************************************************************)
EXTENDS LcaOrchestrator, Subsequences, Sums

CONSTANTS
  Files,
  Text,         \* the lines OCR finds in each file
  SampleText,   \* the lines made up from a file's name when OCR finds nothing
  Amounts,      \* amounts and values the user types
  Baselines,    \* historical baselines a footprint may be scored against
  MaxUploads, MaxReviews, MaxEdits, MaxEntries   \* bounds on the user

VARIABLES
  artifacts,   \* uploadedArtifacts; the id is the index
  selected,    \* the file each file input holds
  reviews,     \* the reviews in flight
  started,     \* how many reviews were started
  rows,        \* reviewRows
  rowCount,    \* idCounters["review-spend"]
  entries,     \* activityEntries
  edits        \* how often a row was edited or deleted

workspaceVars ==
  <<artifacts, selected, reviews, started, rows, rowCount, entries, edits>>

UploadKinds == {"receipt", "card-screenshot"}
NoFile == "none"
NoNumber == -1

\* Topics in the order in which they are looked for in a line
Topics == <<"fuel", "electric", "train", "bus", "taxi", "transport">>
Lines == [words : SUBSET {Topics[i] : i \in DOMAIN Topics},
          number : Nat \cup {NoNumber}]
CategoryOf ==
  [fuel |-> "GasSupply", electric |-> "Electricity",
   train |-> "RailwayTransport", bus |-> "BusTransport",
   taxi |-> "HiredCarAndTaxiTransport", transport |-> "SelfTransport"]
DefaultSpendCategory == "Vegetables"

ASSUME WorkspaceAssumption ==
  /\ DefaultSpendCategory \in SpendCategories
  /\ NoFile \notin Files
  /\ \A f \in Files : Text[f] \in Seq(Lines) /\ SampleText[f] \in Seq(Lines)
  /\ Amounts \subseteq Int /\ Baselines \subseteq Nat
  /\ {MaxUploads, MaxReviews, MaxEdits, MaxEntries} \subseteq Nat

WorkspaceInit ==
  /\ artifacts = << >>
  /\ selected = [k \in UploadKinds |-> NoFile]
  /\ reviews = {}
  /\ started = 0
  /\ rows = << >>
  /\ rowCount = 0
  /\ entries = << >>
  /\ edits = 0

-----------------------------------------------------------------------------
\* Three of these are no spend category.
ClassifyCategory(line) ==
  LET found == {i \in DOMAIN Topics : Topics[i] \in line.words}
  IN  IF found = {} THEN DefaultSpendCategory
      ELSE CategoryOf[Topics[CHOOSE i \in found : \A j \in found : i <= j]]

\* The text of a file; OCR may be unavailable or find nothing.
ExtractedTexts(file) == {Text[file], SampleText[file]} \ {<< >>}

\* normalizeOcrCandidates and candidateToReviewRow: the quantity of an activity
\* becomes an amount of money.
CandidateRow(text, i, review) ==
  [rowId    |-> rowCount + i,
   artifact |-> review.artifact,
   category |-> ClassifyCategory(text[i]),
   amount   |-> IF text[i].number = NoNumber THEN 0 ELSE text[i].number,
   file     |-> review.file,      \* where it is from; not in the code
   line     |-> i]

\* Mutant: the rows of an earlier review stay.
KeepRows(artifact) == rows
\* The rows that a new review of an artifact leaves
OtherRows(artifact) ==
  Subsequence(rows, {i \in DOMAIN rows : rows[i].artifact # artifact})

AttachOcrReviewRows(review, text) ==
  /\ rows' = OtherRows(review.artifact) \o
               [i \in DOMAIN text |-> CandidateRow(text, i, review)]
  /\ rowCount' = rowCount + Len(text)

-----------------------------------------------------------------------------
RegisterUploadedArtifact(kind, file) ==
  artifacts' = Append(artifacts, [kind |-> kind, file |-> file])

\* A browser reports a choice only if it changes the input.
HandleFileUpload(kind, file) ==
  /\ Len(artifacts) < MaxUploads
  /\ selected[kind] # file
  /\ selected' = [selected EXCEPT ![kind] = file]
  /\ RegisterUploadedArtifact(kind, file)
  /\ UNCHANGED <<reviews, started, rows, rowCount, entries, edits>>

\* A chooser that is dismissed empties the input.
DismissChooser(kind) ==
  /\ selected[kind] # NoFile
  /\ selected' = [selected EXCEPT ![kind] = NoFile]
  /\ UNCHANGED <<artifacts, reviews, started, rows, rowCount, entries, edits>>

\* Mutant: any input will do.
FileOfAnyInput(artifact) ==
  CHOOSE f \in {selected[k] : k \in UploadKinds} :
    f # NoFile \/ \A k \in UploadKinds : selected[k] = NoFile
\* What the input of the artifact's kind holds now
FileOfKind(artifact) == selected[artifacts[artifact].kind]

\* Up to the await; a click without a file only shows an error.
ReviewArtifact(artifact) ==
  /\ started < MaxReviews
  /\ FileOfKind(artifact) # NoFile
  /\ started' = started + 1
  /\ reviews' = reviews \cup
       {[id |-> started', artifact |-> artifact, file |-> FileOfKind(artifact)]}
  /\ UNCHANGED <<artifacts, selected, rows, rowCount, entries, edits>>

\* Both awaits have answered.
ReviewEnds(review, text) ==
  /\ AttachOcrReviewRows(review, text)
  /\ reviews' = reviews \ {review}
  /\ UNCHANGED <<artifacts, selected, started, entries, edits>>

ReviewFails(review) ==
  /\ reviews' = reviews \ {review}
  /\ UNCHANGED <<artifacts, selected, started, rows, rowCount, entries, edits>>

\* The user's edits; a title is not in the model.
UpdateReviewRow(i, category, amount) ==
  /\ edits < MaxEdits
  /\ edits' = edits + 1
  /\ rows' = [j \in DOMAIN rows |->
                IF rows[j].rowId = rows[i].rowId
                THEN [rows[j] EXCEPT !.category = category, !.amount = amount]
                ELSE rows[j]]
  /\ UNCHANGED <<artifacts, selected, reviews, started, rowCount, entries>>

RemoveReviewRow(i) ==
  /\ edits < MaxEdits
  /\ edits' = edits + 1
  /\ rows' = Subsequence(rows, {j \in DOMAIN rows :
                                  rows[j].rowId # rows[i].rowId})
  /\ UNCHANGED <<artifacts, selected, reviews, started, rowCount, entries>>

ActivityEntry(category, value) ==
  [category |-> category, value |-> value, isRenewable |-> FALSE]

\* The form has no field for isRenewable, and nothing deletes an entry.
AddActivityEntry(category, value) ==
  /\ Len(entries) < MaxEntries
  /\ entries' = Append(entries, ActivityEntry(category, value))
  /\ UNCHANGED <<artifacts, selected, reviews, started, rows, rowCount, edits>>

\* A reload starts with createInputWorkspaceState; reviews in flight are gone.
ReloadWorkspace ==
  /\ artifacts' = << >>
  /\ selected' = [k \in UploadKinds |-> NoFile]
  /\ reviews' = {}
  /\ started' = 0
  /\ rows' = << >>
  /\ rowCount' = 0
  /\ entries' = << >>
  /\ edits' = 0

WorkspaceNext ==
  \/ ReloadWorkspace
  \/ \E k \in UploadKinds :
       DismissChooser(k) \/ \E f \in Files : HandleFileUpload(k, f)
  \/ \E a \in DOMAIN artifacts : ReviewArtifact(a)
  \/ \E v \in reviews :
       ReviewFails(v) \/ \E t \in ExtractedTexts(v.file) : ReviewEnds(v, t)
  \/ \E i \in DOMAIN rows :
       \/ RemoveReviewRow(i)
       \/ \E c \in SpendCategories : UpdateReviewRow(i, c, rows[i].amount)
       \/ \E n \in Amounts : UpdateReviewRow(i, rows[i].category, n)
  \/ \E c \in ActivityCategories, n \in Amounts : AddActivityEntry(c, n)

WorkspaceSpec == WorkspaceInit /\ [][WorkspaceNext]_workspaceVars

-----------------------------------------------------------------------------
\* buildRawLcaRequestFromWorkspace, the preview and the payload
Payload ==
  [spendEntries    |-> [i \in DOMAIN rows |->
                          [category |-> rows[i].category,
                           amount   |-> rows[i].amount]],
   activityEntries |-> entries]

\* What the rows and the entries of a category come to
Estimate(c) ==
  Total({i \in DOMAIN rows : rows[i].category = c},
        [i \in DOMAIN rows |-> rows[i].amount * SpendFactor[c]])
Measured(c) ==
  Total({i \in DOMAIN entries : entries[i].category = c},
        [i \in DOMAIN entries |-> entries[i].value * ActivityFactor[c]])
EnteredCategories == {entries[i].category : i \in DOMAIN entries}

\* How far the first value entered for a category is below its estimate
FirstValue(c) ==
  entries[CHOOSE i \in DOMAIN entries :
            /\ entries[i].category = c
            /\ \A j \in 1 .. i - 1 : entries[j].category # c].value
Below(c) ==
  IF Estimate(c) > FirstValue(c) * ActivityFactor[c]
  THEN Estimate(c) - FirstValue(c) * ActivityFactor[c] ELSE 0

\* Of what a chip brings in, a line counts once in the payload, however often and
\* with however many reviews in flight the chip was clicked, and all its rows are
\* from one file.  (Two chips of one input may bring in the same file, each once.)
CandidatesCountedOnce ==
  \A i, j \in DOMAIN rows : i # j =>
    /\ rows[i].rowId # rows[j].rowId
    /\ rows[i].artifact = rows[j].artifact =>
         rows[i].line # rows[j].line /\ rows[i].file = rows[j].file

\* The rows of a chip are from the image uploaded with it, or from one uploaded
\* later through the same input: a chip has no file of its own.
OwnFileUnlessReplaced ==
  \A i \in DOMAIN rows :
    LET a == rows[i].artifact
    IN  rows[i].file # artifacts[a].file =>
          \E b \in a + 1 .. Len(artifacts) :
            artifacts[b] = [kind |-> artifacts[a].kind, file |-> rows[i].file]

\* What a payload comes to: the candidates of the categories without an entry, and
\* the values entered.
PromisedTotal ==
  Total(SpendCategories \ EnteredCategories, [c \in SpendCategories |-> Estimate(c)])
    + Total(EnteredCategories, [c \in EnteredCategories |-> Measured(c)])

\* "This value will override any automatically extracted candidates of the same
\* category" (smart-input-workspace.tsx:189): a payload the backend takes is
\* scored as the candidates of the categories that the commitment does not call
\* overridden and the values entered, in whatever order they were entered, and
\* nothing at all as a kilogram.  Only where the candidates of several categories
\* were overridden may nothing be scored as nothing.  The reduction is what the
\* values are below the candidates they override; where a category was entered
\* twice, which orchestrator.ts:578 assumes away, it is what the first of them is
\* below.
ScoreAsPromised ==
  WellFormed(Payload) =>
    \A trace \in Traces(Payload) :
      LET score == Score(Payload, 0, trace)
      IN  /\ score.source.overriddenCategories = EnteredCategories
          /\ \/ score.footprint.totalEmissions
                   = RoundTo(IF PromisedTotal = 0 THEN Kg ELSE PromisedTotal, 1)
             \/ /\ PromisedTotal = 0
                /\ score.footprint.totalEmissions = 0
                /\ \E c, d \in EnteredCategories :
                     c # d /\ Estimate(c) > 0 /\ Estimate(d) > 0
          /\ score.footprint.baseReduction
               = RoundTo(Total(EnteredCategories,
                               [c \in EnteredCategories |-> Below(c)]), 1)
          /\ score.source.dataSourceKind = "hybrid" =>
               rows # << >> /\ EnteredCategories # {}

\* One more entry of a category that is entered already raises no reward, against
\* whatever baseline it is scored.  The exception: what came to nothing, and was
\* scored as a kilogram, comes to less than a kilogram with the entry.
OnlyFirstEntryPays ==
  [][/\ Len(entries') > Len(entries)
     /\ entries'[Len(entries')].category \in EnteredCategories
     /\ WellFormed(Payload')
     /\ ~(PromisedTotal = 0 /\ PromisedTotal' \in 1 .. Kg - 1)
     => \A b \in Baselines, trace \in Traces(Payload) :
          Score(Payload', b, trace).footprint.finalRewards
            <= Score(Payload, b, trace).footprint.finalRewards]_workspaceVars
=============================================================================
