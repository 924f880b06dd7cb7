------------------------------- MODULE Search -------------------------------
(***************************************************************************)
(* Indexes over texts (fulltext_search.py) and vectors (vector_search.py). *)
(***************************************************************************)
EXTENDS Integers, Sequences, FiniteSets, SequencesExt

(***************************************************************************)
(* The inverted index of fulltext_search.py and a search in two steps, by  *)
(* the index and then by the engine, which fetches the texts.  A text is   *)
(* the sequence of its terms, as the tokenizer leaves them.  The scores of *)
(* BM25 are abstracted to what they divide by: any order of the candidates *)
(* may come out.                                                           *)
(***************************************************************************)

CONSTANTS
  FTIds,
  FTTerms,
  FTTexts,  \* the texts documents have
  FTK       \* results of a search

ASSUME FTAssumption == FTTexts \subseteq Seq(FTTerms) \ {<<>>} /\ FTK \in Nat \ {0}

VARIABLES
  ftText,     \* the documents: the terms of each, <<>> while it is not there
  ftIndex,    \* the documents of each term
  ftCounts,   \* term_frequencies, of each term and document
  ftLengths,
  ftSearch,   \* the search under way: the results of the index, and the texts fetched
  ftReplaced, \* history: documents that were added while they were there
  ftFound     \* history: the documents that matched when the index was searched, and are there

ftVars == <<ftText, ftIndex, ftCounts, ftLengths, ftSearch, ftReplaced, ftFound>>

FTIdle == [at |-> "none", ids |-> {}, query |-> {}]

FTInit ==
  /\ ftText = [d \in FTIds |-> <<>>] /\ ftIndex = [t \in FTTerms |-> {}]
  /\ ftCounts = [t \in FTTerms |-> [d \in FTIds |-> 0]] /\ ftLengths = [d \in FTIds |-> 0]
  /\ ftSearch = FTIdle /\ ftReplaced = {} /\ ftFound = {}

FTPresent == {d \in FTIds : ftText[d] # <<>>}

FTCount(text, t) == Cardinality({n \in DOMAIN text : text[n] = t})

-----------------------------------------------------------------------------
(* Documents. *)

\* Mutant of FTCounted: the occurrences are added to those of the text before.
FTCountedMore(t, d, text) == ftCounts[t][d] + FTCount(text, t)

FTCounted(t, d, text) == FTCount(text, t)

\* add_document, also over a document with the same id: terms only the old text had keep it.
FTAdd(d, text) ==
  /\ ftText' = [ftText EXCEPT ![d] = text]
  /\ ftIndex' = [t \in FTTerms |-> IF t \in ToSet(text) THEN ftIndex[t] \cup {d} ELSE ftIndex[t]]
  /\ ftCounts' = [t \in FTTerms |-> IF t \in ToSet(text) THEN [ftCounts[t] EXCEPT ![d] = FTCounted(t, d, text)] ELSE ftCounts[t]]
  /\ ftLengths' = [ftLengths EXCEPT ![d] = Len(text)]
  /\ ftReplaced' = IF d \in FTPresent THEN ftReplaced \cup {d} ELSE ftReplaced
  /\ ftFound' = IF ftSearch.at = "ranked" THEN ftFound \cup ({d} \cap ftSearch.ids) ELSE ftFound
  /\ UNCHANGED ftSearch

\* Mutant of FTTermsOf: the first term only.
FTTermsOfFirst(d) == {Head(ftText[d])}

FTTermsOf(d) == ToSet(ftText[d])

\* remove_document: the index by the terms of the text, the frequencies of every term.
FTRemove(d) ==
  /\ d \in FTPresent
  /\ ftText' = [ftText EXCEPT ![d] = <<>>]
  /\ ftIndex' = [t \in FTTerms |-> IF t \in FTTermsOf(d) THEN ftIndex[t] \ {d} ELSE ftIndex[t]]
  /\ ftCounts' = [t \in FTTerms |-> [ftCounts[t] EXCEPT ![d] = 0]]
  /\ ftLengths' = [ftLengths EXCEPT ![d] = 0]
  /\ ftFound' = IF ftSearch.at = "ranked" THEN ftFound \ {d} ELSE ftFound
  /\ UNCHANGED <<ftSearch, ftReplaced>>

-----------------------------------------------------------------------------
(* Search. *)

\* Mutant of FTCandidates: no second attempt with any of the terms.
FTCandidatesAll(query) == {d \in FTIds : \A t \in query : d \in ftIndex[t]}

FTCandidates(query) ==
  LET all == {d \in FTIds : \A t \in query : d \in ftIndex[t]}
  IN  IF all # {} THEN all ELSE UNION {ftIndex[t] : t \in query}

\* The average length of an index without documents is zero: the score of an entry that was
\* left behind divides by it, and the search raises.
FTDivides(query) == FTCandidates(query) = {} \/ FTPresent # {}

FTTop(found) == {s \in SUBSET found : Cardinality(s) = IF Cardinality(found) < FTK THEN Cardinality(found) ELSE FTK}

FTReference(query) ==
  LET all == {d \in FTPresent : query \subseteq ToSet(ftText[d])}
  IN  IF all # {} THEN all ELSE {d \in FTPresent : query \cap ToSet(ftText[d]) # {}}

FTSearch(query) ==
  /\ ftSearch.at = "none" /\ FTDivides(query)
  /\ \E top \in FTTop(FTCandidates(query)) : ftSearch' = [at |-> "ranked", ids |-> top, query |-> query]
  /\ ftFound' = FTReference(query)
  /\ UNCHANGED <<ftText, ftIndex, ftCounts, ftLengths, ftReplaced>>

\* Mutant of FTShown: results without a document are kept.
FTShownAll == ftSearch.ids

FTShown == ftSearch.ids \cap FTPresent

\* The engine adds the texts, and drops results whose document is gone.
FTEnrich ==
  /\ ftSearch.at = "ranked"
  /\ ftSearch' = [ftSearch EXCEPT !.at = "done", !.ids = FTShown]
  /\ UNCHANGED <<ftText, ftIndex, ftCounts, ftLengths, ftReplaced, ftFound>>

FTReturn ==
  /\ ftSearch.at = "done" /\ ftSearch' = FTIdle
  /\ UNCHANGED <<ftText, ftIndex, ftCounts, ftLengths, ftReplaced, ftFound>>

FTNext ==
  \/ \E d \in FTIds : FTRemove(d) \/ \E text \in FTTexts : FTAdd(d, text)
  \/ \E query \in SUBSET FTTerms \ {{}} : FTSearch(query)
  \/ FTEnrich \/ FTReturn

-----------------------------------------------------------------------------
(* Properties. *)

\* Every variable has its type, and a document that is there has its length and the number
\* of each of its terms, also after it was replaced.
FTTypeOK ==
  /\ ftText \in [FTIds -> FTTexts \cup {<<>>}] /\ ftIndex \in [FTTerms -> SUBSET FTIds]
  /\ ftSearch.at \in {"none", "ranked", "done"} /\ ftSearch.ids \subseteq FTIds
  /\ \A d \in FTPresent : /\ ftLengths[d] = Len(ftText[d])
                          /\ \A t \in ToSet(ftText[d]) : ftCounts[t][d] = FTCount(ftText[d], t)

\* While no document was replaced, the index answers every query as the texts do: with the
\* documents that have all its terms, or else with those that have any; and a search never
\* divides by the average length of nothing.
FTExact ==
  ftReplaced = {} =>
    \A query \in SUBSET FTTerms \ {{}} : FTCandidates(query) = FTReference(query) /\ FTDivides(query)

\* What a search returns matched when the index was searched, and is there when its text is
\* fetched, whatever is removed and added between the two steps.
FTAnswers == ftSearch.at = "done" /\ ftReplaced = {} => ftSearch.ids \subseteq ftFound

-----------------------------------------------------------------------------
(***************************************************************************)
(* The vector index of vector_search.py, trained (an inverted list for     *)
(* each centroid) or not, under the additions and deletions of             *)
(* batch_vector_search.py.  A vector has one coordinate and the score is   *)
(* minus the distance: dimensions, the other metrics and the GPU are left  *)
(* out, and so is the filter on metadata.                                  *)
(*                                                                         *)
(* A search goes through the lists without the lock, entry by entry; list  *)
(* iteration is by place, so an entry removed before it makes it skip one. *)
(***************************************************************************)

CONSTANTS
  VIIds,
  VIVectors,   \* coordinates
  VIClusters,  \* clusters of a training
  VIProbe,     \* n_probe: the nearest clusters are searched; 3 in the code
  VIK,         \* results of a search
  VIChanges    \* bound: additions, removals and trainings

ASSUME VIAssumption == VIClusters \in Nat \ {0} /\ VIProbe \in Nat \ {0} /\ VIK \in Nat /\ VIVectors \subseteq Int

VARIABLES
  viVector,    \* the documents: the vector of each, as a sequence of one, or <<>>
  viCentroids, \* <<>> until the index is trained
  viLists,     \* the ids of each cluster
  viSearch,    \* the search under way: its query, the clusters to go, the place in the first
               \* of them, and the candidates
  viDouble,    \* history: documents that were added while they were there, since a training
  viCalm,      \* history: nothing changed since the search began
  viChanges    \* their number

viVars == <<viVector, viCentroids, viLists, viSearch, viDouble, viCalm, viChanges>>

VIIdle == [at |-> "none", query |-> 0, left |-> <<>>, place |-> 1, found |-> <<>>]

VIInit ==
  /\ viVector = [d \in VIIds |-> <<>>] /\ viCentroids = <<>> /\ viLists = <<>>
  /\ viSearch = VIIdle /\ viDouble = {} /\ viCalm = TRUE /\ viChanges = 0

VIPresent == {d \in VIIds : viVector[d] # <<>>}

VITrained == viCentroids # <<>>

VIScore(v, w) == IF v < w THEN v - w ELSE w - v

\* _assign_to_cluster, and the label of k-means: the first of the nearest centroids.
VICluster(centroids, v) ==
  CHOOSE c \in DOMAIN centroids :
    \A e \in DOMAIN centroids : \/ VIScore(v, centroids[e]) < VIScore(v, centroids[c])
                                \/ VIScore(v, centroids[e]) = VIScore(v, centroids[c]) /\ c <= e

-----------------------------------------------------------------------------
(* Documents. *)

VICounted == viChanges < VIChanges /\ viChanges' = viChanges + 1

\* Mutant of VIListed: a new document is in no list until the next training.
VIListedNot(lists, d, v) == lists

VIListed(lists, d, v) == [lists EXCEPT ![VICluster(viCentroids, v)] = Append(@, d)]

\* add; over a document that is there, the entry of its old vector stays in its list.
VIAdd(d, v) ==
  /\ viVector' = [viVector EXCEPT ![d] = <<v>>]
  /\ viLists' = IF VITrained THEN VIListed(viLists, d, v) ELSE viLists
  /\ viDouble' = IF d \in VIPresent /\ VITrained THEN viDouble \cup {d} ELSE viDouble
  /\ viCalm' = FALSE /\ VICounted
  /\ UNCHANGED <<viCentroids, viSearch>>

\* Mutant of VIUnlisted: the entry stays.
VIUnlistedNot(d) == {viLists}

\* One list that has the document loses it, once: the one whose label came up first.
VIUnlisted(d) ==
  LET holding == {c \in DOMAIN viLists : d \in ToSet(viLists[c])}
  IN  IF holding = {} THEN {viLists}
      ELSE {[viLists EXCEPT ![c] = RemoveFirst(@, d)] : c \in holding}

\* remove.
VIRemove(d) ==
  /\ d \in VIPresent
  /\ viVector' = [viVector EXCEPT ![d] = <<>>]
  /\ viLists' \in VIUnlisted(d)
  /\ viCalm' = FALSE /\ VICounted
  /\ UNCHANGED <<viCentroids, viSearch, viDouble>>

\* Mutant of VILabelled: a training adds to the lists there are.
VILabelledMore(centroids, order) ==
  [c \in DOMAIN centroids |->
     (IF VITrained THEN viLists[c] ELSE <<>>) \o SelectSeq(order, LAMBDA d : VICluster(centroids, viVector[d][1]) = c)]

VILabelled(centroids, order) ==
  [c \in DOMAIN centroids |-> SelectSeq(order, LAMBDA d : VICluster(centroids, viVector[d][1]) = c)]

\* train_ivf: k-means may end with any centroids; the lists are those of its labels, in the
\* order of the documents.  With too few documents nothing happens.
VITrain ==
  /\ Cardinality(VIPresent) >= VIClusters
  /\ \E centroids \in [1..VIClusters -> VIVectors], order \in SetToSeqs(VIPresent) :
       /\ viCentroids' = centroids
       /\ viLists' = VILabelled(centroids, order)
  /\ viDouble' = {} /\ viCalm' = FALSE /\ VICounted
  /\ UNCHANGED <<viVector, viSearch>>

-----------------------------------------------------------------------------
(* Search. *)

\* The clusters with the best centroids first, in the order of the clusters among equals.
VIOrder(query) ==
  CHOOSE s \in SetToSeqs(DOMAIN viCentroids) :
    \A i, j \in DOMAIN s : i < j =>
      \/ VIScore(query, viCentroids[s[i]]) > VIScore(query, viCentroids[s[j]])
      \/ VIScore(query, viCentroids[s[i]]) = VIScore(query, viCentroids[s[j]]) /\ s[i] < s[j]

VIMin(m, n) == IF m < n THEN m ELSE n

\* The candidates of brute force, under the lock.
VIAll(query) == {<<d, VIScore(query, viVector[d][1])>> : d \in VIPresent}

\* search: the choice of the method, and brute force at once.
VISearch(query) ==
  /\ viSearch.at = "none"
  /\ viCalm' = TRUE
  /\ IF VITrained
     THEN viSearch' = [at |-> "probing", query |-> query, left |-> SubSeq(VIOrder(query), 1, VIMin(VIProbe, VIClusters)),
                       place |-> 1, found |-> <<>>]
     ELSE \E all \in SetToSeqs(VIAll(query)) :
            viSearch' = [VIIdle EXCEPT !.at = "ranking", !.query = query, !.found = all]
  /\ UNCHANGED <<viVector, viCentroids, viLists, viDouble, viChanges>>

\* The next entry of the list; a document that is gone is passed over.
VIProbeEntry ==
  LET list == viLists[Head(viSearch.left)]
      d == list[viSearch.place]
  IN  /\ viSearch.at = "probing" /\ viSearch.left # <<>>
      /\ viSearch' =
           IF viSearch.place > Len(list) THEN [viSearch EXCEPT !.left = Tail(@), !.place = 1]
           ELSE [viSearch EXCEPT !.place = @ + 1,
                                 !.found = IF d \in VIPresent THEN Append(@, <<d, VIScore(viSearch.query, viVector[d][1])>>) ELSE @]
      /\ UNCHANGED <<viVector, viCentroids, viLists, viDouble, viCalm, viChanges>>

\* The results: the best VIK of the candidates, those found first before their equals.
VIRanked ==
  LET found == viSearch.found
      order == CHOOSE s \in SetToSeqs(DOMAIN found) :
                 \A i, j \in DOMAIN s : i < j =>
                   \/ found[s[i]][2] > found[s[j]][2]
                   \/ found[s[i]][2] = found[s[j]][2] /\ s[i] < s[j]
  IN  [n \in 1..VIMin(VIK, Len(found)) |-> found[order[n]]]

VIRank ==
  /\ \/ viSearch.at = "ranking"
     \/ viSearch.at = "probing" /\ viSearch.left = <<>>
  /\ viSearch' = [viSearch EXCEPT !.at = "done", !.found = VIRanked]
  /\ UNCHANGED <<viVector, viCentroids, viLists, viDouble, viCalm, viChanges>>

VIReturn ==
  /\ viSearch.at = "done" /\ viSearch' = VIIdle
  /\ UNCHANGED <<viVector, viCentroids, viLists, viDouble, viCalm, viChanges>>

\* The adds and removes of a batch are those of its documents, one after the other; a batch
\* of many additions trains the index at its end, as VITrain does.
VINext ==
  \/ \E d \in VIIds : VIRemove(d) \/ \E v \in VIVectors : VIAdd(d, v)
  \/ VITrain
  \/ \E query \in VIVectors : VISearch(query)
  \/ VIProbeEntry \/ VIRank \/ VIReturn

-----------------------------------------------------------------------------
(* Properties. *)

\* Every variable has its type, and every document is in some list of a trained index.
VITypeOK ==
  /\ viVector \in [VIIds -> {<<>>} \cup {<<v>> : v \in VIVectors}]
  /\ viCentroids \in Seq(VIVectors) /\ viLists \in Seq(Seq(VIIds)) /\ Len(viLists) = Len(viCentroids)
  /\ viSearch.at \in {"none", "probing", "ranking", "done"} /\ viSearch.found \in Seq(VIIds \X Int)
  /\ VITrained => VIPresent \subseteq UNION {ToSet(viLists[c]) : c \in DOMAIN viLists}

\* What brute force would answer: the best scores, best first.
VIBest ==
  LET all == VIAll(viSearch.query)
      order == CHOOSE s \in SetToSeqs(all) : \A i, j \in DOMAIN s : i < j => s[i][2] >= s[j][2]
  IN  [n \in 1..VIMin(VIK, Cardinality(all)) |-> order[n][2]]

\* A search during which nothing changed, and that probes every cluster, has the scores of
\* brute force, and no document twice, through trainings, additions and removals, as long as
\* none was added over itself.
VIExact ==
  viSearch.at = "done" /\ viCalm /\ viDouble = {} /\ VIProbe >= VIClusters =>
    /\ [n \in DOMAIN viSearch.found |-> viSearch.found[n][2]] = VIBest
    /\ \A i, j \in DOMAIN viSearch.found : i # j => viSearch.found[i][1] # viSearch.found[j][1]
=============================================================================
